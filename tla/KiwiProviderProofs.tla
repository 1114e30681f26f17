-------------------------- MODULE KiwiProviderProofs --------------------------
(***************************************************************************)
(* Proofs about KiwiProvider, for every set of runs and keys, every length *)
(* of time and every set of faults.                                        *)
(***************************************************************************)
EXTENDS KiwiProvider, TLAPS

(* The places, stages and statuses the actions assign are of their types.  *)
LEMMA PlaceFacts ==
  /\ \A c \in Calls : c \in Places /\ Ready[c] \in Places
  /\ \A c \in Calls, ok \in BOOLEAN : After(c, ok) \in Places
  /\ "executed" \in Places /\ "execute" \in Places
  /\ Reports \subseteq Calls /\ "url" \in Calls /\ "put" \in Calls
BY DEF Places, Calls, Ready, After, Reports

LEMMA StageFacts ==
  /\ {"sent", "stored", "hashed", "found", "part", "full", "done", "failed"}
       \subseteq Stages
  /\ "unsent" \in Stages
BY DEF Stages, Unfinished, Ended

LEMMA StatusFacts == \A c \in Calls : StatusOf(c) \in Status
BY DEF StatusOf, Status

LEMMA StageType ==
  ASSUME TypeOK, NEW r \in Runs, NEW c \in Calls, NEW s \in Stages, SetStage(r, c, s)
  PROVE  /\ stage' \in [Runs -> [Calls -> Stages]]
         /\ stage'[r][c] = s
         /\ \A q \in Runs, d \in Calls : q # r \/ d # c => stage'[q][d] = stage[q][d]
BY DEF TypeOK, SetStage

LEMMA PlaceType ==
  ASSUME TypeOK, NEW r \in Runs, NEW p \in Places, Place(r, p)
  PROVE  /\ at' \in [Runs -> Places] /\ at'[r] = p
         /\ \A q \in Runs : q # r => at'[q] = at[q]
BY DEF TypeOK, Place

-----------------------------------------------------------------------------
(* An upload is sent only to the row made for its run, and once: so the    *)
(* file of a completed row is opened no more.                              *)
OwnsLog(r) == /\ hash[r] \in Hashes
              /\ logs[hash[r]] # NoLog
              /\ logs[hash[r]].run = r

UploadInvAt(r) ==
  /\ stage[r]["url"] = "hashed" => hash[r] \in Hashes
  /\ stage[r]["url"] = "done" => OwnsLog(r)
  /\ stage[r]["put"] # "unsent" => stage[r]["url"] = "done"
  /\ at[r] = "file" => stage[r]["url"] = "done"
  /\ at[r] \notin {"put", "over"} => stage[r]["put"] = "unsent"
  /\ stage[r]["put"] = "full" => files[hash[r]] = <<r, "full">>
  /\ stage[r]["put"] = "done" => logs[hash[r]].completed

CompletedOnce ==
  \A h \in Hashes :
    logs[h] # NoLog /\ logs[h].completed =>
      files[h] = <<logs[h].run, "full">> /\ stage[logs[h].run]["put"] = "done"

UploadInv == TypeOK /\ CompletedOnce /\ \A r \in Runs : UploadInvAt(r)

LEMMA UploadInvInit == Init => UploadInv
<1>. SUFFICES ASSUME Init PROVE UploadInv
  OBVIOUS
<1>1. "start" \in Places
  BY DEF Places, Ready, Calls
<1>2. TypeOK
  BY <1>1, StageFacts, TimeAssumption DEF Init, TypeOK, Status
<1>3. CompletedOnce
  BY DEF Init, CompletedOnce
<1>4. ASSUME NEW r \in Runs PROVE UploadInvAt(r)
  BY DEF Init, UploadInvAt, Calls
<1>. QED  BY <1>2, <1>3, <1>4 DEF UploadInv

(* The actions that touch neither the logs nor the files nor the stages of *)
(* an upload nor bring a run to its upload.                                *)
LEMMA Untouched ==
  ASSUME UploadInv, TypeOK', UNCHANGED <<hash, logs, files>>,
         \A q \in Runs : stage'[q]["url"] = stage[q]["url"] /\ stage'[q]["put"] = stage[q]["put"],
         \A q \in Runs : at'[q] = "file" => at[q] = "file" \/ stage[q]["url"] = "done",
         \A q \in Runs : at'[q] \notin {"put", "over"} => at[q] \notin {"put", "over"}
  PROVE  UploadInv'
<1>1. CompletedOnce'
  <2>1. ASSUME NEW h \in Hashes, logs[h] # NoLog
        PROVE  logs[h].run \in Runs
    BY <2>1 DEF UploadInv, TypeOK
  <2>. QED  BY <2>1 DEF UploadInv, CompletedOnce
<1>2. ASSUME NEW r \in Runs PROVE UploadInvAt(r)'
  BY DEF UploadInv, UploadInvAt, OwnsLog
<1>. QED  BY <1>1, <1>2 DEF UploadInv

(* A step of one run that leaves the logs and the files as they are. *)
LEMMA OtherRuns ==
  ASSUME UploadInv, NEW r \in Runs, UNCHANGED <<logs, files>>,
         \A q \in Runs : q # r => /\ at'[q] = at[q] /\ stage'[q] = stage[q]
                                  /\ hash'[q] = hash[q],
         TypeOK', UploadInvAt(r)',
         stage[r]["put"] = "done" => stage'[r]["put"] = "done"
  PROVE  UploadInv'
<1>1. CompletedOnce'
  <2>1. ASSUME NEW h \in Hashes, logs[h] # NoLog
        PROVE  logs[h].run \in Runs
    BY <2>1 DEF UploadInv, TypeOK
  <2>. QED  BY <2>1 DEF UploadInv, CompletedOnce
<1>2. ASSUME NEW q \in Runs, q # r PROVE UploadInvAt(q)'
  BY <1>2 DEF UploadInv, UploadInvAt, OwnsLog
<1>. QED  BY <1>1, <1>2 DEF UploadInv

LEMMA UploadInvNext == UploadInv /\ [Next]_vars => UploadInv'
<1>. SUFFICES ASSUME UploadInv, [Next]_vars PROVE UploadInv'
  OBVIOUS
<1>. TypeOK
  BY DEF UploadInv
<1>1. ASSUME NEW r \in Runs, StoreReport(r) PROVE UploadInv'
  <2>1. PICK c \in Reports : SetStage(r, c, "stored")
                             /\ rows' = [rows EXCEPT ![KeyOf[r]] = StatusOf(c)]
    BY <1>1 DEF StoreReport
  <2>2. c \in Calls /\ c \notin {"url", "put"}
    BY DEF Reports, Calls
  <2>3. /\ stage' \in [Runs -> [Calls -> Stages]]
        /\ \A q \in Runs, d \in Calls : q # r \/ d # c => stage'[q][d] = stage[q][d]
    BY <2>1, <2>2, StageFacts, StageType
  <2>4. TypeOK'
    BY <1>1, <2>1, <2>2, <2>3, StatusFacts DEF StoreReport, TypeOK
  <2>. QED  BY <1>1, <2>2, <2>3, <2>4, PlaceFacts, Untouched DEF StoreReport
<1>2. ASSUME NEW r \in Runs, NotifyHooks(r) PROVE UploadInv'
  <2>1. PICK c \in Reports :
          /\ SetStage(r, c, "done")
          /\ \/ notified' = [notified EXCEPT ![KeyOf[r]] = StatusOf(c)]
             \/ UNCHANGED notified
    BY <1>2 DEF NotifyHooks
  <2>2. c \in Calls /\ c \notin {"url", "put"}
    BY DEF Reports, Calls
  <2>3. /\ stage' \in [Runs -> [Calls -> Stages]]
        /\ \A q \in Runs, d \in Calls : q # r \/ d # c => stage'[q][d] = stage[q][d]
    BY <2>1, <2>2, StageFacts, StageType
  <2>4. TypeOK'
    BY <1>2, <2>1, <2>2, <2>3, StatusFacts DEF NotifyHooks, TypeOK
  <2>. QED  BY <1>2, <2>2, <2>3, <2>4, PlaceFacts, Untouched DEF NotifyHooks
<1>3. ASSUME NEW r \in Runs, Send(r) PROVE UploadInv'
  <2>1. PICK c \in Calls : at[r] = Ready[c] /\ SetStage(r, c, "sent") /\ Place(r, c)
    BY <1>3 DEF Send
  <2>2. UNCHANGED <<givenUp, hash, clock, rows, notified, logs, files>>
    BY <1>3 DEF Send
  <2>3. /\ stage' \in [Runs -> [Calls -> Stages]] /\ stage'[r][c] = "sent"
        /\ \A q \in Runs, d \in Calls : q # r \/ d # c => stage'[q][d] = stage[q][d]
        /\ at' \in [Runs -> Places] /\ at'[r] = c
        /\ \A q \in Runs : q # r => at'[q] = at[q] /\ stage'[q] = stage[q]
    BY <2>1, StageType, StageFacts, PlaceType, PlaceFacts DEF SetStage, TypeOK
  <2>4. TypeOK'
    BY <2>2, <2>3 DEF TypeOK
  <2>5. /\ at[r] = "file" <=> c = "put"
        /\ at[r] \notin {"put", "over"}
        /\ c # "file" /\ c # "over"
    BY <2>1 DEF Ready, Calls
  <2>6. UploadInvAt(r)'
    BY <2>2, <2>3, <2>5, PlaceFacts DEF UploadInv, UploadInvAt, OwnsLog
  <2>7. stage[r]["put"] # "done"
    BY <2>5 DEF UploadInv, UploadInvAt
  <2>. QED  BY <2>2, <2>3, <2>4, <2>6, <2>7, OtherRuns
<1>4. ASSUME NEW r \in Runs, Receive(r) PROVE UploadInv'
  <2>1. PICK c \in Calls :
          at[r] = c /\ Place(r, After(c, stage[r][c] = "done"))
    BY <1>4 DEF Receive
  <2>2. UNCHANGED <<givenUp, stage, hash, clock, rows, notified, logs, files>>
    BY <1>4 DEF Receive
  <2>3. /\ at' \in [Runs -> Places] /\ at'[r] = After(c, stage[r][c] = "done")
        /\ \A q \in Runs : q # r => at'[q] = at[q]
    BY <2>1, PlaceType, PlaceFacts
  <2>4. TypeOK'
    BY <2>2, <2>3 DEF TypeOK
  <2>5. /\ at'[r] = "file" => stage[r]["url"] = "done"
        /\ at'[r] \notin {"put", "over"} => at[r] \notin {"put", "over"}
    BY <2>1, <2>3 DEF After, Calls
  <2>. QED  BY <2>2, <2>3, <2>4, <2>5, Untouched
<1>5. ASSUME NEW r \in Runs, Abandon(r) PROVE UploadInv'
  <2>1. PICK c \in Calls :
          /\ at[r] = c /\ Place(r, After(c, FALSE))
          /\ \/ UNCHANGED stage
             \/ stage[r][c] \in {"sent", "found", "part"} /\ SetStage(r, c, "failed")
    BY <1>5 DEF Abandon
  <2>2. /\ UNCHANGED <<hash, clock, rows, notified, logs, files>>
        /\ givenUp' \in [Runs -> BOOLEAN]
    BY <1>5 DEF Abandon, TypeOK
  <2>3. /\ at' \in [Runs -> Places] /\ at'[r] = After(c, FALSE)
        /\ \A q \in Runs : q # r => at'[q] = at[q]
    BY <2>1, PlaceType, PlaceFacts
  <2>4. /\ at'[r] # "file"
        /\ at'[r] \notin {"put", "over"} => at[r] \notin {"put", "over"}
    BY <2>1, <2>3 DEF After, Calls
  <2>5. CASE UNCHANGED stage
    <3>1. TypeOK'
      BY <2>2, <2>3, <2>5 DEF TypeOK
    <3>. QED  BY <2>2, <2>3, <2>4, <2>5, <3>1, Untouched
  <2>6. CASE stage[r][c] \in {"sent", "found", "part"} /\ SetStage(r, c, "failed")
    <3>1. /\ stage' \in [Runs -> [Calls -> Stages]] /\ stage'[r][c] = "failed"
          /\ \A q \in Runs, d \in Calls : q # r \/ d # c => stage'[q][d] = stage[q][d]
          /\ \A q \in Runs : q # r => stage'[q] = stage[q]
      BY <2>6, StageType, StageFacts DEF SetStage, TypeOK
    <3>2. TypeOK'
      BY <2>2, <2>3, <3>1 DEF TypeOK
    <3>3. stage[r][c] \notin {"unsent", "done"}
      BY <2>6
    <3>4. c = "url" => stage[r]["put"] = "unsent"
      BY <2>1 DEF UploadInv, UploadInvAt
    <3>5. UploadInvAt(r)'
      <4>1. CASE c = "put"
        BY <2>2, <2>4, <3>1, <3>3, <4>1, PlaceFacts DEF UploadInv, UploadInvAt, OwnsLog
      <4>2. CASE c = "url"
        <5>1. stage'[r]["put"] = "unsent" /\ stage'[r]["url"] = "failed"
          BY <3>1, <3>4, <4>2, PlaceFacts
        <5>. QED  BY <2>4, <5>1 DEF UploadInvAt
      <4>3. CASE c \notin {"url", "put"}
        <5>1. stage'[r]["put"] = stage[r]["put"] /\ stage'[r]["url"] = stage[r]["url"]
          BY <3>1, <4>3, PlaceFacts
        <5>. QED  BY <2>2, <2>4, <5>1 DEF UploadInv, UploadInvAt, OwnsLog
      <4>. QED  BY <4>1, <4>2, <4>3
    <3>. QED  BY <2>2, <2>3, <3>1, <3>2, <3>3, <3>5, PlaceFacts, OtherRuns
  <2>. QED  BY <2>1, <2>5, <2>6
<1>6. ASSUME NEW r \in Runs, Execute(r) PROVE UploadInv'
  <2>1. /\ at' \in [Runs -> Places] /\ at'[r] = "executed" /\ at[r] = "execute"
        /\ \A q \in Runs : q # r => at'[q] = at[q]
    BY <1>6, PlaceType, PlaceFacts DEF Execute
  <2>2. TypeOK'
    BY <1>6, <2>1 DEF Execute, TypeOK
  <2>. QED  BY <1>6, <2>1, <2>2, Untouched DEF Execute
<1>7. ASSUME NEW r \in Runs, NameUpload(r) PROVE UploadInv'
  <2>1. /\ stage' \in [Runs -> [Calls -> Stages]] /\ stage'[r]["url"] = "hashed"
        /\ stage'[r]["put"] = stage[r]["put"]
        /\ \A q \in Runs : q # r => stage'[q] = stage[q]
    BY <1>7, StageType, StageFacts, PlaceFacts DEF NameUpload, SetStage, TypeOK, Calls
  <2>2. <<PathOf[KeyOf[r]], clock>> \in Hashes
    BY MapAssumption DEF TypeOK, Hashes
  <2>3. /\ hash'[r] \in Hashes /\ hash' \in [Runs -> Hashes \cup {NoHash}]
        /\ \A q \in Runs : q # r => hash'[q] = hash[q]
    BY <1>7, <2>2 DEF NameUpload, TypeOK
  <2>4. TypeOK'
    BY <1>7, <2>1, <2>3 DEF NameUpload, TypeOK
  <2>5. stage[r]["put"] = "unsent" /\ at[r] # "file"
    BY <1>7 DEF NameUpload, UploadInv, UploadInvAt
  <2>6. UploadInvAt(r)'
    BY <1>7, <2>1, <2>3, <2>5 DEF NameUpload, UploadInvAt
  <2>. QED  BY <1>7, <2>1, <2>3, <2>4, <2>6, OtherRuns DEF NameUpload
<1>8. ASSUME NEW r \in Runs, CreateLog(r) PROVE UploadInv'
  <2>1. stage[r]["url"] = "hashed" /\ hash[r] \in Hashes /\ stage[r]["put"] = "unsent"
        /\ at[r] # "file"
    BY <1>8 DEF CreateLog, UploadInv, UploadInvAt
  <2>2. CASE UNCHANGED logs /\ SetStage(r, "url", "failed")
    <3>1. /\ stage' \in [Runs -> [Calls -> Stages]] /\ stage'[r]["url"] = "failed"
          /\ stage'[r]["put"] = stage[r]["put"]
          /\ \A q \in Runs : q # r => stage'[q] = stage[q]
      BY <2>2, StageType, StageFacts, PlaceFacts DEF SetStage, TypeOK, Calls
    <3>2. TypeOK'
      BY <1>8, <2>2, <3>1 DEF CreateLog, TypeOK
    <3>3. UploadInvAt(r)'
      BY <1>8, <2>1, <3>1 DEF CreateLog, UploadInvAt
    <3>. QED  BY <1>8, <2>2, <3>1, <3>2, <3>3, OtherRuns DEF CreateLog
  <2>3. CASE /\ logs[hash[r]] = NoLog
             /\ logs' = [logs EXCEPT ![hash[r]] = LogOf(r)]
             /\ SetStage(r, "url", "done")
    <3>1. /\ stage' \in [Runs -> [Calls -> Stages]] /\ stage'[r]["url"] = "done"
          /\ stage'[r]["put"] = stage[r]["put"]
          /\ \A q \in Runs : q # r => stage'[q] = stage[q]
      BY <2>3, StageType, StageFacts, PlaceFacts DEF SetStage, TypeOK, Calls
    <3>2. /\ logs' \in [Hashes -> [run : Runs, completed : BOOLEAN] \cup {NoLog}]
          /\ logs'[hash[r]].run = r /\ ~logs'[hash[r]].completed
          /\ \A h \in Hashes : h # hash[r] => logs'[h] = logs[h]
      BY <2>1, <2>3 DEF TypeOK, LogOf
    <3>3. TypeOK'
      BY <1>8, <3>1, <3>2 DEF CreateLog, TypeOK
    <3>4. CompletedOnce'
      <4>1. ASSUME NEW h \in Hashes, logs'[h] # NoLog, logs'[h].completed
            PROVE  files'[h] = <<logs'[h].run, "full">> /\ stage'[logs'[h].run]["put"] = "done"
        <5>1. h # hash[r] /\ logs'[h] = logs[h]
          BY <3>2, <4>1
        <5>2. logs[h].run \in Runs
          BY <4>1, <5>1 DEF TypeOK
        <5>. QED  BY <1>8, <2>1, <3>1, <4>1, <5>1, <5>2 DEF UploadInv, CompletedOnce, CreateLog
      <4>. QED  BY <4>1 DEF CompletedOnce
    <3>5. ASSUME NEW q \in Runs PROVE UploadInvAt(q)'
      <4>1. CASE q = r
        <5>1. logs'[hash[r]] # NoLog
          <6>1. LogOf(r) \in [run : Runs, completed : BOOLEAN]
            BY DEF LogOf
          <6>2. logs'[hash[r]] = LogOf(r)
            BY <2>1, <2>3 DEF TypeOK
          <6>. QED  BY <6>1, <6>2, NoLogAssumption
        <5>. QED  BY <1>8, <2>1, <3>1, <3>2, <4>1, <5>1 DEF CreateLog, UploadInvAt, OwnsLog
      <4>2. CASE q # r
        <5>1. OwnsLog(q) => hash[q] # hash[r]
          BY <2>3 DEF OwnsLog
        <5>. QED  BY <1>8, <3>1, <3>2, <4>2, <5>1 DEF CreateLog, UploadInv, UploadInvAt, OwnsLog
      <4>. QED  BY <4>1, <4>2
    <3>. QED  BY <3>3, <3>4, <3>5 DEF UploadInv
  <2>. QED  BY <1>8, <2>2, <2>3 DEF CreateLog
<1>9. ASSUME NEW r \in Runs, Upload(r) PROVE UploadInv'
  <2>1. OwnsLog(r) /\ at[r] # "file" /\ stage[r]["url"] = "done" /\ at[r] \in {"put", "over"}
    BY <1>9 DEF Upload, FindLog, OpenFile, StoreFile, CompleteLog, UploadInv, UploadInvAt
  <2>2. UNCHANGED <<at, givenUp, hash, clock, rows, notified>>
    BY <1>9 DEF Upload, FindLog, OpenFile, StoreFile, CompleteLog
  <2>3. PICK s \in {"found", "part", "full", "done", "failed"} :
          /\ SetStage(r, "put", s)
          /\ stage[r]["put"] \in {"sent", "found", "part", "full"}
          /\ \/ s \in {"found", "failed"} /\ UNCHANGED <<logs, files>>
             \/ s \in {"part", "full"} /\ UNCHANGED logs /\ files' = [files EXCEPT ![hash[r]] = <<r, s>>]
             \/ /\ s = "done" /\ UNCHANGED files /\ stage[r]["put"] = "full"
                /\ logs' = [logs EXCEPT ![hash[r]].completed = TRUE]
    BY <1>9 DEF Upload, FindLog, OpenFile, StoreFile, CompleteLog
  <2>4. /\ stage' \in [Runs -> [Calls -> Stages]] /\ stage'[r]["put"] = s
        /\ stage'[r]["url"] = stage[r]["url"]
        /\ \A q \in Runs : q # r => stage'[q] = stage[q]
    BY <2>3, StageType, StageFacts, PlaceFacts DEF SetStage, TypeOK, Calls
  <2>5. ~logs[hash[r]].completed
    BY <2>1, <2>3 DEF UploadInv, CompletedOnce, OwnsLog
  <2>6. ASSUME NEW q \in Runs, q # r, OwnsLog(q) PROVE hash[q] # hash[r]
    BY <2>1, <2>6 DEF OwnsLog
  <2>7. CASE s \in {"found", "failed"} /\ UNCHANGED <<logs, files>>
    <3>1. TypeOK'
      BY <2>2, <2>4, <2>7 DEF TypeOK
    <3>2. UploadInvAt(r)'
      BY <2>1, <2>2, <2>4, <2>7 DEF UploadInvAt, OwnsLog
    <3>. QED  BY <2>2, <2>3, <2>4, <2>7, <3>1, <3>2, OtherRuns
  <2>8. CASE s \in {"part", "full"} /\ UNCHANGED logs /\ files' = [files EXCEPT ![hash[r]] = <<r, s>>]
    <3>1. /\ files' \in [Hashes -> (Runs \X {"part", "full"}) \cup {NoLog}]
          /\ files'[hash[r]] = <<r, s>>
          /\ \A h \in Hashes : h # hash[r] => files'[h] = files[h]
      BY <2>1, <2>8 DEF OwnsLog, TypeOK
    <3>2. TypeOK'
      BY <2>2, <2>4, <2>8, <3>1 DEF TypeOK
    <3>3. CompletedOnce'
      <4>1. ASSUME NEW h \in Hashes, logs[h] # NoLog, logs[h].completed
            PROVE  files'[h] = <<logs[h].run, "full">> /\ stage'[logs[h].run]["put"] = "done"
        <5>1. h # hash[r] /\ logs[h].run \in Runs
          BY <2>5, <4>1 DEF TypeOK
        <5>2. logs[h].run # r
          BY <2>3, <4>1 DEF UploadInv, CompletedOnce
        <5>. QED  BY <2>4, <3>1, <4>1, <5>1, <5>2 DEF UploadInv, CompletedOnce
      <4>. QED  BY <2>8, <4>1 DEF CompletedOnce
    <3>4. ASSUME NEW q \in Runs PROVE UploadInvAt(q)'
      <4>1. CASE q = r
        BY <2>1, <2>2, <2>4, <2>8, <3>1, <4>1 DEF UploadInvAt, OwnsLog
      <4>2. CASE q # r
        BY <2>2, <2>4, <2>6, <2>8, <3>1, <4>2 DEF UploadInv, UploadInvAt, OwnsLog
      <4>. QED  BY <4>1, <4>2
    <3>. QED  BY <3>2, <3>3, <3>4 DEF UploadInv
  <2>9. CASE /\ s = "done" /\ UNCHANGED files /\ stage[r]["put"] = "full"
             /\ logs' = [logs EXCEPT ![hash[r]].completed = TRUE]
    <3>1. /\ logs[hash[r]] \in [run : Runs, completed : BOOLEAN] /\ hash[r] \in Hashes
          /\ logs[hash[r]].run = r /\ files[hash[r]] = <<r, "full">>
      BY <2>1, <2>9 DEF OwnsLog, TypeOK, UploadInv, UploadInvAt
    <3>2. /\ logs' \in [Hashes -> [run : Runs, completed : BOOLEAN] \cup {NoLog}]
          /\ logs'[hash[r]] = [run |-> r, completed |-> TRUE]
          /\ \A h \in Hashes : h # hash[r] => logs'[h] = logs[h]
      BY <2>9, <3>1 DEF TypeOK
    <3>3. TypeOK'
      BY <2>2, <2>4, <2>9, <3>2 DEF TypeOK
    <3>4. CompletedOnce'
      <4>1. ASSUME NEW h \in Hashes, logs'[h] # NoLog, logs'[h].completed
            PROVE  files'[h] = <<logs'[h].run, "full">> /\ stage'[logs'[h].run]["put"] = "done"
        <5>1. CASE h = hash[r]
          BY <2>4, <2>9, <3>1, <3>2, <5>1
        <5>2. CASE h # hash[r]
          <6>1. logs[h].run \in Runs /\ logs'[h] = logs[h]
            BY <3>2, <4>1, <5>2 DEF TypeOK
          <6>. QED  BY <2>4, <2>9, <4>1, <6>1 DEF UploadInv, CompletedOnce
        <5>. QED  BY <5>1, <5>2
      <4>. QED  BY <4>1 DEF CompletedOnce
    <3>5. ASSUME NEW q \in Runs PROVE UploadInvAt(q)'
      <4>1. CASE q = r
        <5>1. logs'[hash[r]] # NoLog
          <6>1. [run |-> r, completed |-> TRUE] \in [run : Runs, completed : BOOLEAN]
            OBVIOUS
          <6>. QED  BY <3>2, <6>1, NoLogAssumption
        <5>. QED  BY <2>1, <2>2, <2>4, <2>9, <3>1, <3>2, <4>1, <5>1 DEF UploadInvAt, OwnsLog
      <4>2. CASE q # r
        <5>1. OwnsLog(q) => OwnsLog(q)'
          BY <2>2, <2>6, <3>2, <4>2 DEF OwnsLog
        <5>. QED  BY <2>2, <2>4, <2>9, <4>2, <5>1 DEF UploadInv, UploadInvAt
      <4>. QED  BY <4>1, <4>2
    <3>. QED  BY <3>3, <3>4, <3>5 DEF UploadInv
  <2>. QED  BY <2>3, <2>7, <2>8, <2>9
<1>10. CASE Crash
  <2>1. UNCHANGED <<at, givenUp, hash, clock, rows, notified, logs, files>>
    BY <1>10 DEF Crash
  <2>2. /\ stage' \in [Runs -> [Calls -> Stages]]
        /\ \A q \in Runs, c \in Calls :
             stage'[q][c] = IF stage[q][c] \in Unfinished THEN "failed" ELSE stage[q][c]
    BY <1>10, StageFacts DEF Crash, TypeOK
  <2>3. TypeOK'
    BY <2>1, <2>2 DEF TypeOK
  <2>4. "done" \notin Unfinished /\ "unsent" \notin Unfinished
    BY DEF Unfinished
  <2>5. CompletedOnce'
    <3>1. ASSUME NEW h \in Hashes, logs[h] # NoLog
          PROVE  logs[h].run \in Runs
      BY <3>1 DEF TypeOK
    <3>. QED  BY <2>1, <2>2, <2>4, <3>1, PlaceFacts DEF UploadInv, CompletedOnce
  <2>6. ASSUME NEW q \in Runs PROVE UploadInvAt(q)'
    <3>1. /\ stage'[q]["url"] \in {stage[q]["url"], "failed"}
          /\ stage'[q]["put"] \in {stage[q]["put"], "failed"}
          /\ stage[q]["url"] = "done" => stage'[q]["url"] = "done"
          /\ stage[q]["put"] = "unsent" <=> stage'[q]["put"] = "unsent"
      BY <2>2, <2>4, PlaceFacts
    <3>. QED  BY <2>1, <3>1 DEF UploadInv, UploadInvAt, OwnsLog
  <2>. QED  BY <2>3, <2>5, <2>6 DEF UploadInv
<1>11. CASE Tick \/ UNCHANGED vars
  <2>1. UNCHANGED <<at, givenUp, stage, hash, rows, notified, logs, files>>
    BY <1>11 DEF Tick, vars
  <2>2. TypeOK'
    BY <1>11, <2>1, TimeAssumption DEF TypeOK, Tick, vars
  <2>. QED  BY <2>1, <2>2, Untouched
<1>. QED
  BY <1>1, <1>2, <1>3, <1>4, <1>5, <1>6, <1>7, <1>8, <1>9, <1>10, <1>11
     DEF Next, Agent, Provider, Upload

LEMMA UploadsSafe == Spec => []UploadInv
BY UploadInvInit, UploadInvNext, PTL DEF Spec

(* The database and the calls on it are well typed at all times.           *)
THEOREM ProviderTypeCorrect == Spec => []TypeOK
<1>1. UploadInv => TypeOK
  BY DEF UploadInv
<1>. QED  BY <1>1, UploadsSafe, PTL

(* Whatever uploads interleave, break off or die with the provider, a log  *)
(* offered for download is the whole log of the run its row names.         *)
THEOREM DownloadsAreWhole == Spec => []CompletedIsWhole
<1>1. UploadInv => CompletedIsWhole
  BY DEF UploadInv, CompletedOnce, CompletedIsWhole
<1>. QED  BY <1>1, UploadsSafe, PTL

(* An upload that was acknowledged stays available for download.           *)
THEOREM AcknowledgedAreStored == Spec => []AcknowledgedIsStored
<1>1. UploadInv => AcknowledgedIsStored
  <2>. SUFFICES ASSUME UploadInv, NEW r \in Runs, stage[r]["put"] = "done"
                PROVE  logs[hash[r]] = [run |-> r, completed |-> TRUE]
    BY DEF AcknowledgedIsStored
  <2>1. OwnsLog(r) /\ logs[hash[r]].completed
    BY DEF UploadInv, UploadInvAt
  <2>2. logs[hash[r]] \in [run : Runs, completed : BOOLEAN]
    BY <2>1 DEF UploadInv, TypeOK, OwnsLog
  <2>3. logs[hash[r]].completed = TRUE /\ logs[hash[r]].run = r
    BY <2>1, <2>2 DEF OwnsLog
  <2>. QED  BY <2>2, <2>3
<1>. QED  BY <1>1, UploadsSafe, PTL

-----------------------------------------------------------------------------
(* Reports.  A run whose report `running' is still to be stored or passed  *)
(* to the hooks waits for it, or has given it up; a run that waits for it  *)
(* has sent no outcome; and an outcome that shows was sent.                *)
Starting == {"start", "running", "execute", "executed"}

WaitsAt(r) ==
  /\ stage[r]["running"] \in {"sent", "stored"} => givenUp[r] \/ at[r] = "running"
  /\ at[r] \in Starting => stage[r]["outcome"] = "unsent"
  /\ at[r] = "start" => stage[r]["running"] = "unsent"

Told(k) == \E r \in Runs : KeyOf[r] = k /\ stage[r]["outcome"] # "unsent"

OrderInv ==
  /\ \A r \in Runs : WaitsAt(r)
  /\ \A k \in Keys : rows[k] = "ended" \/ notified[k] = "ended" => Told(k)

LEMMA CallFacts ==
  /\ "running" \in Calls /\ "outcome" \in Calls /\ "unsent" \notin Unfinished
  /\ Reports = {"running", "outcome"}
BY DEF Calls, Unfinished, Reports

StillWaits(r) ==
  /\ WaitsAt(r)'
  /\ stage[r]["outcome"] # "unsent" => stage'[r]["outcome"] # "unsent"

(* How far the provider is with a call, and what the run does, in a step.  *)
LEMMA WaitsStep ==
  ASSUME TypeOK, [Next]_vars, NEW q \in Runs, WaitsAt(q)
  PROVE  StillWaits(q)
<1>. USE CallFacts DEF StillWaits, WaitsAt, Starting
<1>1. ASSUME NEW r \in Runs, Send(r) PROVE StillWaits(q)
  <2>1. PICK c \in Calls : at[r] = Ready[c] /\ SetStage(r, c, "sent") /\ Place(r, c)
    BY <1>1 DEF Send
  <2>2. UNCHANGED givenUp
    BY <1>1 DEF Send
  <2>3. /\ stage'[r][c] = "sent"
        /\ \A p \in Runs, d \in Calls : p # r \/ d # c => stage'[p][d] = stage[p][d]
    BY <2>1, StageType, StageFacts
  <2>4. at'[r] = c /\ \A p \in Runs : p # r => at'[p] = at[p]
    BY <2>1, PlaceType, PlaceFacts
  <2>5. CASE q # r
    BY <2>2, <2>3, <2>4, <2>5
  <2>6. CASE q = r /\ c \in Reports
    BY <2>1, <2>2, <2>3, <2>4, <2>6 DEF Ready
  <2>7. CASE q = r /\ c \in {"url", "put"}
    BY <2>1, <2>2, <2>3, <2>4, <2>7 DEF Ready
  <2>. QED  BY <2>5, <2>6, <2>7 DEF Calls
<1>2. ASSUME NEW r \in Runs, Receive(r) PROVE StillWaits(q)
  <2>1. PICK c \in Calls :
          at[r] = c /\ stage[r][c] \in Ended /\ Place(r, After(c, stage[r][c] = "done"))
    BY <1>2 DEF Receive
  <2>2. UNCHANGED <<givenUp, stage>>
    BY <1>2 DEF Receive
  <2>3. /\ at'[r] = After(c, stage[r][c] = "done")
        /\ \A p \in Runs : p # r => at'[p] = at[p]
    BY <2>1, PlaceType, PlaceFacts
  <2>. QED  BY <2>1, <2>2, <2>3 DEF After, Calls, Ended
<1>3. ASSUME NEW r \in Runs, Abandon(r) PROVE StillWaits(q)
  <2>1. PICK c \in Calls :
          /\ at[r] = c /\ Place(r, After(c, FALSE))
          /\ givenUp' = IF c = "running" THEN [givenUp EXCEPT ![r] = TRUE] ELSE givenUp
          /\ \/ UNCHANGED stage
             \/ stage[r][c] \in {"sent", "found", "part"} /\ SetStage(r, c, "failed")
    BY <1>3 DEF Abandon
  <2>2. \A p \in Runs, d \in Calls :
          stage'[p][d] = stage[p][d] \/ (p = r /\ d = c /\ stage[p][d] # "unsent" /\ stage'[p][d] = "failed")
    BY <2>1, StageType, StageFacts
  <2>3. at'[r] = After(c, FALSE) /\ \A p \in Runs : p # r => at'[p] = at[p]
    BY <2>1, PlaceType, PlaceFacts
  <2>4. c = "running" => givenUp'[r]
    BY <2>1 DEF TypeOK
  <2>5. givenUp[q] => givenUp'[q]
    BY <2>1 DEF TypeOK
  <2>6. CASE q # r
    BY <2>2, <2>3, <2>5, <2>6
  <2>7. CASE q = r
    BY <2>1, <2>2, <2>3, <2>4, <2>5, <2>7 DEF After, Calls
  <2>. QED  BY <2>6, <2>7
<1>4. ASSUME NEW r \in Runs, Execute(r) PROVE StillWaits(q)
  <2>1. /\ at'[r] = "executed" /\ at[r] = "execute" /\ UNCHANGED <<stage, givenUp>>
        /\ \A p \in Runs : p # r => at'[p] = at[p]
    BY <1>4, PlaceType, PlaceFacts DEF Execute
  <2>. QED  BY <2>1
<1>5. ASSUME NEW r \in Runs, Provider(r) PROVE StillWaits(q)
  <2>1. UNCHANGED <<at, givenUp>>
    BY <1>5 DEF Provider, Upload, StoreReport, NotifyHooks, NameUpload, CreateLog, FindLog,
       OpenFile, StoreFile, CompleteLog
  <2>2. PICK c \in Calls, s \in Stages \ {"unsent"} :
          /\ SetStage(r, c, s) /\ stage[r][c] # "unsent"
          /\ c \in Reports => stage[r][c] \in {"sent", "stored"}
    BY <1>5, PlaceFacts, StageFacts DEF Provider, Upload, StoreReport, NotifyHooks, NameUpload,
       CreateLog, FindLog, OpenFile, StoreFile, CompleteLog
  <2>3. /\ stage'[r][c] = s
        /\ \A p \in Runs, d \in Calls : p # r \/ d # c => stage'[p][d] = stage[p][d]
    BY <2>2, StageType
  <2>. QED  BY <2>1, <2>2, <2>3
<1>6. CASE Crash
  <2>1. UNCHANGED <<at, givenUp>>
    BY <1>6 DEF Crash
  <2>2. stage'[q] = [c \in Calls |-> IF stage[q][c] \in Unfinished THEN "failed" ELSE stage[q][c]]
    BY <1>6 DEF Crash
  <2>. QED  BY <2>1, <2>2
<1>7. CASE Tick \/ UNCHANGED vars
  BY <1>7 DEF Tick, vars
<1>. QED  BY <1>1, <1>2, <1>3, <1>4, <1>5, <1>6, <1>7 DEF Next, Agent

(* The two steps that change what shows of a key.                          *)
LEMMA ShownStep ==
  ASSUME TypeOK, [Next]_vars, NEW k \in Keys, rows'[k] # rows[k] \/ notified'[k] # notified[k]
  PROVE  \E r \in Runs, c \in Reports :
           /\ KeyOf[r] = k /\ stage[r][c] \in {"sent", "stored"}
           /\ rows'[k] \in {rows[k], StatusOf(c)}
           /\ notified'[k] \in {notified[k], StatusOf(c)}
<1>1. ASSUME NEW r \in Runs, StoreReport(r) \/ NotifyHooks(r)
      PROVE  \E c \in Reports :
               /\ KeyOf[r] = k /\ stage[r][c] \in {"sent", "stored"}
               /\ rows'[k] \in {rows[k], StatusOf(c)}
               /\ notified'[k] \in {notified[k], StatusOf(c)}
  <2>1. PICK c \in Reports :
          /\ stage[r][c] \in {"sent", "stored"}
          /\ rows' = [rows EXCEPT ![KeyOf[r]] = StatusOf(c)] \/ rows' = rows
          /\ notified' = [notified EXCEPT ![KeyOf[r]] = StatusOf(c)] \/ notified' = notified
    BY <1>1 DEF StoreReport, NotifyHooks
  <2>. QED  BY <2>1 DEF TypeOK
<1>2. ASSUME NEW r \in Runs, Agent(r) \/ NameUpload(r) \/ CreateLog(r) \/ Upload(r) PROVE FALSE
  BY <1>2 DEF Agent, Send, Receive, Abandon, Execute, NameUpload, CreateLog, Upload, FindLog,
     OpenFile, StoreFile, CompleteLog
<1>3. CASE Crash \/ Tick \/ UNCHANGED vars
  BY <1>3 DEF Crash, Tick, vars
<1>. QED  BY <1>1, <1>2, <1>3 DEF Next, Provider

LEMMA OrderInvNext == TypeOK /\ OrderInv /\ [Next]_vars => OrderInv'
<1>. SUFFICES ASSUME TypeOK, OrderInv, [Next]_vars PROVE OrderInv'
  OBVIOUS
<1>1. ASSUME NEW q \in Runs
      PROVE  WaitsAt(q)' /\ (stage[q]["outcome"] # "unsent" => stage'[q]["outcome"] # "unsent")
  BY WaitsStep DEF OrderInv, StillWaits
<1>2. ASSUME NEW k \in Keys, rows'[k] = "ended" \/ notified'[k] = "ended" PROVE Told(k)'
  <2>1. CASE rows[k] = "ended" \/ notified[k] = "ended"
    BY <1>1, <2>1 DEF OrderInv, Told
  <2>2. CASE rows[k] # "ended" /\ notified[k] # "ended"
    <3>1. PICK r \in Runs, c \in Reports :
            /\ KeyOf[r] = k /\ stage[r][c] \in {"sent", "stored"}
            /\ rows'[k] \in {rows[k], StatusOf(c)}
            /\ notified'[k] \in {notified[k], StatusOf(c)}
      BY <1>2, <2>2, ShownStep
    <3>2. c = "outcome"
      BY <1>2, <2>2, <3>1 DEF StatusOf, Reports
    <3>. QED  BY <1>1, <3>1, <3>2 DEF Told
  <2>. QED  BY <2>1, <2>2
<1>. QED  BY <1>1, <1>2 DEF OrderInv

(* Whatever calls are cut off and whenever the provider dies, an outcome   *)
(* that shows is not replaced by a `running' of the same run, unless its   *)
(* caller has given that report up.                                        *)
THEOREM OutcomesStay == Spec => ReportsInOrder
<1>1. Init => OrderInv
  BY DEF Init, OrderInv, WaitsAt, Calls
<1>2. ASSUME TypeOK, OrderInv, [Next]_vars, NEW k \in Keys,
             ~StartsAgain(k), \A r \in Runs : KeyOf[r] = k => ~givenUp[r]
      PROVE  /\ rows[k] = "ended" => rows'[k] = "ended"
             /\ notified[k] = "ended" => notified'[k] = "ended"
  <2>. SUFFICES ASSUME \/ rows[k] = "ended" /\ rows'[k] # "ended"
                       \/ notified[k] = "ended" /\ notified'[k] # "ended"
                PROVE  FALSE
    OBVIOUS
  <2>1. PICK q \in Runs, c \in Reports :
          /\ KeyOf[q] = k /\ stage[q][c] \in {"sent", "stored"}
          /\ rows'[k] \in {rows[k], StatusOf(c)}
          /\ notified'[k] \in {notified[k], StatusOf(c)}
    BY <1>2, ShownStep
  <2>2. c = "running"
    BY <2>1 DEF StatusOf, Reports
  <2>3. at[q] = "running" /\ stage[q]["outcome"] = "unsent"
    BY <1>2, <2>1, <2>2 DEF OrderInv, WaitsAt, Starting
  <2>4. PICK r \in Runs : KeyOf[r] = k /\ stage[r]["outcome"] # "unsent"
    BY <1>2 DEF OrderInv, Told
  <2>. QED  BY <1>2, <2>1, <2>3, <2>4 DEF StartsAgain
<1>3. TypeOK /\ OrderInv /\ [Next]_vars =>
        [\A k \in Keys :
           (~StartsAgain(k) /\ \A r \in Runs : KeyOf[r] = k => ~givenUp[r]) =>
             /\ rows[k] = "ended" => rows'[k] = "ended"
             /\ notified[k] = "ended" => notified'[k] = "ended"]_vars
  BY <1>2
<1>. QED
  BY <1>1, <1>3, OrderInvNext, ProviderTypeCorrect, PTL DEF Spec, ReportsInOrder
=============================================================================
