----------------------------- MODULE KiwiProvider -----------------------------
(***************************************************************************)
(* The provider's database of reports and logs (kiwiProvider.ts /report,   *)
(* logsStorage/), as the agents use it: a recipe run reports that it is    *)
(* running, runs, reports its outcome, asks where its log goes and sends   *)
(* it.  A call of an agent and the provider's work on it are separate: the *)
(* provider handles many calls at a time, each up to its next await, and   *)
(* goes on with a call whose caller has given up.                          *)
(***************************************************************************)
EXTENDS Naturals

CONSTANTS
  Runs,     \* recipe runs, of any hosts and reloads
  Keys,     \* primary keys of HostReport: hostname, release, type, key
  Paths,    \* keys with everything but letters, digits and _ replaced by _
  KeyOf,    \* the report a run is about
  PathOf,   \* the path of a key; different keys may share one
  MaxTime,  \* bound: the last millisecond of the provider's clock
  Faults,   \* the kinds of failure the environment may inject
  NoLog     \* there is no HostLogs row

Calls == {"running", "outcome", "url", "put"}
Reports == {"running", "outcome"}
FaultKinds == {"report", "upload", "hook", "disk", "crash"}

ASSUME MapAssumption   == KeyOf \in [Runs -> Keys] /\ PathOf \in [Keys -> Paths]
ASSUME TimeAssumption  == MaxTime \in Nat
ASSUME NoLogAssumption == NoLog \notin [run : Runs, completed : BOOLEAN]
ASSUME FaultAssumption == Faults \subseteq FaultKinds

VARIABLES
  (* the runs *)
  at,        \* what each run is doing; the name of a call: waiting for it
  givenUp,   \* did the run stop waiting for the report that it is running?
  (* the calls being handled *)
  stage,     \* how far the provider is with each call of each run
  hash,      \* the hash of a run's log, as the upload URL has it
  clock,
  (* the database and the storage directory *)
  rows,      \* the status of each HostReport row
  notified,  \* the last status the report hook was called with
  logs,      \* the HostLogs rows
  files      \* whose log each stored file holds, and how much of it

vars == <<at, givenUp, stage, hash, clock, rows, notified, logs, files>>

-----------------------------------------------------------------------------
Hashes == Paths \X (0 .. MaxTime)   \* sha512 of the storage key
NoHash == <<>>
Status == {"none", "running", "ended"}   \* nothing here tells success from failure

Ready == [running |-> "start", outcome |-> "executed", url |-> "logs", put |-> "file"]
Unfinished == {"sent", "stored", "hashed", "found", "part", "full"}
Ended == {"done", "failed"}
Stages == {"unsent"} \cup Unfinished \cup Ended
Places == Calls \cup {Ready[c] : c \in Calls} \cup {"execute", "over"}

Init ==
  /\ at = [r \in Runs |-> "start"]
  /\ givenUp = [r \in Runs |-> FALSE]
  /\ stage = [r \in Runs |-> [c \in Calls |-> "unsent"]]
  /\ hash = [r \in Runs |-> NoHash]
  /\ clock = 0
  /\ rows = [k \in Keys |-> "none"]
  /\ notified = [k \in Keys |-> "none"]
  /\ logs = [h \in Hashes |-> NoLog]
  /\ files = [h \in Hashes |-> NoLog]

SetStage(r, c, s) == stage' = [stage EXCEPT ![r][c] = s]
Place(r, p) == at' = [at EXCEPT ![r] = p]
StatusOf(c) == IF c = "running" THEN "running" ELSE "ended"
LogOf(r) == [run |-> r, completed |-> FALSE]

-----------------------------------------------------------------------------
(* The agent.  A report that fails is logged and the run goes on; without  *)
(* an upload URL the log is not sent.                                      *)
After(c, ok) ==
  CASE c = "running" -> "execute"
    [] c = "outcome" -> "logs"
    [] c = "url"     -> IF ok THEN "file" ELSE "over"
    [] c = "put"     -> "over"

(* Mutant of Send: the agent does not wait for the answer to a report.     *)
SendOnly(r) ==
  \E c \in Calls :
    /\ at[r] = Ready[c]
    /\ SetStage(r, c, "sent")
    /\ Place(r, IF c \in Reports THEN After(c, TRUE) ELSE c)
    /\ UNCHANGED <<givenUp, hash, clock, rows, notified, logs, files>>

Send(r) ==
  \E c \in Calls :
    /\ at[r] = Ready[c]
    /\ SetStage(r, c, "sent")
    /\ Place(r, c)
    /\ UNCHANGED <<givenUp, hash, clock, rows, notified, logs, files>>

Receive(r) ==
  \E c \in Calls :
    /\ at[r] = c
    /\ stage[r][c] \in Ended
    /\ Place(r, After(c, stage[r][c] = "done"))
    /\ UNCHANGED <<givenUp, stage, hash, clock, rows, notified, logs, files>>

FaultOf(c) == IF c \in Reports THEN "report" ELSE "upload"

(* The connection breaks: the agent's call fails.  What the provider has   *)
(* received it goes on with; the rest of a request is lost.                *)
Abandon(r) ==
  \E c \in Calls :
    /\ FaultOf(c) \in Faults
    /\ at[r] = c
    /\ Place(r, After(c, FALSE))
    /\ givenUp' = IF c = "running" THEN [givenUp EXCEPT ![r] = TRUE] ELSE givenUp
    /\ \/ UNCHANGED stage
       \/ stage[r][c] \in {"sent", "found", "part"} /\ SetStage(r, c, "failed")
    /\ UNCHANGED <<hash, clock, rows, notified, logs, files>>

Execute(r) ==
  /\ at[r] = "execute"
  /\ Place(r, "executed")
  /\ UNCHANGED <<stage, givenUp, hash, clock, rows, notified, logs, files>>

-----------------------------------------------------------------------------
(* POST /report: the row is created or overwritten, then the hooks run one *)
(* after the other, whatever becomes of them, then the call is answered.   *)
StoreReport(r) ==
  \E c \in Reports :
    /\ stage[r][c] = "sent"
    /\ rows' = [rows EXCEPT ![KeyOf[r]] = StatusOf(c)]
    /\ SetStage(r, c, "stored")
    /\ UNCHANGED <<at, givenUp, hash, clock, notified, logs, files>>

NotifyHooks(r) ==
  \E c \in Reports :
    /\ stage[r][c] = "stored"
    /\ \/ notified' = [notified EXCEPT ![KeyOf[r]] = StatusOf(c)]
       \/ "hook" \in Faults /\ UNCHANGED notified
    /\ SetStage(r, c, "done")
    /\ UNCHANGED <<at, givenUp, hash, clock, rows, logs, files>>

(* POST /uploadUrl: the storage key is the report's path and the time, its *)
(* hash becomes the primary key of the new row.  The row is refused when   *)
(* that key is taken or there is no report to connect it to.               *)
NameUpload(r) ==
  /\ stage[r]["url"] = "sent"
  /\ hash' = [hash EXCEPT ![r] = <<PathOf[KeyOf[r]], clock>>]
  /\ SetStage(r, "url", "hashed")
  /\ UNCHANGED <<at, givenUp, clock, rows, notified, logs, files>>

(* Mutant of CreateLog: an existing row is taken over.                     *)
CreateLogUpserts(r) ==
  /\ stage[r]["url"] = "hashed"
  /\ IF rows[KeyOf[r]] # "none"
     THEN logs' = [logs EXCEPT ![hash[r]] = LogOf(r)] /\ SetStage(r, "url", "done")
     ELSE UNCHANGED logs /\ SetStage(r, "url", "failed")
  /\ UNCHANGED <<at, givenUp, hash, clock, rows, notified, files>>

CreateLog(r) ==
  /\ stage[r]["url"] = "hashed"
  /\ IF rows[KeyOf[r]] # "none" /\ logs[hash[r]] = NoLog
     THEN logs' = [logs EXCEPT ![hash[r]] = LogOf(r)] /\ SetStage(r, "url", "done")
     ELSE UNCHANGED logs /\ SetStage(r, "url", "failed")
  /\ UNCHANGED <<at, givenUp, hash, clock, rows, notified, files>>

(* PUT /upload/:hash: the row must be there and not completed.             *)
FindLog(r) ==
  /\ stage[r]["put"] = "sent"
  /\ SetStage(r, "put", IF logs[hash[r]] # NoLog /\ ~logs[hash[r]].completed
                        THEN "found" ELSE "failed")
  /\ UNCHANGED <<at, givenUp, hash, clock, rows, notified, logs, files>>

(* The upload middleware creates the file, then writes what it receives.   *)
OpenFile(r) ==
  /\ stage[r]["put"] = "found"
  /\ \/ files' = [files EXCEPT ![hash[r]] = <<r, "part">>] /\ SetStage(r, "put", "part")
     \/ "disk" \in Faults /\ UNCHANGED files /\ SetStage(r, "put", "failed")
  /\ UNCHANGED <<at, givenUp, hash, clock, rows, notified, logs>>

StoreFile(r) ==
  /\ stage[r]["put"] = "part"
  /\ \/ files' = [files EXCEPT ![hash[r]] = <<r, "full">>] /\ SetStage(r, "put", "full")
     \/ "disk" \in Faults /\ UNCHANGED files /\ SetStage(r, "put", "failed")
  /\ UNCHANGED <<at, givenUp, hash, clock, rows, notified, logs>>

(* Mutant of CompleteLog: the row is never updated.                        *)
CompleteLogForgets(r) ==
  /\ stage[r]["put"] = "full"
  /\ SetStage(r, "put", "done")
  /\ UNCHANGED <<at, givenUp, hash, clock, rows, notified, logs, files>>

CompleteLog(r) ==
  /\ stage[r]["put"] = "full"
  /\ IF logs[hash[r]].completed
     THEN UNCHANGED logs /\ SetStage(r, "put", "failed")
     ELSE logs' = [logs EXCEPT ![hash[r]].completed = TRUE] /\ SetStage(r, "put", "done")
  /\ UNCHANGED <<at, givenUp, hash, clock, rows, notified, files>>

(* The provider dies and is started again: the calls it was working on     *)
(* fail, the database and the files stay.                                  *)
Crash ==
  /\ "crash" \in Faults
  /\ \E r \in Runs, c \in Calls : stage[r][c] \in Unfinished
  /\ stage' = [r \in Runs |-> [c \in Calls |->
                 IF stage[r][c] \in Unfinished THEN "failed" ELSE stage[r][c]]]
  /\ UNCHANGED <<at, givenUp, hash, clock, rows, notified, logs, files>>

Tick ==
  /\ clock < MaxTime
  /\ clock' = clock + 1
  /\ UNCHANGED <<at, givenUp, stage, hash, rows, notified, logs, files>>

Agent(r) == Send(r) \/ Receive(r) \/ Abandon(r) \/ Execute(r)
Upload(r) == FindLog(r) \/ OpenFile(r) \/ StoreFile(r) \/ CompleteLog(r)
Provider(r) == StoreReport(r) \/ NotifyHooks(r) \/ NameUpload(r) \/ CreateLog(r) \/ Upload(r)

Next ==
  \/ \E r \in Runs : Agent(r) \/ Provider(r)
  \/ Crash
  \/ Tick

Spec == Init /\ [][Next]_vars

-----------------------------------------------------------------------------
(* The type invariant of the provider's database and the calls on it.      *)
TypeOK ==
  /\ at \in [Runs -> Places]
  /\ givenUp \in [Runs -> BOOLEAN]
  /\ stage \in [Runs -> [Calls -> Stages]]
  /\ hash \in [Runs -> Hashes \cup {NoHash}]
  /\ clock \in 0 .. MaxTime
  /\ rows \in [Keys -> Status]
  /\ notified \in [Keys -> Status]
  /\ logs \in [Hashes -> [run : Runs, completed : BOOLEAN] \cup {NoLog}]
  /\ files \in [Hashes -> (Runs \X {"part", "full"}) \cup {NoLog}]

(* A log that is offered for download holds all of the log of the very run *)
(* its row was created for, although files are written before the row is   *)
(* updated, several uploads are handled at a time and any of them may be   *)
(* cut off (/uploadUrl, PUT /upload/:hash, markUploadAsCompleted).         *)
CompletedIsWhole ==
  \A h \in Hashes :
    logs[h] # NoLog /\ logs[h].completed => files[h] = <<logs[h].run, "full">>

(* An upload the agent was told has succeeded can be downloaded from then  *)
(* on, whatever other uploads do and however often the provider crashes    *)
(* (markUploadAsCompleted before the answer of PUT /upload/:hash).         *)
AcknowledgedIsStored ==
  \A r \in Runs :
    stage[r]["put"] = "done" => logs[hash[r]] = [run |-> r, completed |-> TRUE]

(* A later run of the same recipe of the same release starts the report of *)
(* its key again, while it waits for the answer.                           *)
StartsAgain(k) ==
  \E q, r \in Runs :
    /\ q # r /\ KeyOf[q] = k /\ KeyOf[r] = k
    /\ at[q] = "running" /\ stage[r]["outcome"] # "unsent"

(* What the database shows and the hooks were told of a run never goes     *)
(* back from an outcome to `running', but by a report its caller has given *)
(* up or one of a later run (the await of #reportStatus, the answer of     *)
(* /report after the hooks).                                               *)
ReportsInOrder ==
  [][\A k \in Keys :
       (~StartsAgain(k) /\ \A r \in Runs : KeyOf[r] = k => ~givenUp[r]) =>
         /\ rows[k] = "ended" => rows'[k] = "ended"
         /\ notified[k] = "ended" => notified'[k] = "ended"]_vars
=============================================================================
