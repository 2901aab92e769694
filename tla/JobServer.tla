------------------------------ MODULE JobServer ------------------------------
(***************************************************************************)
(* The background jobs of the GUI server (mechanic/gui/server.py) and      *)
(* their durable rows (mechanic/gui/job_store.py).                         *)
(*                                                                         *)
(* A job is computed by a runner thread (_run_job) that may hand the       *)
(* mining to a worker thread (churn._mine_with_timeout).  Both report      *)
(* progress through the same closure, progress_cb, and it is progress_cb   *)
(* that moves the job from stage to stage and writes its row.  The request *)
(* threads load, cancel and read jobs at any moment.  The process may die  *)
(* between any two steps, and starts again from the rows.  Several server  *)
(* processes may share the database, which lives at a fixed per-user path. *)
(*                                                                         *)
(* One step is what one thread does between two points where another       *)
(* thread can run: a critical section of _JOBS_LOCK, the report encoding   *)
(* before job_store._lock is taken, the row written under it.              *)
(***************************************************************************)
EXTENDS Naturals

CONSTANTS
    Procs,              \* server processes that share the database
    Jobs,               \* job ids: uuid4, so no id is ever handed out twice
    NoProc,             \* the owner of an id not handed out yet
    MaxTicks,           \* bound on the progress callbacks of one stage
    MiningCanTimeOut,   \* may one mining pass outlast the 1800 s budget?
    DiskCanFail         \* may a row write raise (disk full, locked file)?

ASSUME ConstantsAssumption ==
    /\ NoProc \notin Procs
    /\ MaxTicks \in Nat \ {0}
    /\ MiningCanTimeOut \in BOOLEAN
    /\ DiskCanFail \in BOOLEAN

Stages == {"mining", "staleness", "semantic_diff", "classifying"}
Running == {"pending"} \cup Stages
Outcomes == {"done", "error", "cancelled"}
TERMINAL_STATUSES == Outcomes \cup {"interrupted"}
Statuses == {"absent"} \cup Running \cup TERMINAL_STATUSES

\* The threads of one job: its two kinds of creating request, _run_job, and
\* the mining worker.
Requests == {"load", "report"}
Threads == Requests \cup {"runner", "worker"}

Saving == {"encode", "write"}
Callback == {"check", "update", "compare", "note"} \cup Saving
Sealing == {"seal", "sealWrite"}
PcsOf(t) ==
    CASE t \in Requests -> {"off", "start"} \cup Saving
      [] t = "runner" -> {"off", "start", "join", "work", "cancelled"}
                            \cup Callback \cup Sealing
      [] t = "worker" -> {"off", "work", "finished", "failed", "cancelled"}
                            \cup Callback
Pcs == {"off", "start", "join", "work", "finished", "failed", "cancelled"}
           \cup Callback \cup Sealing

VARIABLES
    mem,        \* _JOBS of every process: the Job objects
    row,        \* the jobs table
    up,         \* "down", "marked" (rows marked, not yet loaded) or "up"
    owner,      \* the process whose threads work on the job
    pc,         \* where each thread of each job is
    stage,      \* the stage the job's computation has reached
    ticks,      \* callbacks made in that stage
    last,       \* last_persisted_status, shared by runner and worker
    encoded,    \* did save_job find a report when it encoded report_json?
    history,    \* is _mine_for_history_async running for the job?
    outcome     \* history variable: the outcome the job reached, if any

vars == <<mem, row, up, owner, pc, stage, ticks, last, encoded, history,
          outcome>>

Job == [status : Statuses, report : BOOLEAN, facts : BOOLEAN,
        cancel : BOOLEAN]
Row == [status : Statuses, report : BOOLEAN]

NewJob(s) == [status |-> s, report |-> s = "done", facts |-> FALSE,
              cancel |-> FALSE]
NoJob == NewJob("absent")
NoRow == [status |-> "absent", report |-> FALSE]

\* No thread of a job leaves its own program, and Job objects, rows and
\* flags keep their types.
TypeOK ==
    /\ mem \in [Procs -> [Jobs -> Job]]
    /\ row \in [Jobs -> Row]
    /\ up \in [Procs -> {"down", "marked", "up"}]
    /\ owner \in [Jobs -> Procs \cup {NoProc}]
    /\ pc \in [Threads -> [Jobs -> Pcs]]
    /\ \A t \in Threads, j \in Jobs : pc[t][j] \in PcsOf(t)
    /\ stage \in [Jobs -> Stages]
    /\ ticks \in [Jobs -> 0 .. MaxTicks]
    /\ last \in [Jobs -> Statuses]
    /\ encoded \in [Threads -> [Jobs -> BOOLEAN]]
    /\ history \in [Procs -> [Jobs -> BOOLEAN]]
    /\ outcome \in [Jobs -> Outcomes \cup {"none"}]

Init ==
    /\ mem = [p \in Procs |-> [j \in Jobs |-> NoJob]]
    /\ row = [j \in Jobs |-> NoRow]
    /\ up = [p \in Procs |-> "down"]
    /\ owner = [j \in Jobs |-> NoProc]
    /\ pc = [t \in Threads |-> [j \in Jobs |-> "off"]]
    /\ stage = [j \in Jobs |-> "mining"]
    /\ ticks = [j \in Jobs |-> 0]
    /\ last = [j \in Jobs |-> "pending"]
    /\ encoded = [t \in Threads |-> [j \in Jobs |-> FALSE]]
    /\ history = [p \in Procs |-> [j \in Jobs |-> FALSE]]
    /\ outcome = [j \in Jobs |-> "none"]

\* The Job object the threads of j hold.
TheJob(j) == mem[owner[j]][j]

Goto(t, j, l) == pc' = [pc EXCEPT ![t][j] = l]

-----------------------------------------------------------------------------
(***************************************************************************)
(* save_job, reached through _persist by every thread: the report is       *)
(* encoded first, and only then, under job_store._lock, are the other      *)
(* fields read and the row upserted.  _persist swallows every failure.     *)
(***************************************************************************)
\* Mutant: the request that saved a new job goes on as its own runner.
AfterSaveInline(t, j) == IF pc[t][j] = "sealWrite" THEN "off" ELSE "work"

AfterSave(t, j) ==
    IF pc[t][j] = "sealWrite" THEN "off"
    ELSE IF t \in Requests THEN "start"
    ELSE "work"

EncodeReport(t, j) ==
    /\ pc[t][j] \in {"encode", "seal"}
    /\ encoded' = [encoded EXCEPT ![t][j] = TheJob(j).report]
    /\ Goto(t, j, IF pc[t][j] = "encode" THEN "write" ELSE "sealWrite")
    /\ UNCHANGED <<mem, row, up, owner, stage, ticks, last, history, outcome>>

WriteRow(t, j) ==
    /\ pc[t][j] \in {"write", "sealWrite"}
    /\ \/ row' = [row EXCEPT ![j] = [status |-> TheJob(j).status,
                                     report |-> encoded[t][j]]]
       \/ DiskCanFail /\ UNCHANGED row
    /\ Goto(t, j, AfterSave(t, j))
    /\ UNCHANGED <<mem, up, owner, stage, ticks, last, encoded, history,
                   outcome>>

-----------------------------------------------------------------------------
(***************************************************************************)
(* The requests that create a job, and the threads they start last.        *)
(***************************************************************************)
LoadRepo(p, j) ==
    /\ up[p] = "up" /\ owner[j] = NoProc
    /\ mem' = [mem EXCEPT ![p][j] = NewJob("pending")]
    /\ owner' = [owner EXCEPT ![j] = p]
    /\ Goto("load", j, "encode")
    /\ UNCHANGED <<row, up, stage, ticks, last, encoded, history, outcome>>

LoadFromReport(p, j) ==
    /\ up[p] = "up" /\ owner[j] = NoProc
    /\ mem' = [mem EXCEPT ![p][j] = NewJob("done")]
    /\ owner' = [owner EXCEPT ![j] = p]
    /\ outcome' = [outcome EXCEPT ![j] = "done"]
    /\ Goto("report", j, "encode")
    /\ UNCHANGED <<row, up, stage, ticks, last, encoded, history>>

StartRunner(j) ==
    /\ pc["load"][j] = "start"
    /\ pc' = [pc EXCEPT !["load"][j] = "off", !["runner"][j] = "start"]
    /\ last' = [last EXCEPT ![j] = TheJob(j).status]
    /\ UNCHANGED <<mem, row, up, owner, stage, ticks, encoded, history,
                   outcome>>

StartHistory(j) ==
    /\ pc["report"][j] = "start"
    /\ Goto("report", j, "off")
    /\ history' = [history EXCEPT ![owner[j]][j] = TRUE]
    /\ UNCHANGED <<mem, row, up, owner, stage, ticks, last, encoded, outcome>>

\* Mutant: a failure to mine the history fails the job, as in _run_job.
MineForHistoryOrFail(p, j) ==
    /\ history[p][j]
    /\ history' = [history EXCEPT ![p][j] = FALSE]
    /\ \/ mem' = [mem EXCEPT ![p][j].facts = TRUE]
       \/ mem' = [mem EXCEPT ![p][j].status = "error"]
    /\ UNCHANGED <<row, up, owner, pc, stage, ticks, last, encoded, outcome>>

\* _mine_for_history_async: best effort, a failure leaves all_facts None.
MineForHistory(p, j) ==
    /\ history[p][j]
    /\ history' = [history EXCEPT ![p][j] = FALSE]
    /\ \/ mem' = [mem EXCEPT ![p][j].facts = TRUE]
       \/ UNCHANGED mem
    /\ UNCHANGED <<row, up, owner, pc, stage, ticks, last, encoded, outcome>>

\* Mutant: the request shows the cancellation before the runner stops.
CancelJobAtOnce(p, j) ==
    /\ up[p] = "up"
    /\ mem[p][j].status \notin TERMINAL_STATUSES \cup {"absent"}
    /\ mem' = [mem EXCEPT ![p][j].cancel = TRUE,
                          ![p][j].status = "cancelled"]
    /\ UNCHANGED <<row, up, owner, pc, stage, ticks, last, encoded, history,
                   outcome>>

CancelJob(p, j) ==
    /\ up[p] = "up"
    /\ mem[p][j].status \notin TERMINAL_STATUSES \cup {"absent"}
    /\ mem' = [mem EXCEPT ![p][j].cancel = TRUE]
    /\ UNCHANGED <<row, up, owner, pc, stage, ticks, last, encoded, history,
                   outcome>>

-----------------------------------------------------------------------------
(***************************************************************************)
(* progress_cb.  The Stop flag is read outside the lock, the status set    *)
(* under it, and compared with last_persisted_status outside it again.     *)
(***************************************************************************)
CheckCancel(t, j) ==
    /\ pc[t][j] = "check"
    /\ Goto(t, j, IF TheJob(j).cancel THEN "cancelled" ELSE "update")
    /\ UNCHANGED <<mem, row, up, owner, stage, ticks, last, encoded, history,
                   outcome>>

SetStage(t, j) ==
    /\ pc[t][j] = "update"
    /\ mem' = [mem EXCEPT ![owner[j]][j].status = stage[j]]
    /\ Goto(t, j, "compare")
    /\ UNCHANGED <<row, up, owner, stage, ticks, last, encoded, history,
                   outcome>>

\* Mutant: the status is compared with that of a job not yet started.
CompareWithPending(t, j) ==
    /\ pc[t][j] = "compare"
    /\ Goto(t, j, IF last[j] = "pending" THEN "note" ELSE "work")
    /\ UNCHANGED <<mem, row, up, owner, stage, ticks, last, encoded, history,
                   outcome>>

CompareStatus(t, j) ==
    /\ pc[t][j] = "compare"
    /\ Goto(t, j, IF TheJob(j).status # last[j] THEN "note" ELSE "work")
    /\ UNCHANGED <<mem, row, up, owner, stage, ticks, last, encoded, history,
                   outcome>>

NoteStatus(t, j) ==
    /\ pc[t][j] = "note"
    /\ last' = [last EXCEPT ![j] = TheJob(j).status]
    /\ Goto(t, j, "encode")
    /\ UNCHANGED <<mem, row, up, owner, stage, ticks, encoded, history,
                   outcome>>

\* The stage that follows stage s in build_triage_report.
NextStage == [mining |-> "staleness", staleness |-> "semantic_diff",
              semantic_diff |-> "classifying"]

\* The calls of progress_cb after mining: staleness once, semantic_diff per
\* diffed file, classifying every 20 rules.
ReportStage(j) ==
    /\ pc["runner"][j] = "work"
    /\ \/ /\ stage[j] # "classifying"
          /\ stage' = [stage EXCEPT ![j] = NextStage[stage[j]]]
          /\ ticks' = [ticks EXCEPT ![j] = 1]
       \/ /\ stage[j] \in {"semantic_diff", "classifying"}
          /\ ticks[j] < MaxTicks
          /\ ticks' = [ticks EXCEPT ![j] = @ + 1]
          /\ UNCHANGED stage
    /\ Goto("runner", j, "check")
    /\ UNCHANGED <<mem, row, up, owner, last, encoded, history, outcome>>

-----------------------------------------------------------------------------
(***************************************************************************)
(* Mining: a cache hit reports once from the runner itself; a miss starts  *)
(* the worker, which reports every 250 commits, so never on a small repo.  *)
(***************************************************************************)
CacheHit(j) ==
    /\ pc["runner"][j] = "start"
    /\ ticks' = [ticks EXCEPT ![j] = 1]
    /\ Goto("runner", j, "check")
    /\ UNCHANGED <<mem, row, up, owner, stage, last, encoded, history,
                   outcome>>

StartWorker(j) ==
    /\ pc["runner"][j] = "start"
    /\ pc' = [pc EXCEPT !["runner"][j] = "join", !["worker"][j] = "work"]
    /\ UNCHANGED <<mem, row, up, owner, stage, ticks, last, encoded, history,
                   outcome>>

MineCommits(j) ==
    /\ pc["worker"][j] = "work" /\ ticks[j] < MaxTicks
    /\ ticks' = [ticks EXCEPT ![j] = @ + 1]
    /\ Goto("worker", j, "check")
    /\ UNCHANGED <<mem, row, up, owner, stage, last, encoded, history,
                   outcome>>

EndWorker(j) ==
    /\ pc["worker"][j] = "work"
    /\ \/ Goto("worker", j, "finished")
       \/ Goto("worker", j, "failed")
    /\ UNCHANGED <<mem, row, up, owner, stage, ticks, last, encoded, history,
                   outcome>>

WorkerEnded(j) == pc["worker"][j] \in {"off", "finished", "failed", "cancelled"}

\* join returned because the worker ended: its result, or its exception.
JoinWorker(j) ==
    /\ pc["runner"][j] = "join"
    /\ pc["worker"][j] \in {"finished", "cancelled"}
    /\ pc' = [pc EXCEPT
                  !["worker"][j] = "off",
                  !["runner"][j] = IF pc["worker"][j] = "finished"
                                   THEN "work" ELSE "cancelled"]
    /\ UNCHANGED <<mem, row, up, owner, stage, ticks, last, encoded, history,
                   outcome>>

-----------------------------------------------------------------------------
(***************************************************************************)
(* How _run_job ends: the outcome is set under _JOBS_LOCK and the row is   *)
(* written after the lock is released.                                     *)
(***************************************************************************)
Settle(j, s) ==
    /\ mem' = [mem EXCEPT ![owner[j]][j] =
                  [status |-> s,
                   report |-> TheJob(j).report \/ s = "done",
                   facts  |-> TheJob(j).facts \/ s = "done",
                   cancel |-> TheJob(j).cancel]]
    /\ outcome' = [outcome EXCEPT ![j] = s]

FinishDone(j) ==
    /\ pc["runner"][j] = "work" /\ stage[j] = "classifying"
    /\ Settle(j, "done")
    /\ Goto("runner", j, "seal")
    /\ UNCHANGED <<row, up, owner, stage, ticks, last, encoded, history>>

FinishCancelled(j) ==
    /\ pc["runner"][j] = "cancelled"
    /\ Settle(j, "cancelled")
    /\ Goto("runner", j, "seal")
    /\ UNCHANGED <<row, up, owner, stage, ticks, last, encoded, history>>

\* Mutant: the worker's exception is not raised again on the runner.
FinishErrorOwn(j) ==
    /\ pc["runner"][j] \in {"start", "work"}
    /\ Settle(j, "error")
    /\ Goto("runner", j, "seal")
    /\ UNCHANGED <<row, up, owner, stage, ticks, last, encoded, history>>

\* A ChurnError or any other exception, raised on the runner or re-raised
\* from the worker.
FinishError(j) ==
    /\ \/ pc["runner"][j] \in {"start", "work"}
       \/ pc["runner"][j] = "join" /\ pc["worker"][j] = "failed"
    /\ Settle(j, "error")
    /\ Goto("runner", j, "seal")
    /\ UNCHANGED <<row, up, owner, stage, ticks, last, encoded, history>>

\* MiningTimeoutError: the runner gives up, the worker keeps running.
FinishTimeout(j) ==
    /\ MiningCanTimeOut
    /\ pc["runner"][j] = "join" /\ ~WorkerEnded(j)
    /\ Settle(j, "error")
    /\ Goto("runner", j, "seal")
    /\ UNCHANGED <<row, up, owner, stage, ticks, last, encoded, history>>

-----------------------------------------------------------------------------
(***************************************************************************)
(* The process dies, and create_app restores the jobs of the database.     *)
(***************************************************************************)
Crash(p) ==
    /\ up[p] # "down"
    /\ up' = [up EXCEPT ![p] = "down"]
    /\ mem' = [mem EXCEPT ![p] = [j \in Jobs |-> NoJob]]
    /\ pc' = [t \in Threads |->
                 [j \in Jobs |-> IF owner[j] = p THEN "off" ELSE pc[t][j]]]
    /\ history' = [history EXCEPT ![p] = [j \in Jobs |-> FALSE]]
    /\ UNCHANGED <<row, owner, stage, ticks, last, encoded, outcome>>

\* Mutants: every row is marked, a pending one is not, an error is recorded.
MarkEveryRow(p) ==
    /\ up[p] = "down"
    /\ up' = [up EXCEPT ![p] = "marked"]
    /\ row' = [j \in Jobs |->
                 IF row[j].status = "absent"
                 THEN row[j]
                 ELSE [row[j] EXCEPT !.status = "interrupted"]]
    /\ UNCHANGED <<mem, owner, pc, stage, ticks, last, encoded, history,
                   outcome>>
MarkStartedRows(p) ==
    /\ up[p] = "down"
    /\ up' = [up EXCEPT ![p] = "marked"]
    /\ row' = [j \in Jobs |->
                 IF row[j].status \in Stages
                 THEN [row[j] EXCEPT !.status = "interrupted"]
                 ELSE row[j]]
    /\ UNCHANGED <<mem, owner, pc, stage, ticks, last, encoded, history,
                   outcome>>
MarkFailed(p) ==
    /\ up[p] = "down"
    /\ up' = [up EXCEPT ![p] = "marked"]
    /\ row' = [j \in Jobs |->
                 IF row[j].status \in TERMINAL_STATUSES \cup {"absent"}
                 THEN row[j]
                 ELSE [row[j] EXCEPT !.status = "error"]]
    /\ UNCHANGED <<mem, owner, pc, stage, ticks, last, encoded, history,
                   outcome>>

MarkInterrupted(p) ==
    /\ up[p] = "down"
    /\ up' = [up EXCEPT ![p] = "marked"]
    /\ row' = [j \in Jobs |->
                 IF row[j].status \in TERMINAL_STATUSES \cup {"absent"}
                 THEN row[j]
                 ELSE [row[j] EXCEPT !.status = "interrupted"]]
    /\ UNCHANGED <<mem, owner, pc, stage, ticks, last, encoded, history,
                   outcome>>

\* Mutant: report_json is not loaded.
RestoreWithoutReports(p) ==
    /\ up[p] = "marked"
    /\ up' = [up EXCEPT ![p] = "up"]
    /\ mem' = [mem EXCEPT ![p] =
                 [j \in Jobs |-> [status |-> row[j].status,
                                  report |-> FALSE,
                                  facts  |-> FALSE,
                                  cancel |-> FALSE]]]
    /\ history' = [history EXCEPT ![p] =
                     [j \in Jobs |-> row[j].status = "done" /\ row[j].report]]
    /\ UNCHANGED <<row, owner, pc, stage, ticks, last, encoded, outcome>>

RestoreJobs(p) ==
    /\ up[p] = "marked"
    /\ up' = [up EXCEPT ![p] = "up"]
    /\ mem' = [mem EXCEPT ![p] =
                 [j \in Jobs |-> [status |-> row[j].status,
                                  report |-> row[j].report,
                                  facts  |-> FALSE,
                                  cancel |-> FALSE]]]
    /\ history' = [history EXCEPT ![p] =
                     [j \in Jobs |-> row[j].status = "done" /\ row[j].report]]
    /\ UNCHANGED <<row, owner, pc, stage, ticks, last, encoded, outcome>>

-----------------------------------------------------------------------------
RequestStep(j) ==
    \/ \E t \in Requests : EncodeReport(t, j) \/ WriteRow(t, j)
    \/ StartRunner(j)
    \/ StartHistory(j)

ProgressStep(t, j) ==
    \/ CheckCancel(t, j)
    \/ SetStage(t, j)
    \/ CompareStatus(t, j)
    \/ NoteStatus(t, j)
    \/ EncodeReport(t, j)
    \/ WriteRow(t, j)

RunnerStep(j) ==
    \/ ProgressStep("runner", j)
    \/ CacheHit(j)
    \/ StartWorker(j)
    \/ JoinWorker(j)
    \/ ReportStage(j)
    \/ FinishDone(j)
    \/ FinishCancelled(j)
    \/ FinishError(j)
    \/ FinishTimeout(j)

WorkerStep(j) ==
    \/ ProgressStep("worker", j)
    \/ MineCommits(j)
    \/ EndWorker(j)

ServerStep(p) == Crash(p) \/ MarkInterrupted(p) \/ RestoreJobs(p)

ClientStep(p, j) ==
    \/ LoadRepo(p, j)
    \/ LoadFromReport(p, j)
    \/ CancelJob(p, j)

Next ==
    \/ \E j \in Jobs : RequestStep(j) \/ RunnerStep(j) \/ WorkerStep(j)
    \/ \E p \in Procs :
          \/ ServerStep(p)
          \/ \E j \in Jobs : ClientStep(p, j) \/ MineForHistory(p, j)

Spec == Init /\ [][Next]_vars

\* A thread that can run is eventually scheduled.  Nothing makes a user load
\* or cancel a job, and nothing makes the process die or start again.
FairSpec ==
    /\ Spec
    /\ \A j \in Jobs : /\ WF_vars(RequestStep(j))
                       /\ WF_vars(RunnerStep(j))
                       /\ WF_vars(WorkerStep(j))
=============================================================================
