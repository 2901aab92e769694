-------------------------- MODULE JobServerFinality --------------------------
(***************************************************************************)
(* Proofs that what JobServer has finished stays finished: the action      *)
(* properties DoneRowIsFinal and AnswersKeepStanding, from the invariant   *)
(* of JobServerProofs; and, for one process whose mining keeps to its      *)
(* budget, that a job shown as running has a thread that will end it, and  *)
(* that the server implements the life of a job, JobLifecycle.             *)
(***************************************************************************)
EXTENDS JobServerProofs

-----------------------------------------------------------------------------
(***************************************************************************)
(* Rows.  Whoever writes the row of a done job writes what it says already.*)
(***************************************************************************)
DoneRowsStand == \A j \in Jobs : row[j].status = "done" => row'[j] = row[j]

\* A thread about to write the row of a job whose row is done holds a done job.
LEMMA WriterOfDoneRow ==
    ASSUME IInv, NEW t \in Threads, NEW j \in Jobs,
           pc[t][j] \in {"write", "sealWrite"}, row[j].status = "done"
    PROVE  TheJob(j).status = "done"
<1>. USE DEF Threads, Requests, Saving, Callback, Sealing, Running, Stages,
             Outcomes
<1>1. outcome[j] = "done"
  BY DEF IInv, NoFalseOutcome
<1>2. t # "load"
  BY <1>1 DEF IInv, RequestInv
<1>3. CASE t = "report"
  BY <1>3 DEF IInv, RequestInv
<1>4. CASE t = "runner"
  <2>1. ~RunnerComputing(j)
    BY <1>1 DEF IInv, RunnerInv
  <2>2. pc["runner"][j] \in Sealing
    BY <2>1, <1>4 DEF RunnerComputing
  <2>. QED  BY <1>1, <2>2 DEF IInv, RunnerInv
<1>5. CASE t = "worker"
  <2>1. WorkerAlive(j)
    BY <1>5 DEF WorkerAlive, WorkerEnded
  <2>2. pc["runner"][j] = "join"
    BY <1>1, <2>1 DEF IInv, WorkerInv
  <2>3. outcome[j] = "none"
    BY <2>2 DEF IInv, RunnerInv, RunnerComputing
  <2>. QED  BY <1>1, <2>3
<1>. QED  BY <1>2, <1>3, <1>4, <1>5

\* save_job leaves a done row as it is: its writer holds the same done job.
LEMMA WriteRowStands ==
    ASSUME IInv, NEW t \in Threads, NEW j \in Jobs, WriteRow(t, j)
    PROVE  DoneRowsStand
<1>. SUFFICES ASSUME NEW k \in Jobs, row[k].status = "done"
              PROVE  row'[k] = row[k]
  BY DEF DoneRowsStand
<1>1. row \in [Jobs -> Row] /\ pc[t][j] \in {"write", "sealWrite"}
  BY DEF IInv, TypeOK, WriteRow
<1>2. CASE row' = row \/ k # j
  BY <1>1, <1>2 DEF WriteRow
<1>3. CASE /\ row' = [row EXCEPT ![j] = [status |-> TheJob(j).status,
                                         report |-> encoded[t][j]]]
           /\ k = j
  <2>1. TheJob(j).status = "done"
    BY <1>1, <1>3, WriterOfDoneRow
  <2>2. owner[j] \in Procs
    BY <1>1 DEF IInv, HomeInv
  <2>3. TheJob(j) \in Job /\ encoded[t][j] = TheJob(j).report
    BY <1>1, <2>2 DEF IInv, EncodedInv, TypeOK, TheJob
  <2>4. encoded[t][j] = TRUE
    BY <2>1, <2>2, <2>3 DEF IInv, DoneHasReport, TheJob, Job
  <2>5. row[j] = [status |-> "done", report |-> TRUE]
    BY <1>1, <1>3 DEF IInv, DoneHasReport, Row
  <2>. QED  BY <1>1, <1>3, <2>1, <2>4, <2>5
<1>. QED  BY <1>2, <1>3 DEF WriteRow

\* No step changes a done row.
LEMMA RowsStand == IInv /\ [Next]_vars => DoneRowsStand
<1>. SUFFICES ASSUME IInv, [Next]_vars PROVE DoneRowsStand
  OBVIOUS
<1>1. CASE UNCHANGED row
  BY <1>1 DEF DoneRowsStand
<1>2. CASE \E t \in Threads, j \in Jobs : WriteRow(t, j)
  BY <1>2, WriteRowStands
<1>3. CASE \E p \in Procs : MarkInterrupted(p)
  BY <1>3 DEF MarkInterrupted, DoneRowsStand, TERMINAL_STATUSES, Outcomes
<1>4. \/ UNCHANGED row
      \/ \E t \in Threads, j \in Jobs : WriteRow(t, j)
      \/ \E p \in Procs : MarkInterrupted(p)
  BY DEF vars, Next, RequestStep, ProgressStep, RunnerStep, WorkerStep,
         ServerStep, ClientStep, EncodeReport, StartRunner, StartHistory,
         CheckCancel, SetStage, CompareStatus, NoteStatus, CacheHit,
         StartWorker, JoinWorker, ReportStage, FinishDone, FinishCancelled, FinishError,
         FinishTimeout, MineCommits, EndWorker, Crash, RestoreJobs, LoadRepo,
         LoadFromReport, CancelJob, MineForHistory, Threads, Requests
<1>. QED  BY <1>1, <1>2, <1>3, <1>4

\* A finished report is never lost from the table: not to a late write of a
\* worker, not to the startup pass of another process.
THEOREM DoneRowsStay == Spec => DoneRowIsFinal
<1>1. IInv /\ [Next]_vars => DoneRowsStand
  BY RowsStand
<1>. QED  BY <1>1, Invariant, PTL DEF Spec, DoneRowIsFinal, DoneRowsStand

-----------------------------------------------------------------------------
(***************************************************************************)
(* Answers.  A Job object that is done is not touched again, but for its   *)
(* commit facts, until its process dies.                                   *)
(***************************************************************************)
DoneJobsStand ==
    \A p \in Procs, j \in Jobs :
       mem[p][j].status = "done" /\ up'[p] = "up" =>
          /\ mem'[p][j].status = "done"
          /\ mem[p][j].facts => mem'[p][j].facts

\* A new job takes no answer away: its id was never handed out.
LEMMA LoadStands ==
    ASSUME IInv, NEW p \in Procs, NEW j \in Jobs,
           LoadRepo(p, j) \/ LoadFromReport(p, j)
    PROVE  DoneJobsStand
<1>1. mem[p][j].status = "absent"
  BY DEF IInv, UnusedInv, LoadRepo, LoadFromReport
<1>2. \A q \in Procs, k \in Jobs :
         ~(q = p /\ k = j) => mem'[q][k] = mem[q][k]
  BY DEF IInv, TypeOK, LoadRepo, LoadFromReport
<1>. QED  BY <1>1, <1>2 DEF DoneJobsStand

\* Mining the history of a done job only adds facts.
LEMMA FactsStand ==
    ASSUME IInv, NEW p \in Procs, NEW j \in Jobs, MineForHistory(p, j)
    PROVE  DoneJobsStand
<1>1. mem \in [Procs -> [Jobs -> Job]]
  BY DEF IInv, TypeOK
<1>2. CASE UNCHANGED mem
  BY <1>2 DEF DoneJobsStand
<1>3. CASE mem' = [mem EXCEPT ![p][j].facts = TRUE]
  <2>1. \A q \in Procs, k \in Jobs :
           /\ mem'[q][k].status = mem[q][k].status
           /\ mem[q][k].facts => mem'[q][k].facts
    BY <1>1, <1>3 DEF Job
  <2>. QED  BY <2>1 DEF DoneJobsStand
<1>. QED  BY <1>2, <1>3 DEF MineForHistory

\* cancel_job refuses a done job.
LEMMA CancelStands ==
    ASSUME IInv, NEW p \in Procs, NEW j \in Jobs, CancelJob(p, j)
    PROVE  DoneJobsStand
<1>1. \A q \in Procs, k \in Jobs :
         ~(q = p /\ k = j) => mem'[q][k] = mem[q][k]
  BY DEF IInv, TypeOK, CancelJob
<1>2. mem[p][j].status # "done"
  BY DEF CancelJob, TERMINAL_STATUSES, Outcomes
<1>. QED  BY <1>1, <1>2 DEF DoneJobsStand

\* A computing runner, or a live worker, never holds a done job.
LEMMA ComputingIsNotDone ==
    ASSUME IInv, NEW j \in Jobs, RunnerComputing(j) \/ WorkerAlive(j)
    PROVE  owner[j] \in Procs /\ TheJob(j).status # "done"
<1>. USE DEF Threads, Requests, Running, Stages, Outcomes
<1>1. outcome[j] # "done"
  BY DEF IInv, RunnerInv, WorkerInv, RunnerComputing, Sealing
<1>2. owner[j] \in Procs
  BY DEF IInv, HomeInv, RunnerComputing, WorkerAlive, WorkerEnded
<1>3. TheJob(j).status \in Outcomes => TheJob(j).status = outcome[j]
  BY <1>2 DEF IInv, NoFalseOutcome, TheJob
<1>. QED  BY <1>1, <1>2, <1>3

\* A thread that still computes a job changes no done job.
LEMMA ThreadStands ==
    ASSUME IInv, NEW j \in Jobs, NEW v,
           mem' = [mem EXCEPT ![owner[j]][j] = v],
           RunnerComputing(j) \/ WorkerAlive(j)
    PROVE  DoneJobsStand
<1>1. \A q \in Procs, k \in Jobs :
         ~(q = owner[j] /\ k = j) => mem'[q][k] = mem[q][k]
  BY DEF IInv, TypeOK
<1>2. mem[owner[j]][j].status # "done"
  BY ComputingIsNotDone DEF TheJob
<1>. QED  BY <1>1, <1>2 DEF DoneJobsStand

\* progress_cb never sets a stage on a done job.
LEMMA SetStageStands ==
    ASSUME IInv, NEW t \in Threads, NEW j \in Jobs, SetStage(t, j)
    PROVE  DoneJobsStand
<1>1. RunnerComputing(j) \/ WorkerAlive(j)
  BY DEF IInv, TypeOK, PcsOf, SetStage, RunnerComputing, WorkerAlive,
         WorkerEnded, Threads, Requests, Saving, Sealing
<1>2. mem' = [mem EXCEPT ![owner[j]][j] =
                [mem[owner[j]][j] EXCEPT !.status = stage[j]]]
  BY DEF SetStage
<1>. QED  BY <1>1, <1>2, ThreadStands

\* _run_job never settles a done job again.
LEMMA FinishStands ==
    ASSUME IInv, NEW j \in Jobs,
           \/ FinishDone(j)
           \/ FinishCancelled(j)
           \/ FinishError(j)
           \/ FinishTimeout(j)
    PROVE  DoneJobsStand
<1>1. RunnerComputing(j)
  BY DEF FinishDone, FinishCancelled, FinishError, FinishTimeout,
         RunnerComputing, Sealing
<1>2. \E v : mem' = [mem EXCEPT ![owner[j]][j] = v]
  BY DEF FinishDone, FinishCancelled, FinishError, FinishTimeout, Settle
<1>. QED  BY <1>1, <1>2, ThreadStands

\* Crash and restart only touch a process that is not serving.
LEMMA ServerStands ==
    ASSUME IInv, NEW p \in Procs, Crash(p) \/ RestoreJobs(p)
    PROVE  DoneJobsStand
<1>1. \A q \in Procs : q # p => mem'[q] = mem[q]
  BY DEF IInv, TypeOK, Crash, RestoreJobs
<1>2. CASE Crash(p)
  <2>1. up'[p] = "down"
    BY <1>2 DEF IInv, TypeOK, Crash
  <2>. QED  BY <1>1, <2>1 DEF DoneJobsStand
<1>3. CASE RestoreJobs(p)
  <2>1. \A j \in Jobs : mem[p][j].status = "absent"
    BY <1>3 DEF IInv, DownInv, RestoreJobs
  <2>. QED  BY <1>1, <2>1 DEF DoneJobsStand
<1>. QED  BY <1>2, <1>3

\* No step takes a done job from a process that stays up.
LEMMA JobsStand == IInv /\ [Next]_vars => DoneJobsStand
<1>. SUFFICES ASSUME IInv, [Next]_vars PROVE DoneJobsStand
  OBVIOUS
<1>1. CASE UNCHANGED mem
  BY <1>1 DEF DoneJobsStand
<1>2. CASE \E p \in Procs, j \in Jobs :
              \/ LoadRepo(p, j) \/ LoadFromReport(p, j)
              \/ MineForHistory(p, j) \/ CancelJob(p, j)
  BY <1>2, LoadStands, FactsStand, CancelStands
<1>3. CASE \E t \in Threads, j \in Jobs : SetStage(t, j)
  BY <1>3, SetStageStands
<1>4. CASE \E j \in Jobs : \/ FinishDone(j) \/ FinishCancelled(j)
                           \/ FinishError(j) \/ FinishTimeout(j)
  BY <1>4, FinishStands
<1>5. CASE \E p \in Procs : Crash(p) \/ RestoreJobs(p)
  BY <1>5, ServerStands
<1>6. \/ UNCHANGED mem
      \/ \E p \in Procs, j \in Jobs :
            \/ LoadRepo(p, j) \/ LoadFromReport(p, j)
            \/ MineForHistory(p, j) \/ CancelJob(p, j)
      \/ \E t \in Threads, j \in Jobs : SetStage(t, j)
      \/ \E j \in Jobs : \/ FinishDone(j) \/ FinishCancelled(j)
                         \/ FinishError(j) \/ FinishTimeout(j)
      \/ \E p \in Procs : Crash(p) \/ RestoreJobs(p)
  BY DEF vars, Next, RequestStep, ProgressStep, RunnerStep, WorkerStep,
         ServerStep, ClientStep, EncodeReport, WriteRow, StartRunner,
         StartHistory, CheckCancel, CompareStatus, NoteStatus, CacheHit,
         StartWorker, JoinWorker, ReportStage, MineCommits, EndWorker, MarkInterrupted,
         Threads, Requests
<1>. QED  BY <1>1, <1>2, <1>3, <1>4, <1>5, <1>6

AnswersStand ==
    \A p \in Procs, j \in Jobs :
       up'[p] = "up" =>
          /\ JobResult(p, j) = "200 report"
                => JobResult(p, j)' = "200 report"
          /\ RuleHistory(p, j) = "200 history"
                => RuleHistory(p, j)' = "200 history"

\* The answers of job_result and rule_history stand while done jobs do.
LEMMA AnswersFollow ==
    ASSUME IInv, IInv', DoneJobsStand
    PROVE  AnswersStand
<1>. SUFFICES ASSUME NEW p \in Procs, NEW j \in Jobs, up'[p] = "up"
              PROVE  /\ JobResult(p, j) = "200 report"
                           => JobResult(p, j)' = "200 report"
                     /\ RuleHistory(p, j) = "200 history"
                           => RuleHistory(p, j)' = "200 history"
  BY DEF AnswersStand
<1>1. ASSUME JobResult(p, j) = "200 report"
      PROVE  JobResult(p, j)' = "200 report"
  <2>1. mem[p][j].status = "done"
    BY <1>1 DEF JobResult
  <2>2. mem'[p][j].status = "done"
    BY <2>1 DEF DoneJobsStand
  <2>3. mem'[p][j].report
    BY <2>2 DEF IInv, DoneHasReport
  <2>. QED  BY <2>2, <2>3 DEF JobResult
<1>2. ASSUME RuleHistory(p, j) = "200 history"
      PROVE  RuleHistory(p, j)' = "200 history"
  <2>1. mem[p][j].status = "done" /\ mem[p][j].facts
    BY <1>2 DEF RuleHistory
  <2>2. mem'[p][j].status = "done" /\ mem'[p][j].facts
    BY <2>1 DEF DoneJobsStand
  <2>. QED  BY <2>2 DEF RuleHistory
<1>. QED  BY <1>1, <1>2

\* The page sees "done" in one request and fetches the result in a later one:
\* no step between the two, of any thread or process, takes the answer away.
THEOREM AnswersStay == Spec => AnswersKeepStanding
<1>1. IInv /\ IInv' /\ [Next]_vars => AnswersStand
  BY JobsStand, AnswersFollow
<1>. QED  BY <1>1, Invariant, PTL
          DEF Spec, AnswersKeepStanding, AnswersStand

-----------------------------------------------------------------------------
(***************************************************************************)
(* One process whose mining keeps to its budget: what the documentation    *)
(* says of a job holds there, and only there.                              *)
(***************************************************************************)
OneServer == ~MiningCanTimeOut /\ \E p \in Procs : Procs = {p}

Server == CHOOSE q \in Procs : TRUE

Shown(j) == mem[Server][j].status

\* No worker outlives the runner that joins it.
WorkerJoined ==
    \A j \in Jobs : WorkerAlive(j) => pc["runner"][j] = "join"

\* A runner that writes its last row has a Job object to write.
SealedIsShown ==
    \A j \in Jobs : pc["runner"][j] \in Sealing => Shown(j) # "absent"

\* Between mark_interrupted and the restore no row is running.
MarkedIsEnded ==
    \A j \in Jobs : up[Server] = "marked" => row[j].status \notin Running

AloneInv ==
    /\ RunningHasThread
    /\ WorkerJoined
    /\ SealedIsShown
    /\ MarkedIsEnded

USE DEF Threads, Requests, Saving, Callback, Sealing, Stages, Running, Outcomes,
        TERMINAL_STATUSES

\* The process of the lifecycle is the only one there is.
LEMMA TheServer ==
    ASSUME OneServer
    PROVE  Procs = {Server} /\ Server \in Procs
BY DEF OneServer, Server

\* A thread that runs, runs in the only process, which is up.
LEMMA AtHome ==
    ASSUME OneServer, IInv, NEW t \in Threads, NEW j \in Jobs,
           pc[t][j] # "off"
    PROVE  owner[j] = Server /\ up[Server] = "up"
BY TheServer DEF IInv, HomeInv

\* A step that neither starts nor ends a computation keeps AloneInv.
LEMMA QuietAlone ==
    ASSUME OneServer, AloneInv, UNCHANGED <<up, owner>>,
           \A j \in Jobs :
              /\ Shown(j)' = Shown(j)
              /\ LiveThread(j) => LiveThread(j)'
              /\ WorkerAlive(j)' => pc'["runner"][j] = "join"
              /\ pc'["runner"][j] \in Sealing => pc["runner"][j] \in Sealing
              /\ row'[j].status \in Running =>
                    row[j].status \in Running \/ up[Server] = "up"
    PROVE  AloneInv'
<1>1. RunningHasThread'
  BY TheServer DEF AloneInv, RunningHasThread, Shown
<1>. QED  BY <1>1 DEF AloneInv, WorkerJoined, SealedIsShown, MarkedIsEnded

\* AloneInv is kept by a step that only moves a thread.
LEMMA MovesAlone ==
    ASSUME OneServer, IInv, AloneInv, NEW t \in Threads, NEW j \in Jobs,
           NEW l, Moves(t, j, l),
           t = "load" => l # "off",
           UNCHANGED <<mem, up, owner>>,
           \A k \in Jobs : row'[k] = row[k] \/ k = j
    PROVE  AloneInv'
<1>1. \A u \in Threads, k \in Jobs :
         pc'[u][k] = IF u = t /\ k = j THEN l ELSE pc[u][k]
  BY GotoEffect DEF Moves, IInv
<1>2. up[Server] = "up"
  BY AtHome DEF Moves
<1>3. \A k \in Jobs : Shown(k)' = Shown(k)
  BY DEF Shown
<1>4. \A k \in Jobs : LiveThread(k) => LiveThread(k)'
  BY <1>1 DEF LiveThread, Moves
<1>5. \A k \in Jobs : WorkerAlive(k)' => pc'["runner"][k] = "join"
  BY <1>1 DEF AloneInv, WorkerJoined, WorkerAlive, WorkerEnded, Moves
<1>6. \A k \in Jobs : pc'["runner"][k] \in Sealing =>
                          pc["runner"][k] \in Sealing
  BY <1>1 DEF Moves
<1>. QED  BY <1>2, <1>3, <1>4, <1>5, <1>6, QuietAlone

\* AloneInv is kept when save_job writes a row, which then says what the job
\* says.
LEMMA WriteRowAlone ==
    ASSUME OneServer, IInv, AloneInv, NEW t \in Threads, NEW j \in Jobs,
           WriteRow(t, j)
    PROVE  AloneInv'
<1>1. /\ AfterSave(t, j) \in PcsOf(t)
      /\ t = "load" => AfterSave(t, j) # "off"
  BY DEF IInv, TypeOK, WriteRow, AfterSave, PcsOf
<1>2. Moves(t, j, AfterSave(t, j))
  BY <1>1 DEF IInv, TypeOK, WriteRow, AfterSave, Moves, PcsOf, WorkerAlive,
              WorkerEnded
<1>3. \A k \in Jobs : row'[k] = row[k] \/ k = j
  BY DEF IInv, TypeOK, WriteRow
<1>. QED  BY <1>1, <1>2, <1>3, MovesAlone DEF WriteRow

\* AloneInv is kept when a report is encoded, or not found.
LEMMA EncodeReportAlone ==
    ASSUME OneServer, IInv, AloneInv, NEW t \in Threads, NEW j \in Jobs,
           EncodeReport(t, j)
    PROVE  AloneInv'
<1>. DEFINE l == IF pc[t][j] = "encode" THEN "write" ELSE "sealWrite"
<1>1. Moves(t, j, l) /\ l # "off"
  BY DEF IInv, TypeOK, EncodeReport, Moves, PcsOf, WorkerAlive, WorkerEnded
<1>. QED  BY <1>1, MovesAlone DEF EncodeReport

\* AloneInv is kept by the reads and comparisons of progress_cb.
LEMMA CallbackAlone ==
    ASSUME OneServer, IInv, AloneInv, NEW t \in Threads, NEW j \in Jobs,
           CheckCancel(t, j) \/ CompareStatus(t, j) \/ NoteStatus(t, j)
    PROVE  AloneInv'
<1>1. \E l \in PcsOf(t) : Moves(t, j, l) /\ l # "off"
  <2>1. CASE CheckCancel(t, j)
    <3>. DEFINE l == IF TheJob(j).cancel THEN "cancelled" ELSE "update"
    <3>1. Moves(t, j, l)
      BY <2>1 DEF CheckCancel, Moves, IInv, TypeOK, PcsOf, WorkerAlive,
                  WorkerEnded
    <3>. QED  BY <3>1 DEF Moves
  <2>2. CASE CompareStatus(t, j)
    <3>. DEFINE l == IF TheJob(j).status # last[j] THEN "note" ELSE "work"
    <3>1. Moves(t, j, l)
      BY <2>2 DEF CompareStatus, Moves, IInv, TypeOK, PcsOf, WorkerAlive,
                  WorkerEnded
    <3>. QED  BY <3>1 DEF Moves
  <2>3. CASE NoteStatus(t, j)
    <3>1. Moves(t, j, "encode")
      BY <2>3 DEF NoteStatus, Moves, IInv, TypeOK, PcsOf, WorkerAlive,
                  WorkerEnded
    <3>. QED  BY <3>1 DEF Moves
  <2>. QED  BY <2>1, <2>2, <2>3
<1>. QED  BY <1>1, MovesAlone DEF CheckCancel, CompareStatus, NoteStatus

\* AloneInv is kept by the other steps that only move one thread.
LEMMA AdvanceAlone ==
    ASSUME OneServer, IInv, AloneInv, NEW j \in Jobs,
           \/ CacheHit(j)
           \/ ReportStage(j)
           \/ MineCommits(j)
           \/ EndWorker(j)
           \/ StartHistory(j)
    PROVE  AloneInv'
<1>1. \E t \in Threads : \E l \in PcsOf(t) :
         Moves(t, j, l) /\ (t = "load" => l # "off")
  <2>1. CASE CacheHit(j) \/ ReportStage(j)
    <3>1. Moves("runner", j, "check") /\ "check" \in PcsOf("runner")
      BY <2>1 DEF CacheHit, ReportStage, Moves, PcsOf
    <3>. QED  BY <3>1
  <2>2. CASE MineCommits(j)
    <3>1. Moves("worker", j, "check") /\ "check" \in PcsOf("worker")
      BY <2>2 DEF MineCommits, Moves, PcsOf, WorkerAlive, WorkerEnded
    <3>. QED  BY <3>1
  <2>3. CASE EndWorker(j)
    <3>1. \E l \in PcsOf("worker") : Moves("worker", j, l)
      BY <2>3 DEF EndWorker, Moves, PcsOf, WorkerAlive, WorkerEnded
    <3>. QED  BY <3>1
  <2>4. CASE StartHistory(j)
    <3>1. Moves("report", j, "off") /\ "off" \in PcsOf("report")
      BY <2>4 DEF StartHistory, Moves, PcsOf
    <3>. QED  BY <3>1
  <2>. QED  BY <2>1, <2>2, <2>3, <2>4
<1>. QED  BY <1>1, MovesAlone DEF CacheHit, ReportStage, MineCommits,
          EndWorker, StartHistory

\* AloneInv is kept when a computation passes to another thread.
LEMMA HandOverAlone ==
    ASSUME OneServer, IInv, AloneInv, NEW j \in Jobs,
           StartRunner(j) \/ StartWorker(j) \/ JoinWorker(j)
    PROVE  AloneInv'
<1>1. UNCHANGED <<mem, up, owner, row>>
  BY DEF StartRunner, StartWorker, JoinWorker
<1>2. \A t \in Threads, k \in Jobs : k # j => pc'[t][k] = pc[t][k]
  BY DEF IInv, TypeOK, StartRunner, StartWorker, JoinWorker
<1>3. /\ LiveThread(j)'
      /\ WorkerAlive(j)' => pc'["runner"][j] = "join"
      /\ pc'["runner"][j] \notin Sealing
  <2>1. CASE StartRunner(j)
    <3>1. /\ pc'["runner"][j] = "start"
          /\ pc'["worker"][j] = pc["worker"][j]
      BY <2>1 DEF IInv, TypeOK, StartRunner
    <3>2. pc["worker"][j] = "off"
      BY <2>1 DEF IInv, RequestInv, StartRunner
    <3>. QED  BY <3>1, <3>2 DEF LiveThread, WorkerAlive, WorkerEnded
  <2>2. CASE StartWorker(j)
    <3>1. pc'["runner"][j] = "join"
      BY <2>2 DEF IInv, TypeOK, StartWorker
    <3>. QED  BY <3>1 DEF LiveThread
  <2>3. CASE JoinWorker(j)
    <3>1. /\ pc'["runner"][j] \in {"work", "cancelled"}
          /\ pc'["worker"][j] = "off"
      BY <2>3 DEF IInv, TypeOK, JoinWorker
    <3>. QED  BY <3>1 DEF LiveThread, WorkerAlive, WorkerEnded
  <2>. QED  BY <2>1, <2>2, <2>3
<1>4. \A k \in Jobs :
         /\ Shown(k)' = Shown(k)
         /\ LiveThread(k) => LiveThread(k)'
         /\ WorkerAlive(k)' => pc'["runner"][k] = "join"
         /\ pc'["runner"][k] \in Sealing => pc["runner"][k] \in Sealing
  BY <1>1, <1>2, <1>3 DEF AloneInv, WorkerJoined, LiveThread, Shown,
                          WorkerAlive, WorkerEnded
<1>. QED  BY <1>1, <1>4, QuietAlone

\* Stop and the history of a rule leave every status as it is.
LEMMA FlagsShow ==
    ASSUME OneServer, IInv, NEW p \in Procs, NEW j \in Jobs,
           CancelJob(p, j) \/ MineForHistory(p, j)
    PROVE  \A k \in Jobs : Shown(k)' = Shown(k)
<1>1. mem \in [Procs -> [Jobs -> Job]] /\ Server \in Procs
  BY TheServer DEF IInv, TypeOK
<1>2. CASE UNCHANGED mem
  BY <1>2 DEF Shown
<1>3. CASE mem' = [mem EXCEPT ![p][j].cancel = TRUE]
  BY <1>1, <1>3 DEF Job, Shown
<1>4. CASE mem' = [mem EXCEPT ![p][j].facts = TRUE]
  BY <1>1, <1>4 DEF Job, Shown
<1>. QED  BY <1>2, <1>3, <1>4 DEF CancelJob, MineForHistory

\* AloneInv is kept by what changes a Job object but not its status.
LEMMA FlagsAlone ==
    ASSUME OneServer, IInv, AloneInv, NEW p \in Procs, NEW j \in Jobs,
           CancelJob(p, j) \/ MineForHistory(p, j)
    PROVE  AloneInv'
<1>1. UNCHANGED <<up, owner, row, pc>>
  BY DEF CancelJob, MineForHistory
<1>. QED  BY <1>1, FlagsShow, QuietAlone
          DEF AloneInv, WorkerJoined, LiveThread, WorkerAlive, WorkerEnded

\* progress_cb shows the stage of a job that is computed.
LEMMA SetStageShows ==
    ASSUME OneServer, IInv, AloneInv, NEW t \in Threads, NEW j \in Jobs,
           SetStage(t, j)
    PROVE  /\ owner[j] = Server /\ up[Server] = "up"
           /\ RunnerComputing(j)
           /\ \A k \in Jobs :
                 Shown(k)' = IF k = j THEN stage[j] ELSE Shown(k)
           /\ \A u \in Threads, k \in Jobs :
                 pc'[u][k] = IF u = t /\ k = j THEN "compare" ELSE pc[u][k]
<1>1. pc[t][j] = "update" /\ "compare" \in PcsOf(t)
  BY DEF SetStage, IInv, TypeOK, PcsOf
<1>2. owner[j] = Server /\ up[Server] = "up"
  BY <1>1, AtHome
<1>3. RunnerComputing(j)
  BY <1>1 DEF IInv, TypeOK, PcsOf, AloneInv, WorkerJoined, RunnerComputing,
              WorkerAlive, WorkerEnded
<1>4. \A k \in Jobs : Shown(k)' = IF k = j THEN stage[j] ELSE Shown(k)
  <2>1. mem \in [Procs -> [Jobs -> Job]] /\ Server \in Procs
    BY TheServer DEF IInv, TypeOK
  <2>2. mem' = [mem EXCEPT ![Server][j].status = stage[j]]
    BY <1>2 DEF SetStage
  <2>. QED  BY <2>1, <2>2 DEF Job, Shown
<1>5. \A u \in Threads, k \in Jobs :
         pc'[u][k] = IF u = t /\ k = j THEN "compare" ELSE pc[u][k]
  BY <1>1, GotoEffect DEF SetStage, IInv
<1>. QED  BY <1>2, <1>3, <1>4, <1>5

\* AloneInv is kept when progress_cb sets a stage.
LEMMA SetStageAlone ==
    ASSUME OneServer, IInv, AloneInv, NEW t \in Threads, NEW j \in Jobs,
           SetStage(t, j)
    PROVE  AloneInv'
<1>1. UNCHANGED <<row, up, owner>>
  BY DEF SetStage
<1>2. \A k \in Jobs :
         /\ LiveThread(k) => LiveThread(k)'
         /\ WorkerAlive(k)' => WorkerAlive(k)
         /\ pc["runner"][k] = "join" => pc'["runner"][k] = "join"
         /\ pc'["runner"][k] \in Sealing => pc["runner"][k] \in Sealing
  <2>1. /\ pc[t][j] = "update"
        /\ \A u \in Threads, k \in Jobs :
              pc'[u][k] = IF u = t /\ k = j THEN "compare" ELSE pc[u][k]
    BY SetStageShows DEF SetStage
  <2>2. \A k \in Jobs : WorkerAlive(k)' => WorkerAlive(k)
    BY <2>1 DEF WorkerAlive, WorkerEnded
  <2>3. \A k \in Jobs : LiveThread(k) => LiveThread(k)'
    BY <2>1 DEF LiveThread
  <2>4. \A k \in Jobs :
           /\ pc["runner"][k] = "join" => pc'["runner"][k] = "join"
           /\ pc'["runner"][k] \in Sealing => pc["runner"][k] \in Sealing
    BY <2>1
  <2>. QED  BY <2>2, <2>3, <2>4
<1>3. owner[j] = Server /\ LiveThread(j) /\ stage[j] # "absent"
  BY SetStageShows DEF IInv, TypeOK, LiveThread, RunnerComputing
<1>4. RunningHasThread'
  BY TheServer, SetStageShows, <1>1, <1>2, <1>3
     DEF AloneInv, RunningHasThread, Shown
<1>5. SealedIsShown'
  BY SetStageShows, <1>2, <1>3 DEF AloneInv, SealedIsShown
<1>6. WorkerJoined' /\ MarkedIsEnded'
  BY <1>1, <1>2 DEF AloneInv, WorkerJoined, MarkedIsEnded
<1>. QED  BY <1>4, <1>5, <1>6 DEF AloneInv

FinishStep(j) ==
    FinishDone(j) \/ FinishCancelled(j) \/ FinishError(j) \/ FinishTimeout(j)

\* _run_job ends a job that is shown as running, with an outcome, and leaves
\* no worker behind.
LEMMA FinishShows ==
    ASSUME OneServer, IInv, AloneInv, NEW j \in Jobs, FinishStep(j)
    PROVE  /\ owner[j] = Server /\ up[Server] = "up"
           /\ Shown(j) \in Running /\ ~WorkerAlive(j)
           /\ \E s \in Outcomes : \A k \in Jobs :
                 Shown(k)' = IF k = j THEN s ELSE Shown(k)
           /\ \A u \in Threads, k \in Jobs :
                 pc'[u][k] = IF u = "runner" /\ k = j THEN "seal"
                             ELSE pc[u][k]
<1>1. /\ RunnerComputing(j)
      /\ pc["runner"][j] = "join" => WorkerEnded(j)
  BY DEF OneServer, FinishStep, FinishDone, FinishCancelled, FinishError,
         FinishTimeout, RunnerComputing, WorkerEnded
<1>2. owner[j] = Server /\ up[Server] = "up"
  BY <1>1, AtHome DEF RunnerComputing
<1>3. Shown(j) \in Running
  BY <1>1, <1>2 DEF IInv, RunnerInv, TheJob, Shown
<1>4. ~WorkerAlive(j)
  BY <1>1 DEF AloneInv, WorkerJoined, WorkerAlive
<1>5. PICK s \in Outcomes : Settle(j, s)
  BY DEF FinishStep, FinishDone, FinishCancelled, FinishError, FinishTimeout
<1>6. \A k \in Jobs : Shown(k)' = IF k = j THEN s ELSE Shown(k)
  BY <1>1, <1>2, <1>5, TheServer, SettleEffect DEF IInv, Shown
<1>7. "seal" \in PcsOf("runner") /\ Goto("runner", j, "seal")
  BY DEF FinishStep, FinishDone, FinishCancelled, FinishError, FinishTimeout,
         PcsOf
<1>8. \A u \in Threads, k \in Jobs :
         pc'[u][k] = IF u = "runner" /\ k = j THEN "seal" ELSE pc[u][k]
  BY <1>7, GotoEffect DEF IInv
<1>. QED  BY <1>2, <1>3, <1>4, <1>6, <1>8

\* AloneInv is kept when _run_job ends.
LEMMA FinishAlone ==
    ASSUME OneServer, IInv, AloneInv, NEW j \in Jobs, FinishStep(j)
    PROVE  AloneInv'
<1>1. UNCHANGED <<row, up, owner>>
  BY DEF FinishStep, FinishDone, FinishCancelled, FinishError, FinishTimeout
<1>2. \A k \in Jobs :
         /\ k # j /\ LiveThread(k) => LiveThread(k)'
         /\ WorkerAlive(k)' => WorkerAlive(k) /\ k # j
         /\ k # j => pc'["runner"][k] = pc["runner"][k]
  BY FinishShows DEF LiveThread, WorkerAlive, WorkerEnded
<1>3. Shown(j)' \notin Running /\ Shown(j)' # "absent"
  BY FinishShows
<1>4. \A k \in Jobs : k # j => Shown(k)' = Shown(k)
  BY FinishShows
<1>5. RunningHasThread'
  BY TheServer, <1>1, <1>2, <1>3, <1>4 DEF AloneInv, RunningHasThread, Shown
<1>6. WorkerJoined' /\ SealedIsShown' /\ MarkedIsEnded'
  BY <1>1, <1>2, <1>3, <1>4
     DEF AloneInv, WorkerJoined, SealedIsShown, MarkedIsEnded
<1>. QED  BY <1>5, <1>6 DEF AloneInv

\* A new job is shown as running or done, by the only process.
LEMMA LoadShows ==
    ASSUME OneServer, IInv, NEW p \in Procs, NEW j \in Jobs,
           LoadRepo(p, j) \/ LoadFromReport(p, j)
    PROVE  /\ p = Server /\ up[Server] = "up" /\ owner[j] = NoProc
           /\ owner' = [owner EXCEPT ![j] = Server]
           /\ Shown(j) = "absent" /\ row[j].status = "absent"
           /\ Shown(j)' \in {"pending", "done"}
           /\ Shown(j)' = "pending" => pc'["load"][j] = "encode"
           /\ \A k \in Jobs : k # j => Shown(k)' = Shown(k)
           /\ \A t \in Threads : pc[t][j] = "off"
           /\ \A t \in Threads, k \in Jobs :
                 t \notin Requests \/ k # j => pc'[t][k] = pc[t][k]
<1>1. p = Server /\ owner[j] = NoProc /\ up[Server] = "up"
  BY TheServer DEF LoadRepo, LoadFromReport
<1>2. owner' = [owner EXCEPT ![j] = Server]
  BY <1>1 DEF LoadRepo, LoadFromReport
<1>3. Shown(j) = "absent" /\ row[j].status = "absent"
  BY <1>1, TheServer DEF IInv, UnusedInv, Shown
<1>4. \A t \in Threads : pc[t][j] = "off"
  BY <1>1, ConstantsAssumption DEF IInv, HomeInv
<1>5. \E s \in {"pending", "done"} :
         /\ mem' = [mem EXCEPT ![Server][j] = NewJob(s)]
         /\ s = "pending" => Goto("load", j, "encode")
  BY <1>1 DEF LoadRepo, LoadFromReport
<1>6. \E s \in {"pending", "done"} :
         /\ s = "pending" => Goto("load", j, "encode")
         /\ \A k \in Jobs : Shown(k)' = IF k = j THEN s ELSE Shown(k)
  BY <1>5, TheServer DEF IInv, TypeOK, Shown, NewJob
<1>7. \E t \in Requests : Goto(t, j, "encode")
  BY DEF LoadRepo, LoadFromReport
<1>8. \A t \in Threads, k \in Jobs :
         t \notin Requests \/ k # j => pc'[t][k] = pc[t][k]
  BY <1>7 DEF Goto, IInv, TypeOK
<1>9. Goto("load", j, "encode") => pc'["load"][j] = "encode"
  BY DEF Goto, IInv, TypeOK
<1>. QED  BY <1>1, <1>2, <1>3, <1>4, <1>6, <1>8, <1>9

\* AloneInv is kept by the requests that create a job.
LEMMA LoadAlone ==
    ASSUME OneServer, IInv, AloneInv, NEW p \in Procs, NEW j \in Jobs,
           LoadRepo(p, j) \/ LoadFromReport(p, j)
    PROVE  AloneInv'
<1>1. UNCHANGED <<row, up>>
  BY DEF LoadRepo, LoadFromReport
<1>2. \A k \in Jobs : owner'[k] = IF k = j THEN Server ELSE owner[k]
  BY LoadShows DEF IInv, TypeOK
<1>3. /\ pc'["runner"][j] = "off" /\ ~WorkerAlive(j)'
      /\ Shown(j)' \in Running => LiveThread(j)'
  <2>1. pc'["runner"][j] = "off" /\ pc'["worker"][j] = "off"
    BY LoadShows
  <2>2. Shown(j)' \in Running => pc'["load"][j] = "encode"
    BY LoadShows
  <2>. QED  BY <2>1, <2>2 DEF WorkerAlive, WorkerEnded, LiveThread
<1>4. \A k \in Jobs : k # j =>
         /\ Shown(k)' = Shown(k)
         /\ LiveThread(k) => LiveThread(k)'
         /\ WorkerAlive(k)' => WorkerAlive(k)
         /\ pc'["runner"][k] = pc["runner"][k]
  <2>1. \A t \in Threads, k \in Jobs : k # j => pc'[t][k] = pc[t][k]
    BY LoadShows
  <2>2. \A k \in Jobs : k # j => Shown(k)' = Shown(k)
    BY LoadShows
  <2>. QED  BY <2>1, <2>2 DEF LiveThread, WorkerAlive, WorkerEnded
<1>5. RunningHasThread'
  BY TheServer, <1>2, <1>3, <1>4 DEF AloneInv, RunningHasThread, Shown
<1>6. WorkerJoined' /\ SealedIsShown' /\ MarkedIsEnded'
  BY <1>1, <1>3, <1>4
     DEF AloneInv, WorkerJoined, SealedIsShown, MarkedIsEnded
<1>. QED  BY <1>5, <1>6 DEF AloneInv

\* While the process does not serve, no thread runs.
LEMMA NoThreads ==
    ASSUME OneServer, IInv, up[Server] # "up",
           NEW t \in Threads, NEW j \in Jobs
    PROVE  pc[t][j] = "off"
BY AtHome

\* What is shown when the process dies, and when it has started again.
LEMMA ServerShows ==
    ASSUME OneServer, IInv, NEW p \in Procs, ServerStep(p)
    PROVE  /\ p = Server
           /\ Crash(p) => \A k \in Jobs : Shown(k)' = "absent"
           /\ MarkInterrupted(p) => \A k \in Jobs :
                 /\ Shown(k) = "absent" /\ Shown(k)' = "absent"
                 /\ row'[k].status = IF row[k].status \in Running
                                     THEN "interrupted" ELSE row[k].status
           /\ RestoreJobs(p) => \A k \in Jobs :
                 /\ Shown(k) = "absent" /\ Shown(k)' = row[k].status
<1>1. p = Server
  BY TheServer
<1>2. ASSUME Crash(p), NEW k \in Jobs
      PROVE  Shown(k)' = "absent"
  BY <1>1, <1>2 DEF Crash, IInv, TypeOK, Shown, NoJob, NewJob
<1>3. ASSUME MarkInterrupted(p), NEW k \in Jobs
      PROVE  /\ Shown(k) = "absent" /\ Shown(k)' = "absent"
             /\ row'[k].status = IF row[k].status \in Running
                                 THEN "interrupted" ELSE row[k].status
  <2>1. Shown(k) = "absent" /\ Shown(k)' = Shown(k)
    BY <1>1, <1>3 DEF MarkInterrupted, IInv, DownInv, Shown
  <2>2. row[k] \in Row
    BY DEF IInv, TypeOK
  <2>3. row'[k] = IF row[k].status \in TERMINAL_STATUSES \cup {"absent"}
                  THEN row[k]
                  ELSE [row[k] EXCEPT !.status = "interrupted"]
    BY <1>3 DEF MarkInterrupted
  <2>. QED  BY <2>1, <2>2, <2>3 DEF Row, Statuses
<1>4. ASSUME RestoreJobs(p), NEW k \in Jobs
      PROVE  Shown(k) = "absent" /\ Shown(k)' = row[k].status
  BY <1>1, <1>4 DEF RestoreJobs, IInv, TypeOK, DownInv, Shown
<1>. QED  BY <1>1, <1>2, <1>3, <1>4

\* AloneInv is kept when the process dies and when it starts again.
LEMMA ServerAlone ==
    ASSUME OneServer, IInv, AloneInv, NEW p \in Procs, ServerStep(p)
    PROVE  AloneInv'
<1>1. p = Server
  BY TheServer
<1>2. \A k \in Jobs : Shown(k)' \notin Running
  BY <1>1, ServerShows DEF ServerStep, AloneInv, MarkedIsEnded, RestoreJobs
<1>3. \A t \in Threads, k \in Jobs : pc'[t][k] = "off"
  <2>1. CASE Crash(p)
    BY <1>1, <2>1, AtHome DEF Crash
  <2>2. CASE MarkInterrupted(p) \/ RestoreJobs(p)
    BY <1>1, <2>2, NoThreads DEF MarkInterrupted, RestoreJobs
  <2>. QED  BY <2>1, <2>2 DEF ServerStep
<1>4. MarkedIsEnded'
  <2>1. CASE MarkInterrupted(p)
    <3>1. \A k \in Jobs : row'[k].status \notin Running
      BY <2>1, ServerShows
    <3>. QED  BY <3>1 DEF MarkedIsEnded
  <2>2. CASE Crash(p) \/ RestoreJobs(p)
    <3>1. up'[Server] # "marked"
      BY <1>1, <2>2 DEF Crash, RestoreJobs, IInv, TypeOK
    <3>. QED  BY <3>1 DEF MarkedIsEnded
  <2>. QED  BY <2>1, <2>2 DEF ServerStep
<1>5. RunningHasThread'
  BY <1>2, TheServer DEF RunningHasThread, Shown
<1>6. WorkerJoined' /\ SealedIsShown'
  BY <1>3 DEF WorkerJoined, SealedIsShown, WorkerAlive, WorkerEnded
<1>. QED  BY <1>4, <1>5, <1>6 DEF AloneInv

\* AloneInv holds at the start, when the process is down and no thread runs.
LEMMA InitAlone == OneServer /\ Init => AloneInv
<1>. SUFFICES ASSUME OneServer, Init PROVE AloneInv
  OBVIOUS
<1>1. \A p \in Procs, j \in Jobs : mem[p][j].status = "absent"
  BY DEF Init, NoJob, NewJob
<1>2. \A t \in Threads, j \in Jobs : pc[t][j] = "off"
  BY DEF Init
<1>3. up[Server] = "down"
  BY TheServer DEF Init
<1>. QED  BY <1>1, <1>2, <1>3 DEF AloneInv, RunningHasThread, WorkerJoined,
          SealedIsShown, MarkedIsEnded, WorkerAlive, WorkerEnded

\* What a step of one server can be, seen from the jobs it shows.
LEMMA StepKinds ==
    ASSUME Next
    PROVE  \/ \E t \in Threads, j \in Jobs :
                 \/ EncodeReport(t, j)
                 \/ WriteRow(t, j)
                 \/ CheckCancel(t, j)
                 \/ CompareStatus(t, j)
                 \/ NoteStatus(t, j)
                 \/ SetStage(t, j)
           \/ \E j \in Jobs :
                 \/ CacheHit(j)
                 \/ ReportStage(j)
                 \/ MineCommits(j)
                 \/ EndWorker(j)
                 \/ StartHistory(j)
           \/ \E j \in Jobs : StartRunner(j) \/ StartWorker(j) \/ JoinWorker(j)
           \/ \E j \in Jobs : FinishStep(j)
           \/ \E p \in Procs, j \in Jobs : CancelJob(p, j) \/ MineForHistory(p, j)
           \/ \E p \in Procs, j \in Jobs : LoadRepo(p, j) \/ LoadFromReport(p, j)
           \/ \E p \in Procs : ServerStep(p)
<1>1. ASSUME NEW j \in Jobs, RequestStep(j)
      PROVE  \/ \E t \in Threads : EncodeReport(t, j) \/ WriteRow(t, j)
             \/ StartRunner(j) \/ StartHistory(j)
  BY <1>1 DEF RequestStep
<1>2. ASSUME NEW j \in Jobs, RunnerStep(j)
      PROVE  \/ ProgressStep("runner", j)
             \/ CacheHit(j) \/ ReportStage(j)
             \/ StartWorker(j) \/ JoinWorker(j)
             \/ FinishStep(j)
  BY <1>2 DEF RunnerStep, FinishStep
<1>3. ASSUME NEW j \in Jobs, WorkerStep(j)
      PROVE  ProgressStep("worker", j) \/ MineCommits(j) \/ EndWorker(j)
  BY <1>3 DEF WorkerStep
<1>4. ASSUME NEW t \in Threads, NEW j \in Jobs, ProgressStep(t, j)
      PROVE  \/ EncodeReport(t, j) \/ WriteRow(t, j)
             \/ CheckCancel(t, j) \/ CompareStatus(t, j)
             \/ NoteStatus(t, j) \/ SetStage(t, j)
  BY <1>4 DEF ProgressStep
<1>5. "runner" \in Threads /\ "worker" \in Threads
  OBVIOUS
<1>. HIDE DEF Threads
<1>. QED  BY <1>1, <1>2, <1>3, <1>4, <1>5 DEF Next, ClientStep

\* AloneInv is inductive, beside the invariant of every deployment.
LEMMA NextAlone == OneServer /\ IInv /\ AloneInv /\ [Next]_vars => AloneInv'
<1>. SUFFICES ASSUME OneServer, IInv, AloneInv, [Next]_vars PROVE AloneInv'
  OBVIOUS
<1>1. CASE Next
  BY <1>1, StepKinds, EncodeReportAlone, WriteRowAlone, CallbackAlone,
     SetStageAlone, AdvanceAlone, HandOverAlone, FinishAlone, FlagsAlone,
     LoadAlone, ServerAlone
<1>2. CASE UNCHANGED vars
  BY <1>2 DEF vars, AloneInv, RunningHasThread, WorkerJoined, SealedIsShown,
              MarkedIsEnded, LiveThread, WorkerAlive, WorkerEnded, Shown
<1>. QED  BY <1>1, <1>2

\* The invariants of one server.
LEMMA AloneInvariant == ASSUME OneServer PROVE Spec => [](IInv /\ AloneInv)
<1>1. Init => AloneInv
  BY InitAlone
<1>2. IInv /\ AloneInv /\ [Next]_vars => AloneInv'
  BY NextAlone
<1>. QED  BY <1>1, <1>2, Invariant, PTL DEF Spec

\* In one server whose mining keeps to its budget, a job shown as running has
\* a thread in this very process that will end it: no interleaving of Stop,
\* worker, row writes, death and restart shows a job in progress that nobody
\* computes.
THEOREM RunningJobsHaveThreads ==
    ASSUME OneServer
    PROVE  Spec => []RunningHasThread
<1>1. AloneInv => RunningHasThread
  BY DEF AloneInv
<1>. QED  BY <1>1, AloneInvariant, PTL

-----------------------------------------------------------------------------
(***************************************************************************)
(* One server implements JobLifecycle: a load is Submit, the end of        *)
(* _run_job is End, a row written is Record, death is Die, the startup     *)
(* pass is Reclassify and the restore is Reveal; all else stutters.        *)
(***************************************************************************)
\* What the lifecycle sees of a job.
LEMMA PhaseShown ==
    /\ ShownPhase = [j \in Jobs |-> Phase(Shown(j))]
    /\ ShownPhase' = [j \in Jobs |-> Phase(Shown(j)')]
    /\ DurablePhase = [j \in Jobs |-> Phase(row[j].status)]
    /\ DurablePhase' = [j \in Jobs |-> Phase(row'[j].status)]
BY DEF ShownPhase, DurablePhase, Shown, Server

\* Only running statuses are seen as running, and only absent ones as absent.
LEMMA PhaseOf ==
    ASSUME NEW s \in Statuses
    PROVE  /\ Phase(s) = "running" <=> s \in Running
           /\ Phase(s) = "absent" <=> s = "absent"
           /\ s \notin Running => Phase(s) = s
BY DEF Phase, Statuses

\* A thread that writes a row has a job to write.
LEMMA WriterIsShown ==
    ASSUME OneServer, IInv, AloneInv, NEW t \in Threads, NEW j \in Jobs,
           pc[t][j] \in {"write", "sealWrite"}
    PROVE  /\ TheJob(j).status = Shown(j)
           /\ Shown(j) \in Statuses \ {"absent"}
<1>1. TheJob(j).status = Shown(j)
  BY AtHome DEF TheJob, Shown
<1>2. Shown(j) \in Statuses
  BY TheServer DEF IInv, TypeOK, Job, Shown
<1>3. CASE t \in Requests
  BY <1>1, <1>2, <1>3 DEF IInv, RequestInv
<1>4. CASE t = "runner"
  BY <1>1, <1>2, <1>4 DEF IInv, RunnerInv, RunnerComputing, AloneInv, SealedIsShown
<1>5. CASE t = "worker"
  <2>1. RunnerComputing(j)
    BY <1>5 DEF AloneInv, WorkerJoined, WorkerAlive, WorkerEnded,
                RunnerComputing
  <2>. QED  BY <1>1, <1>2, <2>1 DEF IInv, RunnerInv
<1>. QED  BY <1>1, <1>2, <1>3, <1>4, <1>5

\* A step after which every phase is what it was stutters.
LEMMA PhasesStutter ==
    ASSUME \A j \in Jobs : /\ Phase(Shown(j)') = Phase(Shown(j))
                           /\ row'[j] = row[j]
    PROVE  UNCHANGED <<ShownPhase, DurablePhase>>
BY PhaseShown

\* Loading a job is Submit.
LEMMA LoadSubmits ==
    ASSUME OneServer, IInv, NEW p \in Procs, NEW j \in Jobs,
           LoadRepo(p, j) \/ LoadFromReport(p, j)
    PROVE  Promise!Submit(j)
<1>1. row' = row
  BY DEF LoadRepo, LoadFromReport
<1>2. /\ Shown(j) = "absent" /\ row[j].status = "absent"
      /\ Shown(j)' \in {"pending", "done"}
      /\ \A k \in Jobs : k # j => Shown(k)' = Shown(k)
  BY LoadShows
<1>3. ShownPhase[j] = "absent" /\ DurablePhase[j] = "absent"
  BY <1>2, PhaseShown DEF Phase
<1>4. Phase(Shown(j)') \in {"running", "done"}
  BY <1>2 DEF Phase
<1>5. ShownPhase' = [ShownPhase EXCEPT ![j] = Phase(Shown(j)')]
  BY <1>2, PhaseShown
<1>6. DurablePhase' = DurablePhase
  BY <1>1, PhaseShown
<1>. QED  BY <1>3, <1>4, <1>5, <1>6 DEF Promise!Submit

\* The end of _run_job is End.
LEMMA FinishEnds ==
    ASSUME OneServer, IInv, AloneInv, NEW j \in Jobs, FinishStep(j)
    PROVE  Promise!End(j)
<1>1. row' = row
  BY DEF FinishStep, FinishDone, FinishCancelled, FinishError, FinishTimeout
<1>2. PICK s \in Outcomes :
         \A k \in Jobs : Shown(k)' = IF k = j THEN s ELSE Shown(k)
  BY FinishShows
<1>3. ShownPhase[j] = "running"
  BY FinishShows, PhaseShown DEF Phase
<1>4. Phase(Shown(j)') = s
  BY <1>2 DEF Phase
<1>5. ShownPhase' = [ShownPhase EXCEPT ![j] = s]
  BY <1>2, <1>4, PhaseShown
<1>6. DurablePhase' = DurablePhase
  BY <1>1, PhaseShown
<1>. QED  BY <1>3, <1>5, <1>6 DEF Promise!End

\* A row that save_job writes is Record, one it fails to write stutters.
LEMMA WriteRowRecords ==
    ASSUME OneServer, IInv, AloneInv, NEW t \in Threads, NEW j \in Jobs,
           WriteRow(t, j)
    PROVE  Promise!Record(j) \/ UNCHANGED <<ShownPhase, DurablePhase>>
<1>1. \A k \in Jobs : Shown(k)' = Shown(k)
  BY DEF WriteRow, Shown
<1>2. CASE UNCHANGED row
  BY <1>1, <1>2, PhasesStutter
<1>3. CASE row' = [row EXCEPT ![j] = [status |-> TheJob(j).status,
                                      report |-> encoded[t][j]]]
  <2>1. TheJob(j).status = Shown(j) /\ Shown(j) \in Statuses \ {"absent"}
    BY WriterIsShown DEF WriteRow
  <2>2. ShownPhase[j] # "absent"
    BY <2>1, PhaseShown, PhaseOf
  <2>3. \A k \in Jobs : row'[k].status = IF k = j THEN Shown(j)
                                         ELSE row[k].status
    BY <1>3, <2>1 DEF IInv, TypeOK
  <2>4. DurablePhase' = [DurablePhase EXCEPT ![j] = ShownPhase[j]]
    BY <2>3, PhaseShown
  <2>5. ShownPhase' = ShownPhase
    BY <1>1, PhaseShown
  <2>. QED  BY <2>2, <2>4, <2>5 DEF Promise!Record
<1>. QED  BY <1>2, <1>3 DEF WriteRow

\* progress_cb goes from stage to stage of a job seen as running.
LEMMA SetStageStutters ==
    ASSUME OneServer, IInv, AloneInv, NEW t \in Threads, NEW j \in Jobs,
           SetStage(t, j)
    PROVE  UNCHANGED <<ShownPhase, DurablePhase>>
<1>1. row' = row
  BY DEF SetStage
<1>2. \A k \in Jobs : Shown(k)' = IF k = j THEN stage[j] ELSE Shown(k)
  BY SetStageShows
<1>3. Shown(j) \in Running
  <2>1. RunnerComputing(j) /\ owner[j] = Server
    BY SetStageShows
  <2>. QED  BY <2>1 DEF IInv, RunnerInv, TheJob, Shown
<1>4. stage[j] \in Running
  BY DEF IInv, TypeOK
<1>. QED  BY <1>1, <1>2, <1>3, <1>4, PhasesStutter DEF Phase

\* The death of the process is Die, the startup pass Reclassify, the restore
\* Reveal.
LEMMA ServerStepMaps ==
    ASSUME OneServer, IInv, AloneInv, NEW p \in Procs, ServerStep(p)
    PROVE  Promise!Die \/ Promise!Reclassify \/ Promise!Reveal
<1>0. \A k \in Jobs : row[k].status \in Statuses
  BY DEF IInv, TypeOK, Row
<1>1. CASE Crash(p)
  <2>1. row' = row /\ \A k \in Jobs : Shown(k)' = "absent"
    BY <1>1, ServerShows DEF Crash
  <2>2. ShownPhase' = [k \in Jobs |-> "absent"]
    BY <2>1, PhaseShown DEF Phase
  <2>3. DurablePhase' = DurablePhase
    BY <2>1, PhaseShown
  <2>. QED  BY <2>2, <2>3 DEF Promise!Die
<1>2. CASE MarkInterrupted(p)
  <2>1. \A k \in Jobs :
           /\ Shown(k) = "absent" /\ Shown(k)' = "absent"
           /\ row'[k].status = IF row[k].status \in Running
                               THEN "interrupted" ELSE row[k].status
    BY <1>2, ServerShows
  <2>2. \A k \in Jobs : ShownPhase[k] = "absent"
    BY <2>1, PhaseShown DEF Phase
  <2>3. ShownPhase' = ShownPhase
    BY <2>1, PhaseShown
  <2>4. \A k \in Jobs :
           Phase(row'[k].status) = IF Phase(row[k].status) = "running"
                                   THEN "interrupted"
                                   ELSE Phase(row[k].status)
    BY <1>0, <2>1 DEF Phase, Statuses
  <2>5. DurablePhase' = [k \in Jobs |-> IF DurablePhase[k] = "running"
                                        THEN "interrupted"
                                        ELSE DurablePhase[k]]
    BY <2>4, PhaseShown
  <2>. QED  BY <2>2, <2>3, <2>5 DEF Promise!Reclassify
<1>3. CASE RestoreJobs(p)
  <2>1. row' = row /\ up[Server] = "marked"
    BY <1>3, ServerShows DEF RestoreJobs
  <2>2. \A k \in Jobs : Shown(k) = "absent" /\ Shown(k)' = row[k].status
    BY <1>3, ServerShows
  <2>3. \A k \in Jobs : row[k].status \notin Running
    BY <2>1 DEF AloneInv, MarkedIsEnded
  <2>4. \A k \in Jobs : ShownPhase[k] = "absent" /\ DurablePhase[k] # "running"
    BY <1>0, <2>2, <2>3, PhaseShown DEF Phase, Statuses
  <2>5. ShownPhase' = DurablePhase /\ DurablePhase' = DurablePhase
    BY <2>1, <2>2, PhaseShown
  <2>. QED  BY <2>4, <2>5 DEF Promise!Reveal
<1>. QED  BY <1>1, <1>2, <1>3 DEF ServerStep

\* The other steps change no status and no row.
LEMMA QuietStutters ==
    ASSUME OneServer, IInv,
           \/ \E t \in Threads, j \in Jobs :
                 \/ EncodeReport(t, j) \/ CheckCancel(t, j)
                 \/ CompareStatus(t, j) \/ NoteStatus(t, j)
           \/ \E j \in Jobs :
                 \/ CacheHit(j)
                 \/ ReportStage(j)
                 \/ MineCommits(j)
                 \/ EndWorker(j)
                 \/ StartHistory(j)
           \/ \E j \in Jobs : StartRunner(j) \/ StartWorker(j) \/ JoinWorker(j)
    PROVE  UNCHANGED <<ShownPhase, DurablePhase>>
<1>1. UNCHANGED <<mem, row>>
  BY DEF EncodeReport, CheckCancel, CompareStatus, NoteStatus, CacheHit,
         ReportStage, MineCommits, EndWorker, StartHistory, StartRunner, StartWorker,
         JoinWorker
<1>. QED  BY <1>1, PhasesStutter DEF Shown

\* Every step of one server is a step of the lifecycle, or a stutter.
LEMMA StepMaps ==
    OneServer /\ IInv /\ AloneInv /\ [Next]_vars
       => [Promise!LifeNext]_<<ShownPhase, DurablePhase>>
<1>. SUFFICES ASSUME OneServer, IInv, AloneInv, [Next]_vars
              PROVE  [Promise!LifeNext]_<<ShownPhase, DurablePhase>>
  OBVIOUS
<1>1. CASE UNCHANGED vars
  BY <1>1, PhasesStutter DEF vars, Shown
<1>2. ASSUME NEW p \in Procs, NEW j \in Jobs,
             CancelJob(p, j) \/ MineForHistory(p, j)
      PROVE  UNCHANGED <<ShownPhase, DurablePhase>>
  <2>1. row' = row
    BY <1>2 DEF CancelJob, MineForHistory
  <2>. QED  BY <1>2, <2>1, FlagsShow, PhasesStutter
<1>3. CASE Next
  BY <1>2, <1>3, StepKinds, QuietStutters, WriteRowRecords, SetStageStutters,
     FinishEnds, LoadSubmits, ServerStepMaps DEF Promise!LifeNext
<1>. QED  BY <1>1, <1>3

\* One server starts as the lifecycle does: no job, no row.
LEMMA InitMaps == OneServer /\ Init => Promise!LifeInit
<1>. SUFFICES ASSUME OneServer, Init PROVE Promise!LifeInit
  OBVIOUS
<1>1. \A j \in Jobs : Shown(j) = "absent" /\ row[j].status = "absent"
  BY TheServer DEF Init, NoJob, NewJob, NoRow, Shown
<1>. QED  BY <1>1, PhaseShown DEF Phase, Promise!LifeInit

\* One server whose mining keeps to its budget keeps the promise of
\* JobLifecycle: a job ends once and for good, its row never runs ahead of
\* what is shown, and a restart shows the rows, the running ones interrupted.
THEOREM ServerImplementsLifecycle ==
    ASSUME OneServer
    PROVE  Spec => ImplementsLifecycle
<1>1. Init => Promise!LifeInit
  BY InitMaps
<1>2. IInv /\ AloneInv /\ [Next]_vars
         => [Promise!LifeNext]_<<ShownPhase, DurablePhase>>
  BY StepMaps
<1>. QED  BY <1>1, <1>2, AloneInvariant, PTL
          DEF Spec, ImplementsLifecycle, Promise!Lifecycle, Promise!lifeVars
-----------------------------------------------------------------------------
(***************************************************************************)
(* One process whose row writes succeed, with mining that may time out:    *)
(* the row of a computing job follows its stages.                          *)
(***************************************************************************)
SureServer == ~DiskCanFail /\ \E p \in Procs : Procs = {p}

Noting == {"compare", "note"}
At(j, S) == pc["runner"][j] \in S \/ pc["worker"][j] \in S

\* What the row of j, last_persisted_status and the Job say of each other at
\* every point of a callback.
StageAt(j) ==
    /\ pc["load"][j] = "start" => row[j].status = TheJob(j).status
    /\ RunnerComputing(j) =>
          /\ At(j, Noting) => row[j].status = last[j]
          /\ At(j, Saving) => last[j] = TheJob(j).status
          /\ ~At(j, Noting) /\ ~At(j, Saving)
                => row[j].status = TheJob(j).status /\ last[j] = TheJob(j).status

StageInv == \A j \in Jobs : StageAt(j)

\* A computing runner and its worker are never both in a callback, and no
\* request that creates the job is left.
LEMMA OneCallback ==
    ASSUME IInv, NEW j \in Jobs, RunnerComputing(j)
    PROVE  /\ pc["worker"][j] \in Callback => pc["runner"][j] = "join"
           /\ pc["load"][j] = "off" /\ pc["report"][j] = "off"
<1>1. pc["worker"][j] \in Callback => WorkerAlive(j)
  BY DEF WorkerAlive, WorkerEnded
<1>2. outcome[j] # "error"
  BY DEF IInv, RunnerInv
<1>3. WorkerAlive(j) => pc["runner"][j] = "join"
  BY <1>2 DEF IInv, WorkerInv
<1>4. pc["runner"][j] # "off"
  BY DEF RunnerComputing
<1>. QED  BY <1>1, <1>3, <1>4 DEF IInv, RequestInv

\* A step that starts no callback, ends none and records nothing.
LEMMA StageSame ==
    ASSUME NEW j \in Jobs, StageAt(j),
           row'[j].status = row[j].status, last'[j] = last[j],
           TheJob(j)'.status = TheJob(j).status,
           pc'["load"][j] = "start" => pc["load"][j] = "start",
           RunnerComputing(j)' => RunnerComputing(j),
           At(j, Noting)' = At(j, Noting), At(j, Saving)' = At(j, Saving)
    PROVE  StageAt(j)'
<1>. HIDE DEF Saving, Noting
<1>. QED  BY DEF StageAt

\* A step of one job leaves the stages of the others.
LEMMA StageElsewhere ==
    ASSUME StageInv, NEW j \in Jobs, StageAt(j)', UNCHANGED owner,
           \A k \in Jobs \ {j} :
              /\ \A t \in Threads : pc'[t][k] = pc[t][k]
              /\ row'[k] = row[k] /\ last'[k] = last[k]
              /\ TheJob(k)'.status = TheJob(k).status
    PROVE  StageInv'
<1>1. ASSUME NEW k \in Jobs \ {j}  PROVE StageAt(k)'
  <2>1. /\ pc'["load"][k] = pc["load"][k] /\ pc'["runner"][k] = pc["runner"][k]
        /\ pc'["worker"][k] = pc["worker"][k]
    OBVIOUS
  <2>2. /\ RunnerComputing(k)' = RunnerComputing(k)
        /\ At(k, Noting)' = At(k, Noting) /\ At(k, Saving)' = At(k, Saving)
    BY <2>1 DEF RunnerComputing, At
  <2>3. StageAt(k)
    BY DEF StageInv
  <2>. QED  BY <2>1, <2>2, <2>3, StageSame
<1>. QED  BY <1>1 DEF StageInv

\* A step of one thread of one job, which leaves the others' rows and Jobs.
LEMMA StageOfMove ==
    ASSUME IInv, StageInv, NEW t \in Threads, NEW j \in Jobs, NEW l \in PcsOf(t),
           Goto(t, j, l), UNCHANGED owner, StageAt(j)',
           \A k \in Jobs \ {j} :
              /\ row'[k] = row[k] /\ last'[k] = last[k]
              /\ TheJob(k)'.status = TheJob(k).status
    PROVE  StageInv'
<1>1. \A k \in Jobs \ {j} : \A u \in Threads : pc'[u][k] = pc[u][k]
  BY GotoEffect DEF IInv
<1>. QED  BY <1>1, StageElsewhere

\* The steps that take a thread from outside a save to outside it.
LEMMA QuietStage ==
    ASSUME IInv, StageInv, NEW t \in Threads, NEW j \in Jobs, NEW l \in PcsOf(t),
           Goto(t, j, l), UNCHANGED <<mem, row, owner, last>>,
           t = "load" => l # "start",
           t = "runner" => (l \notin {"off"} \cup Sealing => RunnerComputing(j)),
           \A S \in {Noting, Saving} : t \in Requests \/ (l \in S <=> pc[t][j] \in S)
    PROVE  StageInv'
<1>1. \A u \in Threads : pc'[u][j] = IF u = t THEN l ELSE pc[u][j]
  BY GotoEffect DEF IInv
<1>2. /\ pc'["load"][j] = "start" => pc["load"][j] = "start"
      /\ RunnerComputing(j)' => RunnerComputing(j)
  BY <1>1 DEF RunnerComputing
<1>3. /\ At(j, Noting)' = At(j, Noting) /\ At(j, Saving)' = At(j, Saving)
  <2>. HIDE DEF Saving, Noting
  <2>1. \A S \in {Noting, Saving} :
           /\ pc'["runner"][j] \in S <=> pc["runner"][j] \in S
           /\ pc'["worker"][j] \in S <=> pc["worker"][j] \in S
    BY <1>1
  <2>. QED  BY <2>1 DEF At
<1>4. StageAt(j)'
  <2>1. StageAt(j) /\ TheJob(j)' = TheJob(j)
    BY DEF StageInv, TheJob
  <2>. QED  BY <1>2, <1>3, <2>1, StageSame
<1>5. \A k \in Jobs : TheJob(k)' = TheJob(k)
  BY DEF TheJob
<1>. QED  BY <1>4, <1>5, StageOfMove

LEMMA AdvanceStage ==
    ASSUME IInv, StageInv, NEW j \in Jobs,
           \/ CacheHit(j)
           \/ ReportStage(j)
           \/ MineCommits(j)
           \/ EndWorker(j)
           \/ StartHistory(j)
           \/ \E t \in Threads : CheckCancel(t, j) \/ EncodeReport(t, j)
    PROVE  StageInv'
<1>. USE DEF Noting, PcsOf
<1>1. CASE CacheHit(j) \/ ReportStage(j)
  <2>1. /\ pc["runner"][j] \in {"start", "work"} /\ Goto("runner", j, "check")
        /\ UNCHANGED <<mem, row, owner, last>>
    BY <1>1 DEF CacheHit, ReportStage
  <2>. QED  BY <2>1, QuietStage DEF RunnerComputing
<1>2. CASE MineCommits(j)
  <2>1. /\ pc["worker"][j] = "work" /\ Goto("worker", j, "check")
        /\ UNCHANGED <<mem, row, owner, last>>
    BY <1>2 DEF MineCommits
  <2>. QED  BY <2>1, QuietStage
<1>3. CASE EndWorker(j)
  <2>1. PICK l \in {"finished", "failed"} : Goto("worker", j, l)
    BY <1>3 DEF EndWorker
  <2>2. pc["worker"][j] = "work" /\ UNCHANGED <<mem, row, owner, last>>
    BY <1>3 DEF EndWorker
  <2>. QED  BY <2>1, <2>2, QuietStage
<1>4. CASE StartHistory(j)
  <2>1. /\ Goto("report", j, "off") /\ UNCHANGED <<mem, row, owner, last>>
    BY <1>4 DEF StartHistory
  <2>. QED  BY <2>1, QuietStage
<1>5. ASSUME NEW t \in Threads, CheckCancel(t, j)  PROVE StageInv'
  <2>. DEFINE l == IF TheJob(j).cancel THEN "cancelled" ELSE "update"
  <2>1. /\ pc[t][j] = "check" /\ Goto(t, j, l) /\ UNCHANGED <<mem, row, owner, last>>
    BY <1>5 DEF CheckCancel
  <2>2. t \notin Requests /\ l \in PcsOf(t) /\ l \in {"cancelled", "update"}
    BY <2>1 DEF IInv, TypeOK
  <2>. HIDE DEF l
  <2>. QED  BY <2>1, <2>2, QuietStage DEF RunnerComputing
<1>6. ASSUME NEW t \in Threads, EncodeReport(t, j)  PROVE StageInv'
  <2>. DEFINE l == IF pc[t][j] = "encode" THEN "write" ELSE "sealWrite"
  <2>1. /\ pc[t][j] \in {"encode", "seal"} /\ Goto(t, j, l)
        /\ UNCHANGED <<mem, row, owner, last>>
    BY <1>6 DEF EncodeReport
  <2>2. /\ l \in PcsOf(t) /\ pc[t][j] \in PcsOf(t)
        /\ l = "write" <=> pc[t][j] = "encode"
        /\ l \in {"write", "sealWrite"}
    BY <2>1 DEF IInv, TypeOK
  <2>. HIDE DEF l
  <2>. QED  BY <2>1, <2>2, QuietStage DEF RunnerComputing
<1>. QED  BY <1>1, <1>2, <1>3, <1>4, <1>5, <1>6

\* save_job writes the status it reads under its lock.
LEMMA WriteRowStage ==
    ASSUME ~DiskCanFail, IInv, StageInv, NEW t \in Threads, NEW j \in Jobs, WriteRow(t, j)
    PROVE  StageInv'
<1>. DEFINE l == AfterSave(t, j)
<1>1. /\ pc[t][j] \in {"write", "sealWrite"} /\ pc[t][j] \in PcsOf(t)
      /\ Goto(t, j, l) /\ UNCHANGED <<mem, owner, last>>
      /\ row' = [row EXCEPT ![j] = [status |-> TheJob(j).status, report |-> encoded[t][j]]]
  BY DEF WriteRow, IInv, TypeOK
<1>2. l \in PcsOf(t)
  BY <1>1 DEF AfterSave, PcsOf
<1>3. /\ row'[j].status = TheJob(j).status
      /\ \A k \in Jobs \ {j} : row'[k] = row[k]
  BY <1>1 DEF IInv, TypeOK
<1>4. \A u \in Threads : pc'[u][j] = IF u = t THEN l ELSE pc[u][j]
  BY <1>1, <1>2, GotoEffect DEF IInv
<1>5. \A k \in Jobs : TheJob(k)' = TheJob(k)
  BY <1>1 DEF TheJob
<1>6. ASSUME RunnerComputing(j)'
      PROVE  /\ ~At(j, Noting)' /\ ~At(j, Saving)'
             /\ last[j] = TheJob(j).status
  <2>1. RunnerComputing(j) /\ t \in {"runner", "worker"} /\ pc[t][j] = "write" /\ l = "work"
    <3>1. CASE t = "runner"
      BY <1>1, <1>4, <1>6, <3>1 DEF RunnerComputing, AfterSave, PcsOf
    <3>2. CASE t = "worker"
      BY <1>1, <1>4, <1>6, <3>2 DEF RunnerComputing, AfterSave, PcsOf
    <3>3. CASE t \in Requests
      <4>1. RunnerComputing(j)
        BY <1>4, <1>6, <3>3 DEF RunnerComputing
      <4>. QED  BY <1>1, <3>3, <4>1, OneCallback
    <3>. QED  BY <3>1, <3>2, <3>3
  <2>2. At(j, Saving)
    BY <2>1 DEF At
  <2>3. last[j] = TheJob(j).status
    BY <2>1, <2>2 DEF StageInv, StageAt
  <2>4. \A u \in {"runner", "worker"} : pc'[u][j] \notin Callback
    BY <1>4, <2>1, OneCallback
  <2>. QED  BY <2>3, <2>4 DEF At, Noting
<1>7. StageAt(j)'
  <2>. HIDE DEF Saving, Noting
  <2>. QED  BY <1>1, <1>3, <1>5, <1>6 DEF StageAt
<1>. QED  BY <1>1, <1>2, <1>3, <1>5, <1>7, StageOfMove

\* The steps of progress_cb before it saves.
LEMMA CallbackStage ==
    ASSUME IInv, StageInv, NEW t \in Threads, NEW j \in Jobs,
           SetStage(t, j) \/ CompareStatus(t, j) \/ NoteStatus(t, j)
    PROVE  StageInv'
<1>1. /\ pc[t][j] \in {"update", "compare", "note"} /\ pc[t][j] \in PcsOf(t)
      /\ t \in {"runner", "worker"} /\ UNCHANGED <<row, owner>>
  BY DEF SetStage, CompareStatus, NoteStatus, IInv, TypeOK, PcsOf
<1>2. PICK l \in {"compare", "note", "work", "encode"} :
         /\ Goto(t, j, l)
         /\ SetStage(t, j) => l = "compare"
         /\ CompareStatus(t, j) => l = IF TheJob(j).status # last[j] THEN "note" ELSE "work"
         /\ NoteStatus(t, j) => l = "encode"
  <2>1. CASE SetStage(t, j)
    BY <2>1 DEF SetStage, CompareStatus, NoteStatus
  <2>2. CASE CompareStatus(t, j)
    BY <2>2 DEF SetStage, CompareStatus, NoteStatus
  <2>3. CASE NoteStatus(t, j)
    BY <2>3 DEF SetStage, CompareStatus, NoteStatus
  <2>. QED  BY <2>1, <2>2, <2>3
<1>3. l \in PcsOf(t)
  BY <1>1 DEF PcsOf
<1>4. \A u \in Threads : pc'[u][j] = IF u = t THEN l ELSE pc[u][j]
  BY <1>2, <1>3, GotoEffect DEF IInv
<1>5. \A k \in Jobs \ {j} : TheJob(k)'.status = TheJob(k).status /\ last'[k] = last[k]
  <2>1. CASE SetStage(t, j)
    BY <2>1 DEF SetStage, IInv, TypeOK, TheJob
  <2>2. CASE CompareStatus(t, j) \/ NoteStatus(t, j)
    BY <2>2 DEF CompareStatus, NoteStatus, IInv, TypeOK, TheJob
  <2>. QED  BY <2>1, <2>2
<1>6. /\ RunnerComputing(j)' <=> RunnerComputing(j)
      /\ pc'["load"][j] = pc["load"][j]
  BY <1>1, <1>4 DEF RunnerComputing
<1>7. pc["load"][j] = "off"
  BY <1>1 DEF IInv, RequestInv
<1>8. ASSUME RunnerComputing(j)
      PROVE  /\ At(j, Noting)' <=> l \in Noting
             /\ At(j, Saving)' <=> l \in Saving
             /\ At(j, Noting) <=> pc[t][j] \in Noting
             /\ ~At(j, Saving)
  <2>1. \A u \in {"runner", "worker"} \ {t} : pc[u][j] \notin Callback
    BY <1>1, <1>8, OneCallback
  <2>. QED  BY <1>1, <1>4, <2>1 DEF At, Noting
<1>9. ASSUME RunnerComputing(j)
      PROVE  /\ At(j, Noting)' => row'[j].status = last'[j]
             /\ At(j, Saving)' => last'[j] = TheJob(j)'.status
             /\ ~At(j, Noting)' /\ ~At(j, Saving)'
                   => row'[j].status = TheJob(j)'.status /\ last'[j] = TheJob(j)'.status
  <2>1. StageAt(j) /\ owner[j] \in Procs
    BY <1>1 DEF StageInv, IInv, HomeInv
  <2>2. CASE SetStage(t, j)
    <3>1. l = "compare" /\ pc[t][j] = "update" /\ last' = last
      BY <1>2, <2>2 DEF SetStage
    <3>. QED  BY <1>1, <1>8, <1>9, <2>1, <3>1 DEF StageAt, Noting
  <2>3. CASE CompareStatus(t, j)
    <3>1. pc[t][j] = "compare" /\ UNCHANGED <<mem, last>> /\ TheJob(j)' = TheJob(j)
      BY <1>1, <2>3 DEF CompareStatus, TheJob
    <3>2. row[j].status = last[j]
      BY <1>8, <1>9, <2>1, <3>1 DEF StageAt, Noting
    <3>3. l = IF TheJob(j).status # last[j] THEN "note" ELSE "work"
      BY <1>2, <2>3
    <3>. QED  BY <1>1, <1>8, <1>9, <3>1, <3>2, <3>3 DEF Noting
  <2>4. CASE NoteStatus(t, j)
    <3>1. l = "encode" /\ TheJob(j)' = TheJob(j) /\ last'[j] = TheJob(j).status
      BY <1>1, <1>2, <2>4 DEF NoteStatus, TheJob, IInv, TypeOK
    <3>. QED  BY <1>8, <1>9, <3>1 DEF Noting
  <2>. QED  BY <2>2, <2>3, <2>4
<1>10. StageAt(j)'
  <2>. HIDE DEF Saving, Noting
  <2>. QED  BY <1>6, <1>7, <1>9 DEF StageAt
<1>. QED  BY <1>1, <1>2, <1>3, <1>5, <1>10, StageOfMove

\* A computation begins with the row, the Job and last_persisted_status
\* alike, and passes to the worker and back without a callback under way.
LEMMA HandOverStage ==
    ASSUME IInv, StageInv, NEW j \in Jobs,
           StartRunner(j) \/ StartWorker(j) \/ JoinWorker(j)
    PROVE  StageInv'
<1>1. UNCHANGED <<mem, row, owner>> /\ \A k \in Jobs : TheJob(k)' = TheJob(k)
  BY DEF StartRunner, StartWorker, JoinWorker, TheJob
<1>2. /\ \A k \in Jobs \ {j} : last'[k] = last[k]
      /\ \A t \in Threads, k \in Jobs \ {j} : pc'[t][k] = pc[t][k]
  <2>1. CASE StartRunner(j)
    BY <2>1 DEF IInv, TypeOK, StartRunner
  <2>2. CASE StartWorker(j) \/ JoinWorker(j)
    BY <2>2 DEF IInv, TypeOK, StartWorker, JoinWorker
  <2>. QED  BY <2>1, <2>2
<1>3. StageAt(j)
  BY DEF StageInv
<1>4. StageAt(j)'
  <2>1. CASE StartRunner(j)
    <3>1. /\ pc["load"][j] = "start" /\ pc'["load"][j] = "off"
          /\ last'[j] = TheJob(j).status
          /\ pc'["runner"][j] = "start" /\ pc'["worker"][j] = pc["worker"][j]
      BY <2>1 DEF IInv, TypeOK, StartRunner
    <3>2. pc["worker"][j] = "off"
      BY <3>1 DEF IInv, RequestInv
    <3>3. ~At(j, Noting)' /\ ~At(j, Saving)'
      BY <3>1, <3>2 DEF At, Noting
    <3>. QED  BY <1>1, <1>3, <3>1, <3>3 DEF StageAt
  <2>2. CASE StartWorker(j)
    <3>1. /\ pc["runner"][j] = "start" /\ pc'["runner"][j] = "join"
          /\ pc'["worker"][j] = "work" /\ pc'["load"][j] = pc["load"][j] /\ last' = last
      BY <2>2 DEF IInv, TypeOK, StartWorker
    <3>2. RunnerComputing(j)
      BY <3>1 DEF RunnerComputing
    <3>3. pc["worker"][j] \notin Callback
      BY <3>1, <3>2, OneCallback
    <3>4. /\ At(j, Noting)' = At(j, Noting) /\ At(j, Saving)' = At(j, Saving)
      BY <3>1, <3>3 DEF At, Noting
    <3>. QED  BY <1>1, <1>3, <3>1, <3>2, <3>4, StageSame
  <2>3. CASE JoinWorker(j)
    <3>1. /\ pc["runner"][j] = "join" /\ pc'["runner"][j] \in {"work", "cancelled"}
          /\ pc["worker"][j] \in {"finished", "cancelled"} /\ pc'["worker"][j] = "off"
          /\ pc'["load"][j] = pc["load"][j] /\ last' = last
      BY <2>3 DEF IInv, TypeOK, JoinWorker
    <3>2. RunnerComputing(j)
      BY <3>1 DEF RunnerComputing
    <3>3. /\ At(j, Noting)' = At(j, Noting) /\ At(j, Saving)' = At(j, Saving)
      BY <3>1 DEF At, Noting
    <3>. QED  BY <1>1, <1>3, <3>1, <3>2, <3>3, StageSame
  <2>. QED  BY <2>1, <2>2, <2>3
<1>. QED  BY <1>1, <1>2, <1>4, StageElsewhere

LEMMA FinishStage ==
    ASSUME IInv, StageInv, NEW j \in Jobs, FinishStep(j)
    PROVE  StageInv'
<1>1. /\ RunnerComputing(j) /\ Goto("runner", j, "seal") /\ UNCHANGED <<row, owner, last>>
      /\ \E s \in Outcomes : Settle(j, s)
  BY DEF FinishStep, FinishDone, FinishCancelled, FinishError, FinishTimeout, RunnerComputing
<1>2. "seal" \in PcsOf("runner")
  BY DEF PcsOf
<1>3. \A u \in Threads : pc'[u][j] = IF u = "runner" THEN "seal" ELSE pc[u][j]
  BY <1>1, <1>2, GotoEffect DEF IInv
<1>4. \A k \in Jobs \ {j} : TheJob(k)' = TheJob(k)
  BY <1>1 DEF Settle, TheJob, IInv, TypeOK
<1>5. StageAt(j)'
  BY <1>1, <1>3, OneCallback DEF StageAt, RunnerComputing
<1>. QED  BY <1>1, <1>2, <1>4, <1>5, StageOfMove

\* Stop and the history of a rule change no status.
LEMMA FlagsStage ==
    ASSUME IInv, StageInv, NEW p \in Procs, NEW j \in Jobs,
           CancelJob(p, j) \/ MineForHistory(p, j)
    PROVE  StageInv'
<1>1. UNCHANGED <<pc, row, owner, last>>
  BY DEF CancelJob, MineForHistory
<1>2. \A q \in Procs, k \in Jobs : mem'[q][k].status = mem[q][k].status
  <2>1. mem \in [Procs -> [Jobs -> Job]]
    BY DEF IInv, TypeOK
  <2>2. CASE mem' = [mem EXCEPT ![p][j].cancel = TRUE]
    BY <2>1, <2>2 DEF Job
  <2>3. CASE mem' = [mem EXCEPT ![p][j].facts = TRUE]
    BY <2>1, <2>3 DEF Job
  <2>. QED  BY <2>2, <2>3 DEF CancelJob, MineForHistory
<1>3. ASSUME NEW k \in Jobs  PROVE StageAt(k)'
  <2>1. StageAt(k)
    BY DEF StageInv
  <2>2. /\ RunnerComputing(k)' = RunnerComputing(k) /\ pc'["load"][k] = pc["load"][k]
        /\ At(k, Noting)' = At(k, Noting) /\ At(k, Saving)' = At(k, Saving)
    BY <1>1 DEF RunnerComputing, At
  <2>3. CASE owner[k] \in Procs
    <3>1. TheJob(k)'.status = TheJob(k).status
      BY <1>1, <1>2, <2>3 DEF TheJob
    <3>. QED  BY <1>1, <2>1, <2>2, <3>1, StageSame
  <2>4. CASE owner[k] \notin Procs
    <3>1. pc["load"][k] = "off" /\ ~RunnerComputing(k)
      BY <2>4 DEF IInv, HomeInv, RunnerComputing
    <3>. QED  BY <1>1, <2>2, <3>1 DEF StageAt
  <2>. QED  BY <2>3, <2>4
<1>. QED  BY <1>3 DEF StageInv

LEMMA LoadStage ==
    ASSUME IInv, StageInv, NEW p \in Procs, NEW j \in Jobs,
           LoadRepo(p, j) \/ LoadFromReport(p, j)
    PROVE  StageInv'
<1>1. /\ owner[j] = NoProc /\ UNCHANGED <<row, last>>
      /\ owner' = [owner EXCEPT ![j] = p]
      /\ \E s \in {"pending", "done"} : mem' = [mem EXCEPT ![p][j] = NewJob(s)]
  BY DEF LoadRepo, LoadFromReport
<1>2. PICK t \in Requests : Goto(t, j, "encode")
  BY DEF LoadRepo, LoadFromReport
<1>3. \A u \in Threads, k \in Jobs :
         pc'[u][k] = IF u = t /\ k = j THEN "encode" ELSE pc[u][k]
  BY <1>2, GotoEffect DEF IInv, PcsOf
<1>4. \A u \in Threads : pc[u][j] = "off"
  BY <1>1, ConstantsAssumption DEF IInv, HomeInv
<1>5. StageAt(j)'
  BY <1>3, <1>4 DEF StageAt, RunnerComputing
<1>6. ASSUME NEW k \in Jobs \ {j}  PROVE StageAt(k)'
  <2>1. StageAt(k) /\ TheJob(k)' = TheJob(k)
    BY <1>1 DEF StageInv, TheJob, IInv, TypeOK
  <2>2. /\ RunnerComputing(k)' = RunnerComputing(k) /\ pc'["load"][k] = pc["load"][k]
        /\ At(k, Noting)' = At(k, Noting) /\ At(k, Saving)' = At(k, Saving)
    BY <1>3 DEF RunnerComputing, At
  <2>. QED  BY <1>1, <2>1, <2>2, StageSame
<1>. QED  BY <1>5, <1>6 DEF StageInv

\* A process that is down runs no thread of any job.
LEMMA ServerStage ==
    ASSUME SureServer, IInv, NEW p \in Procs, ServerStep(p)
    PROVE  StageInv'
<1>1. Procs = {p}
  BY DEF SureServer
<1>2. \A t \in Threads, j \in Jobs : pc'[t][j] = "off"
  <2>1. CASE Crash(p)
    <3>1. \A t \in Threads, j \in Jobs :
             pc'[t][j] = IF owner[j] = p THEN "off" ELSE pc[t][j]
      BY <2>1 DEF Crash
    <3>. QED  BY <1>1, <3>1 DEF IInv, HomeInv
  <2>2. CASE MarkInterrupted(p) \/ RestoreJobs(p)
    <3>1. up[p] # "up" /\ pc' = pc
      BY <2>2 DEF MarkInterrupted, RestoreJobs
    <3>. QED  BY <1>1, <3>1 DEF IInv, HomeInv
  <2>. QED  BY <2>1, <2>2 DEF ServerStep
<1>. QED  BY <1>2 DEF StageInv, StageAt, RunnerComputing

LEMMA NextStageInv == SureServer /\ IInv /\ StageInv /\ [Next]_vars => StageInv'
<1>. SUFFICES ASSUME SureServer, IInv, StageInv, [Next]_vars PROVE StageInv'
  OBVIOUS
<1>1. CASE Next
  BY <1>1, StepKinds, AdvanceStage, WriteRowStage, CallbackStage, HandOverStage,
     FinishStage, FlagsStage, LoadStage, ServerStage DEF SureServer
<1>2. CASE UNCHANGED vars
  BY <1>2 DEF vars, StageInv, StageAt, RunnerComputing, At, TheJob
<1>. QED  BY <1>1, <1>2

\* While no callback is under way, last_persisted_status and the row of a
\* computing job show the stage its memory shows, for any number of jobs and callbacks, also when mining
\* times out: with one process and row writes that succeed.
THEOREM StagesAreRecorded ==
    ASSUME SureServer
    PROVE  Spec => []StageIsRecorded
<1>1. Init => StageInv
  BY DEF Init, StageInv, StageAt, RunnerComputing
<1>2. IInv /\ StageInv /\ [Next]_vars => StageInv'
  BY NextStageInv
<1>3. StageInv => StageIsRecorded
  <2>. SUFFICES ASSUME StageInv, NEW j \in Jobs,
                       pc["runner"][j] \in {"join", "work"}, pc["worker"][j] \notin Callback
                PROVE  last[j] = TheJob(j).status /\ row[j].status = TheJob(j).status
    BY DEF StageIsRecorded
  <2>1. RunnerComputing(j) /\ ~At(j, Noting) /\ ~At(j, Saving)
    BY DEF RunnerComputing, At, Noting
  <2>. QED  BY <2>1 DEF StageInv, StageAt
<1>. QED  BY <1>1, <1>2, <1>3, Invariant, PTL DEF Spec
=============================================================================
