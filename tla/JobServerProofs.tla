--------------------------- MODULE JobServerProofs ---------------------------
(***************************************************************************)
(* Proofs about JobServer for any set of processes and jobs, with mining   *)
(* that may time out and rows that may fail to be written.                 *)
(***************************************************************************)
EXTENDS JobServerProps, TLAPS

WorkerAlive(j) == ~WorkerEnded(j)
RunnerComputing(j) == pc["runner"][j] \notin {"off"} \cup Sealing

\* An id not handed out has left no trace.
UnusedInv ==
    \A j \in Jobs : owner[j] = NoProc =>
       /\ outcome[j] = "none"
       /\ row[j].status = "absent"
       /\ \A p \in Procs : mem[p][j].status = "absent"

\* A process that does not serve shows no job.
DownInv ==
    \A p \in Procs, j \in Jobs : up[p] # "up" => mem[p][j].status = "absent"

\* The threads of a job run in the process that created it, while it is up.
HomeInv ==
    \A t \in Threads, j \in Jobs :
       pc[t][j] # "off" => owner[j] \in Procs /\ up[owner[j]] = "up"

\* A creating request ends before any other thread of the job starts.
RequestInv ==
    \A j \in Jobs :
       /\ pc["load"][j] # "off" =>
             /\ pc["report"][j] = "off" /\ pc["runner"][j] = "off"
             /\ pc["worker"][j] = "off"
             /\ outcome[j] = "none" /\ TheJob(j).status \in Running
       /\ pc["report"][j] # "off" =>
             /\ pc["load"][j] = "off" /\ pc["runner"][j] = "off"
             /\ pc["worker"][j] = "off"
             /\ outcome[j] = "done" /\ TheJob(j).status = "done"

\* A computing runner has reached no outcome, a sealing one has.
RunnerInv ==
    \A j \in Jobs :
       /\ RunnerComputing(j) =>
             outcome[j] = "none" /\ TheJob(j).status \in Running
       /\ pc["runner"][j] \in Sealing =>
             \/ outcome[j] = "error"
             \/ outcome[j] \in Outcomes /\ TheJob(j).status = outcome[j]

\* A live worker is joined by its runner, or its job has already failed.
WorkerInv ==
    \A j \in Jobs : WorkerAlive(j) =>
       \/ pc["runner"][j] = "join"
       \/ outcome[j] = "error" /\ ~RunnerComputing(j)

\* The report encoded before the lock is still the job's when the row is
\* written.
EncodedInv ==
    \A t \in Threads, j \in Jobs :
       pc[t][j] \in {"write", "sealWrite"} =>
          encoded[t][j] = TheJob(j).report

IInv ==
    /\ TypeOK
    /\ UnusedInv
    /\ DownInv
    /\ HomeInv
    /\ RequestInv
    /\ RunnerInv
    /\ WorkerInv
    /\ EncodedInv
    /\ DoneHasReport
    /\ NoFalseOutcome

USE DEF Threads, Requests, Saving, Callback, Sealing, Stages, Running, Outcomes,
        TERMINAL_STATUSES, Statuses

-----------------------------------------------------------------------------
(***************************************************************************)
(* What a step of one thread, or the update of one job, leaves behind.     *)
(***************************************************************************)
\* Goto moves one thread of one job, within that thread's own program.
LEMMA GotoEffect ==
    ASSUME TypeOK, NEW t \in Threads, NEW j \in Jobs, NEW l \in PcsOf(t),
           Goto(t, j, l)
    PROVE  /\ pc' \in [Threads -> [Jobs -> Pcs]]
           /\ \A u \in Threads, k \in Jobs : pc'[u][k] \in PcsOf(u)
           /\ \A u \in Threads, k \in Jobs :
                 pc'[u][k] = IF u = t /\ k = j THEN l ELSE pc[u][k]
<1>1. l \in Pcs
  BY DEF PcsOf, Pcs
<1>2. \A u \in Threads, k \in Jobs :
         pc'[u][k] = IF u = t /\ k = j THEN l ELSE pc[u][k]
  BY DEF Goto, TypeOK
<1>3. pc' \in [Threads -> [Jobs -> Pcs]]
  BY <1>1 DEF Goto, TypeOK
<1>4. \A u \in Threads, k \in Jobs : pc'[u][k] \in PcsOf(u)
  BY <1>2 DEF TypeOK
<1>. QED  BY <1>2, <1>3, <1>4

\* Replacing one Job object leaves every other one, and all their types.
LEMMA SetJobEffect ==
    ASSUME TypeOK, NEW p \in Procs, NEW j \in Jobs, NEW r \in Job,
           mem' = [mem EXCEPT ![p][j] = r]
    PROVE  /\ mem' \in [Procs -> [Jobs -> Job]]
           /\ \A q \in Procs, k \in Jobs :
                 mem'[q][k] = IF q = p /\ k = j THEN r ELSE mem[q][k]
  BY DEF TypeOK

\* _run_job's ending changes one Job and one outcome, and a job that was
\* still computed had no report before it.
LEMMA SettleEffect ==
    ASSUME TypeOK, DoneHasReport, RunnerInv,
           NEW j \in Jobs, NEW s \in Outcomes, Settle(j, s),
           owner[j] \in Procs, RunnerComputing(j)
    PROVE  /\ mem' \in [Procs -> [Jobs -> Job]]
           /\ outcome' \in [Jobs -> Outcomes \cup {"none"}]
           /\ \A q \in Procs, k \in Jobs :
                 IF q = owner[j] /\ k = j
                 THEN /\ mem'[q][k].status = s
                      /\ mem'[q][k].report = (s = "done")
                 ELSE mem'[q][k] = mem[q][k]
           /\ \A k \in Jobs : outcome'[k] = IF k = j THEN s ELSE outcome[k]
<1>1. /\ mem[owner[j]][j] \in Job
      /\ mem[owner[j]][j].status # "done"
  <2>1. mem[owner[j]][j] \in Job
    BY DEF TypeOK
  <2>2. mem[owner[j]][j].status \in Running
    BY DEF RunnerInv, TheJob
  <2>. QED  BY <2>1, <2>2
<1>2. mem[owner[j]][j].report = FALSE
  BY <1>1 DEF DoneHasReport, Job
<1>3. PICK r \in Job :
         /\ mem' = [mem EXCEPT ![owner[j]][j] = r]
         /\ r.status = s /\ r.report = (s = "done")
  <2>. DEFINE m == mem[owner[j]][j]
              r == [status |-> s,
                    report |-> m.report \/ s = "done",
                    facts  |-> m.facts \/ s = "done",
                    cancel |-> m.cancel]
  <2>1. r \in Job /\ r.status = s /\ r.report = (s = "done")
    BY <1>1, <1>2 DEF Job
  <2>2. mem' = [mem EXCEPT ![owner[j]][j] = r]
    BY DEF Settle, TheJob
  <2>. QED  BY <2>1, <2>2
<1>4. /\ mem' \in [Procs -> [Jobs -> Job]]
      /\ \A q \in Procs, k \in Jobs :
            mem'[q][k] = IF q = owner[j] /\ k = j THEN r ELSE mem[q][k]
  BY <1>3, SetJobEffect
<1>5. /\ outcome' \in [Jobs -> Outcomes \cup {"none"}]
      /\ \A k \in Jobs : outcome'[k] = IF k = j THEN s ELSE outcome[k]
  BY DEF Settle, TypeOK
<1>. QED  BY <1>3, <1>4, <1>5

-----------------------------------------------------------------------------
(***************************************************************************)
(* The steps that only move one thread.                                    *)
(***************************************************************************)

\* Thread t of j goes on to l: a request or a live worker wherever it likes,
\* a runner without joining and without reaching or leaving its sealing.
Moves(t, j, l) ==
    /\ Goto(t, j, l)
    /\ l \in PcsOf(t)
    /\ pc[t][j] # "off"
    /\ t = "runner" =>
          /\ pc[t][j] # "join" /\ l # "join"
          /\ pc[t][j] \in Sealing => l \in Sealing \cup {"off"}
          /\ pc[t][j] \notin Sealing => l \notin Sealing \cup {"off"}
    /\ t = "worker" => WorkerAlive(j)

\* A step that only moves a thread keeps all the invariants about threads.
LEMMA MoveInv ==
    ASSUME IInv, NEW t \in Threads, NEW j \in Jobs, NEW l, Moves(t, j, l),
           UNCHANGED <<mem, up, owner, outcome>>
    PROVE  /\ pc' \in [Threads -> [Jobs -> Pcs]]
           /\ \A u \in Threads, k \in Jobs : pc'[u][k] \in PcsOf(u)
           /\ DownInv' /\ HomeInv' /\ RequestInv' /\ RunnerInv' /\ WorkerInv'
<1>. USE DEF IInv
<1>1. /\ pc' \in [Threads -> [Jobs -> Pcs]]
      /\ \A u \in Threads, k \in Jobs : pc'[u][k] \in PcsOf(u)
      /\ \A u \in Threads, k \in Jobs :
            pc'[u][k] = IF u = t /\ k = j THEN l ELSE pc[u][k]
  BY GotoEffect DEF Moves
<1>2. \A u \in Threads, k \in Jobs : pc'[u][k] # "off" => pc[u][k] # "off"
  BY <1>1 DEF Moves
<1>3. \A k \in Jobs : /\ RunnerComputing(k)' = RunnerComputing(k)
                      /\ pc'["runner"][k] \in Sealing
                            => pc["runner"][k] \in Sealing
  BY <1>1 DEF Moves, RunnerComputing
<1>4. \A k \in Jobs : WorkerAlive(k)' => WorkerAlive(k)
  BY <1>1 DEF Moves, WorkerAlive, WorkerEnded
<1>5. \A k \in Jobs : pc["runner"][k] = "join" => pc'["runner"][k] = "join"
  BY <1>1 DEF Moves
<1>6. \A k \in Jobs : TheJob(k)' = TheJob(k)
  BY DEF TheJob
<1>7. DownInv'
  BY DEF DownInv
<1>8. HomeInv'
  BY <1>2 DEF HomeInv
<1>9. RequestInv'
  BY <1>2, <1>6 DEF RequestInv
<1>10. RunnerInv'
  BY <1>3, <1>6 DEF RunnerInv
<1>11. WorkerInv'
  BY <1>3, <1>4, <1>5 DEF WorkerInv
<1>. QED  BY <1>1, <1>7, <1>8, <1>9, <1>10, <1>11

\* A step that leaves jobs, rows and outcomes alone keeps what they promise.
LEMMA TableInv ==
    ASSUME IInv, UNCHANGED <<mem, row, owner, outcome>>
    PROVE  UnusedInv' /\ DoneHasReport' /\ NoFalseOutcome'
BY DEF IInv, UnusedInv, DoneHasReport, NoFalseOutcome

\* A thread that goes anywhere but to a row write keeps EncodedInv.
LEMMA NoReportEncoded ==
    ASSUME IInv, NEW t \in Threads, NEW j \in Jobs, NEW l \in PcsOf(t),
           Goto(t, j, l), l \notin {"write", "sealWrite"},
           UNCHANGED <<mem, owner, encoded>>
    PROVE  EncodedInv'
<1>1. \A u \in Threads, k \in Jobs :
         pc'[u][k] \in {"write", "sealWrite"} => pc'[u][k] = pc[u][k]
  BY GotoEffect DEF IInv
<1>. QED  BY <1>1 DEF IInv, EncodedInv, TheJob

\* IInv is kept when progress_cb reads the Stop flag.
LEMMA CheckCancelInv ==
    ASSUME IInv, NEW t \in Threads, NEW j \in Jobs, CheckCancel(t, j)
    PROVE  IInv'
<1>. USE DEF CheckCancel
<1>. DEFINE l == IF TheJob(j).cancel THEN "cancelled" ELSE "update"
<1>1. Moves(t, j, l)
  BY DEF Moves, IInv, TypeOK, PcsOf, WorkerAlive, WorkerEnded
<1>2. EncodedInv'
  BY <1>1, NoReportEncoded DEF Moves
<1>3. TypeOK'
  BY <1>1, MoveInv DEF IInv, TypeOK
<1>. QED  BY <1>1, <1>2, <1>3, MoveInv, TableInv DEF IInv

\* IInv is kept when progress_cb compares the status with
\* last_persisted_status.
LEMMA CompareStatusInv ==
    ASSUME IInv, NEW t \in Threads, NEW j \in Jobs, CompareStatus(t, j)
    PROVE  IInv'
<1>. USE DEF CompareStatus
<1>. DEFINE l == IF TheJob(j).status # last[j] THEN "note" ELSE "work"
<1>1. Moves(t, j, l)
  BY DEF Moves, IInv, TypeOK, PcsOf, WorkerAlive, WorkerEnded
<1>2. EncodedInv'
  BY <1>1, NoReportEncoded DEF Moves
<1>3. TypeOK'
  BY <1>1, MoveInv DEF IInv, TypeOK
<1>. QED  BY <1>1, <1>2, <1>3, MoveInv, TableInv DEF IInv

\* IInv is kept when progress_cb sets last_persisted_status.
LEMMA NoteStatusInv ==
    ASSUME IInv, NEW t \in Threads, NEW j \in Jobs, NoteStatus(t, j)
    PROVE  IInv'
<1>. USE DEF NoteStatus
<1>1. Moves(t, j, "encode")
  BY DEF Moves, IInv, TypeOK, PcsOf, WorkerAlive, WorkerEnded
<1>2. EncodedInv'
  BY <1>1, NoReportEncoded DEF Moves
<1>3. last' \in [Jobs -> Statuses]
  <2>1. owner[j] \in Procs
    BY DEF IInv, HomeInv
  <2>. QED  BY <2>1 DEF IInv, TypeOK, TheJob, Job
<1>4. TypeOK'
  BY <1>1, <1>3, MoveInv DEF IInv, TypeOK
<1>. QED  BY <1>1, <1>2, <1>4, MoveInv, TableInv DEF IInv

\* IInv is kept when the report computation reaches its next progress callback.
LEMMA ReportStageInv ==
    ASSUME IInv, NEW j \in Jobs, ReportStage(j)
    PROVE  IInv'
<1>1. Moves("runner", j, "check")
  BY DEF ReportStage, Moves, PcsOf
<1>2. EncodedInv'
  BY <1>1, NoReportEncoded DEF ReportStage, Moves
<1>3. ticks' \in [Jobs -> 0 .. MaxTicks] /\ stage' \in [Jobs -> Stages]
  <2>1. CASE /\ stage[j] # "classifying"
             /\ stage' = [stage EXCEPT ![j] = NextStage[stage[j]]]
             /\ ticks' = [ticks EXCEPT ![j] = 1]
    <3>1. NextStage[stage[j]] \in Stages
      BY <2>1 DEF NextStage, IInv, TypeOK
    <3>. QED  BY <2>1, <3>1, ConstantsAssumption DEF IInv, TypeOK
  <2>2. CASE /\ ticks[j] < MaxTicks
             /\ ticks' = [ticks EXCEPT ![j] = @ + 1]
             /\ UNCHANGED stage
    BY <2>2, ConstantsAssumption DEF IInv, TypeOK
  <2>. QED  BY <2>1, <2>2 DEF ReportStage
<1>4. TypeOK'
  BY <1>1, <1>3, MoveInv DEF ReportStage, IInv, TypeOK
<1>. QED  BY <1>1, <1>2, <1>4, MoveInv, TableInv DEF ReportStage, IInv

\* IInv is kept when a cache hit reports once from the runner.
LEMMA CacheHitInv ==
    ASSUME IInv, NEW j \in Jobs, CacheHit(j)
    PROVE  IInv'
<1>. USE DEF CacheHit
<1>1. Moves("runner", j, "check")
  BY DEF Moves, PcsOf
<1>2. EncodedInv'
  BY <1>1, NoReportEncoded DEF Moves
<1>3. ticks' \in [Jobs -> 0 .. MaxTicks]
  BY ConstantsAssumption DEF IInv, TypeOK
<1>4. TypeOK'
  BY <1>1, <1>3, MoveInv DEF IInv, TypeOK
<1>. QED  BY <1>1, <1>2, <1>4, MoveInv, TableInv DEF IInv

\* IInv is kept when the worker reaches its next progress callback.
LEMMA MineCommitsInv ==
    ASSUME IInv, NEW j \in Jobs, MineCommits(j)
    PROVE  IInv'
<1>. USE DEF MineCommits
<1>1. Moves("worker", j, "check")
  BY DEF Moves, PcsOf, WorkerAlive, WorkerEnded
<1>2. EncodedInv'
  BY <1>1, NoReportEncoded DEF Moves
<1>3. ticks' \in [Jobs -> 0 .. MaxTicks]
  BY ConstantsAssumption DEF IInv, TypeOK
<1>4. TypeOK'
  BY <1>1, <1>3, MoveInv DEF IInv, TypeOK
<1>. QED  BY <1>1, <1>2, <1>4, MoveInv, TableInv DEF IInv

\* IInv is kept when mining ends, with a result or an exception.
LEMMA EndWorkerInv ==
    ASSUME IInv, NEW j \in Jobs, EndWorker(j)
    PROVE  IInv'
<1>. USE DEF EndWorker
<1>1. PICK l \in {"finished", "failed"} : Goto("worker", j, l)
  OBVIOUS
<1>2. Moves("worker", j, l)
  BY <1>1 DEF Moves, PcsOf, WorkerAlive, WorkerEnded
<1>3. EncodedInv'
  BY <1>2, NoReportEncoded DEF Moves
<1>4. TypeOK'
  BY <1>2, MoveInv DEF IInv, TypeOK
<1>. QED  BY <1>2, <1>3, <1>4, MoveInv, TableInv DEF IInv

\* IInv is kept when load_from_report starts the history thread.
LEMMA StartHistoryInv ==
    ASSUME IInv, NEW j \in Jobs, StartHistory(j)
    PROVE  IInv'
<1>. USE DEF StartHistory
<1>1. Moves("report", j, "off")
  BY DEF Moves, PcsOf
<1>2. EncodedInv'
  BY <1>1, NoReportEncoded DEF Moves
<1>3. TypeOK'
  BY <1>1, MoveInv DEF IInv, TypeOK
<1>. QED  BY <1>1, <1>2, <1>3, MoveInv, TableInv DEF IInv

\* IInv is kept when save_job encodes the report before it takes its lock.
LEMMA EncodeReportInv ==
    ASSUME IInv, NEW t \in Threads, NEW j \in Jobs, EncodeReport(t, j)
    PROVE  IInv'
<1>. USE DEF EncodeReport
<1>. DEFINE l == IF pc[t][j] = "encode" THEN "write" ELSE "sealWrite"
<1>1. Moves(t, j, l)
  BY DEF Moves, IInv, TypeOK, PcsOf, WorkerAlive, WorkerEnded
<1>2. owner[j] \in Procs
  BY DEF IInv, HomeInv
<1>3. /\ encoded' \in [Threads -> [Jobs -> BOOLEAN]]
      /\ \A u \in Threads, k \in Jobs :
            encoded'[u][k] = IF u = t /\ k = j THEN TheJob(j).report
                             ELSE encoded[u][k]
  BY <1>2 DEF IInv, TypeOK, TheJob, Job
<1>4. EncodedInv'
  <2>1. \A u \in Threads, k \in Jobs :
           ~(u = t /\ k = j) => pc'[u][k] = pc[u][k]
    BY <1>1, GotoEffect DEF Moves, IInv
  <2>. QED  BY <1>3, <2>1 DEF IInv, EncodedInv, TheJob
<1>5. TypeOK'
  BY <1>1, <1>3, MoveInv DEF IInv, TypeOK
<1>. QED  BY <1>1, <1>4, <1>5, MoveInv, TableInv DEF IInv

\* IInv is kept when save_job upserts the row, or fails and is swallowed.
LEMMA WriteRowInv ==
    ASSUME IInv, NEW t \in Threads, NEW j \in Jobs, WriteRow(t, j)
    PROVE  IInv'
<1>1. Moves(t, j, AfterSave(t, j))
  BY DEF WriteRow, Moves, IInv, TypeOK, PcsOf, WorkerAlive, WorkerEnded,
         AfterSave
<1>2. EncodedInv'
  BY <1>1, NoReportEncoded DEF WriteRow, Moves, AfterSave
<1>3. owner[j] \in Procs /\ owner[j] # NoProc
  BY ConstantsAssumption DEF IInv, HomeInv, WriteRow
<1>4. /\ row' \in [Jobs -> Row]
      /\ \A k \in Jobs :
            \/ row'[k] = row[k]
            \/ /\ k = j
               /\ row'[k].status = TheJob(j).status
               /\ row'[k].report = TheJob(j).report
  <2>1. TheJob(j) \in Job
    BY <1>3 DEF IInv, TypeOK, TheJob
  <2>2. encoded[t][j] = TheJob(j).report
    BY DEF IInv, EncodedInv, WriteRow
  <2>3. CASE row' = row
    BY <2>3 DEF IInv, TypeOK
  <2>4. CASE row' = [row EXCEPT ![j] = [status |-> TheJob(j).status,
                                        report |-> encoded[t][j]]]
    BY <2>1, <2>2, <2>4 DEF IInv, TypeOK, Row, Job
  <2>. QED  BY <2>3, <2>4 DEF WriteRow
<1>5. UNCHANGED <<mem, up, owner, stage, ticks, last, encoded, history,
                  outcome>>
  BY DEF WriteRow
<1>6. TypeOK'
  BY <1>1, <1>4, <1>5, MoveInv DEF IInv, TypeOK
<1>7. UnusedInv'
  BY <1>3, <1>4, <1>5 DEF IInv, UnusedInv
<1>8. DoneHasReport'
  <2>1. TheJob(j).report <=> TheJob(j).status = "done"
    BY <1>3 DEF IInv, DoneHasReport, TheJob
  <2>2. ASSUME NEW k \in Jobs
        PROVE  row'[k].report <=> row'[k].status = "done"
    BY <1>4, <2>1 DEF IInv, DoneHasReport
  <2>. QED  BY <2>2, <1>5 DEF IInv, DoneHasReport
<1>9. NoFalseOutcome'
  <2>1. TheJob(j).status \in Outcomes => TheJob(j).status = outcome[j]
    BY <1>3 DEF IInv, NoFalseOutcome, TheJob
  <2>2. ASSUME NEW k \in Jobs, row'[k].status \in Outcomes
        PROVE  row'[k].status = outcome[k]
    BY <1>4, <2>1, <2>2 DEF IInv, NoFalseOutcome
  <2>. QED  BY <2>2, <1>5 DEF IInv, NoFalseOutcome
<1>. QED  BY <1>1, <1>2, <1>5, <1>6, <1>7, <1>8, <1>9, MoveInv DEF IInv

-----------------------------------------------------------------------------
(***************************************************************************)
(* The steps that create jobs, start and join threads, or change a Job.    *)
(***************************************************************************)
\* IInv is kept when load_repo registers a pending job.
LEMMA LoadRepoInv ==
    ASSUME IInv, NEW p \in Procs, NEW j \in Jobs, LoadRepo(p, j)
    PROVE  IInv'
<1>. USE DEF IInv
<1>1. /\ pc' \in [Threads -> [Jobs -> Pcs]]
      /\ \A u \in Threads, k \in Jobs : pc'[u][k] \in PcsOf(u)
      /\ \A u \in Threads, k \in Jobs :
            pc'[u][k] = IF u = "load" /\ k = j THEN "encode" ELSE pc[u][k]
  BY GotoEffect DEF LoadRepo, PcsOf
<1>2. up[p] = "up" /\ owner[j] = NoProc
  BY DEF LoadRepo
<1>3. /\ mem' \in [Procs -> [Jobs -> Job]]
      /\ \A q \in Procs, k \in Jobs :
            IF q = p /\ k = j
            THEN /\ mem'[q][k].status = "pending"
                 /\ mem'[q][k].report = FALSE
            ELSE mem'[q][k] = mem[q][k]
  <2>1. NewJob("pending") \in Job
    BY DEF NewJob, Job
  <2>2. /\ NewJob("pending").status = "pending"
        /\ NewJob("pending").report = FALSE
    BY DEF NewJob
  <2>. QED  BY <2>1, <2>2, SetJobEffect DEF LoadRepo
<1>4. /\ owner' \in [Jobs -> Procs \cup {NoProc}]
      /\ \A k \in Jobs : owner'[k] = IF k = j THEN p ELSE owner[k]
  BY DEF LoadRepo, TypeOK
<1>5. p # NoProc
  BY ConstantsAssumption
<1>6. \A u \in Threads : pc[u][j] = "off"
  BY <1>2, ConstantsAssumption DEF HomeInv
<1>7. UNCHANGED <<row, up, stage, ticks, last, encoded, history, outcome>>
  BY DEF LoadRepo
<1>8. TypeOK'
  BY <1>1, <1>3, <1>4, <1>7
     DEF TypeOK
<1>9. UnusedInv'
  BY <1>2, <1>3, <1>4, <1>5, <1>6, <1>7
     DEF UnusedInv
<1>10. DownInv'
  BY <1>2, <1>3, <1>5, <1>6, <1>7
     DEF DownInv
<1>11. HomeInv'
  BY <1>1, <1>2, <1>4, <1>5, <1>6, <1>7
     DEF HomeInv
<1>12. RequestInv'
  <2>1. outcome[j] = "none"
    BY <1>2 DEF UnusedInv
  <2>2. TheJob(j)'.status = "pending"
    BY <1>3, <1>4 DEF TheJob
  <2>3. \A k \in Jobs : k # j /\ owner[k] \in Procs
           => TheJob(k)' = TheJob(k)
    BY <1>3, <1>4 DEF TheJob
  <2>. QED  BY <1>1, <1>6, <1>7, <2>1, <2>2, <2>3 DEF RequestInv, HomeInv
<1>13. RunnerInv'
  BY <1>1, <1>2, <1>3, <1>4, <1>5, <1>6, <1>7
     DEF RunnerInv, RequestInv, HomeInv, TheJob, RunnerComputing, WorkerAlive,
         WorkerEnded
<1>14. WorkerInv'
  BY <1>1, <1>2, <1>5, <1>6, <1>7
     DEF WorkerInv, RunnerInv, RequestInv, TheJob, RunnerComputing,
         WorkerAlive, WorkerEnded
<1>15. EncodedInv'
  BY <1>1, <1>2, <1>3, <1>4, <1>5, <1>6, <1>7
     DEF EncodedInv, HomeInv, TheJob
<1>16. DoneHasReport'
  BY <1>2, <1>3, <1>5, <1>6, <1>7
     DEF DoneHasReport
<1>17. NoFalseOutcome'
  BY <1>2, <1>3, <1>5, <1>6, <1>7
     DEF NoFalseOutcome
<1>. QED  BY <1>8, <1>9, <1>10, <1>11, <1>12, <1>13, <1>14, <1>15, <1>16,
          <1>17

\* IInv is kept when load_from_report registers a done job.
LEMMA LoadFromReportInv ==
    ASSUME IInv, NEW p \in Procs, NEW j \in Jobs, LoadFromReport(p, j)
    PROVE  IInv'
<1>. USE DEF IInv
<1>1. /\ pc' \in [Threads -> [Jobs -> Pcs]]
      /\ \A u \in Threads, k \in Jobs : pc'[u][k] \in PcsOf(u)
      /\ \A u \in Threads, k \in Jobs :
            pc'[u][k] = IF u = "report" /\ k = j THEN "encode" ELSE pc[u][k]
  BY GotoEffect DEF LoadFromReport, PcsOf
<1>2. up[p] = "up" /\ owner[j] = NoProc
  BY DEF LoadFromReport
<1>3. /\ mem' \in [Procs -> [Jobs -> Job]]
      /\ \A q \in Procs, k \in Jobs :
            IF q = p /\ k = j
            THEN /\ mem'[q][k].status = "done"
                 /\ mem'[q][k].report = TRUE
            ELSE mem'[q][k] = mem[q][k]
  <2>1. NewJob("done") \in Job
    BY DEF NewJob, Job
  <2>2. /\ NewJob("done").status = "done"
        /\ NewJob("done").report = TRUE
    BY DEF NewJob
  <2>. QED  BY <2>1, <2>2, SetJobEffect DEF LoadFromReport
<1>4. /\ owner' \in [Jobs -> Procs \cup {NoProc}]
      /\ \A k \in Jobs : owner'[k] = IF k = j THEN p ELSE owner[k]
  BY DEF LoadFromReport, TypeOK
<1>5. p # NoProc
  BY ConstantsAssumption
<1>6. \A u \in Threads : pc[u][j] = "off"
  BY <1>2, ConstantsAssumption DEF HomeInv
<1>7. /\ outcome' \in [Jobs -> Outcomes \cup {"none"}]
      /\ \A k \in Jobs : outcome'[k] = IF k = j THEN "done" ELSE outcome[k]
  BY DEF LoadFromReport, TypeOK
<1>8. outcome[j] = "none"
  BY <1>2 DEF UnusedInv
<1>9. UNCHANGED <<row, up, stage, ticks, last, encoded, history>>
  BY DEF LoadFromReport
<1>10. TypeOK'
  BY <1>1, <1>3, <1>4, <1>7, <1>9
     DEF TypeOK
<1>11. UnusedInv'
  BY <1>2, <1>3, <1>4, <1>5, <1>6, <1>7, <1>8, <1>9
     DEF UnusedInv
<1>12. DownInv'
  BY <1>2, <1>3, <1>5, <1>6, <1>8, <1>9
     DEF DownInv
<1>13. HomeInv'
  BY <1>1, <1>2, <1>4, <1>5, <1>6, <1>8, <1>9
     DEF HomeInv
<1>14. RequestInv'
  BY <1>1, <1>2, <1>3, <1>4, <1>5, <1>6, <1>7, <1>8, <1>9
     DEF RequestInv, TheJob, HomeInv
<1>15. RunnerInv'
  BY <1>1, <1>2, <1>3, <1>4, <1>5, <1>6, <1>7, <1>8, <1>9
     DEF RunnerInv, RequestInv, HomeInv, TheJob, RunnerComputing, WorkerAlive,
         WorkerEnded
<1>16. WorkerInv'
  BY <1>1, <1>2, <1>5, <1>6, <1>7, <1>8, <1>9
     DEF WorkerInv, RunnerInv, RequestInv, TheJob, RunnerComputing,
         WorkerAlive, WorkerEnded
<1>17. EncodedInv'
  BY <1>1, <1>2, <1>3, <1>4, <1>5, <1>6, <1>8, <1>9
     DEF EncodedInv, HomeInv, TheJob
<1>18. DoneHasReport'
  BY <1>2, <1>3, <1>5, <1>6, <1>8, <1>9
     DEF DoneHasReport
<1>19. NoFalseOutcome'
  BY <1>2, <1>3, <1>5, <1>6, <1>7, <1>8, <1>9
     DEF NoFalseOutcome
<1>. QED  BY <1>10, <1>11, <1>12, <1>13, <1>14, <1>15, <1>16, <1>17, <1>18,
          <1>19

\* IInv is kept when load_repo starts _run_job.
LEMMA StartRunnerInv ==
    ASSUME IInv, NEW j \in Jobs, StartRunner(j)
    PROVE  IInv'
<1>. USE DEF IInv
<1>1. /\ pc' \in [Threads -> [Jobs -> Pcs]]
      /\ \A u \in Threads, k \in Jobs :
            pc'[u][k] = IF u = "load" /\ k = j THEN "off"
                        ELSE IF u = "runner" /\ k = j THEN "start"
                        ELSE pc[u][k]
  BY DEF StartRunner, TypeOK, Pcs
<1>2. \A u \in Threads, k \in Jobs : pc'[u][k] \in PcsOf(u)
  BY <1>1 DEF TypeOK, PcsOf
<1>3. pc["load"][j] = "start"
  BY DEF StartRunner
<1>4. UNCHANGED <<mem, row, up, owner, stage, ticks, encoded, history, outcome>>
  BY DEF StartRunner
<1>5. /\ outcome[j] = "none" /\ TheJob(j).status \in Running
      /\ pc["worker"][j] = "off" /\ pc["report"][j] = "off"
  BY <1>3 DEF RequestInv
<1>6. last' \in [Jobs -> Statuses]
  BY <1>5 DEF StartRunner, TypeOK
<1>7. UnusedInv' /\ DownInv' /\ DoneHasReport'
         /\ NoFalseOutcome'
  BY <1>4 DEF UnusedInv, DownInv, DoneHasReport, NoFalseOutcome
<1>8. TypeOK'
  BY <1>1, <1>2, <1>4, <1>6
     DEF TypeOK
<1>9. HomeInv'
  BY <1>1, <1>2, <1>3, <1>4, <1>5
     DEF HomeInv
<1>10. RequestInv'
  BY <1>1, <1>2, <1>3, <1>4, <1>5
     DEF RequestInv, TheJob
<1>11. RunnerInv'
  BY <1>1, <1>2, <1>3, <1>4, <1>5
     DEF RunnerInv, RequestInv, HomeInv, TheJob, RunnerComputing, WorkerAlive,
         WorkerEnded
<1>12. WorkerInv'
  BY <1>1, <1>2, <1>3, <1>4, <1>5
     DEF WorkerInv, RunnerInv, RequestInv, TheJob, RunnerComputing,
         WorkerAlive, WorkerEnded
<1>13. EncodedInv'
  BY <1>1, <1>2, <1>3, <1>4, <1>5
     DEF EncodedInv, HomeInv, TheJob
<1>. QED  BY <1>7, <1>8, <1>9, <1>10, <1>11, <1>12, <1>13

\* IInv is kept when _mine_for_history_async sets the facts or gives up.
LEMMA MineForHistoryInv ==
    ASSUME IInv, NEW p \in Procs, NEW j \in Jobs, MineForHistory(p, j)
    PROVE  IInv'
<1>. USE DEF IInv
<1>1. /\ mem' \in [Procs -> [Jobs -> Job]]
      /\ \A q \in Procs, k \in Jobs :
            /\ mem'[q][k].status = mem[q][k].status
            /\ mem'[q][k].report = mem[q][k].report
  <2>. DEFINE r == [mem[p][j] EXCEPT !.facts = TRUE]
  <2>1. mem[p][j] \in Job
    BY DEF TypeOK
  <2>2. r \in Job /\ r.status = mem[p][j].status /\ r.report = mem[p][j].report
    BY <2>1 DEF Job
  <2>3. mem' = [mem EXCEPT ![p][j] = r] \/ mem' = mem
    BY DEF MineForHistory
  <2>4. CASE mem' = mem
    BY <2>4 DEF TypeOK
  <2>5. CASE mem' = [mem EXCEPT ![p][j] = r]
    <3>. HIDE DEF r
    <3>1. /\ mem' \in [Procs -> [Jobs -> Job]]
          /\ \A q \in Procs, k \in Jobs :
                mem'[q][k] = IF q = p /\ k = j THEN r ELSE mem[q][k]
      BY <2>2, <2>5, SetJobEffect
    <3>. QED  BY <2>2, <3>1
  <2>. QED  BY <2>3, <2>4, <2>5
<1>2. history' \in [Procs -> [Jobs -> BOOLEAN]]
  BY DEF MineForHistory, TypeOK
<1>3. UNCHANGED <<row, up, owner, pc, stage, ticks, last, encoded, outcome>>
  BY DEF MineForHistory
<1>4. HomeInv' /\ WorkerInv'
  BY <1>3 DEF HomeInv, WorkerInv, RunnerComputing, WorkerAlive, WorkerEnded
<1>5. TypeOK'
  BY <1>1, <1>2, <1>3
     DEF TypeOK
<1>6. UnusedInv'
  BY <1>1, <1>3
     DEF UnusedInv
<1>7. DownInv'
  BY <1>1, <1>3
     DEF DownInv
<1>8. RequestInv'
  BY <1>1, <1>3
     DEF RequestInv, TheJob, HomeInv
<1>9. RunnerInv'
  BY <1>1, <1>3
     DEF RunnerInv, RequestInv, HomeInv, TheJob, RunnerComputing, WorkerAlive,
         WorkerEnded
<1>10. EncodedInv'
  BY <1>1, <1>3
     DEF EncodedInv, HomeInv, TheJob
<1>11. DoneHasReport'
  BY <1>1, <1>3
     DEF DoneHasReport
<1>12. NoFalseOutcome'
  BY <1>1, <1>3
     DEF NoFalseOutcome
<1>. QED  BY <1>4, <1>5, <1>6, <1>7, <1>8, <1>9, <1>10, <1>11, <1>12

\* IInv is kept when cancel_job sets the Stop flag of a job that has not ended.
LEMMA CancelJobInv ==
    ASSUME IInv, NEW p \in Procs, NEW j \in Jobs, CancelJob(p, j)
    PROVE  IInv'
<1>. USE DEF IInv
<1>1. /\ mem' \in [Procs -> [Jobs -> Job]]
      /\ \A q \in Procs, k \in Jobs :
            /\ mem'[q][k].status = mem[q][k].status
            /\ mem'[q][k].report = mem[q][k].report
  <2>. DEFINE r == [mem[p][j] EXCEPT !.cancel = TRUE]
  <2>1. mem[p][j] \in Job
    BY DEF TypeOK
  <2>2. r \in Job /\ r.status = mem[p][j].status /\ r.report = mem[p][j].report
    BY <2>1 DEF Job
  <2>3. mem' = [mem EXCEPT ![p][j] = r] \/ mem' = mem
    BY DEF CancelJob
  <2>4. CASE mem' = mem
    BY <2>4 DEF TypeOK
  <2>5. CASE mem' = [mem EXCEPT ![p][j] = r]
    <3>. HIDE DEF r
    <3>1. /\ mem' \in [Procs -> [Jobs -> Job]]
          /\ \A q \in Procs, k \in Jobs :
                mem'[q][k] = IF q = p /\ k = j THEN r ELSE mem[q][k]
      BY <2>2, <2>5, SetJobEffect
    <3>. QED  BY <2>2, <3>1
  <2>. QED  BY <2>3, <2>4, <2>5
<1>2. UNCHANGED <<row, up, owner, pc, stage, ticks, last, encoded, history,
                  outcome>>
  BY DEF CancelJob
<1>3. HomeInv' /\ WorkerInv'
  BY <1>2 DEF HomeInv, WorkerInv, RunnerComputing, WorkerAlive, WorkerEnded
<1>4. TypeOK'
  BY <1>1, <1>2
     DEF TypeOK
<1>5. UnusedInv'
  BY <1>1, <1>2
     DEF UnusedInv
<1>6. DownInv'
  BY <1>1, <1>2
     DEF DownInv
<1>7. RequestInv'
  BY <1>1, <1>2
     DEF RequestInv, TheJob, HomeInv
<1>8. RunnerInv'
  BY <1>1, <1>2
     DEF RunnerInv, RequestInv, HomeInv, TheJob, RunnerComputing, WorkerAlive,
         WorkerEnded
<1>9. EncodedInv'
  BY <1>1, <1>2
     DEF EncodedInv, HomeInv, TheJob
<1>10. DoneHasReport'
  BY <1>1, <1>2
     DEF DoneHasReport
<1>11. NoFalseOutcome'
  BY <1>1, <1>2
     DEF NoFalseOutcome
<1>. QED  BY <1>3, <1>4, <1>5, <1>6, <1>7, <1>8, <1>9, <1>10, <1>11

\* IInv is kept when progress_cb sets the stage under _JOBS_LOCK.
LEMMA SetStageInv ==
    ASSUME IInv, NEW t \in Threads, NEW j \in Jobs, SetStage(t, j)
    PROVE  IInv'
<1>. USE DEF IInv
<1>1. "compare" \in PcsOf(t)
  BY DEF SetStage, TypeOK, PcsOf
<1>2. /\ pc' \in [Threads -> [Jobs -> Pcs]]
      /\ \A u \in Threads, k \in Jobs : pc'[u][k] \in PcsOf(u)
      /\ \A u \in Threads, k \in Jobs :
            pc'[u][k] = IF u = t /\ k = j THEN "compare" ELSE pc[u][k]
  BY <1>1, GotoEffect DEF SetStage
<1>3. pc[t][j] = "update"
  BY DEF SetStage
<1>4. UNCHANGED <<row, up, owner, stage, ticks, last, encoded, history,
                  outcome>>
  BY DEF SetStage
<1>5. owner[j] \in Procs /\ owner[j] # NoProc /\ up[owner[j]] = "up"
  BY <1>3, ConstantsAssumption DEF HomeInv
<1>6. \/ t = "runner" /\ RunnerComputing(j)
      \/ t = "worker" /\ WorkerAlive(j)
  BY <1>3 DEF TypeOK, PcsOf, RunnerComputing, WorkerAlive, WorkerEnded
<1>7. /\ TheJob(j) \in Job
      /\ outcome[j] # "done" /\ TheJob(j).status # "done"
  <2>1. TheJob(j) \in Job
    BY <1>5 DEF TypeOK, TheJob
  <2>2. outcome[j] # "done"
    BY <1>6 DEF RunnerInv, WorkerInv, RunnerComputing
  <2>3. TheJob(j).status \in Outcomes => TheJob(j).status = outcome[j]
    BY <1>5 DEF NoFalseOutcome, TheJob
  <2>. QED  BY <2>1, <2>2, <2>3
<1>8. TheJob(j).report = FALSE
  BY <1>5, <1>7 DEF DoneHasReport, TheJob, Job
<1>9. /\ mem' \in [Procs -> [Jobs -> Job]]
      /\ \A q \in Procs, k \in Jobs :
            IF q = owner[j] /\ k = j
            THEN /\ mem'[q][k].status = stage[j]
                 /\ mem'[q][k].report = FALSE
            ELSE mem'[q][k] = mem[q][k]
  <2>. DEFINE r == [TheJob(j) EXCEPT !.status = stage[j]]
  <2>1. r \in Job /\ r.status = stage[j] /\ r.report = FALSE
    BY <1>7, <1>8 DEF TypeOK, Job
  <2>2. mem' = [mem EXCEPT ![owner[j]][j] = r]
    BY <1>5 DEF SetStage, TypeOK, TheJob
  <2>. QED  BY <1>5, <2>1, <2>2, SetJobEffect
<1>10. stage[j] \in Stages
  BY DEF TypeOK
<1>21. /\ TheJob(j)'.status = stage[j]
       /\ TheJob(j)'.report = FALSE
       /\ \A k \in Jobs : k # j /\ owner[k] \in Procs
             => TheJob(k)' = TheJob(k)
  BY <1>4, <1>5, <1>9 DEF TheJob
<1>11. TypeOK'
  BY <1>2, <1>4, <1>9
     DEF TypeOK
<1>12. UnusedInv'
  BY <1>3, <1>4, <1>5, <1>6, <1>7, <1>8, <1>9, <1>10
     DEF UnusedInv
<1>13. DownInv'
  BY <1>3, <1>4, <1>5, <1>6, <1>7, <1>8, <1>9, <1>10
     DEF DownInv
<1>14. HomeInv'
  BY <1>2, <1>3, <1>4, <1>5, <1>6, <1>7, <1>8, <1>10
     DEF HomeInv
<1>15. RequestInv'
  BY <1>2, <1>3, <1>4, <1>5, <1>6, <1>7, <1>8, <1>9, <1>10
     DEF RequestInv, TheJob, HomeInv
<1>16. RunnerInv'
  <2>1. \A k \in Jobs : RunnerComputing(k)' = RunnerComputing(k)
    BY <1>2, <1>3, <1>6 DEF RunnerComputing
  <2>2. \A k \in Jobs : pc'["runner"][k] \in Sealing
           => pc["runner"][k] \in Sealing
    BY <1>2
  <2>3. pc["runner"][j] \in Sealing => outcome[j] = "error"
    BY <1>3, <1>6 DEF WorkerInv, RunnerComputing
  <2>. QED  BY <2>1, <2>2, <2>3, <1>4, <1>10, <1>21
            DEF RunnerInv, HomeInv, RunnerComputing
<1>17. WorkerInv'
  BY <1>2, <1>3, <1>4, <1>5, <1>6, <1>7, <1>8, <1>10
     DEF WorkerInv, RunnerInv, RequestInv, TheJob, RunnerComputing,
         WorkerAlive, WorkerEnded
<1>18. EncodedInv'
  <2>. SUFFICES ASSUME NEW u \in Threads, NEW k \in Jobs,
                       pc'[u][k] \in {"write", "sealWrite"}
                PROVE  encoded[u][k] = TheJob(k)'.report
    BY <1>4 DEF EncodedInv
  <2>1. pc[u][k] \in {"write", "sealWrite"}
    BY <1>2
  <2>2. encoded[u][k] = TheJob(k).report /\ owner[k] \in Procs
    BY <2>1 DEF EncodedInv, HomeInv
  <2>3. CASE k = j
    BY <2>2, <2>3, <1>8, <1>21
  <2>4. CASE k # j
    BY <2>2, <2>4, <1>21
  <2>. QED  BY <2>3, <2>4
<1>19. DoneHasReport'
  BY <1>3, <1>4, <1>5, <1>6, <1>7, <1>8, <1>9, <1>10
     DEF DoneHasReport
<1>20. NoFalseOutcome'
  BY <1>3, <1>4, <1>5, <1>6, <1>7, <1>8, <1>9, <1>10
     DEF NoFalseOutcome
<1>. QED  BY <1>11, <1>12, <1>13, <1>14, <1>15, <1>16, <1>17, <1>18, <1>19,
          <1>20

\* IInv is kept when _mine_with_timeout starts its worker and joins it.
LEMMA StartWorkerInv ==
    ASSUME IInv, NEW j \in Jobs, StartWorker(j)
    PROVE  IInv'
<1>. USE DEF IInv
<1>1. /\ pc' \in [Threads -> [Jobs -> Pcs]]
      /\ \A u \in Threads, k \in Jobs :
            pc'[u][k] = IF u = "runner" /\ k = j THEN "join"
                        ELSE IF u = "worker" /\ k = j THEN "work"
                        ELSE pc[u][k]
  BY DEF StartWorker, TypeOK, Pcs
<1>2. \A u \in Threads, k \in Jobs : pc'[u][k] \in PcsOf(u)
  BY <1>1 DEF TypeOK, PcsOf
<1>3. pc["runner"][j] = "start"
  BY DEF StartWorker
<1>4. UNCHANGED <<mem, row, up, owner, stage, ticks, last, encoded, history,
                  outcome>>
  BY DEF StartWorker
<1>5. pc["load"][j] = "off" /\ pc["report"][j] = "off"
  BY <1>3 DEF RequestInv
<1>6. UnusedInv' /\ DownInv' /\ DoneHasReport'
         /\ NoFalseOutcome'
  BY <1>4 DEF UnusedInv, DownInv, DoneHasReport, NoFalseOutcome
<1>7. TypeOK'
  BY <1>1, <1>2, <1>4
     DEF TypeOK
<1>8. HomeInv'
  BY <1>1, <1>2, <1>3, <1>4, <1>5
     DEF HomeInv
<1>9. RequestInv'
  BY <1>1, <1>2, <1>3, <1>4, <1>5
     DEF RequestInv, TheJob
<1>10. RunnerInv'
  BY <1>1, <1>2, <1>3, <1>4, <1>5
     DEF RunnerInv, RequestInv, HomeInv, TheJob, RunnerComputing, WorkerAlive,
         WorkerEnded
<1>11. WorkerInv'
  BY <1>1, <1>2, <1>3, <1>4, <1>5
     DEF WorkerInv, RunnerInv, RequestInv, TheJob, RunnerComputing,
         WorkerAlive, WorkerEnded
<1>12. EncodedInv'
  BY <1>1, <1>2, <1>3, <1>4, <1>5
     DEF EncodedInv, HomeInv, TheJob
<1>. QED  BY <1>6, <1>7, <1>8, <1>9, <1>10, <1>11, <1>12

\* IInv is kept when _run_job reaches an outcome while no thread of a done job
\* lives.
LEMMA SettleInv ==
    ASSUME IInv, NEW j \in Jobs, NEW s \in Outcomes,
           Settle(j, s), Goto("runner", j, "seal"),
           UNCHANGED <<row, up, owner, stage, ticks, last, encoded, history>>,
           RunnerComputing(j), pc["runner"][j] \notin Callback,
           s # "error" => ~WorkerAlive(j)
    PROVE  IInv'
<1>. USE DEF IInv
<1>1. /\ pc' \in [Threads -> [Jobs -> Pcs]]
      /\ \A u \in Threads, k \in Jobs : pc'[u][k] \in PcsOf(u)
      /\ \A u \in Threads, k \in Jobs :
            pc'[u][k] = IF u = "runner" /\ k = j THEN "seal" ELSE pc[u][k]
  BY GotoEffect DEF PcsOf
<1>2. owner[j] \in Procs /\ owner[j] # NoProc /\ up[owner[j]] = "up"
  BY ConstantsAssumption DEF HomeInv, RunnerComputing
<1>3. outcome[j] = "none" /\ TheJob(j).status \in Running
  BY DEF RunnerInv
<1>4. TheJob(j) \in Job
  BY <1>2 DEF TypeOK, TheJob
<1>5. TheJob(j).report = FALSE
  BY <1>2, <1>3, <1>4 DEF DoneHasReport, TheJob, Job
<1>6. /\ mem' \in [Procs -> [Jobs -> Job]]
      /\ \A q \in Procs, k \in Jobs :
            IF q = owner[j] /\ k = j
            THEN /\ mem'[q][k].status = s
                 /\ mem'[q][k].report = (s = "done")
            ELSE mem'[q][k] = mem[q][k]
  BY <1>2, SettleEffect
<1>7. /\ outcome' \in [Jobs -> Outcomes \cup {"none"}]
      /\ \A k \in Jobs : outcome'[k] = IF k = j THEN s ELSE outcome[k]
  BY <1>2, SettleEffect
<1>8. UNCHANGED <<row, up, owner, stage, ticks, last, encoded, history>>
  OBVIOUS
<1>9. /\ TheJob(j)'.status = s
      /\ TheJob(j)'.report = (s = "done")
      /\ \A k \in Jobs : k # j /\ owner[k] \in Procs
            => TheJob(k)' = TheJob(k)
  BY <1>2, <1>6, <1>8 DEF TheJob
<1>10. pc["load"][j] = "off" /\ pc["report"][j] = "off"
  BY DEF RequestInv, RunnerComputing
<1>11. WorkerAlive(j) => s = "error"
  OBVIOUS
<1>12. TypeOK'
  BY <1>1, <1>6, <1>7, <1>8 DEF TypeOK
<1>13. UnusedInv'
  BY <1>2, <1>6, <1>7, <1>8 DEF UnusedInv
<1>14. DownInv'
  BY <1>2, <1>6, <1>8 DEF DownInv
<1>15. HomeInv'
  BY <1>1, <1>2, <1>8 DEF HomeInv
<1>16. RequestInv'
  BY <1>1, <1>7, <1>8, <1>9, <1>10 DEF RequestInv, HomeInv
<1>17. RunnerInv'
  BY <1>1, <1>7, <1>8, <1>9 DEF RunnerInv, RunnerComputing, HomeInv
<1>18. WorkerInv'
  BY <1>1, <1>3, <1>7, <1>11
     DEF WorkerInv, RunnerComputing, WorkerAlive, WorkerEnded
<1>19. EncodedInv'
  <2>. SUFFICES ASSUME NEW t \in Threads, NEW k \in Jobs,
                       pc'[t][k] \in {"write", "sealWrite"}
                PROVE  encoded[t][k] = TheJob(k)'.report
    BY <1>8 DEF EncodedInv
  <2>1. pc[t][k] \in {"write", "sealWrite"}
    BY <1>1
  <2>2. encoded[t][k] = TheJob(k).report /\ owner[k] \in Procs
    BY <2>1 DEF EncodedInv, HomeInv
  <2>3. CASE k # j
    BY <2>2, <2>3, <1>9
  <2>4. CASE k = j
    <3>1. t = "worker"
      BY <1>1, <1>10, <2>1, <2>4
    <3>2. s = "error"
      BY <2>1, <2>4, <3>1, <1>11 DEF WorkerAlive, WorkerEnded
    <3>. QED  BY <2>2, <2>4, <3>2, <1>5, <1>9
  <2>. QED  BY <2>3, <2>4
<1>20. DoneHasReport'
  <2>1. ASSUME NEW q \in Procs, NEW k \in Jobs
        PROVE  mem'[q][k].report <=> mem'[q][k].status = "done"
    <3>1. CASE q = owner[j] /\ k = j
      BY <1>6, <3>1
    <3>2. CASE ~(q = owner[j] /\ k = j)
      BY <1>6, <3>2 DEF DoneHasReport
    <3>. QED  BY <3>1, <3>2
  <2>. QED  BY <2>1, <1>8 DEF DoneHasReport
<1>21. NoFalseOutcome'
  BY <1>3, <1>6, <1>7, <1>8 DEF NoFalseOutcome
<1>. QED  BY <1>12, <1>13, <1>14, <1>15, <1>16, <1>17, <1>18, <1>19, <1>20,
          <1>21

\* IInv is kept when _run_job succeeds.
LEMMA FinishDoneInv ==
    ASSUME IInv, NEW j \in Jobs, FinishDone(j)
    PROVE  IInv'
<1>1. RunnerComputing(j) /\ pc["runner"][j] \notin Callback
  BY DEF FinishDone, RunnerComputing
<1>2. ~WorkerAlive(j)
  BY <1>1 DEF IInv, FinishDone, WorkerInv
<1>. QED  BY <1>1, <1>2, SettleInv DEF FinishDone

\* IInv is kept when _run_job stops on JobCancelled.
LEMMA FinishCancelledInv ==
    ASSUME IInv, NEW j \in Jobs, FinishCancelled(j)
    PROVE  IInv'
<1>1. RunnerComputing(j) /\ pc["runner"][j] \notin Callback
  BY DEF FinishCancelled, RunnerComputing
<1>2. ~WorkerAlive(j)
  BY <1>1 DEF IInv, FinishCancelled, WorkerInv
<1>. QED  BY <1>1, <1>2, SettleInv DEF FinishCancelled

\* IInv is kept when _run_job fails.
LEMMA FinishErrorInv ==
    ASSUME IInv, NEW j \in Jobs, FinishError(j)
    PROVE  IInv'
<1>1. RunnerComputing(j) /\ pc["runner"][j] \notin Callback
  BY DEF FinishError, RunnerComputing
<1>. QED  BY <1>1, SettleInv DEF FinishError

\* IInv is kept when _run_job gives up on mining and leaves the worker behind.
LEMMA FinishTimeoutInv ==
    ASSUME IInv, NEW j \in Jobs, FinishTimeout(j)
    PROVE  IInv'
<1>1. RunnerComputing(j) /\ pc["runner"][j] \notin Callback
  BY DEF FinishTimeout, RunnerComputing
<1>. QED  BY <1>1, SettleInv DEF FinishTimeout

\* IInv is kept when the process dies.
LEMMA CrashInv ==
    ASSUME IInv, NEW p \in Procs, Crash(p)
    PROVE  IInv'
<1>. USE DEF IInv
<1>1. \A t \in Threads, j \in Jobs :
         pc'[t][j] = IF owner[j] = p THEN "off" ELSE pc[t][j]
  BY DEF Crash
<1>2. /\ pc' \in [Threads -> [Jobs -> Pcs]]
      /\ \A t \in Threads, j \in Jobs : pc'[t][j] \in PcsOf(t)
  BY DEF Crash, TypeOK, Pcs, PcsOf
<1>3. NoJob \in Job /\ NoJob.status = "absent" /\ NoJob.report = FALSE
  BY DEF NoJob, NewJob, Job
<1>4. /\ mem' \in [Procs -> [Jobs -> Job]]
      /\ \A q \in Procs, j \in Jobs :
            mem'[q][j] = IF q = p THEN NoJob ELSE mem[q][j]
  BY <1>3 DEF Crash, TypeOK
<1>5. /\ up' \in [Procs -> {"down", "marked", "up"}]
      /\ \A q \in Procs : up'[q] = IF q = p THEN "down" ELSE up[q]
  BY DEF Crash, TypeOK
<1>6. history' \in [Procs -> [Jobs -> BOOLEAN]]
  BY DEF Crash, TypeOK
<1>7. UNCHANGED <<row, owner, stage, ticks, last, encoded, outcome>>
  BY DEF Crash
<1>8. TypeOK'
  BY <1>1, <1>2, <1>4, <1>5, <1>6, <1>7
     DEF TypeOK
<1>9. UnusedInv'
  BY <1>3, <1>4, <1>7
     DEF UnusedInv
<1>10. DownInv'
  BY <1>3, <1>4, <1>5, <1>7
     DEF DownInv
<1>11. HomeInv'
  BY <1>1, <1>2, <1>3, <1>5, <1>7
     DEF HomeInv
<1>12. RequestInv'
  BY <1>1, <1>2, <1>3, <1>4, <1>7
     DEF RequestInv, TheJob, HomeInv
<1>13. RunnerInv'
  BY <1>1, <1>2, <1>3, <1>4, <1>7
     DEF RunnerInv, RequestInv, HomeInv, TheJob, RunnerComputing, WorkerAlive,
         WorkerEnded
<1>14. WorkerInv'
  BY <1>1, <1>2, <1>3, <1>7
     DEF WorkerInv, RunnerInv, RequestInv, TheJob, RunnerComputing,
         WorkerAlive, WorkerEnded
<1>15. EncodedInv'
  BY <1>1, <1>2, <1>3, <1>4, <1>7
     DEF EncodedInv, HomeInv, TheJob
<1>16. DoneHasReport'
  BY <1>3, <1>4, <1>7
     DEF DoneHasReport
<1>17. NoFalseOutcome'
  BY <1>3, <1>4, <1>7
     DEF NoFalseOutcome
<1>. QED  BY <1>8, <1>9, <1>10, <1>11, <1>12, <1>13, <1>14, <1>15, <1>16,
          <1>17

\* IInv is kept when mark_interrupted reclassifies the rows of dead jobs.
LEMMA MarkInterruptedInv ==
    ASSUME IInv, NEW p \in Procs, MarkInterrupted(p)
    PROVE  IInv'
<1>. USE DEF IInv
<1>1. \A k \in Jobs :
         \/ row'[k] = row[k]
         \/ /\ row[k].status \in Running
            /\ row'[k].status = "interrupted" /\ row'[k].report = row[k].report
  BY DEF MarkInterrupted, TypeOK, Row
<1>2. row' \in [Jobs -> Row]
  <2>1. \A k \in Jobs : row[k] \in Row
    BY DEF TypeOK
  <2>2. \A k \in Jobs : [row[k] EXCEPT !.status = "interrupted"] \in Row
    BY <2>1 DEF Row
  <2>. QED  BY <2>1, <2>2 DEF MarkInterrupted
<1>3. up[p] = "down"
  BY DEF MarkInterrupted
<1>4. /\ up' \in [Procs -> {"down", "marked", "up"}]
      /\ \A q \in Procs : up'[q] = IF q = p THEN "marked" ELSE up[q]
  BY DEF MarkInterrupted, TypeOK
<1>5. UNCHANGED <<mem, owner, pc, stage, ticks, last, encoded, history,
                  outcome>>
  BY DEF MarkInterrupted
<1>6. RequestInv' /\ RunnerInv' /\ WorkerInv'
         /\ EncodedInv'
  BY <1>5 DEF RequestInv, RunnerInv, WorkerInv, EncodedInv, TheJob,
         RunnerComputing, WorkerAlive, WorkerEnded
<1>7. TypeOK'
  BY <1>1, <1>2, <1>4, <1>5
     DEF TypeOK
<1>8. UnusedInv'
  BY <1>1, <1>2, <1>3, <1>5
     DEF UnusedInv
<1>9. DownInv'
  BY <1>3, <1>4, <1>5
     DEF DownInv
<1>10. HomeInv'
  BY <1>3, <1>4, <1>5
     DEF HomeInv
<1>11. DoneHasReport'
  BY <1>1, <1>2, <1>3, <1>5
     DEF DoneHasReport
<1>12. NoFalseOutcome'
  BY <1>1, <1>2, <1>3, <1>5
     DEF NoFalseOutcome
<1>. QED  BY <1>6, <1>7, <1>8, <1>9, <1>10, <1>11, <1>12

\* IInv is kept when _restore_jobs_from_disk loads the rows.
LEMMA RestoreJobsInv ==
    ASSUME IInv, NEW p \in Procs, RestoreJobs(p)
    PROVE  IInv'
<1>. USE DEF IInv
<1>1. /\ mem' \in [Procs -> [Jobs -> Job]]
      /\ \A q \in Procs, k \in Jobs :
            IF q = p
            THEN /\ mem'[q][k].status = row[k].status
                 /\ mem'[q][k].report = row[k].report
            ELSE mem'[q][k] = mem[q][k]
  BY DEF RestoreJobs, TypeOK, Job, Row
<1>2. up[p] = "marked"
  BY DEF RestoreJobs
<1>3. /\ up' \in [Procs -> {"down", "marked", "up"}]
      /\ \A q \in Procs : up'[q] = IF q = p THEN "up" ELSE up[q]
  BY DEF RestoreJobs, TypeOK
<1>4. \A t \in Threads, j \in Jobs : pc[t][j] # "off" => owner[j] # p
  BY <1>2 DEF HomeInv
<1>5. history' \in [Procs -> [Jobs -> BOOLEAN]]
  BY DEF RestoreJobs, TypeOK, Row
<1>6. UNCHANGED <<row, owner, pc, stage, ticks, last, encoded, outcome>>
  BY DEF RestoreJobs
<1>7. WorkerInv'
  BY <1>6 DEF WorkerInv, RunnerComputing, WorkerAlive, WorkerEnded
<1>8. TypeOK'
  BY <1>1, <1>3, <1>5, <1>6
     DEF TypeOK
<1>9. UnusedInv'
  BY <1>1, <1>2, <1>4, <1>6
     DEF UnusedInv
<1>10. DownInv'
  BY <1>1, <1>2, <1>3, <1>4, <1>6
     DEF DownInv
<1>11. HomeInv'
  BY <1>2, <1>3, <1>4, <1>6
     DEF HomeInv
<1>12. RequestInv'
  BY <1>1, <1>2, <1>4, <1>6
     DEF RequestInv, TheJob, HomeInv
<1>13. RunnerInv'
  BY <1>1, <1>2, <1>4, <1>6
     DEF RunnerInv, RequestInv, HomeInv, TheJob, RunnerComputing, WorkerAlive,
         WorkerEnded
<1>14. EncodedInv'
  BY <1>1, <1>2, <1>4, <1>6
     DEF EncodedInv, HomeInv, TheJob
<1>15. DoneHasReport'
  BY <1>1, <1>2, <1>4, <1>6
     DEF DoneHasReport
<1>16. NoFalseOutcome'
  BY <1>1, <1>2, <1>4, <1>6
     DEF NoFalseOutcome
<1>. QED  BY <1>7, <1>8, <1>9, <1>10, <1>11, <1>12, <1>13, <1>14, <1>15, <1>16

\* IInv is kept when the worker's result or exception reaches the runner.
LEMMA JoinWorkerInv ==
    ASSUME IInv, NEW j \in Jobs, JoinWorker(j)
    PROVE  IInv'
<1>. USE DEF IInv
<1>1. PICK l \in {"work", "cancelled"} :
         pc' = [pc EXCEPT !["worker"][j] = "off", !["runner"][j] = l]
  BY DEF JoinWorker
<1>2. /\ pc' \in [Threads -> [Jobs -> Pcs]]
      /\ \A u \in Threads, k \in Jobs :
            pc'[u][k] = IF u = "worker" /\ k = j THEN "off"
                        ELSE IF u = "runner" /\ k = j THEN l
                        ELSE pc[u][k]
  BY <1>1 DEF TypeOK, Pcs
<1>3. \A u \in Threads, k \in Jobs : pc'[u][k] \in PcsOf(u)
  BY <1>2 DEF TypeOK, PcsOf
<1>4. /\ pc["runner"][j] = "join"
      /\ pc["worker"][j] \in {"finished", "cancelled"}
  BY DEF JoinWorker
<1>5. UNCHANGED <<mem, row, up, owner, stage, ticks, last, encoded, history,
                   outcome>>
  BY DEF JoinWorker
<1>6. pc["load"][j] = "off" /\ pc["report"][j] = "off"
  BY <1>4 DEF RequestInv
<1>7. UnusedInv' /\ DownInv' /\ DoneHasReport'
         /\ NoFalseOutcome'
  BY <1>5 DEF UnusedInv, DownInv, DoneHasReport, NoFalseOutcome
<1>8. TypeOK'
  BY <1>1, <1>2, <1>3, <1>5
     DEF TypeOK
<1>9. HomeInv'
  BY <1>1, <1>2, <1>3, <1>4, <1>5, <1>6
     DEF HomeInv
<1>10. RequestInv'
  BY <1>1, <1>2, <1>3, <1>4, <1>5, <1>6
     DEF RequestInv, TheJob
<1>11. RunnerInv'
  BY <1>1, <1>2, <1>3, <1>4, <1>5, <1>6
     DEF RunnerInv, RequestInv, HomeInv, TheJob, RunnerComputing, WorkerAlive,
         WorkerEnded
<1>12. WorkerInv'
  BY <1>1, <1>2, <1>3, <1>4, <1>5, <1>6
     DEF WorkerInv, RunnerInv, RequestInv, TheJob, RunnerComputing,
         WorkerAlive, WorkerEnded
<1>13. EncodedInv'
  BY <1>1, <1>2, <1>3, <1>4, <1>5, <1>6
     DEF EncodedInv, HomeInv, TheJob
<1>. QED  BY <1>7, <1>8, <1>9, <1>10, <1>11, <1>12, <1>13

-----------------------------------------------------------------------------
(***************************************************************************)
(* The invariant holds at start and is kept by every step.                 *)
(***************************************************************************)
\* IInv holds initially: no process is up and no id is handed out.
LEMMA InitInv == Init => IInv
<1>. SUFFICES ASSUME Init PROVE IInv
  OBVIOUS
<1>1. TypeOK
  <2>1. NoJob \in Job /\ NoRow \in Row
    BY DEF NoJob, NewJob, Job, NoRow, Row
  <2>2. /\ mem \in [Procs -> [Jobs -> Job]]
        /\ row \in [Jobs -> Row]
    BY <2>1 DEF Init
  <2>3. /\ pc \in [Threads -> [Jobs -> Pcs]]
        /\ \A t \in Threads, j \in Jobs : pc[t][j] \in PcsOf(t)
    BY DEF Init, Pcs, PcsOf
  <2>4. ticks \in [Jobs -> 0 .. MaxTicks]
    BY ConstantsAssumption DEF Init
  <2>5. /\ encoded \in [Threads -> [Jobs -> BOOLEAN]]
        /\ history \in [Procs -> [Jobs -> BOOLEAN]]
        /\ up \in [Procs -> {"down", "marked", "up"}]
        /\ owner \in [Jobs -> Procs \cup {NoProc}]
    BY DEF Init
  <2>6. /\ stage \in [Jobs -> Stages]
        /\ last \in [Jobs -> Statuses]
        /\ outcome \in [Jobs -> Outcomes \cup {"none"}]
    BY DEF Init
  <2>. QED  BY <2>2, <2>3, <2>4, <2>5, <2>6 DEF TypeOK
<1>2. /\ \A t \in Threads, j \in Jobs : pc[t][j] = "off"
      /\ \A j \in Jobs : owner[j] = NoProc /\ outcome[j] = "none"
      /\ \A p \in Procs, j \in Jobs :
            mem[p][j].status = "absent" /\ mem[p][j].report = FALSE
      /\ \A j \in Jobs :
            row[j].status = "absent" /\ row[j].report = FALSE
  BY DEF Init, NoJob, NewJob, NoRow
<1>3. UnusedInv /\ DownInv /\ HomeInv /\ RequestInv
  BY <1>2 DEF UnusedInv, DownInv, HomeInv, RequestInv
<1>4. RunnerInv /\ WorkerInv /\ EncodedInv
  BY <1>2 DEF RunnerInv, WorkerInv, EncodedInv, RunnerComputing, WorkerAlive,
              WorkerEnded
<1>5. DoneHasReport /\ NoFalseOutcome
  BY <1>2 DEF DoneHasReport, NoFalseOutcome
<1>. QED  BY <1>1, <1>3, <1>4, <1>5 DEF IInv

\* IInv: a stuttering step changes nothing.
LEMMA StutterInv == IInv /\ UNCHANGED vars => IInv'
BY DEF vars, IInv, TypeOK, UnusedInv, DownInv, HomeInv, RequestInv, RunnerInv,
       WorkerInv, EncodedInv, DoneHasReport, NoFalseOutcome, TheJob,
       RunnerComputing, WorkerAlive, WorkerEnded

\* IInv is inductive: every step keeps the invariant, by its action's lemma.
LEMMA NextInv == IInv /\ [Next]_vars => IInv'
<1>. SUFFICES ASSUME IInv, [Next]_vars PROVE IInv'
  OBVIOUS
<1>1. ASSUME NEW t \in Threads, NEW j \in Jobs,
             EncodeReport(t, j) \/ WriteRow(t, j)
      PROVE  IInv'
  BY <1>1, EncodeReportInv, WriteRowInv
<1>2. ASSUME NEW j \in Jobs, RequestStep(j)
      PROVE  IInv'
  BY <1>1, <1>2, StartRunnerInv, StartHistoryInv DEF RequestStep
<1>3. ASSUME NEW t \in Threads, NEW j \in Jobs, ProgressStep(t, j)
      PROVE  IInv'
  BY <1>1, <1>3, CheckCancelInv, SetStageInv, CompareStatusInv,
     NoteStatusInv DEF ProgressStep
<1>4. ASSUME NEW j \in Jobs, RunnerStep(j)
      PROVE  IInv'
  BY <1>3, <1>4, CacheHitInv, StartWorkerInv, JoinWorkerInv, ReportStageInv,
     FinishDoneInv, FinishCancelledInv, FinishErrorInv, FinishTimeoutInv
     DEF RunnerStep
<1>5. ASSUME NEW j \in Jobs, WorkerStep(j)
      PROVE  IInv'
  BY <1>3, <1>5, MineCommitsInv, EndWorkerInv DEF WorkerStep
<1>6. ASSUME NEW p \in Procs, ServerStep(p)
      PROVE  IInv'
  BY <1>6, CrashInv, MarkInterruptedInv, RestoreJobsInv DEF ServerStep
<1>7. ASSUME NEW p \in Procs, NEW j \in Jobs,
             ClientStep(p, j) \/ MineForHistory(p, j)
      PROVE  IInv'
  BY <1>7, LoadRepoInv, LoadFromReportInv, CancelJobInv, MineForHistoryInv
     DEF ClientStep
<1>8. CASE UNCHANGED vars
  BY <1>8, StutterInv
<1>. QED  BY <1>2, <1>4, <1>5, <1>6, <1>7, <1>8 DEF Next

\* The invariant of every reachable state, for any processes and jobs.
THEOREM Invariant == Spec => []IInv
<1>1. Init => IInv
  BY InitInv
<1>2. IInv /\ [Next]_vars => IInv'
  BY NextInv
<1>. QED  BY <1>1, <1>2, PTL DEF Spec

\* Every variable keeps its type: no thread leaves its own program, no row
\* and no Job object is ever half made.
THEOREM TypeCorrect == Spec => []TypeOK
<1>1. IInv => TypeOK
  BY DEF IInv
<1>. QED  BY <1>1, Invariant, PTL

\* _persist's report and status never disagree, although save_job reads them
\* at two moments: a done row always carries its report, and no other does.
THEOREM DoneRowsCarryReports == Spec => []DoneHasReport
<1>1. IInv => DoneHasReport
  BY DEF IInv
<1>. QED  BY <1>1, Invariant, PTL

\* Neither memory nor the table ever shows an outcome the runner did not
\* reach, through late writes, lost writes, restarts and orphaned workers.
THEOREM OutcomesAreTrue == Spec => []NoFalseOutcome
<1>1. IInv => NoFalseOutcome
  BY DEF IInv
<1>. QED  BY <1>1, Invariant, PTL
=============================================================================
