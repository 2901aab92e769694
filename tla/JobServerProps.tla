--------------------------- MODULE JobServerProps ---------------------------
(***************************************************************************)
(* What JobServer promises: its answers over HTTP, its safety and liveness *)
(* properties, and the abstract life of a job that it implements.          *)
(***************************************************************************)
EXTENDS JobServer

(***************************************************************************)
(* /api/jobs/{id}/result and /api/jobs/{id}/rule-history, as the answer a  *)
(* client gets in the current state.                                       *)
(***************************************************************************)
JobResult(p, j) ==
    CASE mem[p][j].status = "absent" -> "404 unknown"
      [] mem[p][j].status \in {"error", "cancelled"} -> "422 failed"
      [] mem[p][j].status = "interrupted" -> "409 interrupted"
      [] mem[p][j].status = "done" /\ mem[p][j].report -> "200 report"
      [] OTHER -> "425 not finished"

RuleHistory(p, j) ==
    CASE mem[p][j].status = "absent" -> "404 unknown"
      [] mem[p][j].status = "done" /\ mem[p][j].facts -> "200 history"
      [] OTHER -> "425 not finished"

-----------------------------------------------------------------------------
(***************************************************************************)
(* Properties of every deployment: any number of processes, mining that    *)
(* times out and leaves its worker behind, row writes that fail.           *)
(***************************************************************************)

\* A job is done, in memory or in its row, exactly when it carries its report:
\* save_job encodes the report before it takes its lock and reads the status
\* after, so a second thread of the job could pair a done status with no
\* report, and the restored job would answer 425 for ever.
DoneHasReport ==
    /\ \A p \in Procs, j \in Jobs :
          mem[p][j].report <=> mem[p][j].status = "done"
    /\ \A j \in Jobs : row[j].report <=> row[j].status = "done"

\* No process and no row ever shows an outcome (done, error, cancelled) other
\* than the one the job's own runner reached: not from a row written late,
\* not through a restart, not by the worker of an abandoned mining pass.
NoFalseOutcome ==
    /\ \A p \in Procs, j \in Jobs :
          mem[p][j].status \in Outcomes => mem[p][j].status = outcome[j]
    /\ \A j \in Jobs :
          row[j].status \in Outcomes => row[j].status = outcome[j]

\* Once a client has been served a job's report, or its rule history, the
\* same request to the same process keeps succeeding until the process dies:
\* the page polls until done and fetches the result in a later request.
AnswersKeepStanding ==
    [][\A p \in Procs, j \in Jobs :
          up'[p] = "up" =>
             /\ JobResult(p, j) = "200 report"
                   => JobResult(p, j)' = "200 report"
             /\ RuleHistory(p, j) = "200 history"
                   => RuleHistory(p, j)' = "200 history"]_vars

\* A row that says done says so for ever: no other process, no restart and no
\* late write of another thread takes a finished report away.
DoneRowIsFinal ==
    [][\A j \in Jobs : row[j].status = "done" => row'[j] = row[j]]_vars

-----------------------------------------------------------------------------
(***************************************************************************)
(* Properties of one server process whose mining stays within its budget.  *)
(***************************************************************************)

LiveThread(j) ==
    \/ pc["load"][j] # "off"
    \/ pc["runner"][j] \notin {"off"} \cup Sealing

\* A job shown as running has a thread that will end it: after a restart no
\* job is shown in progress for ever (_restore_jobs_from_disk's docstring: a
\* restored job is never "running" in this process).
RunningHasThread ==
    \A p \in Procs, j \in Jobs :
       mem[p][j].status \in Running => owner[j] = p /\ LiveThread(j)

\* progress_cb: "persisted on STAGE TRANSITIONS only".  Between two callbacks
\* of a computing job no change of its stage is left unnoticed, although runner
\* and worker compare and set the one last_persisted_status outside the lock,
\* and the row shows the stage its memory shows.  A row write that raises is
\* made up for at the next stage only.
StageIsRecorded ==
    \A j \in Jobs :
       /\ pc["runner"][j] \in {"join", "work"}
       /\ pc["worker"][j] \notin Callback
       => /\ last[j] = TheJob(j).status
          /\ DiskCanFail \/ row[j].status = TheJob(j).status

\* The server implements the promise of JobLifecycle for the jobs it shows:
\* an outcome is final, a row never runs ahead of memory, and a restart shows
\* exactly the rows, with the running ones interrupted.
Phase(s) == IF s \in Running THEN "running" ELSE s
ShownPhase == [j \in Jobs |->
                 LET p == CHOOSE q \in Procs : TRUE IN Phase(mem[p][j].status)]
DurablePhase == [j \in Jobs |-> Phase(row[j].status)]

Promise == INSTANCE JobLifecycle WITH shown <- ShownPhase,
                                      durable <- DurablePhase
ImplementsLifecycle == Promise!Lifecycle

\* Every running job ends, whatever it was doing when it was cancelled or its
\* mining failed, unless its process dies first.
JobSettles ==
    \A p \in Procs, j \in Jobs :
       mem[p][j].status \in Running
          ~> mem[p][j].status \in TERMINAL_STATUSES \cup {"absent"}

-----------------------------------------------------------------------------
(***************************************************************************)
(* Statements of the documentation that the code does not keep.            *)
(***************************************************************************)

\* job_store.py: TERMINAL_STATUSES is "every status a Job can durably end up
\* in": once a job has ended, no thread puts it back to a running status.
EndedStaysEnded ==
    [][\A p \in Procs, j \in Jobs :
          mem[p][j].status \in TERMINAL_STATUSES
             => mem'[p][j].status \notin Running]_vars

\* job_store.py: a non-terminal row found at startup "means the process died
\* while that job was still running": a job reclassified as interrupted had
\* reached no outcome.
InterruptedHadNotEnded ==
    \A j \in Jobs : row[j].status = "interrupted" => outcome[j] = "none"

\* job_store.mark_interrupted: "the process died while it was still running":
\* a job whose threads are alive in some process is not marked interrupted.
InterruptedIsDead ==
    \A j \in Jobs :
       row[j].status = "interrupted" =>
          \A t \in Threads : pc[t][j] = "off"
=============================================================================
