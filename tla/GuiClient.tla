------------------------------ MODULE GuiClient ------------------------------
(***************************************************************************)
(* The page of the mechanic GUI (static/app.js) over the job server, as    *)
(* JobLifecycle promises it.                                               *)
(*                                                                         *)
(* The page is one thread of callbacks.  A call of the API leaves, is      *)
(* answered by the server as it is then, and comes back at any later time, *)
(* in any order: calls[c] is where the call c stands.  A job is polled     *)
(* every 600 ms whether or not the last poll was answered, so several      *)
(* calls of a kind can be under way for the same job; turn tells them      *)
(* apart.  Left out: the legend, the charts, the filters and the order of  *)
(* the rows, and the tabs of a rule.                                       *)
(***************************************************************************)
EXTENDS JobLifecycle, Naturals, FiniteSets

CONSTANTS
    NoJob,          \* state.jobId, state.report before any
    MaxCalls,       \* how many calls the browser has under way at a time
    MaxEvents       \* bound on loads, crashes and uses of the ordering list

ASSUME GuiClientAssumption ==
    /\ Jobs # {} /\ NoJob \notin Jobs
    /\ MaxCalls \in Nat \ {0} /\ MaxEvents \in Nat

Kinds == {"poll", "result", "ordering", "cancel"}
Turns == 1 .. MaxCalls
Calls == [kind : Kinds, job : Jobs, turn : Turns]
            \cup [kind : {"load"}, job : {NoJob}, turn : Turns]
Call(kind, j, t) == [kind |-> kind, job |-> j, turn |-> t]

\* What a call may be answered: a new job, a status, a report (or one without
\* rules); or it failed, of the network or of an HTTP error.
AnswersTo(kind) ==
    {"failed"} \cup CASE kind = "load" -> Jobs
                      [] kind = "poll" -> Phases
                      [] kind \in {"result", "ordering"} -> {"report", "empty"}
                      [] kind = "cancel" -> {"ok"}

VARIABLES
    up,         \* is the server serving?
    asked,      \* the jobs whose cancel_requested is set
    issued,     \* history variable: the jobs that were ever created
    finished,   \* history variable: those that were ever done
    crashes,
    calls,      \* call -> "idle", "sent", or its answer
    jobId,      \* state.jobId
    report,     \* the job of state.report, which the table shows
    overview,   \* the job whose overview and controls are rendered
    timers,     \* the jobs being polled
    progress,   \* is the progress area shown?
    stopOff,    \* is the stop button disabled?
    panel,      \* is the load panel shown?
    banner,     \* the error banner
    loads, clicks

serverVars == <<shown, durable, up, asked, issued, finished, crashes>>
pageVars == <<jobId, report, overview, timers, progress, stopOff, panel,
              banner>>
vars == <<serverVars, calls, pageVars, loads, clicks>>

Bounded == loads + clicks + crashes < MaxEvents

-----------------------------------------------------------------------------
(***************************************************************************)
(* The server.                                                             *)
(***************************************************************************)
Respond(c, answer) == calls' = [calls EXCEPT ![c] = answer]

PageUnchanged == UNCHANGED <<pageVars, loads, clicks>>

\* load_repo refuses a path, or creates a job; which unused id it gets makes
\* no difference.
LoadRepo(c) ==
    /\ \/ /\ Respond(c, "failed")
          /\ UNCHANGED <<lifeVars, issued>>
       \/ /\ issued # Jobs
          /\ LET j == CHOOSE k \in Jobs : k \notin issued
             IN  /\ Submit(j) /\ shown'[j] = "running"
                 /\ issued' = issued \cup {j}
                 /\ Respond(c, j)
    /\ UNCHANGED <<asked, finished>>

JobStatus(c) ==
    /\ Respond(c, IF shown[c.job] = "absent" THEN "failed" ELSE shown[c.job])
    /\ UNCHANGED <<lifeVars, issued, asked, finished>>

\* job_result: 404, 422, 409 or 425 unless the job is done.
JobResult(c) ==
    /\ \E r \in IF shown[c.job] = "done" THEN {"report", "empty"}
                ELSE {"failed"} : Respond(c, r)
    /\ UNCHANGED <<lifeVars, issued, asked, finished>>

CancelJob(c) ==
    /\ Respond(c, IF shown[c.job] = "absent" THEN "failed" ELSE "ok")
    /\ asked' = IF shown[c.job] = "running" THEN asked \cup {c.job} ELSE asked
    /\ UNCHANGED <<lifeVars, issued, finished>>

\* A call is answered by its endpoint, or fails where nobody listens.
Serve(c) ==
    /\ calls[c] = "sent"
    /\ \/ /\ ~up /\ Respond(c, "failed")
          /\ UNCHANGED <<lifeVars, issued, asked, finished>>
       \/ up /\ c.kind = "load" /\ LoadRepo(c)
       \/ up /\ c.kind = "poll" /\ JobStatus(c)
       \/ up /\ c.kind \in {"result", "ordering"} /\ JobResult(c)
       \/ up /\ c.kind = "cancel" /\ CancelJob(c)
    /\ UNCHANGED <<up, crashes>> /\ PageUnchanged

\* A job ends by itself; as cancelled only if that was asked for.
EndJob(j) ==
    /\ End(j)
    /\ shown'[j] = "cancelled" => j \in asked
    /\ finished' = IF shown'[j] = "done" THEN finished \cup {j} ELSE finished
    /\ UNCHANGED <<up, asked, issued, crashes, calls>> /\ PageUnchanged

\* What the row of a job may say when the server dies: when Record happened
\* cannot be seen earlier.  An ended job that was restored has its row.
RowAtCrash(j) ==
    IF durable[j] \in Finals \/ shown[j] = "absent" THEN {durable[j]}
    ELSE {"absent", "running", shown[j]}

\* Die.  A crash may cut off answers that are on their way.
Crash ==
    /\ up /\ Bounded
    /\ shown' = [j \in Jobs |-> "absent"]
    /\ durable' \in {rows \in [Jobs -> Phases] :
                       \A j \in Jobs : rows[j] \in RowAtCrash(j)}
    /\ up' = FALSE
    /\ asked' = {}
    /\ crashes' = crashes + 1
    /\ \E cut \in SUBSET {c \in Calls : calls[c] \notin {"idle", "sent"}} :
          calls' = [c \in Calls |-> IF c \in cut THEN "failed" ELSE calls[c]]
    /\ UNCHANGED <<issued, finished>> /\ PageUnchanged

\* _restore_jobs_from_disk, before any call is answered.
Restart ==
    /\ ~up
    /\ \/ Reclassify /\ up' = up
       \/ Reveal /\ up' = TRUE
    /\ UNCHANGED <<asked, issued, finished, crashes, calls>> /\ PageUnchanged

-----------------------------------------------------------------------------
(***************************************************************************)
(* The page.                                                               *)
(***************************************************************************)
\* The first turn that is free is taken.
Free(kind, j, t) == /\ calls[Call(kind, j, t)] = "idle"
                    /\ \A u \in 1 .. t - 1 : calls[Call(kind, j, u)] # "idle"
Send(kind, j) ==
    /\ Cardinality({c \in Calls : calls[c] # "idle"}) < MaxCalls
    /\ \E t \in Turns : /\ Free(kind, j, t)
                        /\ calls' = [calls EXCEPT ![Call(kind, j, t)] = "sent"]
Return(c) == calls' = [calls EXCEPT ![c] = "idle"]
ReturnAndSend(c, kind) ==
    \E t \in Turns :
       /\ Free(kind, c.job, t)
       /\ calls' = [calls EXCEPT ![c] = "idle",
                                 ![Call(kind, c.job, t)] = "sent"]

\* showProgress, which enables the stop button again.
ShowProgress(visible) == progress' = visible /\ stopOff' = FALSE

\* The submit handler; a recent repository can be chosen at any time.
SubmitForm ==
    /\ Bounded
    /\ loads' = loads + 1
    /\ banner' = "none"
    /\ ShowProgress(TRUE)
    /\ Send("load", NoJob)
    /\ UNCHANGED <<serverVars, jobId, report, overview, timers, panel, clicks>>

\* Mutant: the page goes on with the job it has.
LoadAnsweredKeepingJob(c) ==
    /\ Return(c)
    /\ timers' = timers \cup {calls[c]}
    /\ UNCHANGED <<jobId, progress, stopOff, banner>>
    /\ UNCHANGED <<report, overview, panel>>

\* ... and when /api/load answers.
LoadAnswered(c) ==
    /\ Return(c)
    /\ IF calls[c] = "failed"
       THEN /\ ShowProgress(FALSE) /\ banner' = "error"
            /\ UNCHANGED <<jobId, timers>>
       ELSE /\ jobId' = calls[c]
            /\ timers' = timers \cup {calls[c]}
            /\ UNCHANGED <<progress, stopOff, banner>>
    /\ UNCHANGED <<report, overview, panel>>

ChangeRepo ==
    /\ ~panel /\ panel' = TRUE
    /\ UNCHANGED <<serverVars, calls, jobId, report, overview, timers,
                   progress, stopOff, banner, loads, clicks>>

\* pollJob's interval.
PollTick(j) ==
    /\ j \in timers
    /\ Send("poll", j)
    /\ UNCHANGED <<serverVars, pageVars, loads, clicks>>

\* Mutant: a job that was cancelled is still polled.
PollSettlesButCancelled == {"done", "error", "failed"}

\* What clears the interval.
PollSettles == {"done", "error", "cancelled", "failed"}

\* Mutant: the result of a job that ended in any way is asked for.
PollAnsweredLoadingAnyEnd(c) ==
    /\ timers' = IF calls[c] \in PollSettles THEN timers \ {c.job} ELSE timers
    /\ IF calls[c] \in PollSettles THEN ReturnAndSend(c, "result") ELSE Return(c)
    /\ UNCHANGED <<progress, stopOff, banner>>
    /\ UNCHANGED <<jobId, report, overview, panel>>

\* Mutant: the progress of a stopped job stays.
PollAnsweredSilently(c) ==
    /\ timers' = IF calls[c] \in PollSettles THEN timers \ {c.job} ELSE timers
    /\ IF calls[c] = "done" THEN ReturnAndSend(c, "result") ELSE Return(c)
    /\ IF calls[c] \in {"error", "failed"}
       THEN ShowProgress(FALSE) /\ banner' = "error"
       ELSE UNCHANGED <<progress, stopOff, banner>>
    /\ UNCHANGED <<jobId, report, overview, panel>>

\* ... and each of its answers, even after it was cleared.
PollAnswered(c) ==
    /\ timers' = IF calls[c] \in PollSettles THEN timers \ {c.job} ELSE timers
    /\ IF calls[c] = "done" THEN ReturnAndSend(c, "result") ELSE Return(c)
    /\ IF calls[c] \in {"error", "cancelled", "failed"}
       THEN /\ ShowProgress(FALSE)
            /\ banner' = IF calls[c] = "cancelled" THEN "info" ELSE "error"
       ELSE UNCHANGED <<progress, stopOff, banner>>
    /\ UNCHANGED <<jobId, report, overview, panel>>

\* Mutant: only the result of the last load is shown.
ResultAnsweredOfLastLoad(c) ==
    /\ Return(c)
    /\ IF calls[c] = "failed" THEN banner' = "error" ELSE UNCHANGED banner
    /\ IF calls[c] = "report" /\ c.job = jobId
       THEN /\ report' = c.job /\ overview' = c.job /\ panel' = FALSE
            /\ ShowProgress(FALSE)
       ELSE UNCHANGED <<report, overview, panel, progress, stopOff>>
    /\ UNCHANGED <<jobId, timers>>

\* loadResult.  A result that fails leaves the progress as it is.
ResultAnswered(c) ==
    /\ Return(c)
    /\ IF calls[c] = "failed" THEN UNCHANGED <<report, progress, stopOff>>
       ELSE report' = c.job /\ ShowProgress(FALSE)
    /\ IF calls[c] = "report" THEN /\ overview' = c.job /\ panel' = FALSE
                                   /\ UNCHANGED banner
       ELSE banner' = "error" /\ UNCHANGED <<overview, panel>>
    /\ UNCHANGED <<jobId, timers>>

\* Mutant: the button is disabled before there is a job to stop.
StopWithoutJob ==
    /\ progress /\ panel /\ ~stopOff
    /\ stopOff' = TRUE
    /\ IF jobId = NoJob THEN UNCHANGED calls ELSE Send("cancel", jobId)
    /\ UNCHANGED <<serverVars, jobId, report, overview, timers, progress,
                   panel, banner, loads, clicks>>

\* The stop button.  Its answer changes nothing but the button's text.
Stop ==
    /\ progress /\ panel /\ ~stopOff
    /\ jobId # NoJob
    /\ stopOff' = TRUE
    /\ Send("cancel", jobId)
    /\ UNCHANGED <<serverVars, jobId, report, overview, timers, progress,
                   panel, banner, loads, clicks>>

\* The ordering list asks for the job loaded last, and a failure is ignored.
ChangeOrdering ==
    /\ overview # NoJob
    /\ Bounded
    /\ clicks' = clicks + 1
    /\ Send("ordering", jobId)
    /\ UNCHANGED <<serverVars, pageVars, loads>>
OrderingAnswered(c) ==
    /\ Return(c)
    /\ report' = IF calls[c] = "failed" THEN report ELSE c.job
    /\ UNCHANGED <<jobId, overview, timers, progress, stopOff, panel, banner>>

StopAnswered(c) == Return(c) /\ UNCHANGED pageVars

\* An answer comes back.
Deliver(c) ==
    /\ calls[c] \notin {"idle", "sent"}
    /\ \/ c.kind = "load" /\ LoadAnswered(c)
       \/ c.kind = "poll" /\ PollAnswered(c)
       \/ c.kind = "result" /\ ResultAnswered(c)
       \/ c.kind = "ordering" /\ OrderingAnswered(c)
       \/ c.kind = "cancel" /\ StopAnswered(c)
    /\ UNCHANGED <<serverVars, loads, clicks>>

-----------------------------------------------------------------------------
\* The page may be opened with a job in its address (resumeJobFromUrl), of
\* which the server knows the row.
Init ==
    /\ \E linked \in {NoJob, CHOOSE j \in Jobs : TRUE}, s \in Phases :
          /\ shown = [j \in Jobs |-> IF j = linked THEN s ELSE "absent"]
          /\ finished = IF linked # NoJob /\ s = "done" THEN {linked} ELSE {}
          /\ jobId = linked /\ issued = {linked} \ {NoJob}
          /\ timers = {linked} \ {NoJob}
          /\ progress = (linked # NoJob)
          /\ loads = IF linked = NoJob THEN 0 ELSE 1
          /\ linked = NoJob => s = "absent"
    /\ durable = shown
    /\ up = TRUE /\ asked = {} /\ crashes = 0
    /\ calls = [c \in Calls |-> "idle"]
    /\ report = NoJob /\ overview = NoJob
    /\ stopOff = FALSE /\ panel = TRUE /\ banner = "none"
    /\ clicks = 0

Next ==
    \/ \E c \in Calls : Serve(c) \/ Deliver(c)
    \/ \E j \in Jobs : EndJob(j) \/ PollTick(j)
    \/ Crash
    \/ Restart
    \/ SubmitForm
    \/ ChangeRepo
    \/ Stop
    \/ ChangeOrdering

\* Calls are answered, answers come back, and a running job ends (JobSettles of
\* JobServerProps).  The interval goes on, and a browser that has too many calls
\* under way sends the others in the order they were made.
Fairness ==
    /\ \A j \in Jobs \cup {NoJob} :
          /\ WF_vars(\E c \in Calls : c.job = j /\ Serve(c))
          /\ WF_vars(\E c \in Calls : c.job = j /\ Deliver(c))
    /\ \A j \in Jobs : SF_vars(PollTick(j)) /\ WF_vars(EndJob(j))

Spec == Init /\ [][Next]_vars /\ Fairness
=============================================================================
