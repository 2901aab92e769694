---------------------------- MODULE GuiClientProps ----------------------------
(***************************************************************************)
(* What a user of the page can rely on.                                    *)
(***************************************************************************)
EXTENDS GuiClient

\* The server's and the page's variables have their types.
TypeOK ==
    /\ shown \in [Jobs -> Phases] /\ durable \in [Jobs -> Phases]
    /\ up \in BOOLEAN /\ asked \cup issued \cup finished \subseteq Jobs
    /\ calls \in [Calls -> {"idle", "sent"} \cup UNION {AnswersTo(k) :
                                          k \in Kinds \cup {"load"}}]
    /\ \A c \in Calls : calls[c] \in {"idle", "sent"} \cup AnswersTo(c.kind)
    /\ {jobId, report, overview} \subseteq Jobs \cup {NoJob}
    /\ timers \subseteq Jobs
    /\ {progress, stopOff, panel} \subseteq BOOLEAN
    /\ banner \in {"none", "error", "info"}
    /\ {loads, clicks, crashes} \subseteq Nat

\* The page asks for the result of a job that is done, and shows that of no
\* other, whatever the job was polled as, restarted into, or stopped meanwhile.
Wanted == {report, overview}
             \cup {c.job : c \in {c \in Calls : /\ c.kind = "result"
                                              /\ calls[c] # "idle"}}
ReportsWereDone == Wanted \subseteq finished \cup {NoJob}

\* A page that loads one repository shows that one, in its table and in its
\* overview, whatever answers came twice or late.
OneLoadOneReport ==
    loads <= 1 => /\ {report, overview} \subseteq {NoJob, jobId}
                  /\ overview # NoJob => report = overview

Underway(kind) == \E c \in Calls : c.kind = kind /\ calls[c] # "idle"

\* ... and shows its progress for as long as the load is asked for or polled.
OneLoadShowsProgress ==
    /\ loads <= 1
    /\ Underway("load") \/ timers # {}
    => progress /\ panel

\* A stop is not lost: where the button of a page with one load is disabled,
\* the server has been told, is being told, or has nothing left to stop.
StopIsNotLost ==
    loads <= 1 /\ crashes = 0 /\ stopOff =>
       \/ jobId \in asked
       \/ Underway("cancel")
       \/ jobId # NoJob /\ shown[jobId] # "running"

-----------------------------------------------------------------------------
\* A restart made the job one that pollJob knows no end of.
Interrupted(j) == shown[j] = "interrupted"

\* The polls of a job that has ended end.  Known exception: interrupted, see
\* EveryEndIsSurfaced.
PollingEnds ==
    \A j \in Jobs :
       j \in timers /\ shown[j] \in {"done", "error", "cancelled"}
          ~> j \notin timers \/ Interrupted(j)

Replied(kinds, j, answers) ==
    \E c \in Calls : c.kind \in kinds /\ c.job = j /\ calls[c] \in answers

\* A load that is done is shown at some time, or a call about it fails or
\* finds no rules, also when another load was begun meanwhile.
FinishedLoadIsShown ==
    \A j \in Jobs :
       j \in timers /\ shown[j] = "done"
          ~> \/ overview = j
             \/ Replied({"poll", "result"}, j, {"failed", "empty"})
             \/ Interrupted(j)

\* Progress is not shown for ever: what is loaded, polled or fetched ends it,
\* with the report, a notice or an error.  Known exceptions: a result that
\* fails leaves it as it is, and interrupted, see EveryEndIsSurfaced.
ProgressEnds ==
    progress /\ (timers # {} \/ Underway("load") \/ Underway("result"))
       ~> \/ ~progress
          \/ \E j \in Jobs : Replied({"result"}, j, {"failed"})
          \/ \E j \in timers : Interrupted(j)

\* "The polling loop will surface whatever state the job actually ends up in"
\* (app.js), and a job the server lost is "never left looking like it's still
\* in progress forever" (test_gui.py).  pollJob has no case for interrupted:
\* it shows that status as the label of a progress that goes on.
EveryEndIsSurfaced ==
    \A j \in Jobs :
       j \in timers /\ shown[j] \in Finals ~> ~progress \/ banner # "none"
=============================================================================
