--------------------------- MODULE GuiClientProofs ---------------------------
(***************************************************************************)
(* The page asks for and shows the results of done jobs only, whatever the *)
(* number of jobs, calls under way, loads and crashes.                     *)
(*                                                                         *)
(* A result is asked for after a poll said done, so the invariant follows  *)
(* that word from the job that ended through the row it is restored from   *)
(* and the answers on their way to the page.  On top of that comes what    *)
(* holds of a page that loads one repository.                              *)
(***************************************************************************)
EXTENDS GuiClientProps, TLAPS

Entries == {"idle", "sent"} \cup UNION {AnswersTo(k) : k \in Kinds \cup {"load"}}

\* TypeOK by who changes what.
ServerTypeOK ==
    /\ shown \in [Jobs -> Phases] /\ durable \in [Jobs -> Phases]
    /\ up \in BOOLEAN /\ asked \cup issued \cup finished \subseteq Jobs
    /\ crashes \in Nat
CallsTypeOK ==
    /\ calls \in [Calls -> Entries]
    /\ \A c \in Calls : calls[c] \in {"idle", "sent"} \cup AnswersTo(c.kind)
PageTypeOK ==
    /\ {jobId, report, overview} \subseteq Jobs \cup {NoJob}
    /\ timers \subseteq Jobs
    /\ {progress, stopOff, panel} \subseteq BOOLEAN
    /\ banner \in {"none", "error", "info"}
    /\ {loads, clicks} \subseteq Nat

LEMMA TypeParts == TypeOK <=> ServerTypeOK /\ CallsTypeOK /\ PageTypeOK
BY DEF TypeOK, ServerTypeOK, CallsTypeOK, PageTypeOK, Entries

\* A job that is shown or recorded as done was done.
DoneIsFinished ==
    \A j \in Jobs : "done" \in {shown[j], durable[j]} => j \in finished

\* The calls and the page know of no other.
KnownOf(c) ==
    \/ c.kind = "poll" /\ calls[c] = "done"
    \/ c.kind = "result" /\ calls[c] # "idle"
    \/ c.kind = "ordering" /\ calls[c] \in {"report", "empty"}
CallsAreTrue == \A c \in Calls : KnownOf(c) => c.job \in finished
PageIsTrue == {report, overview} \subseteq finished \cup {NoJob}

IInv == /\ ServerTypeOK /\ CallsTypeOK /\ PageTypeOK
        /\ DoneIsFinished /\ CallsAreTrue /\ PageIsTrue

-----------------------------------------------------------------------------
LEMMA CallJobs ==
    ASSUME NEW c \in Calls
    PROVE  /\ c.kind \in Kinds \cup {"load"}
           /\ c.kind # "load" => c.job \in Jobs
           /\ c.kind = "load" => c.job = NoJob
BY DEF Calls, Kinds

LEMMA EntryOfKind ==
    ASSUME NEW k \in Kinds \cup {"load"}, NEW a \in AnswersTo(k)
    PROVE  a \in Entries
BY DEF Entries

\* An entry may be replaced by any answer to its kind of call.
LEMMA SetEntry ==
    ASSUME CallsTypeOK, NEW c \in Calls,
           NEW a \in {"idle", "sent"} \cup AnswersTo(c.kind),
           calls' = [calls EXCEPT ![c] = a]
    PROVE  CallsTypeOK'
<1>1. a \in Entries
  BY CallJobs, EntryOfKind DEF Entries
<1>2. calls' \in [Calls -> Entries]
  BY <1>1 DEF CallsTypeOK
<1>3. ASSUME NEW d \in Calls
      PROVE  calls'[d] \in {"idle", "sent"} \cup AnswersTo(d.kind)
  BY <1>3 DEF CallsTypeOK
<1> QED
  BY <1>2, <1>3 DEF CallsTypeOK, Entries, AnswersTo

\* A call that is sent, to a known job if it is for a result.
LEMMA SendCall ==
    ASSUME CallsTypeOK, NEW k \in Kinds \cup {"load"}, NEW j, Send(k, j)
    PROVE  /\ CallsTypeOK'
           /\ \A c \in Calls : calls'[c] = calls[c] \/ (c.kind = k /\ calls'[c] = "sent")
<1>1. PICK t \in Turns :
         calls' = [calls EXCEPT ![Call(k, j, t)] = "sent"]
  BY DEF Send
<1>2. calls' \in [Calls -> Entries]
  BY <1>1 DEF CallsTypeOK, Entries
<1>3. ASSUME NEW c \in Calls
      PROVE  calls'[c] = calls[c] \/ (c.kind = k /\ calls'[c] = "sent")
  BY <1>1 DEF CallsTypeOK, Call
<1> QED
  BY <1>2, <1>3 DEF CallsTypeOK, Entries, AnswersTo

-----------------------------------------------------------------------------
LEMMA InitHolds == Init => IInv
<1> SUFFICES ASSUME Init PROVE IInv
  OBVIOUS
<1> USE GuiClientAssumption
<1>1. PICK linked \in {NoJob, CHOOSE j \in Jobs : TRUE}, s \in Phases :
         /\ shown = [j \in Jobs |-> IF j = linked THEN s ELSE "absent"]
         /\ finished = IF linked # NoJob /\ s = "done" THEN {linked} ELSE {}
         /\ jobId = linked /\ issued = {linked} \ {NoJob}
         /\ timers = {linked} \ {NoJob}
         /\ progress = (linked # NoJob)
         /\ loads = IF linked = NoJob THEN 0 ELSE 1
         /\ linked = NoJob => s = "absent"
  BY DEF Init
<1>2. /\ durable = shown /\ up = TRUE /\ asked = {} /\ crashes = 0
      /\ calls = [c \in Calls |-> "idle"]
      /\ report = NoJob /\ overview = NoJob
      /\ stopOff = FALSE /\ panel = TRUE /\ banner = "none" /\ clicks = 0
  BY DEF Init
<1>3. linked \in Jobs \cup {NoJob}
  BY <1>1
<1>4. ServerTypeOK
  <2>1. shown \in [Jobs -> Phases]
    BY <1>1 DEF Phases
  <2> QED
    BY <1>1, <1>2, <1>3, <2>1 DEF ServerTypeOK
<1>5. CallsTypeOK
  BY <1>2 DEF CallsTypeOK, Entries
<1>6. PageTypeOK
  <2>1. progress \in BOOLEAN /\ loads \in Nat
    BY <1>1
  <2>2. {jobId, report, overview} \subseteq Jobs \cup {NoJob} /\ timers \subseteq Jobs
    BY <1>1, <1>2, <1>3
  <2>3. {progress, stopOff, panel} \subseteq BOOLEAN
    BY <1>2, <2>1
  <2>4. clicks \in Nat /\ banner \in {"none", "error", "info"}
    BY <1>2
  <2> QED
    BY <2>1, <2>2, <2>3, <2>4 DEF PageTypeOK
<1>7. DoneIsFinished
  BY <1>1, <1>2 DEF DoneIsFinished
<1>8. CallsAreTrue /\ PageIsTrue
  BY <1>2 DEF CallsAreTrue, KnownOf, PageIsTrue
<1> QED
  BY <1>4, <1>5, <1>6, <1>7, <1>8 DEF IInv

-----------------------------------------------------------------------------
(***************************************************************************)
(* The server.                                                             *)
(***************************************************************************)
\* What the page knows stays known, as nothing is taken from finished.
LEMMA PageKept ==
    ASSUME PageTypeOK, PageIsTrue, UNCHANGED <<pageVars, loads, clicks>>,
           finished \subseteq finished'
    PROVE  PageTypeOK' /\ PageIsTrue'
BY DEF PageTypeOK, PageIsTrue, pageVars

LEMMA CallsKept ==
    ASSUME CallsTypeOK, CallsAreTrue, calls' = calls,
           finished \subseteq finished'
    PROVE  CallsTypeOK' /\ CallsAreTrue'
BY DEF CallsTypeOK, CallsAreTrue, KnownOf, Entries

LEMMA ServerKept ==
    ASSUME ServerTypeOK, DoneIsFinished, UNCHANGED serverVars
    PROVE  ServerTypeOK' /\ DoneIsFinished'
BY DEF ServerTypeOK, DoneIsFinished, serverVars

LEMMA ServeStep ==
    ASSUME IInv, NEW c \in Calls, Serve(c)
    PROVE  IInv'
<1> USE DEF IInv
<1>1. /\ calls[c] = "sent" /\ UNCHANGED <<up, crashes>>
      /\ UNCHANGED <<pageVars, loads, clicks>>
  BY DEF Serve, PageUnchanged
\* What a served call is answered is true.
<1> DEFINE Answered(a) ==
      /\ a \in AnswersTo(c.kind)
      /\ calls' = [calls EXCEPT ![c] = a]
      /\ (\/ c.kind = "poll" /\ a = "done"
          \/ c.kind \in {"result", "ordering"} /\ a # "failed")
            => shown[c.job] = "done"
<1>2. ASSUME NEW a, Answered(a), finished' = finished
      PROVE  CallsTypeOK' /\ CallsAreTrue'
  <2>1. CallsTypeOK'
    BY <1>2, SetEntry
  <2>2. ASSUME NEW d \in Calls, KnownOf(d)'
        PROVE  d.job \in finished'
    <3>1. CASE d # c
      BY <1>2, <2>2, <3>1 DEF CallsAreTrue, KnownOf, CallsTypeOK
    <3>2. CASE d = c /\ c.kind = "result"
      BY <1>1, <1>2, <3>2 DEF CallsAreTrue, KnownOf
    <3>3. CASE d = c /\ c.kind # "result"
      <4>1. calls'[c] = a /\ c.kind \in {"poll", "ordering"}
        BY <1>2, <2>2, <3>3 DEF KnownOf, CallsTypeOK
      <4>2. shown[c.job] = "done" /\ c.job \in Jobs
        BY <1>2, <2>2, <3>3, <4>1, CallJobs DEF KnownOf
      <4> QED
        BY <1>2, <3>3, <4>2 DEF DoneIsFinished
    <3> QED
      BY <3>1, <3>2, <3>3
  <2> QED
    BY <2>1, <2>2 DEF CallsAreTrue
<1>3. CASE ~up /\ Respond(c, "failed") /\ UNCHANGED <<lifeVars, issued, asked, finished>>
  <2>1. Answered("failed")
    BY <1>3 DEF Respond, AnswersTo
  <2>2. UNCHANGED serverVars
    BY <1>1, <1>3 DEF serverVars, lifeVars
  <2> HIDE DEF Answered
  <2> QED
    BY <1>1, <1>2, <1>3, <2>1, <2>2, ServerKept, PageKept
<1>4. CASE up /\ c.kind = "load" /\ LoadRepo(c)
  <2>1. CASE Respond(c, "failed") /\ UNCHANGED <<lifeVars, issued>>
    <3>1. Answered("failed")
      BY <2>1, <1>4 DEF Respond, AnswersTo
    <3>2. UNCHANGED serverVars
      BY <1>1, <1>4, <2>1 DEF serverVars, lifeVars, LoadRepo
    <3> HIDE DEF Answered
    <3> QED
      BY <1>1, <1>2, <3>1, <3>2, ServerKept, PageKept DEF serverVars
  <2>2. CASE ~(Respond(c, "failed") /\ UNCHANGED <<lifeVars, issued>>)
    <3> DEFINE j == CHOOSE k \in Jobs : k \notin issued
    <3>1. j \in Jobs
      BY <1>4, <2>2 DEF LoadRepo, ServerTypeOK
    <3>2. /\ Submit(j) /\ shown'[j] = "running"
          /\ issued' = issued \cup {j} /\ Respond(c, j)
          /\ UNCHANGED <<asked, finished>>
      BY <1>4, <2>2 DEF LoadRepo
    <3> HIDE DEF j
    <3>3. Answered(j)
      BY <1>4, <3>1, <3>2 DEF Respond, AnswersTo
    <3>4. /\ shown' = [shown EXCEPT ![j] = "running"]
          /\ durable' = durable
      BY <3>1, <3>2 DEF Submit, ServerTypeOK
    <3>5. ServerTypeOK'
      BY <1>1, <3>1, <3>2, <3>4 DEF ServerTypeOK, Phases
    <3>6. DoneIsFinished'
      BY <3>1, <3>2, <3>4 DEF DoneIsFinished, ServerTypeOK
    <3> HIDE DEF Answered
    <3> QED
      BY <1>1, <1>2, <3>2, <3>3, <3>5, <3>6, PageKept
  <2> QED
    BY <2>1, <2>2
<1>5. CASE up /\ c.kind = "poll" /\ JobStatus(c)
  <2>1. c.job \in Jobs
    BY <1>5, CallJobs
  <2> DEFINE a == IF shown[c.job] = "absent" THEN "failed" ELSE shown[c.job]
  <2>2. Answered(a)
    BY <1>5, <2>1 DEF JobStatus, Respond, AnswersTo, ServerTypeOK
  <2>3. UNCHANGED serverVars
    BY <1>1, <1>5 DEF serverVars, lifeVars, JobStatus
  <2> HIDE DEF Answered, a
  <2> QED
    BY <1>1, <1>2, <2>2, <2>3, ServerKept, PageKept DEF serverVars
<1>6. CASE up /\ c.kind \in {"result", "ordering"} /\ JobResult(c)
  <2>1. PICK r \in IF shown[c.job] = "done" THEN {"report", "empty"}
                   ELSE {"failed"} : Respond(c, r)
    BY <1>6 DEF JobResult
  <2>2. Answered(r)
    BY <1>6, <2>1 DEF Respond, AnswersTo
  <2>3. UNCHANGED serverVars
    BY <1>1, <1>6 DEF serverVars, lifeVars, JobResult
  <2> HIDE DEF Answered
  <2> QED
    BY <1>1, <1>2, <2>2, <2>3, ServerKept, PageKept DEF serverVars
<1>7. CASE up /\ c.kind = "cancel" /\ CancelJob(c)
  <2>1. c.job \in Jobs
    BY <1>7, CallJobs
  <2> DEFINE a == IF shown[c.job] = "absent" THEN "failed" ELSE "ok"
  <2>2. Answered(a)
    BY <1>7 DEF CancelJob, Respond, AnswersTo
  <2>3. UNCHANGED <<lifeVars, issued, finished>> /\ asked' \subseteq asked \cup {c.job}
    BY <1>7 DEF CancelJob
  <2>4. ServerTypeOK' /\ DoneIsFinished'
    BY <1>1, <2>1, <2>3 DEF ServerTypeOK, DoneIsFinished, lifeVars
  <2> HIDE DEF Answered, a
  <2> QED
    BY <1>1, <1>2, <2>2, <2>3, <2>4, PageKept
<1> QED
  BY <1>3, <1>4, <1>5, <1>6, <1>7 DEF Serve

LEMMA EndJobStep ==
    ASSUME IInv, NEW j \in Jobs, EndJob(j)
    PROVE  IInv'
<1> USE DEF IInv
<1>1. PICK s \in {"done", "error", "cancelled"} : shown' = [shown EXCEPT ![j] = s]
  BY DEF EndJob, End
<1>2. /\ UNCHANGED <<durable, up, asked, issued, crashes, calls>>
      /\ UNCHANGED <<pageVars, loads, clicks>>
      /\ finished' = IF shown'[j] = "done" THEN finished \cup {j} ELSE finished
  BY DEF EndJob, End, PageUnchanged
<1>3. ServerTypeOK'
  BY <1>1, <1>2 DEF ServerTypeOK, Phases, Finals
<1>4. DoneIsFinished'
  BY <1>1, <1>2 DEF DoneIsFinished, ServerTypeOK
<1> QED
  BY <1>2, <1>3, <1>4, CallsKept, PageKept

LEMMA CrashStep ==
    ASSUME IInv, Crash
    PROVE  IInv'
<1> USE DEF IInv
<1>1. /\ shown' = [j \in Jobs |-> "absent"]
      /\ durable' \in [Jobs -> Phases]
      /\ \A j \in Jobs : durable'[j] \in RowAtCrash(j)
      /\ up' = FALSE /\ asked' = {} /\ crashes' = crashes + 1
      /\ UNCHANGED <<issued, finished>> /\ UNCHANGED <<pageVars, loads, clicks>>
  BY DEF Crash, PageUnchanged
<1>2. PICK cut \in SUBSET {c \in Calls : calls[c] \notin {"idle", "sent"}} :
         calls' = [c \in Calls |-> IF c \in cut THEN "failed" ELSE calls[c]]
  BY DEF Crash
<1>3. ServerTypeOK'
  <2>1. shown' \in [Jobs -> Phases]
    BY <1>1 DEF Phases
  <2>2. crashes' \in Nat
    BY <1>1 DEF ServerTypeOK
  <2> QED
    BY <1>1, <2>1, <2>2 DEF ServerTypeOK
<1>4. DoneIsFinished'
  BY <1>1 DEF DoneIsFinished, RowAtCrash
<1>5. CallsTypeOK'
  <2>1. \A c \in Calls : "failed" \in Entries /\ "failed" \in AnswersTo(c.kind)
    <3>1. \A k : "failed" \in AnswersTo(k)
      BY DEF AnswersTo
    <3> QED
      BY <3>1 DEF Entries, Kinds
  <2> QED
    BY <1>2, <2>1 DEF CallsTypeOK, Entries, AnswersTo
<1>6. CallsAreTrue'
  BY <1>1, <1>2 DEF CallsAreTrue, KnownOf
<1> QED
  BY <1>1, <1>3, <1>4, <1>5, <1>6, PageKept

LEMMA RestartStep ==
    ASSUME IInv, Restart
    PROVE  IInv'
<1> USE DEF IInv
<1>1. /\ UNCHANGED <<asked, issued, finished, crashes, calls>>
      /\ UNCHANGED <<pageVars, loads, clicks>>
      /\ up' \in {up, TRUE}
  BY DEF Restart, PageUnchanged
<1>2. ServerTypeOK' /\ DoneIsFinished'
  <2>1. CASE Reclassify
    BY <1>1, <2>1 DEF Reclassify, ServerTypeOK, DoneIsFinished, Phases, Finals
  <2>2. CASE Reveal
    BY <1>1, <2>2 DEF Reveal, ServerTypeOK, DoneIsFinished
  <2> QED
    BY <2>1, <2>2 DEF Restart
<1> QED
  BY <1>1, <1>2, CallsKept, PageKept

-----------------------------------------------------------------------------
(***************************************************************************)
(* The page.                                                               *)
(***************************************************************************)
\* A call that is sent says nothing yet, unless it is for a result.
LEMMA SendIsTrue ==
    ASSUME CallsTypeOK, CallsAreTrue, NEW k \in (Kinds \ {"result"}) \cup {"load"},
           NEW j, Send(k, j), finished' = finished
    PROVE  CallsTypeOK' /\ CallsAreTrue'
<1>1. CallsTypeOK'
  BY SendCall
<1>2. \A c \in Calls : calls'[c] = calls[c] \/ (c.kind = k /\ calls'[c] = "sent")
  BY SendCall
<1> QED
  BY <1>1, <1>2 DEF CallsAreTrue, KnownOf

LEMMA ReturnIsTrue ==
    ASSUME CallsTypeOK, CallsAreTrue, NEW c \in Calls, Return(c),
           finished' = finished
    PROVE  CallsTypeOK' /\ CallsAreTrue'
<1>1. CallsTypeOK'
  BY SetEntry DEF Return
<1>2. \A d \in Calls : calls'[d] = IF d = c THEN "idle" ELSE calls[d]
  BY DEF Return, CallsTypeOK
<1> QED
  BY <1>1, <1>2 DEF CallsAreTrue, KnownOf

\* A result is asked for a job that is done.
LEMMA ReturnAndSendIsTrue ==
    ASSUME CallsTypeOK, CallsAreTrue, NEW c \in Calls, c.job \in finished,
           ReturnAndSend(c, "result"), finished' = finished
    PROVE  CallsTypeOK' /\ CallsAreTrue'
<1>1. PICK t \in Turns :
         calls' = [calls EXCEPT ![c] = "idle",
                                ![Call("result", c.job, t)] = "sent"]
  BY DEF ReturnAndSend
<1> DEFINE r == Call("result", c.job, t)
<1>2. calls' \in [Calls -> Entries]
  BY <1>1 DEF CallsTypeOK, Entries
<1>3. \A d \in Calls : \/ calls'[d] = "idle"
                       \/ d = r /\ calls'[d] = "sent"
                       \/ calls'[d] = calls[d]
  BY <1>1 DEF CallsTypeOK
<1>4. CallsTypeOK'
  BY <1>2, <1>3 DEF CallsTypeOK, Entries, AnswersTo
<1>5. r.job = c.job
  BY DEF Call
<1>6. ASSUME NEW d \in Calls, KnownOf(d)'
      PROVE  d.job \in finished'
  <2> HIDE DEF r
  <2>1. CASE calls'[d] = "idle"
    BY <1>6, <2>1 DEF KnownOf
  <2>2. CASE d = r
    BY <1>5, <2>2
  <2>3. CASE calls'[d] = calls[d]
    BY <1>6, <2>3 DEF KnownOf, CallsAreTrue
  <2> QED
    BY <1>3, <2>1, <2>2, <2>3
<1> QED
  BY <1>4, <1>6 DEF CallsAreTrue

LEMMA DeliverStep ==
    ASSUME IInv, NEW c \in Calls, Deliver(c)
    PROVE  IInv'
<1> USE DEF IInv
<1>1. /\ calls[c] \notin {"idle", "sent"}
      /\ UNCHANGED serverVars /\ UNCHANGED <<loads, clicks>>
  BY DEF Deliver
<1>2. ServerTypeOK' /\ DoneIsFinished' /\ finished' = finished
  BY <1>1, ServerKept DEF serverVars
<1>3. CASE c.kind = "load" /\ LoadAnswered(c)
  <2>1. calls[c] = "failed" \/ calls[c] \in Jobs
    BY <1>1, <1>3 DEF CallsTypeOK, AnswersTo
  <2>2. PageTypeOK' /\ PageIsTrue'
    BY <1>1, <1>2, <1>3, <2>1
       DEF LoadAnswered, ShowProgress, PageTypeOK, PageIsTrue
  <2>3. CallsTypeOK' /\ CallsAreTrue'
    BY <1>2, <1>3, ReturnIsTrue DEF LoadAnswered
  <2> QED
    BY <1>2, <2>2, <2>3
<1>4. CASE c.kind = "poll" /\ PollAnswered(c)
  <2>1. PageTypeOK' /\ PageIsTrue'
    BY <1>1, <1>2, <1>4
       DEF PollAnswered, ShowProgress, PageTypeOK, PageIsTrue
  <2>2. CASE calls[c] = "done"
    <3>1. c.job \in finished
      BY <1>4, <2>2 DEF CallsAreTrue, KnownOf
    <3> QED
      BY <1>2, <1>4, <2>1, <2>2, <3>1, ReturnAndSendIsTrue DEF PollAnswered
  <2>3. CASE calls[c] # "done"
    BY <1>2, <1>4, <2>1, <2>3, ReturnIsTrue DEF PollAnswered
  <2> QED
    BY <2>2, <2>3
<1>5. CASE c.kind = "result" /\ ResultAnswered(c)
  <2>1. c.job \in finished /\ c.job \in Jobs
    BY <1>1, <1>5, CallJobs DEF CallsAreTrue, KnownOf
  <2>2. PageTypeOK' /\ PageIsTrue'
    BY <1>1, <1>2, <1>5, <2>1
       DEF ResultAnswered, ShowProgress, PageTypeOK, PageIsTrue
  <2>3. CallsTypeOK' /\ CallsAreTrue'
    BY <1>2, <1>5, ReturnIsTrue DEF ResultAnswered
  <2> QED
    BY <1>2, <2>2, <2>3
<1>6. CASE c.kind = "ordering" /\ OrderingAnswered(c)
  <2>1. calls[c] # "failed" => c.job \in finished /\ c.job \in Jobs
    BY <1>1, <1>6, CallJobs DEF CallsAreTrue, KnownOf, CallsTypeOK, AnswersTo
  <2>2. PageTypeOK' /\ PageIsTrue'
    BY <1>1, <1>2, <1>6, <2>1 DEF OrderingAnswered, PageTypeOK, PageIsTrue
  <2>3. CallsTypeOK' /\ CallsAreTrue'
    BY <1>2, <1>6, ReturnIsTrue DEF OrderingAnswered
  <2> QED
    BY <1>2, <2>2, <2>3
<1>7. CASE c.kind = "cancel" /\ StopAnswered(c)
  BY <1>1, <1>2, <1>7, ReturnIsTrue, PageKept DEF StopAnswered
<1> QED
  BY <1>3, <1>4, <1>5, <1>6, <1>7 DEF Deliver

\* What the user and the interval do.
LEMMA UserStep ==
    ASSUME IInv,
           \/ \E j \in Jobs : PollTick(j)
           \/ SubmitForm \/ ChangeRepo \/ Stop \/ ChangeOrdering
    PROVE  IInv'
<1> USE DEF IInv
<1>1. UNCHANGED serverVars
  BY DEF PollTick, SubmitForm, ChangeRepo, Stop, ChangeOrdering
<1>2. ServerTypeOK' /\ DoneIsFinished' /\ finished' = finished
  BY <1>1, ServerKept DEF serverVars
<1>3. CASE \E j \in Jobs : PollTick(j)
  <2>1. PICK j \in Jobs : PollTick(j)
    BY <1>3
  <2>2. CallsTypeOK' /\ CallsAreTrue'
    BY <1>2, <2>1, SendIsTrue DEF PollTick, Kinds
  <2> QED
    BY <1>2, <2>1, <2>2, PageKept DEF PollTick
<1>4. CASE SubmitForm
  <2>1. CallsTypeOK' /\ CallsAreTrue'
    BY <1>2, <1>4, SendIsTrue DEF SubmitForm
  <2>2. /\ UNCHANGED <<jobId, report, overview, timers, panel, clicks>>
        /\ progress' = TRUE /\ stopOff' = FALSE
        /\ banner' = "none" /\ loads' = loads + 1
    BY <1>4 DEF SubmitForm, ShowProgress
  <2>3. PageIsTrue'
    BY <1>2, <2>2 DEF PageIsTrue
  <2>4. loads' \in Nat
    BY <2>2 DEF PageTypeOK
  <2>5. PageTypeOK'
    BY <2>2, <2>4 DEF PageTypeOK
  <2> QED
    BY <1>2, <2>1, <2>3, <2>5
<1>5. CASE ChangeRepo
  <2>1. PageTypeOK' /\ PageIsTrue'
    BY <1>2, <1>5 DEF ChangeRepo, PageTypeOK, PageIsTrue
  <2> QED
    BY <1>2, <1>5, <2>1, CallsKept DEF ChangeRepo
<1>6. CASE Stop
  <2>1. CallsTypeOK' /\ CallsAreTrue'
    BY <1>2, <1>6, SendIsTrue DEF Stop, Kinds
  <2>2. PageTypeOK' /\ PageIsTrue'
    BY <1>2, <1>6 DEF Stop, PageTypeOK, PageIsTrue
  <2> QED
    BY <1>2, <2>1, <2>2
<1>7. CASE ChangeOrdering
  <2>1. CallsTypeOK' /\ CallsAreTrue'
    BY <1>2, <1>7, SendIsTrue DEF ChangeOrdering, Kinds
  <2>2. PageTypeOK' /\ PageIsTrue'
    BY <1>2, <1>7 DEF ChangeOrdering, PageTypeOK, PageIsTrue, pageVars
  <2> QED
    BY <1>2, <2>1, <2>2
<1> QED
  BY <1>3, <1>4, <1>5, <1>6, <1>7

LEMMA Inductive == IInv /\ [Next]_vars => IInv'
<1> SUFFICES ASSUME IInv, [Next]_vars PROVE IInv'
  OBVIOUS
<1>1. CASE UNCHANGED vars
  BY <1>1, ServerKept, CallsKept, PageKept DEF IInv, vars, serverVars
<1>2. CASE Next
  BY <1>2, ServeStep, DeliverStep, EndJobStep, CrashStep, RestartStep, UserStep
     DEF Next
<1> QED
  BY <1>1, <1>2

\* Whatever happens, IInv holds.
THEOREM PageInvariant == Spec => []IInv
BY InitHolds, Inductive, PTL DEF Spec

-----------------------------------------------------------------------------
\* The page and its server keep their types.
THEOREM TypeCorrect == Spec => []TypeOK
<1>1. IInv => TypeOK
  BY TypeParts DEF IInv
<1> QED
  BY <1>1, PageInvariant, PTL

\* The page asks for the results of done jobs only, and shows no others: for
\* any number of jobs, of overlapping and reordered calls, of loads and of
\* crashes.
THEOREM OnlyDoneIsShown == Spec => []ReportsWereDone
<1>1. IInv => ReportsWereDone
  BY DEF IInv, CallsAreTrue, KnownOf, PageIsTrue, ReportsWereDone, Wanted
<1> QED
  BY <1>1, PageInvariant, PTL

-----------------------------------------------------------------------------
(***************************************************************************)
(* A page that loads one repository shows that one and its progress, and   *)
(* its stop button stops it, whatever the number of calls under way, of    *)
(* answers that come late, and of crashes of the server.                   *)
(***************************************************************************)
Alive(c) == calls[c] # "idle"

\* Once a page has loaded at most one job, all its calls are about that job;
\* its load is answered before anything else is asked; and when the result is
\* asked for, the interval has stopped and nothing starts it again.
OneLoad ==
    /\ loads = 0 => jobId = NoJob /\ panel /\ ~Underway("load")
    /\ Underway("load") => jobId = NoJob
    /\ \A c, d \in Calls :
          c.kind = "load" /\ Alive(c) /\ d.kind = "load" /\ Alive(d) => c = d
    /\ \A c \in Calls : c.kind # "load" /\ Alive(c) => c.job = jobId
    /\ timers \subseteq {jobId}
    /\ {report, overview} \subseteq {NoJob, jobId}
    /\ overview # NoJob => report = overview
    /\ Underway("result") \/ overview # NoJob \/ ~panel =>
          timers = {} /\ ~Underway("load")
    /\ Underway("load") \/ timers # {} => progress /\ panel
OneLoadInv == loads <= 1 => OneLoad

\* A stop that was answered has found its job, or nothing to stop.
StopTold(j) == j \in asked \/ shown[j] # "running"
Stopping ==
    /\ up
    /\ stopOff => jobId # NoJob
    /\ \A c \in Calls :
          c.kind = "cancel" /\ calls[c] \notin {"idle", "sent"} => StopTold(c.job)
    /\ stopOff => StopTold(jobId) \/ Underway("cancel")
StopInv == loads <= 1 /\ crashes = 0 => Stopping

LInv == IInv /\ OneLoadInv

-----------------------------------------------------------------------------
(***************************************************************************)
(* Calls.                                                                  *)
(***************************************************************************)
LEMMA FewerCalls ==
    ASSUME OneLoadInv, UNCHANGED <<pageVars, loads>>,
           \A c \in Calls : Alive(c)' => Alive(c)
    PROVE  OneLoadInv'
BY DEF OneLoadInv, OneLoad, Underway, Alive, pageVars

LEMMA SentCall ==
    ASSUME CallsTypeOK, NEW k, NEW j, Send(k, j)
    PROVE  \E t \in Turns : \A c \in Calls :
              Alive(c)' => Alive(c) \/ c = Call(k, j, t)
<1>1. PICK t \in Turns : calls' = [calls EXCEPT ![Call(k, j, t)] = "sent"]
  BY DEF Send
<1>2. ASSUME NEW c \in Calls, Alive(c)', c # Call(k, j, t)
      PROVE  Alive(c)
  BY <1>1, <1>2 DEF Alive, CallsTypeOK
<1> QED
  BY <1>2

LEMMA ReturnedCall ==
    ASSUME CallsTypeOK, NEW c \in Calls, Return(c)
    PROVE  \A d \in Calls : Alive(d)' => Alive(d) /\ d # c
BY DEF Return, CallsTypeOK, Alive

LEMMA ReturnedAndSent ==
    ASSUME CallsTypeOK, NEW c \in Calls, c.kind = "poll", ReturnAndSend(c, "result")
    PROVE  \E t \in Turns : \A d \in Calls :
              Alive(d)' => \/ Alive(d) /\ d # c
                           \/ d = Call("result", c.job, t)
<1>1. PICK t \in Turns :
         calls' = [calls EXCEPT ![c] = "idle",
                                ![Call("result", c.job, t)] = "sent"]
  BY DEF ReturnAndSend
<1>2. ASSUME NEW d \in Calls, Alive(d)', d # Call("result", c.job, t)
      PROVE  Alive(d) /\ d # c
  BY <1>1, <1>2 DEF Alive, CallsTypeOK
<1> QED
  BY <1>2

-----------------------------------------------------------------------------
(***************************************************************************)
(* One load.                                                               *)
(***************************************************************************)
LEMMA OneLoadInit == Init => OneLoadInv
<1> SUFFICES ASSUME Init PROVE OneLoadInv
  OBVIOUS
<1>1. PICK linked \in {NoJob, CHOOSE j \in Jobs : TRUE} :
         /\ jobId = linked
         /\ timers = {linked} \ {NoJob}
         /\ progress = (linked # NoJob)
         /\ loads = IF linked = NoJob THEN 0 ELSE 1
  BY DEF Init
<1>2. /\ calls = [c \in Calls |-> "idle"]
      /\ report = NoJob /\ overview = NoJob /\ panel = TRUE
  BY DEF Init
<1>3. \A c \in Calls : ~Alive(c)
  BY <1>2 DEF Alive
<1>4. \A k : ~Underway(k)
  BY <1>3 DEF Underway, Alive
<1>5. timers \subseteq {jobId} /\ (timers # {} => progress)
  BY <1>1
<1>6. loads = 0 => jobId = NoJob
  BY <1>1
<1> QED
  BY <1>2, <1>3, <1>4, <1>5, <1>6 DEF OneLoadInv, OneLoad

\* What the server does.
LEMMA OneLoadServer ==
    ASSUME LInv,
           \/ \E c \in Calls : Serve(c)
           \/ \E j \in Jobs : EndJob(j)
           \/ Crash \/ Restart
    PROVE  OneLoadInv'
<1> USE DEF LInv, IInv
<1>1. UNCHANGED <<pageVars, loads>>
  BY DEF Serve, EndJob, Crash, Restart, PageUnchanged
<1>2. \A c \in Calls : Alive(c)' => Alive(c)
  <2>1. CASE \E c \in Calls : Serve(c)
    <3>1. PICK c \in Calls : Serve(c)
      BY <2>1
    <3>2. calls[c] = "sent" /\ \E a : calls' = [calls EXCEPT ![c] = a]
      BY <3>1 DEF Serve, LoadRepo, JobStatus, JobResult, CancelJob, Respond
    <3> QED
      BY <3>2 DEF Alive, CallsTypeOK
  <2>2. CASE \E j \in Jobs : EndJob(j)
    BY <2>2 DEF EndJob, Alive
  <2>3. CASE Crash
    <3>1. PICK cut \in SUBSET {c \in Calls : calls[c] \notin {"idle", "sent"}} :
             calls' = [c \in Calls |-> IF c \in cut THEN "failed" ELSE calls[c]]
      BY <2>3 DEF Crash
    <3> QED
      BY <3>1 DEF Alive
  <2>4. CASE Restart
    BY <2>4 DEF Restart, Alive
  <2> QED
    BY <2>1, <2>2, <2>3, <2>4
<1> QED
  BY <1>1, <1>2, FewerCalls

\* What an answer does.
LEMMA OneLoadDeliver ==
    ASSUME LInv, NEW c \in Calls, Deliver(c)
    PROVE  OneLoadInv'
<1> USE DEF LInv, IInv
<1>1. Alive(c) /\ calls[c] # "sent" /\ UNCHANGED loads
  BY DEF Deliver, Alive
<1> SUFFICES ASSUME loads <= 1, OneLoad PROVE OneLoad'
  BY <1>1 DEF OneLoadInv
<1> DEFINE Returned == \A d \in Calls : Alive(d)' => Alive(d) /\ d # c
<1>2. CASE c.kind = "load" /\ LoadAnswered(c)
  <2>1. Returned
    BY <1>2, ReturnedCall DEF LoadAnswered
  <2>2. jobId = NoJob /\ loads # 0 /\ overview = NoJob /\ report = NoJob /\ panel
    BY <1>1, <1>2 DEF OneLoad, Underway, Alive
  <2>3. ASSUME NEW d \in Calls PROVE ~Alive(d)'
    BY <1>1, <1>2, <2>1, <2>2, <2>3, CallJobs, GuiClientAssumption DEF OneLoad
  <2>4. timers = {}
    BY <2>2, GuiClientAssumption DEF OneLoad, PageTypeOK
  <2>5. progress
    BY <1>1, <1>2 DEF OneLoad, Underway, Alive
  <2>6. /\ UNCHANGED <<report, overview, panel>>
        /\ timers' \subseteq {jobId'}
        /\ timers' # {} => progress' = progress
    BY <1>2, <2>4 DEF LoadAnswered
  <2> QED
    BY <1>1, <2>2, <2>3, <2>5, <2>6 DEF OneLoad, Underway, Alive
<1>3. CASE c.kind = "poll" /\ PollAnswered(c)
  <2>1. c.job = jobId /\ jobId # NoJob /\ ~Underway("load") /\ loads # 0
    BY <1>1, <1>3, CallJobs, GuiClientAssumption DEF OneLoad, Kinds
  <2>2. /\ UNCHANGED <<jobId, report, overview, panel>>
        /\ timers' = IF calls[c] \in PollSettles THEN {} ELSE timers
        /\ timers' # {} => progress' = progress
    BY <1>3, <2>1 DEF PollAnswered, PollSettles, OneLoad
  <2>3. CASE calls[c] = "done"
    <3>1. PICK t \in Turns : \A d \in Calls :
             Alive(d)' => \/ Alive(d) /\ d # c
                          \/ d = Call("result", c.job, t)
      BY <1>3, <2>3, ReturnedAndSent DEF PollAnswered
    <3>2. timers' = {}
      BY <2>2, <2>3 DEF PollSettles
    <3>3. \A d \in Calls : d.kind = "load" => ~Alive(d)'
      BY <2>1, <3>1 DEF Underway, Alive, Call
    <3>4. \A d \in Calls : Alive(d)' => d.job = jobId
      BY <2>1, <3>1, <3>3 DEF OneLoad, Call
    <3>5. ~Underway("load")'
      BY <3>3 DEF Underway, Alive
    <3> QED
      BY <1>1, <2>1, <2>2, <3>2, <3>3, <3>4, <3>5 DEF OneLoad
  <2>4. CASE calls[c] # "done"
    <3>1. Returned
      BY <1>3, <2>4, ReturnedCall DEF PollAnswered
    <3> QED
      BY <1>1, <2>1, <2>2, <3>1 DEF OneLoad, Underway, Alive
  <2> QED
    BY <2>3, <2>4
<1>4. CASE c.kind = "result" /\ ResultAnswered(c)
  <2>1. Returned
    BY <1>4, ReturnedCall DEF ResultAnswered
  <2>2. c.job = jobId /\ timers = {} /\ ~Underway("load") /\ loads # 0
    BY <1>1, <1>4, CallJobs, GuiClientAssumption DEF OneLoad, Underway, Alive, Kinds
  <2>3. /\ UNCHANGED <<jobId, timers>>
        /\ \/ overview' = jobId /\ report' = jobId
           \/ overview' = overview /\ panel' = panel /\ report' \in {report, jobId}
    BY <1>4, <2>2 DEF ResultAnswered
  <2>4. ~Underway("load")'
    BY <2>1, <2>2 DEF Underway, Alive
  <2> QED
    BY <1>1, <2>1, <2>2, <2>3, <2>4 DEF OneLoad
<1>5. CASE c.kind = "ordering" /\ OrderingAnswered(c)
  <2>1. Returned
    BY <1>5, ReturnedCall DEF OrderingAnswered
  <2>2. c.job = jobId
    BY <1>1, <1>5 DEF OneLoad
  <2>3. /\ UNCHANGED <<jobId, overview, timers, progress, panel>>
        /\ report' \in {report, jobId}
    BY <1>5, <2>2 DEF OrderingAnswered
  <2> QED
    BY <1>1, <2>1, <2>3 DEF OneLoad, Underway, Alive
<1>6. CASE c.kind = "cancel" /\ StopAnswered(c)
  <2>1. Returned
    BY <1>6, ReturnedCall DEF StopAnswered
  <2> QED
    BY <1>1, <1>6, <2>1, FewerCalls DEF StopAnswered, OneLoadInv
<1> QED
  BY <1>2, <1>3, <1>4, <1>5, <1>6 DEF Deliver

\* What the user and the interval do.
LEMMA OneLoadUser ==
    ASSUME LInv,
           \/ \E j \in Jobs : PollTick(j)
           \/ SubmitForm \/ ChangeRepo \/ Stop \/ ChangeOrdering
    PROVE  OneLoadInv'
<1> USE DEF LInv, IInv
<1>1. CASE SubmitForm
  <2>1. loads' = loads + 1 /\ loads \in Nat
    BY <1>1 DEF SubmitForm, PageTypeOK
  <2> SUFFICES ASSUME loads = 0 PROVE OneLoad'
    BY <2>1 DEF OneLoadInv
  <2>2. OneLoad
    BY DEF OneLoadInv
  <2>3. /\ UNCHANGED <<jobId, report, overview, timers, panel>> /\ progress' = TRUE
    BY <1>1 DEF SubmitForm, ShowProgress
  <2>4. PICK t \in Turns : \A c \in Calls :
           Alive(c)' => Alive(c) \/ c = Call("load", NoJob, t)
    BY <1>1, SentCall DEF SubmitForm
  <2>5. \A c \in Calls : ~Alive(c)
    BY <2>2, CallJobs, GuiClientAssumption DEF OneLoad, Underway, Alive
  <2>6. \A c \in Calls : Alive(c)' => c = Call("load", NoJob, t) /\ c.kind = "load"
    BY <2>4, <2>5 DEF Call
  <2>7. jobId = NoJob /\ timers = {} /\ overview = NoJob /\ panel
    BY <2>2, GuiClientAssumption DEF OneLoad, PageTypeOK
  <2>8. ~Underway("result")'
    BY <2>6 DEF Underway, Alive
  <2> QED
    BY <2>1, <2>2, <2>3, <2>6, <2>7, <2>8 DEF OneLoad
<1> SUFFICES ASSUME ~SubmitForm, loads <= 1, OneLoad PROVE OneLoad'
  BY <1>1 DEF OneLoadInv, PollTick, ChangeRepo, Stop, ChangeOrdering
\* A call about the job there is, which is no load and no result.
<1>2. ASSUME NEW k \in {"poll", "cancel", "ordering"}, Send(k, jobId),
             jobId # NoJob,
             UNCHANGED <<jobId, report, overview, timers, progress, panel, loads>>
      PROVE  OneLoad'
  <2>1. PICK t \in Turns : \A c \in Calls :
           Alive(c)' => Alive(c) \/ c = Call(k, jobId, t)
    BY <1>2, SentCall
  <2>2. \A c \in Calls : Alive(c)' => Alive(c) \/ (c.kind = k /\ c.job = jobId)
    BY <2>1 DEF Call
  <2>3. ~Underway("load")' /\ (Underway("result")' => Underway("result"))
    BY <1>2, <2>2 DEF OneLoad, Underway, Alive
  <2>4. \A c \in Calls : Alive(c)' => c.kind # "load" /\ c.job = jobId
    BY <1>2, <2>2, <2>3 DEF OneLoad, Underway, Alive
  <2> QED
    BY <1>2, <2>3, <2>4 DEF OneLoad
<1>3. CASE \E j \in Jobs : PollTick(j)
  <2>1. PICK j \in Jobs : PollTick(j)
    BY <1>3
  <2>2. j = jobId /\ jobId # NoJob
    BY <2>1, GuiClientAssumption DEF PollTick, OneLoad
  <2> QED
    BY <1>2, <2>1, <2>2 DEF PollTick, pageVars
<1>4. CASE ChangeRepo
  <2>1. \A c \in Calls : Alive(c)' <=> Alive(c)
    BY <1>4 DEF ChangeRepo, Alive
  <2> QED
    BY <1>4, <2>1 DEF ChangeRepo, OneLoad, Underway, Alive
<1>5. CASE Stop
  BY <1>2, <1>5 DEF Stop
<1>6. CASE ChangeOrdering
  <2>1. jobId # NoJob
    BY <1>6 DEF ChangeOrdering, OneLoad
  <2> QED
    BY <1>2, <1>6, <2>1 DEF ChangeOrdering, pageVars
<1> QED
  BY <1>1, <1>3, <1>4, <1>5, <1>6

-----------------------------------------------------------------------------
(***************************************************************************)
(* The stop button.                                                        *)
(***************************************************************************)
\* A step that forgets no stop: a call that comes back was answered truly.
LEMMA StopKept ==
    ASSUME LInv, StopInv, UNCHANGED <<jobId, loads, up, crashes>>,
           stopOff' => stopOff,
           \A j \in Jobs : StopTold(j) => StopTold(j)',
           \A c \in Calls : c.kind = "cancel" =>
              /\ calls'[c] \notin {"idle", "sent"} =>
                    calls[c] \notin {"idle", "sent"} \/ StopTold(c.job)'
              /\ Alive(c) => Alive(c)' \/ StopTold(c.job)'
    PROVE  StopInv'
<1> SUFFICES ASSUME loads <= 1, crashes = 0 PROVE Stopping'
  BY DEF StopInv
<1>1. Stopping /\ OneLoad
  BY DEF StopInv, LInv, OneLoadInv
<1>2. up' /\ (stopOff' => jobId' # NoJob)
  BY <1>1 DEF Stopping
<1>3. ASSUME NEW c \in Calls, c.kind = "cancel", calls'[c] \notin {"idle", "sent"}
      PROVE  StopTold(c.job)'
  BY <1>1, <1>3, CallJobs DEF Stopping
<1>4. ASSUME stopOff' PROVE StopTold(jobId)' \/ Underway("cancel")'
  <2>1. CASE StopTold(jobId)
    BY <1>1, <1>4, <2>1 DEF Stopping, LInv, IInv, PageTypeOK, StopTold
  <2>2. CASE Underway("cancel")
    <3>1. PICK c \in Calls : c.kind = "cancel" /\ Alive(c)
      BY <2>2 DEF Underway, Alive
    <3>2. c.job = jobId
      BY <1>1, <3>1 DEF OneLoad
    <3> QED
      BY <3>1, <3>2 DEF Underway, Alive, StopTold
  <2> QED
    BY <1>1, <1>4, <2>1, <2>2 DEF Stopping
<1> QED
  BY <1>2, <1>3, <1>4 DEF Stopping

LEMMA StopInit == Init => StopInv
BY DEF Init, StopInv, Stopping

LEMMA StopServer ==
    ASSUME LInv, StopInv, loads <= 1, crashes = 0,
           \/ \E c \in Calls : Serve(c)
           \/ \E j \in Jobs : EndJob(j)
           \/ Crash \/ Restart
    PROVE  StopInv'
<1> USE DEF LInv, IInv
<1>1. Stopping /\ OneLoad
  BY DEF StopInv, OneLoadInv
<1>2. UNCHANGED <<jobId, loads, stopOff>>
  BY DEF Serve, EndJob, Crash, Restart, PageUnchanged, pageVars
<1>3. CASE \E c \in Calls : Serve(c)
  <2>1. PICK c \in Calls : Serve(c)
    BY <1>3
  <2>2. PICK a : calls' = [calls EXCEPT ![c] = a]
    BY <2>1 DEF Serve, LoadRepo, JobStatus, JobResult, CancelJob, Respond
  <2>3. UNCHANGED <<up, crashes>> /\ up /\ calls[c] = "sent"
    BY <1>1, <2>1 DEF Serve, Stopping
  <2>4. CASE c.kind = "load"
    <3>1. \A d \in Calls : d.kind = "cancel" => calls[d] = "idle" /\ calls'[d] = "idle"
      BY <1>1, <2>2, <2>3, <2>4, CallJobs, GuiClientAssumption
         DEF OneLoad, Underway, Alive, CallsTypeOK
    <3>2. ~stopOff
      BY <1>1, <2>3, <2>4 DEF OneLoad, Underway, Stopping
    <3> QED
      BY <1>2, <2>3, <3>1, <3>2 DEF StopInv, Stopping
  <2>5. CASE c.kind = "cancel"
    <3>1. /\ CancelJob(c) /\ shown' = shown
          /\ asked \subseteq asked'
      BY <2>1, <2>3, <2>5 DEF Serve, CancelJob, lifeVars
    <3>2. StopTold(c.job)'
      BY <3>1 DEF CancelJob, StopTold
    <3>3. \A d \in Calls : d # c => calls'[d] = calls[d]
      BY <2>2 DEF CallsTypeOK
    <3>4. \A j \in Jobs : StopTold(j) => StopTold(j)'
      BY <3>1 DEF StopTold
    <3>5. \A d \in Calls : calls'[d] = calls[d] \/ StopTold(d.job)'
      BY <3>2, <3>3
    <3> QED
      BY <1>2, <2>3, <3>4, <3>5, StopKept DEF Alive
  <2>6. CASE c.kind \notin {"load", "cancel"}
    <3>1. UNCHANGED <<shown, asked>>
      BY <2>1, <2>3, <2>6 DEF Serve, JobStatus, JobResult, lifeVars
    <3>2. \A d \in Calls : d.kind = "cancel" => calls'[d] = calls[d]
      BY <2>2, <2>6 DEF CallsTypeOK
    <3> QED
      BY <1>2, <2>3, <3>1, <3>2, StopKept DEF Alive, StopTold
  <2> QED
    BY <2>4, <2>5, <2>6
<1>4. CASE \E j \in Jobs : EndJob(j)
  <2>1. PICK j \in Jobs : EndJob(j)
    BY <1>4
  <2>2. UNCHANGED <<up, asked, crashes, calls>>
    BY <2>1 DEF EndJob
  <2>3. PICK s \in {"done", "error", "cancelled"} : shown' = [shown EXCEPT ![j] = s]
    BY <2>1 DEF EndJob, End
  <2>4. \A k \in Jobs : StopTold(k) => StopTold(k)'
    BY <2>2, <2>3 DEF StopTold, ServerTypeOK
  <2> QED
    BY <1>2, <2>2, <2>4, StopKept DEF Alive
<1>5. CASE Crash
  BY <1>5 DEF Crash, StopInv
<1>6. CASE Restart
  BY <1>1, <1>6 DEF Restart, Stopping
<1> QED
  BY <1>3, <1>4, <1>5, <1>6

LEMMA StopPage ==
    ASSUME LInv, StopInv, loads' <= 1, crashes = 0,
           \/ \E c \in Calls : Deliver(c)
           \/ \E j \in Jobs : PollTick(j)
           \/ SubmitForm \/ ChangeRepo \/ Stop \/ ChangeOrdering
    PROVE  StopInv'
<1> USE DEF LInv, IInv
<1>1. UNCHANGED serverVars /\ loads \in Nat /\ (loads' = loads \/ loads' = loads + 1)
  BY DEF Deliver, PollTick, SubmitForm, ChangeRepo, Stop, ChangeOrdering, PageTypeOK
<1>2. Stopping /\ OneLoad
  BY <1>1 DEF StopInv, OneLoadInv
<1>3. UNCHANGED <<up, crashes>> /\ \A j : StopTold(j)' <=> StopTold(j)
  BY <1>1 DEF serverVars, StopTold
\* Calls of other kinds go out or come back.
<1>4. ASSUME UNCHANGED <<jobId, loads>>, stopOff' => stopOff,
             \A c \in Calls : c.kind = "cancel" => calls'[c] = calls[c]
      PROVE  StopInv'
  BY <1>3, <1>4, StopKept DEF Alive
<1>5. ASSUME NEW k \in Kinds \cup {"load"}, NEW j, Send(k, j)
      PROVE  \A c \in Calls : calls'[c] = calls[c] \/ (c.kind = k /\ calls'[c] = "sent")
  BY <1>5, SendCall
<1>6. CASE \E c \in Calls : Deliver(c)
  <2>1. PICK c \in Calls : Deliver(c)
    BY <1>6
  <2>2. calls[c] \notin {"idle", "sent"} /\ UNCHANGED loads
    BY <2>1 DEF Deliver
  <2>3. ASSUME Return(c) PROVE \A d \in Calls : d # c => calls'[d] = calls[d]
    BY <2>3 DEF Return, CallsTypeOK
  <2>4. CASE c.kind = "load" /\ LoadAnswered(c)
    <3>1. jobId = NoJob /\ ~stopOff
      BY <1>2, <2>2, <2>4 DEF OneLoad, Underway, Stopping
    <3>2. ~stopOff'
      BY <2>4, <3>1 DEF LoadAnswered, ShowProgress
    <3>3. \A d \in Calls : d.kind = "cancel" => calls'[d] = calls[d]
      BY <2>3, <2>4 DEF LoadAnswered
    <3> QED
      BY <1>2, <1>3, <3>2, <3>3 DEF StopInv, Stopping
  <2>5. CASE c.kind = "poll" /\ PollAnswered(c)
    <3>1. jobId' = jobId /\ (stopOff' => stopOff)
      BY <2>5 DEF PollAnswered, ShowProgress
    <3>2. \A d \in Calls : d.kind = "cancel" => calls'[d] = calls[d]
      <4>1. CASE Return(c)
        BY <2>3, <2>5, <4>1
      <4>2. CASE ReturnAndSend(c, "result")
        BY <2>5, <4>2 DEF ReturnAndSend, Call, CallsTypeOK
      <4> QED
        BY <2>5, <4>1, <4>2 DEF PollAnswered
    <3> QED
      BY <1>4, <2>2, <3>1, <3>2
  <2>6. CASE c.kind = "result" /\ ResultAnswered(c)
    BY <1>4, <2>2, <2>3, <2>6 DEF ResultAnswered, ShowProgress
  <2>7. CASE c.kind = "ordering" /\ OrderingAnswered(c)
    BY <1>4, <2>2, <2>3, <2>7 DEF OrderingAnswered
  <2>8. CASE c.kind = "cancel" /\ StopAnswered(c)
    <3>1. UNCHANGED <<jobId, stopOff>> /\ Return(c)
      BY <2>8 DEF StopAnswered, pageVars
    <3>2. StopTold(c.job)'
      BY <1>2, <1>3, <2>2, <2>8 DEF Stopping
    <3>3. \A d \in Calls : calls'[d] = calls[d] \/ StopTold(d.job)'
      BY <2>3, <3>1, <3>2
    <3> QED
      BY <1>3, <2>2, <3>1, <3>3, StopKept DEF Alive
  <2> QED
    BY <2>1, <2>4, <2>5, <2>6, <2>7, <2>8 DEF Deliver
<1>7. CASE \E j \in Jobs : PollTick(j)
  <2>1. PICK j \in Jobs : PollTick(j)
    BY <1>7
  <2> QED
    BY <1>4, <1>5, <2>1 DEF PollTick, pageVars, Kinds
<1>8. CASE SubmitForm
  <2>1. ~stopOff' /\ Send("load", NoJob)
    BY <1>8 DEF SubmitForm, ShowProgress
  <2>2. \A c \in Calls : c.kind = "cancel" => calls'[c] = calls[c]
    BY <1>5, <2>1
  <2> QED
    BY <1>2, <1>3, <2>1, <2>2 DEF StopInv, Stopping
<1>9. CASE ChangeRepo
  BY <1>4, <1>9 DEF ChangeRepo
<1>10. CASE Stop
  <2>1. PICK t \in Turns : calls' = [calls EXCEPT ![Call("cancel", jobId, t)] = "sent"]
    BY <1>10 DEF Stop, Send
  <2>2. jobId \in Jobs /\ jobId' = jobId
    BY <1>10 DEF Stop, PageTypeOK
  <2>3. Call("cancel", jobId, t) \in Calls
    BY <2>2 DEF Call, Calls, Kinds
  <2>4. Underway("cancel")'
    BY <2>1, <2>3 DEF Underway, Call, CallsTypeOK
  <2>5. \A c \in Calls : calls'[c] = calls[c] \/ calls'[c] = "sent"
    BY <1>5, <1>10 DEF Stop, Kinds
  <2>6. jobId # NoJob
    BY <2>2, GuiClientAssumption
  <2> QED
    BY <1>2, <1>3, <2>2, <2>4, <2>5, <2>6 DEF StopInv, Stopping
<1>11. CASE ChangeOrdering
  BY <1>4, <1>5, <1>11 DEF ChangeOrdering, pageVars, Kinds
<1> QED
  BY <1>6, <1>7, <1>8, <1>9, <1>10, <1>11

-----------------------------------------------------------------------------
LEMMA OneLoadStep == LInv /\ StopInv /\ [Next]_vars => LInv' /\ StopInv'
<1> SUFFICES ASSUME LInv, StopInv, [Next]_vars PROVE LInv' /\ StopInv'
  OBVIOUS
<1>1. IInv'
  BY Inductive DEF LInv
<1>2. CASE UNCHANGED vars
  <2>1. \A c \in Calls : Alive(c)' => Alive(c)
    BY <1>2 DEF vars, Alive
  <2>2. LInv'
    BY <1>1, <1>2, <2>1, FewerCalls DEF LInv, vars
  <2>3. StopInv'
    BY <1>2 DEF StopInv, Stopping, StopTold, Underway, vars, pageVars, serverVars
  <2> QED
    BY <2>2, <2>3
<1>3. CASE Next
  <2>1. LInv'
    BY <1>1, <1>3, OneLoadServer, OneLoadDeliver, OneLoadUser DEF Next, LInv
  <2>2. loads \in Nat /\ crashes \in Nat
    BY DEF LInv, IInv, PageTypeOK, ServerTypeOK
  <2>3. \/ UNCHANGED <<loads, crashes>>
        \/ loads' = loads + 1 /\ crashes' = crashes
        \/ loads' = loads /\ crashes' = crashes + 1
    BY <1>3 DEF Next, Serve, EndJob, Crash, Restart, PageUnchanged, Deliver, PollTick,
                SubmitForm, ChangeRepo, Stop, ChangeOrdering, serverVars
  <2>4. SUFFICES ASSUME loads' <= 1, loads <= 1, crashes = 0 PROVE StopInv'
    BY <2>1, <2>2, <2>3 DEF StopInv
  <2> QED
    BY <1>3, <2>4, StopServer, StopPage DEF Next
<1> QED
  BY <1>2, <1>3

LEMMA OneLoadHolds == Spec => [](LInv /\ StopInv)
<1>1. Init => LInv /\ StopInv
  BY InitHolds, OneLoadInit, StopInit DEF LInv
<1> QED
  BY <1>1, OneLoadStep, PTL DEF Spec

\* A page that loads one repository shows that one, in its table and in its
\* overview, for any number of calls under way, of late answers, of crashes.
THEOREM LoadedIsShown == Spec => []OneLoadOneReport
<1>1. LInv => OneLoadOneReport
  BY DEF LInv, OneLoadInv, OneLoad, OneLoadOneReport
<1> QED
  BY <1>1, OneLoadHolds, PTL

\* ... and its progress for as long as the load is asked for or polled.
THEOREM LoadingIsShown == Spec => []OneLoadShowsProgress
<1>1. LInv => OneLoadShowsProgress
  BY DEF LInv, OneLoadInv, OneLoad, OneLoadShowsProgress
<1> QED
  BY <1>1, OneLoadHolds, PTL

\* A stop is not lost: where the button of a page with one load is disabled,
\* the server has been told, is being told, or has nothing left to stop.
THEOREM StopIsTold == Spec => []StopIsNotLost
<1>1. LInv /\ StopInv => StopIsNotLost
  <2> SUFFICES ASSUME StopInv, loads <= 1, crashes = 0, stopOff
               PROVE  \/ jobId \in asked \/ Underway("cancel")
                      \/ jobId # NoJob /\ shown[jobId] # "running"
    BY DEF StopIsNotLost
  <2> QED
    BY DEF StopInv, Stopping, StopTold
<1> QED
  BY <1>1, OneLoadHolds, PTL
=============================================================================
