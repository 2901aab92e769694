---------------------------- MODULE JobLifecycle ----------------------------
(***************************************************************************)
(* What the job server promises about a job, seen from outside: what the   *)
(* status endpoint shows, and what the database will say after a restart.  *)
(* Distilled from the Job and TERMINAL_STATUSES comments of                *)
(* mechanic/gui/server.py and mechanic/gui/job_store.py.                   *)
(***************************************************************************)
CONSTANT Jobs

VARIABLES
    shown,      \* what /api/jobs/{id} answers: "absent" is a 404
    durable     \* what the job's row says

lifeVars == <<shown, durable>>

Finals == {"done", "error", "cancelled", "interrupted"}
Phases == {"absent", "running"} \cup Finals

LifeInit ==
    /\ shown = [j \in Jobs |-> "absent"]
    /\ durable = [j \in Jobs |-> "absent"]

\* A load starts running, a saved report is done at once.
Submit(j) ==
    /\ shown[j] = "absent" /\ durable[j] = "absent"
    /\ \E s \in {"running", "done"} : shown' = [shown EXCEPT ![j] = s]
    /\ UNCHANGED durable

\* A running job ends once, and its outcome is final.
End(j) ==
    /\ shown[j] = "running"
    /\ \E s \in {"done", "error", "cancelled"} :
          shown' = [shown EXCEPT ![j] = s]
    /\ UNCHANGED durable

\* The row catches up with what is shown; it never runs ahead of it.
Record(j) ==
    /\ shown[j] # "absent"
    /\ durable' = [durable EXCEPT ![j] = shown[j]]
    /\ UNCHANGED shown

Die ==
    /\ shown' = [j \in Jobs |-> "absent"]
    /\ UNCHANGED durable

\* A restart turns the rows still running into interrupted ones ...
Reclassify ==
    /\ \A j \in Jobs : shown[j] = "absent"
    /\ durable' = [j \in Jobs |-> IF durable[j] = "running"
                                  THEN "interrupted" ELSE durable[j]]
    /\ UNCHANGED shown

\* ... and only then shows every row.
Reveal ==
    /\ \A j \in Jobs : shown[j] = "absent" /\ durable[j] # "running"
    /\ shown' = durable
    /\ UNCHANGED durable

LifeNext ==
    \/ \E j \in Jobs : Submit(j) \/ End(j) \/ Record(j)
    \/ Die
    \/ Reclassify
    \/ Reveal

Lifecycle == LifeInit /\ [][LifeNext]_lifeVars
=============================================================================
