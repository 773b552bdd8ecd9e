---------------------------- MODULE JobLifecycle ----------------------------
(***************************************************************************)
(* What the daemon's job queue promises about one analysis job, whatever   *)
(* the workers, the scheduler, the web handlers, crashes and restarts do:  *)
(* a project has at most one unfinished job, a job starts at most once, a  *)
(* job that was running when the daemon died is never resumed (a later     *)
(* start fails it, or leaves it as it is), a job that was only waiting is  *)
(* kept, and only finished jobs are forgotten.  JobQueue implements this   *)
(* specification.                                                          *)
(***************************************************************************)
CONSTANTS JobId,     \* identities of jobs, never reused
          Projects   \* the configured projects

VARIABLES status,    \* JobId -> where the job stands
          project    \* JobId -> the project it analyses

vars == <<status, project>>

Finished == {"completed", "failed", "timed_out", "cancelled"}
Status   == {"absent", "pending", "running"} \cup Finished

Unfinished(j) == status[j] \in {"pending", "running"}

Init == /\ status = [j \in JobId |-> "absent"]
        /\ project \in [JobId -> Projects]

\* A project that has no unfinished job gets a new one.
Submit(j, p) ==
  /\ status[j] = "absent"
  /\ \A k \in JobId : Unfinished(k) => project[k] # p
  /\ status'  = [status EXCEPT ![j] = "pending"]
  /\ project' = [project EXCEPT ![j] = p]

Start(j) ==
  /\ status[j] = "pending"
  /\ status' = [status EXCEPT ![j] = "running"]
  /\ UNCHANGED project

Finish(j, outcome) ==
  /\ status[j] = "running"
  /\ status' = [status EXCEPT ![j] = outcome]
  /\ UNCHANGED project

\* A start of the daemon reaps: what was running has failed, nothing else changes.
Abort ==
  /\ status' = [j \in JobId |-> IF status[j] = "running" THEN "failed" ELSE status[j]]
  /\ UNCHANGED project

\* Old history is forgotten.
Forget(old) ==
  /\ \A j \in old : status[j] \in Finished
  /\ status' = [j \in JobId |-> IF j \in old THEN "absent" ELSE status[j]]
  /\ UNCHANGED project

Next ==
  \/ \E j \in JobId, p \in Projects : Submit(j, p)
  \/ \E j \in JobId : Start(j)
  \/ \E j \in JobId, outcome \in Finished : Finish(j, outcome)
  \/ Abort
  \/ \E old \in SUBSET JobId : Forget(old)

Spec == Init /\ [][Next]_vars
=============================================================================
