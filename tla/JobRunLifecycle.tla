--------------------------- MODULE JobRunLifecycle ---------------------------
(***************************************************************************)
(* What a row of job_runs promises about the job that opened it: the state *)
(* diagram of JobRunService.  A run is opened as "running", then closed    *)
(* once, as "success" or as "failed", and never touched again.  The modules *)
(* of the jobs are shown to implement this specification.                  *)
(***************************************************************************)
CONSTANT Runs

VARIABLE status

Init == status = [r \in Runs |-> "absent"]

Start(r) ==
    /\ status[r] = "absent"
    /\ status' = [status EXCEPT ![r] = "running"]

Succeed(r) ==
    /\ status[r] = "running"
    /\ status' = [status EXCEPT ![r] = "success"]

Fail(r) ==
    /\ status[r] = "running"
    /\ status' = [status EXCEPT ![r] = "failed"]

Next == \E r \in Runs : Start(r) \/ Succeed(r) \/ Fail(r)

Spec == Init /\ [][Next]_status
=============================================================================
