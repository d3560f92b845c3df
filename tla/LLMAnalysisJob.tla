--------------------------- MODULE LLMAnalysisJob ---------------------------
(***************************************************************************)
(* run_llm_analysis_job around the gateway: a row of job_runs, a row of    *)
(* llm_analysis_runs that is PENDING while the gateway works, and the two  *)
(* commits that close them one after the other.                            *)
(*                                                                         *)
(* The gateway is LLMGateway itself, instantiated with the jobs as its     *)
(* callers, so a job is suspended, overtaken and killed at every step of   *)
(* the completion too.  The payload is AGGREGATED and carries the time it  *)
(* was built at: no analysis asks what another one asked, and the gate and *)
(* the clients of get_llm_gateway never refuse it.                         *)
(***************************************************************************)
EXTENDS Naturals, FiniteSets

CONSTANTS
    Jobs,       \* executions of run_llm_analysis_job
    Workers,    \* how many of them the RQ workers run at a time
    Asked,      \* how a task may be routed and judged: [route, risky]
    Gateways,   \* what get_llm_gateway builds from the settings
    Limit, LastDay, NoRequest, NoDay, NoOutput

\* Both clients always; the budget, the cache and the policy as configured.
GatewayType == [clients : {{"cloud", "local"}}, budget : BOOLEAN, cache : BOOLEAN,
                policy : BOOLEAN]

ASSUME AskedType == Asked \subseteq [route : {"cloud", "local"}, risky : BOOLEAN]
ASSUME GatewaysType == Gateways \subseteq GatewayType

VARIABLES
    jobRun,     \* job_runs.status of each job
    run,        \* llm_analysis_runs.status of each job
    place,      \* where each job is
    config, today, counter, cache, pc, req, keyDay, grant, output, cached, escalated,
    sent, spent \* the gateway's

gateway == <<config, today, counter, cache, pc, req, keyDay, grant, output, cached,
             escalated, sent, spent>>
vars == <<jobRun, run, place, gateway>>

Question(j, a) ==
    [prompt |-> j, route |-> a.route, sensitivity |-> "AGGREGATED", risky |-> a.risky]

G == INSTANCE LLMGateway WITH
        Calls <- Jobs, Prompts <- Jobs, Configs <- Gateways,
        Requests <- {Question(j, a) : j \in Jobs, a \in Asked}

ASSUME JobsFinite == IsFiniteSet(Jobs)
ASSUME LimitType == Limit \in Nat
ASSUME LastDayType == LastDay \in Nat \ {0}
ASSUME NoRequestFresh == NoRequest \notin G!RequestType
ASSUME NoDayFresh == NoDay \notin Nat
ASSUME NoOutputFresh == NoOutput \notin G!OutputType

Working(j) == place[j] \notin {"idle", "returned", "raised", "crashed"}

JobEnded(j) == place[j] \in {"returned", "raised"}

-----------------------------------------------------------------------------
Init ==
    /\ jobRun = [j \in Jobs |-> "absent"]
    /\ run = [j \in Jobs |-> "absent"]
    /\ place = [j \in Jobs |-> "idle"]
    /\ G!Init

Goto(j, p) == place' = [place EXCEPT ![j] = p]

Close(j, status) == jobRun' = [jobRun EXCEPT ![j] = status]

StartJob(j) ==
    /\ place[j] = "idle"
    /\ Cardinality({i \in Jobs : Working(i)}) < Workers
    /\ Close(j, "running")
    /\ Goto(j, "prepare")
    /\ UNCHANGED <<run, gateway>>

\* An unknown provider or task type, or a context that cannot be built: the
\* job's handler closes the run, and there is no analysis row yet.
PreparationFails(j) ==
    /\ place[j] = "prepare"
    /\ Close(j, "failed")
    /\ Goto(j, "raised")
    /\ UNCHANGED <<run, gateway>>

\* The row that holds the input is committed before the gateway is called.
Fault_InputKept(j) == UNCHANGED run
InputKept(j) == run' = [run EXCEPT ![j] = "pending"]

CreateRun(j) ==
    /\ place[j] = "prepare"
    /\ InputKept(j)
    /\ Goto(j, "complete")
    /\ UNCHANGED <<jobRun, gateway>>

Ask(j) ==
    /\ place[j] = "complete"
    /\ \E a \in Asked : G!Begin(j, Question(j, a))
    /\ UNCHANGED <<jobRun, run, place>>

Complete(j) ==
    /\ place[j] = "complete"
    /\ G!Step(j)
    /\ UNCHANGED <<jobRun, run, place>>

\* The gateway hands over what the provider said: the service validates it.
Usable(j) == pc[j] = "done" /\ output[j].kind \in {"valid", "unsure"}

Fault_MarkedAsJob(j) == IF Usable(j) THEN "success" ELSE "failed"
Fault_MarkedOnlySuccess(j) == IF Usable(j) THEN "succeeded" ELSE run[j]
Marked(j) == IF Usable(j) THEN "succeeded" ELSE "failed"

\* mark_succeeded or mark_failed; run_analysis returns the row either way.
MarkRun(j) ==
    /\ place[j] = "complete" /\ G!Ended(j)
    /\ run' = [run EXCEPT ![j] = Marked(j)]
    /\ Goto(j, "close")
    /\ UNCHANGED <<jobRun, gateway>>

Fault_ClosedByReturn(j) == "success"
ClosedAs(j) == IF run[j] = "succeeded" THEN "success" ELSE "failed"

AfterClose == "returned"

CloseJob(j) ==
    /\ place[j] = "close"
    /\ Close(j, ClosedAs(j))
    /\ Goto(j, AfterClose)
    /\ UNCHANGED <<run, gateway>>

\* The worker process dies between two commits, or in the gateway.
Crash(j) ==
    /\ Working(j)
    /\ Goto(j, "crashed")
    /\ IF pc[j] # "idle" /\ ~G!Ended(j) THEN G!Crash(j) ELSE UNCHANGED gateway
    /\ UNCHANGED <<jobRun, run>>

Midnight == G!Midnight /\ UNCHANGED <<jobRun, run, place>>

Expire(k) == G!Expire(k) /\ UNCHANGED <<jobRun, run, place>>

-----------------------------------------------------------------------------
JobStep(j) ==
    \/ PreparationFails(j) \/ CreateRun(j) \/ Ask(j) \/ Complete(j)
    \/ MarkRun(j) \/ CloseJob(j)

Terminated ==
    /\ \A j \in Jobs : place[j] \in {"returned", "raised", "crashed"}
    /\ UNCHANGED vars

Next ==
    \/ \E j \in Jobs : StartJob(j) \/ JobStep(j) \/ Crash(j)
    \/ Midnight
    \/ \E k \in (1 .. LastDay) \X Jobs : Expire(k)
    \/ Terminated

Spec == Init /\ [][Next]_vars

-----------------------------------------------------------------------------
TypeOK ==
    /\ jobRun \in [Jobs -> {"absent", "running", "success", "failed"}]
    /\ run \in [Jobs -> {"absent", "pending", "succeeded", "failed"}]
    /\ place \in [Jobs -> {"idle", "prepare", "complete", "close", "returned", "raised",
                           "crashed"}]
    /\ G!TypeOK

(* docs/designs/075-llm-analysis-route-trigger.md, line 53: the job run ends *)
(* as its analysis did.  They are closed by two commits, so a crash between  *)
(* them may leave the job run open; it never leaves the two in opposition.   *)
JobAgreesWithAnalysis ==
    \A j \in Jobs :
        /\ jobRun[j] = "success" => run[j] = "succeeded"
        /\ jobRun[j] = "failed" => run[j] \in {"failed", "absent"}
        /\ (jobRun[j] = "running" /\ run[j] \in {"succeeded", "failed"})
              => place[j] \in {"close", "crashed"}

(* docs/designs/074-llm-analysis-orchestration.md, line 120: the input is in *)
(* the database before anything is asked, so no cloud call is paid for whose *)
(* input is not on record, whatever dies afterwards.                         *)
AskedIsOnRecord ==
    \A j \in Jobs : (sent[j] > 0 \/ grant[j] # NoDay) => run[j] # "absent"

(* A row is pending only while its job is at work on it or after its process *)
(* died; a provider error, an empty budget or an answer that does not        *)
(* validate never leaves one behind.                                         *)
PendingIsExplained ==
    \A j \in Jobs : run[j] = "pending" => place[j] \in {"complete", "crashed"}

\* The job run is closed at most once, by the job that opened it.
JobLifecycle == INSTANCE JobRunLifecycle WITH Runs <- Jobs, status <- jobRun
=============================================================================
