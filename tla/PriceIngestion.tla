--------------------------- MODULE PriceIngestion ---------------------------
(***************************************************************************)
(* collect_prices_job running beside other price jobs and beside the API   *)
(* reads that also write prices.                                           *)
(*                                                                         *)
(* A job walks its targets: fetch the daily bars, archive the payload,     *)
(* validate, upsert.  Every repository method commits on its own, and the  *)
(* upsert reads the existing rows in one step and commits in a later one.  *)
(* The unique key of the prices table turns a lost race into an            *)
(* IntegrityError at that commit.  upsert_bars does not roll back, so the  *)
(* session refuses every later statement, and the per-target handler that  *)
(* swallows the error does not know.                                       *)
(*                                                                         *)
(* The reads of one upsert are one step: a row seen absent stays absent    *)
(* until somebody else's commit, which is what the commit step looks for.  *)
(* The constraint itself is the shape of `prices`, one bar per key.        *)
(***************************************************************************)
EXTENDS Naturals, FiniteSets

CONSTANTS
    Jobs,       \* executions of collect_prices_job
    Workers,    \* how many of them the RQ workers run at a time
    Requests,   \* executions of PriceSeriesService.get_series
    Targets,    \* (symbol, market) pairs
    Times,      \* timestamps of daily bars
    Versions,   \* the values a bar may have; a split restates them
    Frames,     \* what the provider may answer
    NoBar, NoFrame, NoTarget

RowKinds == {"absent", "good", "future", "missing"}

ASSUME ActorsDisjoint == Jobs \cap Requests = {}
ASSUME FramesType == Frames \subseteq [ver : Versions, rows : [Times -> RowKinds]]
ASSUME NoBarFresh == NoBar \notin [ver : Versions, by : {"job", "api"}]
ASSUME NoFrameFresh == NoFrame \notin Frames
ASSUME NoTargetFresh == NoTarget \notin Targets

VARIABLES
    jobRun,     \* job_runs.status of each job
    pc,         \* where each actor is
    target,     \* the target each actor is working on
    answer,     \* the frame each actor got for each target
    plan,       \* the rows an open upsert adds, and those it modifies
    session,    \* "rolled_back": a flush failed and nobody called rollback()
    result,     \* how each target of each job went
    raw,        \* raw_prices, one row per payload hash
    prices      \* prices, one row per unique key

vars == <<jobRun, pc, target, answer, plan, session, result, raw, prices>>

Actors == Jobs \cup Requests

EmptyPlan == [ins |-> {}, upd |-> {}]

JobEnded(j) == pc[j] \in {"returned", "raised"}

Working(j) == pc[j] \notin {"idle", "returned", "raised", "crashed"}

-----------------------------------------------------------------------------
(* The provider and the validator. *)

RowsOf(f, kinds) == {x \in Times : f.rows[x] \in kinds}

\* _to_decimal raises on the first missing value, so no bar is returned.
Raises(f) == RowsOf(f, {"missing"}) # {}

Answer(a) == answer[a][target[a]]

Payload(a) == [target |-> target[a], frame |-> Answer(a)]

\* Only the job validates: the request stores what the provider returned.
Storable(a, f) ==
    IF a \in Jobs THEN RowsOf(f, {"good"}) ELSE RowsOf(f, {"good", "future"})

Stored(a, x) == prices[<<target[a], x>>]

Fault_BarOfEndpoint(a) == [ver |-> Answer(a).ver, by |-> IF a \in Jobs THEN "job" ELSE "series"]
BarOf(a) == [ver |-> Answer(a).ver, by |-> IF a \in Jobs THEN "job" ELSE "api"]

IsNew(a, x) == Stored(a, x) = NoBar

\* The unit of work writes only what the assignments changed.
IsModified(a, x) == ~IsNew(a, x) /\ Stored(a, x).ver # Answer(a).ver

\* A planned insert whose key somebody committed since the rows were read.
LostRace(a) == \E x \in plan[a].ins : Stored(a, x) # NoBar

-----------------------------------------------------------------------------
Init ==
    /\ jobRun = [j \in Jobs |-> "absent"]
    /\ pc = [a \in Actors |-> "idle"]
    /\ target = [a \in Actors |-> NoTarget]
    /\ answer = [a \in Actors |-> [t \in Targets |-> NoFrame]]
    /\ plan = [a \in Actors |-> EmptyPlan]
    /\ session = [a \in Actors |-> "usable"]
    /\ result = [j \in Jobs |-> [t \in Targets |-> "untargeted"]]
    /\ raw = {}
    /\ prices = [k \in Targets \X Times |-> NoBar]

Goto(a, place) == pc' = [pc EXCEPT ![a] = place]

\* JobRunRepository.update_status, when the session lets it through.
Fault_CloseWithoutCommit(j, status) == UNCHANGED jobRun
Close(j, status) == jobRun' = [jobRun EXCEPT ![j] = status]

\* The target is over for the job, which goes on with the next one.
Fault_ConcludeUncounted(j, outcome) == UNCHANGED result /\ Goto(j, "collect")
Conclude(j, outcome) ==
    /\ result' = [result EXCEPT ![j][target[j]] = outcome]
    /\ Goto(j, "collect")

AllConcluded(j) == \A t \in Targets : result[j][t] # "todo"

Fault_ArchiveNothing(j) == raw
Archive(j) == raw \cup {Payload(j)}

\* The targets are the universe or the argument; the run is opened.
StartJob(j) ==
    /\ pc[j] = "idle"
    /\ Cardinality({i \in Jobs : Working(i)}) < Workers
    /\ \E ts \in SUBSET Targets :
         result' = [result EXCEPT ![j] =
                      [t \in Targets |-> IF t \in ts THEN "todo" ELSE "untargeted"]]
    /\ jobRun' = [jobRun EXCEPT ![j] = "running"]
    /\ Goto(j, "provider")
    /\ UNCHANGED <<target, answer, plan, session, raw, prices>>

OpenProvider(j) ==
    /\ pc[j] = "provider"
    /\ Goto(j, "collect")
    /\ UNCHANGED <<jobRun, target, answer, plan, session, result, raw, prices>>

\* get_price_series_provider() raises: the handler closes the run as failed.
Fault_ProviderErrorSwallowed(j) ==
    /\ pc[j] = "provider"
    /\ Close(j, "failed")
    /\ Goto(j, "collect")
    /\ UNCHANGED <<target, answer, plan, session, result, raw, prices>>
ProviderNotImplemented(j) ==
    /\ pc[j] = "provider"
    /\ Close(j, "failed")
    /\ Goto(j, "raised")
    /\ UNCHANGED <<target, answer, plan, session, result, raw, prices>>

Fetch(j, t, f) ==
    /\ pc[j] = "collect" /\ result[j][t] = "todo"
    /\ ~Raises(f)
    /\ target' = [target EXCEPT ![j] = t]
    /\ answer' = [answer EXCEPT ![j][t] = f]
    /\ Goto(j, "archive")
    /\ UNCHANGED <<jobRun, plan, session, result, raw, prices>>

FetchFails(j, t) ==
    /\ pc[j] = "collect" /\ result[j][t] = "todo"
    /\ result' = [result EXCEPT ![j][t] = "provider"]
    /\ UNCHANGED <<jobRun, pc, target, answer, plan, session, raw, prices>>

Fault_MissingValueEscapes(j, t, f) ==
    /\ pc[j] = "collect" /\ result[j][t] = "todo"
    /\ Raises(f)
    /\ result' = [result EXCEPT ![j][t] = "missing"]
    /\ Close(j, "failed")
    /\ Goto(j, "raised")
    /\ UNCHANGED <<target, answer, plan, session, raw, prices>>
FetchMeetsMissingValue(j, t, f) ==
    /\ pc[j] = "collect" /\ result[j][t] = "todo"
    /\ Raises(f)
    /\ result' = [result EXCEPT ![j][t] = "missing"]
    /\ UNCHANGED <<jobRun, pc, target, answer, plan, session, raw, prices>>

\* save_raw looks the payload hash up before it inserts.
LookUpRaw(j) ==
    /\ pc[j] = "archive" /\ session[j] = "usable"
    /\ Goto(j, IF Payload(j) \in raw THEN "upsert" ELSE "save_raw")
    /\ UNCHANGED <<jobRun, target, answer, plan, session, result, raw, prices>>

\* The lookup is the first statement on a session nobody rolled back.
LookUpRawRaises(j) ==
    /\ pc[j] = "archive" /\ session[j] = "rolled_back"
    /\ Conclude(j, "poisoned")
    /\ UNCHANGED <<jobRun, target, answer, plan, session, raw, prices>>

\* A second insert of the same hash is an IntegrityError which this repository
\* does roll back: the payload is archived either way.
SaveRaw(j) ==
    /\ pc[j] = "save_raw"
    /\ raw' = Archive(j)
    /\ Goto(j, "upsert")
    /\ UNCHANGED <<jobRun, target, answer, plan, session, result, prices>>

\* Nothing survived the validation: there is nothing to upsert.
NothingToStore(j) ==
    /\ pc[j] = "upsert"
    /\ Storable(j, Answer(j)) = {}
    /\ Conclude(j, "stored")
    /\ UNCHANGED <<jobRun, target, answer, plan, session, raw, prices>>

-----------------------------------------------------------------------------
(* upsert_bars, which jobs and requests share: read the keys, then commit. *)

ReadRows(a) ==
    /\ pc[a] = "upsert"
    /\ Storable(a, Answer(a)) # {}
    /\ plan' = [plan EXCEPT ![a] =
         [ins |-> {x \in Storable(a, Answer(a)) : IsNew(a, x)},
          upd |-> {x \in Storable(a, Answer(a)) : IsModified(a, x)}]]
    /\ Goto(a, "flush")
    /\ UNCHANGED <<jobRun, target, answer, session, result, raw, prices>>

Planned(a, k) == k[1] = target[a] /\ k[2] \in plan[a].ins \cup plan[a].upd

\* The planned rows are added and modified together.
Fault_SeriesReplaced(a) ==
    [k \in Targets \X Times |-> IF Planned(a, k) THEN BarOf(a)
                               ELSE IF k[1] = target[a] THEN NoBar ELSE prices[k]]
Upserted(a) == [k \in Targets \X Times |-> IF Planned(a, k) THEN BarOf(a) ELSE prices[k]]

\* The commit goes through.
Commit(a) ==
    /\ pc[a] = "flush" /\ ~LostRace(a)
    /\ prices' = Upserted(a)
    /\ plan' = [plan EXCEPT ![a] = EmptyPlan]
    /\ IF a \in Jobs
       THEN Conclude(a, "stored")
       ELSE Goto(a, "200") /\ UNCHANGED result
    /\ UNCHANGED <<jobRun, target, answer, session, raw>>

\* IntegrityError: the job's handler swallows it, the request answers 502.
Fault_AfterConflictStored == "stored"
AfterConflict == "conflict"

CommitRaises(a) ==
    /\ pc[a] = "flush" /\ LostRace(a)
    /\ session' = [session EXCEPT ![a] = "rolled_back"]
    /\ plan' = [plan EXCEPT ![a] = EmptyPlan]
    /\ IF a \in Jobs
       THEN Conclude(a, AfterConflict)
       ELSE Goto(a, "502") /\ UNCHANGED result
    /\ UNCHANGED <<jobRun, target, answer, raw, prices>>

-----------------------------------------------------------------------------
(* How a job ends. *)

Succeed(j) ==
    /\ pc[j] = "collect" /\ AllConcluded(j)
    /\ session[j] = "usable"
    /\ Close(j, "success")
    /\ Goto(j, "returned")
    /\ UNCHANGED <<target, answer, plan, session, result, raw, prices>>

\* On a session nobody rolled back succeed() raises, and so does the fail() of
\* the handler: the job re-raises and the row of job_runs keeps its status.
SucceedAndFailRaise(j) ==
    /\ pc[j] = "collect" /\ AllConcluded(j)
    /\ session[j] = "rolled_back"
    /\ Goto(j, "raised")
    /\ UNCHANGED <<jobRun, target, answer, plan, session, result, raw, prices>>

\* The worker process dies; its open transaction is rolled back.
Crash(j) ==
    /\ Working(j)
    /\ plan' = [plan EXCEPT ![j] = EmptyPlan]
    /\ Goto(j, "crashed")
    /\ UNCHANGED <<jobRun, target, answer, session, result, raw, prices>>

-----------------------------------------------------------------------------
(* PriceSeriesService.get_series. *)

AskSeries(r, t, f) ==
    /\ pc[r] = "idle"
    /\ ~Raises(f) /\ Storable(r, f) # {}
    /\ target' = [target EXCEPT ![r] = t]
    /\ answer' = [answer EXCEPT ![r][t] = f]
    /\ Goto(r, "upsert")
    /\ UNCHANGED <<jobRun, plan, session, result, raw, prices>>

\* 400: range or interval; 404: no bar; 502: the provider raised.
RefuseSeries(r) ==
    /\ pc[r] = "idle"
    /\ \E status \in {"400", "404", "502"} : Goto(r, status)
    /\ UNCHANGED <<jobRun, target, answer, plan, session, result, raw, prices>>

-----------------------------------------------------------------------------
JobStep(j) ==
    \/ OpenProvider(j) \/ ProviderNotImplemented(j)
    \/ \E t \in Targets : FetchFails(j, t)
    \/ \E t \in Targets, f \in Frames : Fetch(j, t, f) \/ FetchMeetsMissingValue(j, t, f)
    \/ LookUpRaw(j) \/ LookUpRawRaises(j) \/ SaveRaw(j) \/ NothingToStore(j)
    \/ ReadRows(j) \/ Commit(j) \/ CommitRaises(j)
    \/ Succeed(j) \/ SucceedAndFailRaise(j)

RequestStep(r) ==
    \/ \E t \in Targets, f \in Frames : AskSeries(r, t, f)
    \/ RefuseSeries(r)
    \/ ReadRows(r) \/ Commit(r) \/ CommitRaises(r)

\* Every actor is over: the system may stop here and nowhere else.
Terminated ==
    /\ \A j \in Jobs : pc[j] \in {"returned", "raised", "crashed"}
    /\ \A r \in Requests : pc[r] \in {"200", "400", "404", "502"}
    /\ UNCHANGED vars

Next ==
    \/ \E j \in Jobs : StartJob(j) \/ JobStep(j) \/ Crash(j)
    \/ \E r \in Requests : RequestStep(r)
    \/ Terminated

Spec == Init /\ [][Next]_vars

\* A job that was started runs on; being started and crashing are not promised.
FairSpec == Spec /\ \A j \in Jobs : WF_vars(JobStep(j))

-----------------------------------------------------------------------------
Plans == [ins : SUBSET Times, upd : SUBSET Times]

Outcomes == {"untargeted", "todo", "stored", "provider", "missing", "conflict", "poisoned"}

JobPlaces == {"idle", "provider", "collect", "archive", "save_raw", "upsert", "flush",
              "returned", "raised", "crashed"}
RequestPlaces == {"idle", "upsert", "flush", "200", "400", "404", "502"}

TypeOK ==
    /\ jobRun \in [Jobs -> {"absent", "running", "success", "failed"}]
    /\ pc \in [Actors -> JobPlaces \cup RequestPlaces]
    /\ target \in [Actors -> Targets \cup {NoTarget}]
    /\ answer \in [Actors -> [Targets -> Frames \cup {NoFrame}]]
    /\ plan \in [Actors -> Plans]
    /\ session \in [Actors -> {"usable", "rolled_back"}]
    /\ result \in [Jobs -> [Targets -> Outcomes]]
    /\ raw \subseteq [target : Targets, frame : Frames]
    /\ prices \in [Targets \X Times -> [ver : Versions, by : {"job", "api"}] \cup {NoBar}]

(* A bar a job wrote last is in the archive: raw_prices holds a payload of   *)
(* its target in which that very bar is present and passed the validation.   *)
(* The archive is what reprocessing and auditing start from, and a second    *)
(* job may archive, skip or insert the same payload in between.              *)
JobBarsAreArchived ==
    \A k \in Targets \X Times :
        (prices[k] # NoBar /\ prices[k].by = "job")
            => \E p \in raw : /\ p.target = k[1]
                              /\ p.frame.ver = prices[k].ver
                              /\ p.frame.rows[k[2]] = "good"

(* A target counted as a success has every bar that passed the validation in *)
(* the prices table, whoever else wrote there meanwhile.                     *)
StoredTargetsAreComplete ==
    \A j \in Jobs, t \in Targets :
        result[j][t] = "stored"
            => \A x \in Storable(j, answer[j][t]) : prices[<<t, x>>] # NoBar

(* The only way a job function that came to its end leaves its run "running" *)
(* is a lost race at the unique key: nothing else escapes succeed and fail.  *)
OpenRunsLostARace ==
    \A j \in Jobs :
        (JobEnded(j) /\ jobRun[j] = "running")
            => \E t \in Targets : result[j][t] = "conflict"

\* The job is over and has not come to the target, though it tried others.
GivenUp(j, t) ==
    /\ JobEnded(j) /\ result[j][t] = "todo"
    /\ \E u \in Targets : result[j][u] \notin {"untargeted", "todo"}

(* A target suffers for the sake of another one in a single case: an earlier *)
(* target of the same job lost a race at the unique key.  Otherwise failures *)
(* of targets are isolated, whatever the provider answered for the others,   *)
(* one missing value included: none fails and none is left out with them.    *)
PoisonedTargetsLostARace ==
    \A j \in Jobs :
        (\E t \in Targets : result[j][t] = "poisoned" \/ GivenUp(j, t))
            => \E t \in Targets : result[j][t] = "conflict"

(* A stored bar is replaced and never lost, and only by the commit of an     *)
(* upsert of its target that is about that very day: no writer reaches the   *)
(* other days of the series, or another series, however writers overlap.     *)
BarsAreOnlyUpserted ==
    [][\A k \in Targets \X Times : prices'[k] # prices[k] =>
          /\ prices'[k] # NoBar
          /\ \E a \in Actors :
               /\ pc[a] = "flush" /\ pc'[a] # "flush"
               /\ target[a] = k[1] /\ k[2] \in Storable(a, Answer(a))
               /\ prices'[k] = BarOf(a)]_vars

(* What JobRunLifecycle promises: a run is closed at most once.              *)
Lifecycle == INSTANCE JobRunLifecycle WITH Runs <- Jobs, status <- jobRun

RunsFollowLifecycle == Lifecycle!Spec

(* A job that was started comes to an end, whatever its targets, its         *)
(* provider and the other writers do, unless its process dies.               *)
StartedJobsEnd ==
    \A j \in Jobs : pc[j] = "provider" ~> (JobEnded(j) \/ pc[j] = "crashed")

-----------------------------------------------------------------------------
(* docs/knowledge/product-workflow.md, lines 154-155: a run is closed as     *)
(* success at a normal end and as failed at an exception, so a job that      *)
(* ended has closed its run.                                                 *)
EndedRunsAreClosed == \A j \in Jobs : JobEnded(j) => jobRun[j] # "running"
=============================================================================
