------------------------ MODULE LLMAnalysisJobProofs ------------------------
(***************************************************************************)
(* How the rows of an LLM analysis agree, for any number of jobs, workers, *)
(* routes, gateways and midnights, and any daily limit.                    *)
(***************************************************************************)
EXTENDS LLMAnalysisJob, TLAPS

Places == {"idle", "prepare", "complete", "close", "returned", "raised", "crashed"}

(* The rows a job has written are determined by where it is; a crash leaves  *)
(* the job run open and the analysis as it was.                              *)
RowsMatchPlace(j) ==
    /\ place[j] = "idle" => jobRun[j] = "absent" /\ run[j] = "absent"
    /\ place[j] = "prepare" => jobRun[j] = "running" /\ run[j] = "absent"
    /\ place[j] = "complete" => jobRun[j] = "running" /\ run[j] = "pending"
    /\ place[j] = "close" => jobRun[j] = "running" /\ run[j] \in {"succeeded", "failed"}
    /\ place[j] = "returned" => \/ jobRun[j] = "success" /\ run[j] = "succeeded"
                                \/ jobRun[j] = "failed" /\ run[j] = "failed"
    /\ place[j] = "raised" => jobRun[j] = "failed" /\ run[j] = "absent"
    /\ place[j] = "crashed" => jobRun[j] = "running"

RowsInv ==
    /\ jobRun \in [Jobs -> {"absent", "running", "success", "failed"}]
    /\ run \in [Jobs -> {"absent", "pending", "succeeded", "failed"}]
    /\ place \in [Jobs -> Places]
    /\ \A j \in Jobs : RowsMatchPlace(j)

(* The gateway has done nothing for a job without an analysis row.           *)
NothingAsked ==
    /\ DOMAIN sent = Jobs /\ DOMAIN grant = Jobs
    /\ \A j \in Jobs : run[j] = "absent" => sent[j] = 0 /\ grant[j] = NoDay

(* A step of the gateway for one job charges no other job.                   *)
LEMMA GatewayChargesOne ==
    ASSUME DOMAIN sent = Jobs, DOMAIN grant = Jobs, NEW j \in Jobs,
           \/ G!Step(j) \/ G!Crash(j) \/ \E r \in {Question(j, a) : a \in Asked} : G!Begin(j, r)
    PROVE  /\ DOMAIN sent' = Jobs /\ DOMAIN grant' = Jobs
           /\ \A i \in Jobs \ {j} : sent'[i] = sent[i] /\ grant'[i] = grant[i]
<1>1. ASSUME NEW by, G!Send(j, by)
      PROVE  /\ DOMAIN sent' = Jobs /\ DOMAIN grant' = Jobs
             /\ \A i \in Jobs \ {j} : sent'[i] = sent[i] /\ grant'[i] = grant[i]
  BY <1>1 DEF G!Send
<1>2. CASE G!Crash(j) \/ \E r \in {Question(j, a) : a \in Asked} : G!Begin(j, r)
  BY <1>2 DEF G!Crash, G!Begin
<1>3. CASE G!LookUpHit(j) \/ G!LookUpMiss(j) \/ G!Store(j) \/ G!Verify(j)
  BY <1>3 DEF G!LookUpHit, G!LookUpMiss, G!Store, G!Verify
<1>4. ASSUME NEW p, NEW granted, NEW refused, G!Consume(j, p, granted, refused)
      PROVE  /\ DOMAIN sent' = Jobs /\ DOMAIN grant' = Jobs
             /\ \A i \in Jobs \ {j} : sent'[i] = sent[i] /\ grant'[i] = grant[i]
  <2>1. sent' = sent /\ (grant' = grant \/ grant' = [grant EXCEPT ![j] = today])
    BY <1>4 DEF G!Consume
  <2>2. QED
    BY <2>1
<1>5. ASSUME NEW p, NEW refused, G!ConsumeFails(j, p, refused)
      PROVE  sent' = sent /\ grant' = grant
  BY <1>5 DEF G!ConsumeFails
<1>6. CASE \/ G!CallRaises(j) \/ G!VerifyRaises(j)
           \/ \E kind \in G!Kinds : G!CallAnswers(j, kind) \/ G!VerifyAnswers(j, kind)
  <2>1. \E by \in {G!Provider(j), "cloud"} : G!Send(j, by)
    BY <1>6 DEF G!CallRaises, G!VerifyRaises, G!CallAnswers, G!VerifyAnswers
  <2>2. QED
    BY <1>1, <2>1
<1>7. QED
  BY <1>2, <1>3, <1>4, <1>5, <1>6 DEF G!Step

(* What the rows say is kept by every step, and either row takes a step of   *)
(* its life cycle or none.                                                   *)
LEMMA RowsStep ==
    ASSUME RowsInv, [Next]_vars
    PROVE  RowsInv' /\ [JobLifecycle!Next]_jobRun
<1> USE DEF RowsInv, RowsMatchPlace, Places, Goto, Close
<1>1. ASSUME NEW j \in Jobs, StartJob(j) PROVE RowsInv' /\ JobLifecycle!Start(j)
  BY <1>1 DEF StartJob, JobLifecycle!Start
<1>2. ASSUME NEW j \in Jobs, PreparationFails(j) PROVE RowsInv' /\ JobLifecycle!Fail(j)
  BY <1>2 DEF PreparationFails, JobLifecycle!Fail
<1>3. ASSUME NEW j \in Jobs, CreateRun(j) \/ MarkRun(j) \/ Crash(j)
      PROVE  RowsInv' /\ jobRun' = jobRun
  <2>1. CASE CreateRun(j)
    BY <2>1 DEF CreateRun, InputKept
  <2>2. CASE MarkRun(j)
    BY <2>2 DEF MarkRun, Marked
  <2>3. CASE Crash(j)
    BY <2>3 DEF Crash, Working
  <2>4. QED
    BY <1>3, <2>1, <2>2, <2>3
<1>4. ASSUME NEW j \in Jobs, CloseJob(j)
      PROVE  RowsInv' /\ (JobLifecycle!Succeed(j) \/ JobLifecycle!Fail(j))
  BY <1>4 DEF CloseJob, ClosedAs, AfterClose, JobLifecycle!Succeed, JobLifecycle!Fail
<1>5. ASSUME UNCHANGED <<jobRun, run, place>> PROVE RowsInv' /\ jobRun' = jobRun
  BY <1>5
<1>6. CASE \/ \E j \in Jobs : Ask(j) \/ Complete(j)
           \/ Midnight \/ (\E k \in (1 .. LastDay) \X Jobs : Expire(k)) \/ UNCHANGED vars
  BY <1>5, <1>6 DEF Ask, Complete, Midnight, Expire, vars
<1> HIDE DEF RowsInv
<1>7. QED
  BY <1>1, <1>2, <1>3, <1>4, <1>5, <1>6 DEF Next, JobStep, Terminated, JobLifecycle!Next

(* A job asks only after its row was created, and no row is ever removed.    *)
LEMMA AskedStep ==
    ASSUME RowsInv, NothingAsked, [Next]_vars
    PROVE  NothingAsked'
<1> USE DEF RowsInv, NothingAsked
<1>1. ASSUME UNCHANGED <<sent, grant>>, \A j \in Jobs : run'[j] = "absent" => run[j] = "absent"
      PROVE  NothingAsked'
  BY <1>1
<1>2. ASSUME NEW j \in Jobs, StartJob(j) \/ PreparationFails(j) \/ CreateRun(j) \/ MarkRun(j)
                             \/ CloseJob(j)
      PROVE  NothingAsked'
  <2>1. UNCHANGED gateway
    BY <1>2 DEF StartJob, PreparationFails, CreateRun, MarkRun, CloseJob
  <2>2. \A i \in Jobs : run'[i] = "absent" => run[i] = "absent"
    BY <1>2 DEF StartJob, PreparationFails, CreateRun, InputKept, MarkRun, Marked, CloseJob
  <2>3. QED
    BY <1>1, <2>1, <2>2 DEF gateway
<1>3. ASSUME NEW j \in Jobs, Ask(j) \/ Complete(j) PROVE NothingAsked'
  <2>1. run[j] = "pending" /\ run' = run
    BY <1>3 DEF Ask, Complete, RowsMatchPlace
  <2>2. G!Step(j) \/ \E r \in {Question(j, a) : a \in Asked} : G!Begin(j, r)
    BY <1>3 DEF Ask, Complete
  <2>3. /\ DOMAIN sent' = Jobs /\ DOMAIN grant' = Jobs
        /\ \A i \in Jobs \ {j} : sent'[i] = sent[i] /\ grant'[i] = grant[i]
    BY <2>2, GatewayChargesOne
  <2>4. QED
    BY <2>1, <2>3
<1>4. ASSUME NEW j \in Jobs, Crash(j) PROVE NothingAsked'
  <2>1. run' = run /\ (G!Crash(j) \/ UNCHANGED gateway)
    BY <1>4 DEF Crash
  <2>2. UNCHANGED <<sent, grant>>
    BY <2>1 DEF G!Crash, gateway
  <2>3. QED
    BY <1>1, <2>1, <2>2
<1>5. CASE Midnight \/ (\E k \in (1 .. LastDay) \X Jobs : Expire(k)) \/ UNCHANGED vars
  BY <1>1, <1>5 DEF Midnight, Expire, G!Midnight, G!Expire, vars, gateway
<1> HIDE DEF RowsInv, NothingAsked
<1>6. QED
  BY <1>2, <1>3, <1>4, <1>5 DEF Next, JobStep, Terminated

(* Initially there is no row, and nothing was asked.                         *)
LEMMA InitRows == Init => RowsInv /\ NothingAsked /\ JobLifecycle!Init
BY DEF Init, RowsInv, RowsMatchPlace, Places, NothingAsked, G!Init, JobLifecycle!Init

(* The invariant of the rows holds in every state.                           *)
LEMMA SpecRows == Spec => [](RowsInv /\ NothingAsked)
<1>1. Init => RowsInv /\ NothingAsked
  BY InitRows
<1>2. RowsInv /\ NothingAsked /\ [Next]_vars => (RowsInv /\ NothingAsked)'
  BY RowsStep, AskedStep
<1>3. QED
  BY <1>1, <1>2, PTL DEF Spec

(* A job run never ends against its analysis.                                *)
THEOREM JobsAgree == Spec => []JobAgreesWithAnalysis
<1>1. RowsInv => JobAgreesWithAnalysis
  BY DEF RowsInv, RowsMatchPlace, Places, JobAgreesWithAnalysis
<1>2. QED
  BY SpecRows, <1>1, PTL

(* A row is pending only while its job is at work on it, or since it died.   *)
THEOREM NoUnexplainedPending == Spec => []PendingIsExplained
<1>1. RowsInv => PendingIsExplained
  BY DEF RowsInv, RowsMatchPlace, Places, PendingIsExplained
<1>2. QED
  BY SpecRows, <1>1, PTL

(* No cloud call is made or paid for whose input is not on record.           *)
THEOREM InputComesFirst == Spec => []AskedIsOnRecord
<1>1. RowsInv /\ NothingAsked => AskedIsOnRecord
  BY DEF NothingAsked, AskedIsOnRecord
<1>2. QED
  BY SpecRows, <1>1, PTL

(* The job implements the life cycle of its job run.                         *)
THEOREM JobRefinesLifecycle == Spec => JobLifecycle!Spec
<1>1. RowsInv /\ [Next]_vars => RowsInv' /\ [JobLifecycle!Next]_jobRun
  BY RowsStep
<1>2. Init => RowsInv /\ JobLifecycle!Init
  BY InitRows
<1>3. QED
  BY <1>1, <1>2, PTL DEF Spec, JobLifecycle!Spec

-----------------------------------------------------------------------------
(* The gateway's theorems, with the jobs as its callers.                     *)
GP == INSTANCE LLMGatewayProofs WITH
        Calls <- Jobs, Prompts <- Jobs, Configs <- Gateways,
        Requests <- {Question(j, a) : j \in Jobs, a \in Asked}

(* The constants of the job are ones of a gateway.                           *)
LEMMA GatewayConstants ==
    /\ GP!IsFiniteSet(Jobs) /\ Limit \in Nat /\ LastDay \in Nat \ {0}
    /\ {Question(j, a) : j \in Jobs, a \in Asked} \subseteq GP!RequestType
    /\ Gateways \subseteq GP!ConfigType
    /\ NoRequest \notin GP!RequestType /\ NoDay \notin Nat /\ NoOutput \notin GP!OutputType
<1>1. {Question(j, a) : j \in Jobs, a \in Asked} \subseteq GP!RequestType
  BY AskedType DEF Question, GP!RequestType, GP!Providers, GP!Sensitivities
<1>2. Gateways \subseteq GP!ConfigType
  BY GatewaysType DEF GatewayType, GP!ConfigType, GP!Providers
<1>3. NoRequest \notin GP!RequestType /\ NoOutput \notin GP!OutputType
  BY NoRequestFresh, NoOutputFresh DEF G!RequestType, GP!RequestType, G!OutputType, GP!OutputType,
     G!Providers, GP!Providers, G!Sensitivities, GP!Sensitivities, G!Kinds, GP!Kinds, G!Days, GP!Days
<1>4. GP!IsFiniteSet(Jobs)
  BY JobsFinite DEF IsFiniteSet, GP!IsFiniteSet
<1>5. QED
  BY <1>1, <1>2, <1>3, <1>4, LimitType, LastDayType, NoDayFresh

(* The gateway of the job and the one of its theorems take the same steps.   *)
LEMMA SameGateway ==
    /\ G!Init <=> GP!Init
    /\ [G!Next]_(G!vars) <=> [GP!Next]_(GP!vars)
<1> USE DEF G!Init, G!Next, G!vars, G!Begin, G!BeginRefused, G!Step, G!Crash, G!Midnight,
        G!Expire, G!Terminated, G!LookUpHit, G!LookUpMiss, G!Consume, G!ConsumeFails,
        G!CallAnswers, G!CallRaises, G!Store, G!Verify, G!VerifyAnswers, G!VerifyRaises,
        G!Goto, G!AskAt, G!AfterMiss, G!WithinLimit, G!Send, G!Storable, G!Verifiable,
        G!VerifyAt, G!Attempted, G!Ended, G!Key, G!OutputOf, G!Provider, G!ProviderOf,
        G!Overridden, G!Allowed, G!Refused, G!Kinds, G!Days, GP!Init, GP!Next, GP!vars,
        GP!Begin, GP!BeginRefused, GP!Step, GP!Crash, GP!Midnight, GP!Expire,
        GP!Terminated, GP!LookUpHit, GP!LookUpMiss, GP!Consume, GP!ConsumeFails,
        GP!CallAnswers, GP!CallRaises, GP!Store, GP!Verify, GP!VerifyAnswers,
        GP!VerifyRaises, GP!Goto, GP!AskAt, GP!AfterMiss, GP!WithinLimit, GP!Send,
        GP!Storable, GP!Verifiable, GP!VerifyAt, GP!Attempted, GP!Ended, GP!Key,
        GP!OutputOf, GP!Provider, GP!ProviderOf, GP!Overridden, GP!Allowed, GP!Refused,
        GP!Kinds, GP!Days
<1>1. G!Init <=> GP!Init
  OBVIOUS
<1>2. [G!Next]_(G!vars) <=> [GP!Next]_(GP!vars)
  OBVIOUS
<1>3. QED
  BY <1>1, <1>2

(* A step of the job is a step of the gateway or leaves it alone.            *)
LEMMA GatewayStep == [Next]_vars => [G!Next]_(G!vars)
<1> SUFFICES ASSUME [Next]_vars PROVE G!Next \/ UNCHANGED gateway
  BY DEF G!vars, gateway
<1>1. ASSUME NEW j \in Jobs,
             StartJob(j) \/ PreparationFails(j) \/ CreateRun(j) \/ MarkRun(j) \/ CloseJob(j)
      PROVE  UNCHANGED gateway
  BY <1>1 DEF StartJob, PreparationFails, CreateRun, MarkRun, CloseJob
<1>2. ASSUME NEW j \in Jobs, Ask(j) \/ Complete(j) \/ Crash(j) PROVE G!Next \/ UNCHANGED gateway
  BY <1>2 DEF Ask, Complete, Crash, G!Next
<1>3. CASE Midnight
  BY <1>3 DEF Midnight, G!Next
<1>4. ASSUME NEW k \in (1 .. LastDay) \X Jobs, Expire(k) PROVE G!Next
  BY <1>4 DEF Expire, G!Next, G!Days
<1>5. CASE UNCHANGED vars
  BY <1>5 DEF vars
<1>6. QED
  BY <1>1, <1>2, <1>3, <1>4, <1>5 DEF Next, JobStep, Terminated

(* The job uses the gateway as it may be used: it implements it.             *)
THEOREM JobRefinesGateway == Spec => G!Spec
<1>1. Init => G!Init
  BY DEF Init
<1>2. QED
  BY <1>1, GatewayStep, PTL DEF Spec, G!Spec

(* ... so what the theorems of the gateway say holds of it.                  *)
LEMMA SpecGateway == Spec => GP!Spec
BY JobRefinesGateway, SameGateway, PTL DEF G!Spec, GP!Spec

(* Every reachable state of the analysis and of its gateway is of the right  *)
(* type.                                                                     *)
THEOREM TypeCorrect == Spec => []TypeOK
<1>1. GP!Spec => []GP!TypeOK
  BY GP!TypeCorrect, GatewayConstants
<1>2. RowsInv /\ GP!TypeOK => TypeOK
  BY DEF RowsInv, Places, TypeOK, G!TypeOK, GP!TypeOK, G!OutputType, GP!OutputType, G!Places,
     GP!Places, G!Providers, GP!Providers, G!Kinds, GP!Kinds, G!Days, GP!Days
<1>3. QED
  BY SpecGateway, SpecRows, <1>1, <1>2, PTL

(* However many analyses share the gateway, and wherever they die: nothing   *)
(* private is sent, each analysis costs one cloud call at most, every call   *)
(* is paid for, and the cache answers what was asked.                        *)
THEOREM GatewayGuardsAnalyses ==
    Spec => [](/\ G!PrivacyBoundary /\ G!OneCloudCallEach /\ G!CallsArePaid
               /\ G!HitsAreFreeAndFresh /\ G!CacheHoldsFirstCloudAnswers)
<1>1. GP!Spec => /\ []GP!PrivacyBoundary /\ []GP!OneCloudCallEach /\ []GP!CallsArePaid
                 /\ []GP!HitsAreFreeAndFresh /\ []GP!CacheHoldsFirstCloudAnswers
  BY GP!NothingPrivateLeaves, GP!AtMostOneCloudCall, GP!CloudCallsArePaid, GP!HitsCostNothing,
     GP!CacheIsSound, GatewayConstants
<1>2. /\ GP!PrivacyBoundary <=> G!PrivacyBoundary
      /\ GP!OneCloudCallEach <=> G!OneCloudCallEach
      /\ GP!CallsArePaid <=> G!CallsArePaid
      /\ GP!HitsAreFreeAndFresh <=> G!HitsAreFreeAndFresh
      /\ GP!CacheHoldsFirstCloudAnswers <=> G!CacheHoldsFirstCloudAnswers
  BY DEF GP!PrivacyBoundary, G!PrivacyBoundary, GP!OneCloudCallEach, G!OneCloudCallEach,
     GP!CallsArePaid, G!CallsArePaid, GP!CloudIsNext, G!CloudIsNext, GP!Provider, G!Provider,
     GP!ProviderOf, G!ProviderOf, GP!Overridden, G!Overridden, GP!Allowed, G!Allowed,
     GP!HitsAreFreeAndFresh, G!HitsAreFreeAndFresh, GP!CacheHoldsFirstCloudAnswers,
     G!CacheHoldsFirstCloudAnswers, GP!Days, G!Days
<1>3. QED
  BY SpecGateway, <1>1, <1>2, PTL

(* All analyses together make no more cloud calls a day than the limit.      *)
THEOREM AnalysesRespectBudget == Spec => G!BudgetIsRespected
<1>1. GP!Spec => GP!BudgetIsRespected
  BY GP!GatewayRefinesBudget, GatewayConstants
<1>2. /\ GP!Budget!Init <=> G!Budget!Init
      /\ [GP!Budget!Next]_spent <=> [G!Budget!Next]_spent
  BY DEF GP!Budget!Init, G!Budget!Init, GP!Budget!Next, G!Budget!Next, GP!Budget!Call, G!Budget!Call,
     GP!Days, G!Days
<1>3. QED
  BY SpecGateway, <1>1, <1>2, PTL
  DEF GP!BudgetIsRespected, G!BudgetIsRespected, GP!Budget!Spec, G!Budget!Spec
=============================================================================
