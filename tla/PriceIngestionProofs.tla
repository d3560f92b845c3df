------------------------ MODULE PriceIngestionProofs ------------------------
(***************************************************************************)
(* The safety properties of PriceIngestion for any number of jobs,         *)
(* requests, targets, timestamps and provider answers.                     *)
(***************************************************************************)
EXTENDS PriceIngestion, FiniteSetTheorems, TLAPS

(* Every job and every request is an actor, and no actor is both.           *)
LEMMA ActorTypes ==
    /\ \A j \in Jobs : j \in Actors
    /\ \A r \in Requests : r \in Actors /\ r \notin Jobs
BY ActorsDisjoint DEF Actors

(* What a frame of the provider is made of.                                  *)
LEMMA FrameTypes ==
    ASSUME NEW f \in Frames
    PROVE  /\ f.ver \in Versions
           /\ f.rows \in [Times -> RowKinds]
           /\ f # NoFrame
BY FramesType, NoFrameFresh

(* The rows an actor may store are timestamps of its frame.                  *)
LEMMA StorableTimes ==
    ASSUME NEW a, NEW f
    PROVE  Storable(a, f) \subseteq Times
BY DEF Storable, RowsOf

(* Recording the outcome of one target keeps the table of results a table.   *)
LEMMA ResultTypes ==
    ASSUME result \in [Jobs -> [Targets -> Outcomes]],
           NEW j \in Jobs, NEW t \in Targets, NEW o \in Outcomes
    PROVE  [result EXCEPT ![j][t] = o] \in [Jobs -> [Targets -> Outcomes]]
<1>1. [result[j] EXCEPT ![t] = o] \in [Targets -> Outcomes]
  OBVIOUS
<1>2. QED
  BY <1>1

-----------------------------------------------------------------------------
(* The places of an actor that is handling a target. *)
Handling(a) == pc[a] \in {"archive", "save_raw", "upsert", "flush"}

(* The type invariant, and that an actor handling a target has its frame.   *)
HandledIsKnown ==
    \A a \in Actors : Handling(a) => target[a] \in Targets /\ Answer(a) \in Frames

TypeInv == TypeOK /\ HandledIsKnown

(* The type invariant holds initially.                                       *)
LEMMA InitTypeInv == Init => TypeInv
BY ActorTypes DEF Init, TypeInv, TypeOK, HandledIsKnown, Handling, Plans, EmptyPlan,
   Outcomes, JobPlaces, RequestPlaces

(* Every step preserves the type invariant.                                  *)
LEMMA NextTypeInv == TypeInv /\ [Next]_vars => TypeInv'
<1> SUFFICES ASSUME TypeInv, [Next]_vars PROVE TypeInv'
  OBVIOUS
<1> USE DEF TypeInv, TypeOK, HandledIsKnown, Handling, Plans, EmptyPlan, Outcomes,
        JobPlaces, RequestPlaces, Answer
<1>1. ASSUME NEW j \in Jobs, StartJob(j) PROVE TypeInv'
  BY <1>1, ActorTypes DEF StartJob, Goto
<1>2. ASSUME NEW j \in Jobs, OpenProvider(j) \/ ProviderNotImplemented(j) PROVE TypeInv'
  BY <1>2, ActorTypes DEF OpenProvider, ProviderNotImplemented, Goto, Close
<1>3. ASSUME NEW j \in Jobs, NEW t \in Targets, NEW f \in Frames, Fetch(j, t, f)
      PROVE  TypeInv'
  BY <1>3, ActorTypes DEF Fetch, Goto
<1>4. ASSUME NEW j \in Jobs, NEW t \in Targets,
             FetchFails(j, t) \/ \E f \in Frames : FetchMeetsMissingValue(j, t, f)
      PROVE  TypeInv'
  <2>1. result' \in [Jobs -> [Targets -> Outcomes]]
    <3>1. \E o \in Outcomes : result' = [result EXCEPT ![j][t] = o]
      BY <1>4 DEF FetchFails, FetchMeetsMissingValue
    <3>2. QED
      BY <3>1, ResultTypes
  <2>2. QED
    BY <1>4, <2>1, ActorTypes DEF FetchFails, FetchMeetsMissingValue
<1>a. ASSUME NEW j \in Jobs, Handling(j), NEW o \in Outcomes, Conclude(j, o)
      PROVE  /\ result' \in [Jobs -> [Targets -> Outcomes]]
             /\ pc' = [pc EXCEPT ![j] = "collect"]
  BY <1>a, ActorTypes, ResultTypes DEF Conclude, Goto
<1>5. ASSUME NEW j \in Jobs, LookUpRaw(j) \/ LookUpRawRaises(j) PROVE TypeInv'
  <2>1. CASE LookUpRaw(j)
    BY <2>1, ActorTypes DEF LookUpRaw, Goto
  <2>2. CASE LookUpRawRaises(j)
    BY <2>2, <1>a, ActorTypes DEF LookUpRawRaises
  <2>3. QED
    BY <1>5, <2>1, <2>2
<1>6. ASSUME NEW j \in Jobs, SaveRaw(j) PROVE TypeInv'
  BY <1>6, ActorTypes DEF SaveRaw, Goto, Archive, Payload
<1>7. ASSUME NEW j \in Jobs, NothingToStore(j) PROVE TypeInv'
  BY <1>7, <1>a, ActorTypes DEF NothingToStore
<1>8. ASSUME NEW a \in Actors, ReadRows(a) PROVE TypeInv'
  BY <1>8, ActorTypes, StorableTimes DEF ReadRows, Goto
<1>9. ASSUME NEW a \in Actors, Commit(a) PROVE TypeInv'
  <2>1. BarOf(a) \in [ver : Versions, by : {"job", "api"}]
    BY <1>9, FrameTypes DEF Commit, BarOf
  <2>2. prices' \in [Targets \X Times -> [ver : Versions, by : {"job", "api"}] \cup {NoBar}]
    BY <1>9, <2>1 DEF Commit, Upserted, Planned
  <2>3. CASE a \in Jobs
    BY <1>9, <1>a, <2>2, <2>3 DEF Commit
  <2>4. CASE a \notin Jobs
    BY <1>9, <2>2, <2>4 DEF Commit, Goto
  <2>5. QED
    BY <2>3, <2>4
<1>10. ASSUME NEW a \in Actors, CommitRaises(a) PROVE TypeInv'
  <2>1. CASE a \in Jobs
    BY <1>10, <1>a, <2>1 DEF CommitRaises, AfterConflict
  <2>2. CASE a \notin Jobs
    BY <1>10, <2>2 DEF CommitRaises, AfterConflict, Goto
  <2>3. QED
    BY <2>1, <2>2
<1>11. ASSUME NEW j \in Jobs, Succeed(j) \/ SucceedAndFailRaise(j) \/ Crash(j)
       PROVE  TypeInv'
  <2>1. CASE Succeed(j)
    BY <2>1, ActorTypes DEF Succeed, Goto, Close
  <2>2. CASE SucceedAndFailRaise(j)
    BY <2>2, ActorTypes DEF SucceedAndFailRaise, Goto
  <2>3. CASE Crash(j)
    BY <2>3, ActorTypes DEF Crash, Goto
  <2>4. QED
    BY <1>11, <2>1, <2>2, <2>3
<1>12. ASSUME NEW r \in Requests, NEW t \in Targets, NEW f \in Frames, AskSeries(r, t, f)
       PROVE  TypeInv'
  BY <1>12, ActorTypes DEF AskSeries, Goto
<1>13. ASSUME NEW r \in Requests, RefuseSeries(r) PROVE TypeInv'
  BY <1>13, ActorTypes DEF RefuseSeries, Goto
<1>14. CASE UNCHANGED vars
  BY <1>14 DEF vars
<1>15. QED
  BY <1>1, <1>2, <1>3, <1>4, <1>5, <1>6, <1>7, <1>8, <1>9, <1>10, <1>11, <1>12, <1>13,
     <1>14, ActorTypes DEF Next, JobStep, RequestStep, Terminated

(* Every reachable state of the price ingestion is of the right type.       *)
THEOREM TypeCorrect == Spec => []TypeOK
<1>1. Init => TypeInv
  BY InitTypeInv
<1>2. TypeInv /\ [Next]_vars => TypeInv'
  BY NextTypeInv
<1>3. TypeInv => TypeOK
  BY DEF TypeInv
<1>4. QED
  BY <1>1, <1>2, <1>3, PTL DEF Spec

-----------------------------------------------------------------------------
(* The inductive invariant: what is known of an actor at each place. *)

\* The job has come to none of its targets.
Untried(j) == \A t \in Targets : result[j][t] \in {"untargeted", "todo"}

RunMatchesPlace ==
    \A j \in Jobs :
        /\ pc[j] = "idle" => jobRun[j] = "absent" /\ session[j] = "usable"
        /\ pc[j] \in {"idle", "provider"} => Untried(j)
        /\ Working(j) \/ pc[j] = "crashed" => jobRun[j] = "running"
        /\ pc[j] = "returned" => jobRun[j] = "success" /\ AllConcluded(j)
        /\ pc[j] = "raised" =>
             \/ jobRun[j] = "failed" /\ Untried(j)
             \/ jobRun[j] = "running" /\ session[j] = "rolled_back"

BrokenSessionLostRace ==
    \A j \in Jobs : session[j] = "rolled_back" => \E t \in Targets : result[j][t] = "conflict"

PoisonNeedsBrokenSession ==
    \A j \in Jobs, t \in Targets : result[j][t] = "poisoned" => session[j] = "rolled_back"

HandledIsTodo == \A j \in Jobs : Handling(j) => result[j][target[j]] = "todo"

ArchivedBeforeUpsert ==
    \A j \in Jobs : pc[j] \in {"upsert", "flush"} => Payload(j) \in raw

PlanIsSound ==
    \A a \in Actors : pc[a] = "flush" =>
        /\ plan[a].ins \cup plan[a].upd \subseteq Storable(a, Answer(a))
        /\ \A x \in Storable(a, Answer(a)) \ plan[a].ins : Stored(a, x) # NoBar

IInv ==
    /\ TypeInv
    /\ RunMatchesPlace
    /\ BrokenSessionLostRace
    /\ PoisonNeedsBrokenSession
    /\ HandledIsTodo
    /\ ArchivedBeforeUpsert
    /\ PlanIsSound
    /\ JobBarsAreArchived
    /\ StoredTargetsAreComplete

-----------------------------------------------------------------------------
(* The status of a run follows the place of its job.                         *)
LEMMA RunMatchesPlaceStep == IInv /\ [Next]_vars => RunMatchesPlace'
<1> SUFFICES ASSUME IInv, [Next]_vars PROVE RunMatchesPlace'
  OBVIOUS
<1> USE ActorTypes DEF IInv, TypeInv, TypeOK, HandledIsKnown, RunMatchesPlace, HandledIsTodo, Handling,
        Working, AllConcluded, Untried
<1>1. ASSUME NEW j \in Jobs, StartJob(j) PROVE RunMatchesPlace'
  BY <1>1 DEF StartJob, Goto
<1>2. ASSUME NEW j \in Jobs, OpenProvider(j) PROVE RunMatchesPlace'
  BY <1>2 DEF OpenProvider, Goto
<1>3. ASSUME NEW j \in Jobs, ProviderNotImplemented(j) PROVE RunMatchesPlace'
  BY <1>3 DEF ProviderNotImplemented, Goto, Close
<1>4. ASSUME NEW j \in Jobs, NEW t \in Targets, FetchFails(j, t) PROVE RunMatchesPlace'
  BY <1>4 DEF FetchFails
<1>5. ASSUME NEW j \in Jobs, NEW t \in Targets, NEW f \in Frames, Fetch(j, t, f) PROVE RunMatchesPlace'
  BY <1>5 DEF Fetch, Goto
<1>6. ASSUME NEW j \in Jobs, NEW t \in Targets, NEW f \in Frames, FetchMeetsMissingValue(j, t, f) PROVE RunMatchesPlace'
  BY <1>6 DEF FetchMeetsMissingValue
<1>7. ASSUME NEW j \in Jobs, LookUpRaw(j) PROVE RunMatchesPlace'
  BY <1>7 DEF LookUpRaw, Goto
<1>8. ASSUME NEW j \in Jobs, LookUpRawRaises(j) PROVE RunMatchesPlace'
  BY <1>8 DEF LookUpRawRaises, Conclude, Goto
<1>9. ASSUME NEW j \in Jobs, SaveRaw(j) PROVE RunMatchesPlace'
  BY <1>9 DEF SaveRaw, Goto, Archive
<1>10. ASSUME NEW j \in Jobs, NothingToStore(j) PROVE RunMatchesPlace'
  BY <1>10 DEF NothingToStore, Conclude, Goto
<1>11. ASSUME NEW a \in Actors, ReadRows(a) PROVE RunMatchesPlace'
  BY <1>11 DEF ReadRows, Goto
<1>12. ASSUME NEW a \in Actors, Commit(a) PROVE RunMatchesPlace'
  BY <1>12 DEF Commit, Conclude, Goto
<1>13. ASSUME NEW a \in Actors, CommitRaises(a) PROVE RunMatchesPlace'
  BY <1>13 DEF CommitRaises, AfterConflict, Conclude, Goto
<1>14. ASSUME NEW j \in Jobs, Succeed(j) PROVE RunMatchesPlace'
  BY <1>14 DEF Succeed, Goto, Close
<1>15. ASSUME NEW j \in Jobs, SucceedAndFailRaise(j) PROVE RunMatchesPlace'
  BY <1>15 DEF SucceedAndFailRaise, Goto
<1>16. ASSUME NEW j \in Jobs, Crash(j) PROVE RunMatchesPlace'
  BY <1>16 DEF Crash, Goto
<1>17. ASSUME NEW r \in Requests, NEW t \in Targets, NEW f \in Frames, AskSeries(r, t, f) PROVE RunMatchesPlace'
  BY <1>17 DEF AskSeries, Goto
<1>18. ASSUME NEW r \in Requests, RefuseSeries(r) PROVE RunMatchesPlace'
  BY <1>18 DEF RefuseSeries, Goto
<1>19. CASE UNCHANGED vars
  BY <1>19 DEF vars
<1>20. QED
  BY <1>1, <1>2, <1>3, <1>4, <1>5, <1>6, <1>7, <1>8, <1>9, <1>10, <1>11, <1>12, <1>13, <1>14, <1>15, <1>16, <1>17, <1>18, <1>19 DEF Next, JobStep, RequestStep, Terminated

(* A session breaks at a lost race only, and the race stays on record.       *)
LEMMA BrokenSessionStep == IInv /\ [Next]_vars => BrokenSessionLostRace'
<1> SUFFICES ASSUME IInv, [Next]_vars PROVE BrokenSessionLostRace'
  OBVIOUS
<1> USE ActorTypes DEF IInv, TypeInv, TypeOK, HandledIsKnown, BrokenSessionLostRace,
        HandledIsTodo, Handling, RunMatchesPlace
<1>1. ASSUME NEW j \in Jobs, StartJob(j) PROVE BrokenSessionLostRace'
  BY <1>1 DEF StartJob, Goto
<1>2. ASSUME NEW j \in Jobs, OpenProvider(j) PROVE BrokenSessionLostRace'
  BY <1>2 DEF OpenProvider, Goto
<1>3. ASSUME NEW j \in Jobs, ProviderNotImplemented(j) PROVE BrokenSessionLostRace'
  BY <1>3 DEF ProviderNotImplemented, Goto, Close
<1>4. ASSUME NEW j \in Jobs, NEW t \in Targets, FetchFails(j, t) PROVE BrokenSessionLostRace'
  BY <1>4 DEF FetchFails
<1>5. ASSUME NEW j \in Jobs, NEW t \in Targets, NEW f \in Frames, Fetch(j, t, f) PROVE BrokenSessionLostRace'
  BY <1>5 DEF Fetch, Goto
<1>6. ASSUME NEW j \in Jobs, NEW t \in Targets, NEW f \in Frames, FetchMeetsMissingValue(j, t, f) PROVE BrokenSessionLostRace'
  BY <1>6 DEF FetchMeetsMissingValue
<1>7. ASSUME NEW j \in Jobs, LookUpRaw(j) PROVE BrokenSessionLostRace'
  BY <1>7 DEF LookUpRaw, Goto
<1>8. ASSUME NEW j \in Jobs, LookUpRawRaises(j) PROVE BrokenSessionLostRace'
  BY <1>8 DEF LookUpRawRaises, Conclude, Goto
<1>9. ASSUME NEW j \in Jobs, SaveRaw(j) PROVE BrokenSessionLostRace'
  BY <1>9 DEF SaveRaw, Goto, Archive
<1>10. ASSUME NEW j \in Jobs, NothingToStore(j) PROVE BrokenSessionLostRace'
  BY <1>10 DEF NothingToStore, Conclude, Goto
<1>11. ASSUME NEW a \in Actors, ReadRows(a) PROVE BrokenSessionLostRace'
  BY <1>11 DEF ReadRows, Goto
<1>12. ASSUME NEW a \in Actors, Commit(a) PROVE BrokenSessionLostRace'
  <2>1. SUFFICES ASSUME NEW i \in Jobs, session'[i] = "rolled_back"
                 PROVE  \E t \in Targets : result'[i][t] = "conflict"
    BY DEF BrokenSessionLostRace
  <2>2. PICK t \in Targets : result[i][t] = "conflict"
    BY <1>12, <2>1 DEF Commit
  <2>3. result'[i][t] = "conflict"
    <3>1. CASE a \notin Jobs
      BY <1>12, <2>2, <3>1 DEF Commit
    <3>2. CASE a \in Jobs
      <4>1. a # i \/ target[a] # t
        BY <1>12, <2>2, <3>2 DEF Commit
      <4>2. result' = [result EXCEPT ![a][target[a]] = "stored"]
        BY <1>12, <3>2 DEF Commit, Conclude
      <4>3. QED
        BY <2>2, <3>2, <4>1, <4>2
    <3>3. QED
      BY <3>1, <3>2
  <2>4. QED
    BY <2>3
<1>13. ASSUME NEW a \in Actors, CommitRaises(a) PROVE BrokenSessionLostRace'
  BY <1>13 DEF CommitRaises, AfterConflict, Conclude, Goto
<1>14. ASSUME NEW j \in Jobs, Succeed(j) PROVE BrokenSessionLostRace'
  BY <1>14 DEF Succeed, Goto, Close
<1>15. ASSUME NEW j \in Jobs, SucceedAndFailRaise(j) PROVE BrokenSessionLostRace'
  BY <1>15 DEF SucceedAndFailRaise, Goto
<1>16. ASSUME NEW j \in Jobs, Crash(j) PROVE BrokenSessionLostRace'
  BY <1>16 DEF Crash, Goto
<1>17. ASSUME NEW r \in Requests, NEW t \in Targets, NEW f \in Frames, AskSeries(r, t, f) PROVE BrokenSessionLostRace'
  BY <1>17 DEF AskSeries, Goto
<1>18. ASSUME NEW r \in Requests, RefuseSeries(r) PROVE BrokenSessionLostRace'
  BY <1>18 DEF RefuseSeries, Goto
<1>19. CASE UNCHANGED vars
  BY <1>19 DEF vars
<1>20. QED
  BY <1>1, <1>2, <1>3, <1>4, <1>5, <1>6, <1>7, <1>8, <1>9, <1>10, <1>11, <1>12, <1>13, <1>14, <1>15, <1>16, <1>17, <1>18, <1>19 DEF Next, JobStep, RequestStep, Terminated

(* Only a broken session poisons a target, and a session stays broken.       *)
LEMMA PoisonStep == IInv /\ [Next]_vars => PoisonNeedsBrokenSession'
<1> SUFFICES ASSUME IInv, [Next]_vars PROVE PoisonNeedsBrokenSession'
  OBVIOUS
<1> USE ActorTypes DEF IInv, TypeInv, TypeOK, HandledIsKnown, PoisonNeedsBrokenSession,
        HandledIsTodo, Handling, RunMatchesPlace
<1>1. ASSUME NEW j \in Jobs, StartJob(j) PROVE PoisonNeedsBrokenSession'
  BY <1>1 DEF StartJob, Goto
<1>2. ASSUME NEW j \in Jobs, OpenProvider(j) PROVE PoisonNeedsBrokenSession'
  BY <1>2 DEF OpenProvider, Goto
<1>3. ASSUME NEW j \in Jobs, ProviderNotImplemented(j) PROVE PoisonNeedsBrokenSession'
  BY <1>3 DEF ProviderNotImplemented, Goto, Close
<1>4. ASSUME NEW j \in Jobs, NEW t \in Targets, FetchFails(j, t) PROVE PoisonNeedsBrokenSession'
  BY <1>4 DEF FetchFails
<1>5. ASSUME NEW j \in Jobs, NEW t \in Targets, NEW f \in Frames, Fetch(j, t, f) PROVE PoisonNeedsBrokenSession'
  BY <1>5 DEF Fetch, Goto
<1>6. ASSUME NEW j \in Jobs, NEW t \in Targets, NEW f \in Frames, FetchMeetsMissingValue(j, t, f) PROVE PoisonNeedsBrokenSession'
  BY <1>6 DEF FetchMeetsMissingValue
<1>7. ASSUME NEW j \in Jobs, LookUpRaw(j) PROVE PoisonNeedsBrokenSession'
  BY <1>7 DEF LookUpRaw, Goto
<1>8. ASSUME NEW j \in Jobs, LookUpRawRaises(j) PROVE PoisonNeedsBrokenSession'
  BY <1>8 DEF LookUpRawRaises, Conclude, Goto
<1>9. ASSUME NEW j \in Jobs, SaveRaw(j) PROVE PoisonNeedsBrokenSession'
  BY <1>9 DEF SaveRaw, Goto, Archive
<1>10. ASSUME NEW j \in Jobs, NothingToStore(j) PROVE PoisonNeedsBrokenSession'
  BY <1>10 DEF NothingToStore, Conclude, Goto
<1>11. ASSUME NEW a \in Actors, ReadRows(a) PROVE PoisonNeedsBrokenSession'
  BY <1>11 DEF ReadRows, Goto
<1>12. ASSUME NEW a \in Actors, Commit(a) PROVE PoisonNeedsBrokenSession'
  <2>1. CASE a \in Jobs
    <3>1. result' = [result EXCEPT ![a][target[a]] = "stored"] /\ session' = session
      BY <1>12, <2>1 DEF Commit, Conclude
    <3>2. QED
      BY <2>1, <3>1
  <2>2. CASE a \notin Jobs
    BY <1>12, <2>2 DEF Commit
  <2>3. QED
    BY <2>1, <2>2
<1>13. ASSUME NEW a \in Actors, CommitRaises(a) PROVE PoisonNeedsBrokenSession'
  BY <1>13 DEF CommitRaises, AfterConflict, Conclude, Goto
<1>14. ASSUME NEW j \in Jobs, Succeed(j) PROVE PoisonNeedsBrokenSession'
  BY <1>14 DEF Succeed, Goto, Close
<1>15. ASSUME NEW j \in Jobs, SucceedAndFailRaise(j) PROVE PoisonNeedsBrokenSession'
  BY <1>15 DEF SucceedAndFailRaise, Goto
<1>16. ASSUME NEW j \in Jobs, Crash(j) PROVE PoisonNeedsBrokenSession'
  BY <1>16 DEF Crash, Goto
<1>17. ASSUME NEW r \in Requests, NEW t \in Targets, NEW f \in Frames, AskSeries(r, t, f) PROVE PoisonNeedsBrokenSession'
  BY <1>17 DEF AskSeries, Goto
<1>18. ASSUME NEW r \in Requests, RefuseSeries(r) PROVE PoisonNeedsBrokenSession'
  BY <1>18 DEF RefuseSeries, Goto
<1>19. CASE UNCHANGED vars
  BY <1>19 DEF vars
<1>20. QED
  BY <1>1, <1>2, <1>3, <1>4, <1>5, <1>6, <1>7, <1>8, <1>9, <1>10, <1>11, <1>12, <1>13, <1>14, <1>15, <1>16, <1>17, <1>18, <1>19 DEF Next, JobStep, RequestStep, Terminated

(* The target being handled has no outcome yet.                              *)
LEMMA HandledIsTodoStep == IInv /\ [Next]_vars => HandledIsTodo'
<1> SUFFICES ASSUME IInv, [Next]_vars PROVE HandledIsTodo'
  OBVIOUS
<1> USE ActorTypes DEF IInv, TypeInv, TypeOK, HandledIsKnown, HandledIsTodo, Handling
<1>1. ASSUME NEW j \in Jobs, StartJob(j) PROVE HandledIsTodo'
  BY <1>1 DEF StartJob, Goto
<1>2. ASSUME NEW j \in Jobs, OpenProvider(j) PROVE HandledIsTodo'
  BY <1>2 DEF OpenProvider, Goto
<1>3. ASSUME NEW j \in Jobs, ProviderNotImplemented(j) PROVE HandledIsTodo'
  BY <1>3 DEF ProviderNotImplemented, Goto, Close
<1>4. ASSUME NEW j \in Jobs, NEW t \in Targets, FetchFails(j, t) PROVE HandledIsTodo'
  BY <1>4 DEF FetchFails
<1>5. ASSUME NEW j \in Jobs, NEW t \in Targets, NEW f \in Frames, Fetch(j, t, f) PROVE HandledIsTodo'
  BY <1>5 DEF Fetch, Goto
<1>6. ASSUME NEW j \in Jobs, NEW t \in Targets, NEW f \in Frames, FetchMeetsMissingValue(j, t, f) PROVE HandledIsTodo'
  BY <1>6 DEF FetchMeetsMissingValue
<1>7. ASSUME NEW j \in Jobs, LookUpRaw(j) PROVE HandledIsTodo'
  BY <1>7 DEF LookUpRaw, Goto
<1>8. ASSUME NEW j \in Jobs, LookUpRawRaises(j) PROVE HandledIsTodo'
  BY <1>8 DEF LookUpRawRaises, Conclude, Goto
<1>9. ASSUME NEW j \in Jobs, SaveRaw(j) PROVE HandledIsTodo'
  BY <1>9 DEF SaveRaw, Goto, Archive
<1>10. ASSUME NEW j \in Jobs, NothingToStore(j) PROVE HandledIsTodo'
  BY <1>10 DEF NothingToStore, Conclude, Goto
<1>11. ASSUME NEW a \in Actors, ReadRows(a) PROVE HandledIsTodo'
  BY <1>11 DEF ReadRows, Goto
<1>12. ASSUME NEW a \in Actors, Commit(a) PROVE HandledIsTodo'
  BY <1>12 DEF Commit, Conclude, Goto
<1>13. ASSUME NEW a \in Actors, CommitRaises(a) PROVE HandledIsTodo'
  BY <1>13 DEF CommitRaises, AfterConflict, Conclude, Goto
<1>14. ASSUME NEW j \in Jobs, Succeed(j) PROVE HandledIsTodo'
  BY <1>14 DEF Succeed, Goto, Close
<1>15. ASSUME NEW j \in Jobs, SucceedAndFailRaise(j) PROVE HandledIsTodo'
  BY <1>15 DEF SucceedAndFailRaise, Goto
<1>16. ASSUME NEW j \in Jobs, Crash(j) PROVE HandledIsTodo'
  BY <1>16 DEF Crash, Goto
<1>17. ASSUME NEW r \in Requests, NEW t \in Targets, NEW f \in Frames, AskSeries(r, t, f) PROVE HandledIsTodo'
  BY <1>17 DEF AskSeries, Goto
<1>18. ASSUME NEW r \in Requests, RefuseSeries(r) PROVE HandledIsTodo'
  BY <1>18 DEF RefuseSeries, Goto
<1>19. CASE UNCHANGED vars
  BY <1>19 DEF vars
<1>20. QED
  BY <1>1, <1>2, <1>3, <1>4, <1>5, <1>6, <1>7, <1>8, <1>9, <1>10, <1>11, <1>12, <1>13, <1>14, <1>15, <1>16, <1>17, <1>18, <1>19 DEF Next, JobStep, RequestStep, Terminated

(* Nothing is upserted before its payload is archived.                       *)
LEMMA ArchivedStep == IInv /\ [Next]_vars => ArchivedBeforeUpsert'
<1> SUFFICES ASSUME IInv, [Next]_vars PROVE ArchivedBeforeUpsert'
  OBVIOUS
<1> USE ActorTypes DEF IInv, TypeInv, TypeOK, HandledIsKnown, ArchivedBeforeUpsert, Handling, Payload, Answer
<1>1. ASSUME NEW j \in Jobs, StartJob(j) PROVE ArchivedBeforeUpsert'
  BY <1>1 DEF StartJob, Goto
<1>2. ASSUME NEW j \in Jobs, OpenProvider(j) PROVE ArchivedBeforeUpsert'
  BY <1>2 DEF OpenProvider, Goto
<1>3. ASSUME NEW j \in Jobs, ProviderNotImplemented(j) PROVE ArchivedBeforeUpsert'
  BY <1>3 DEF ProviderNotImplemented, Goto, Close
<1>4. ASSUME NEW j \in Jobs, NEW t \in Targets, FetchFails(j, t) PROVE ArchivedBeforeUpsert'
  BY <1>4 DEF FetchFails
<1>5. ASSUME NEW j \in Jobs, NEW t \in Targets, NEW f \in Frames, Fetch(j, t, f) PROVE ArchivedBeforeUpsert'
  BY <1>5 DEF Fetch, Goto
<1>6. ASSUME NEW j \in Jobs, NEW t \in Targets, NEW f \in Frames, FetchMeetsMissingValue(j, t, f) PROVE ArchivedBeforeUpsert'
  BY <1>6 DEF FetchMeetsMissingValue
<1>7. ASSUME NEW j \in Jobs, LookUpRaw(j) PROVE ArchivedBeforeUpsert'
  BY <1>7 DEF LookUpRaw, Goto
<1>8. ASSUME NEW j \in Jobs, LookUpRawRaises(j) PROVE ArchivedBeforeUpsert'
  BY <1>8 DEF LookUpRawRaises, Conclude, Goto
<1>9. ASSUME NEW j \in Jobs, SaveRaw(j) PROVE ArchivedBeforeUpsert'
  BY <1>9 DEF SaveRaw, Goto, Archive
<1>10. ASSUME NEW j \in Jobs, NothingToStore(j) PROVE ArchivedBeforeUpsert'
  BY <1>10 DEF NothingToStore, Conclude, Goto
<1>11. ASSUME NEW a \in Actors, ReadRows(a) PROVE ArchivedBeforeUpsert'
  BY <1>11 DEF ReadRows, Goto
<1>12. ASSUME NEW a \in Actors, Commit(a) PROVE ArchivedBeforeUpsert'
  BY <1>12 DEF Commit, Conclude, Goto
<1>13. ASSUME NEW a \in Actors, CommitRaises(a) PROVE ArchivedBeforeUpsert'
  BY <1>13 DEF CommitRaises, AfterConflict, Conclude, Goto
<1>14. ASSUME NEW j \in Jobs, Succeed(j) PROVE ArchivedBeforeUpsert'
  BY <1>14 DEF Succeed, Goto, Close
<1>15. ASSUME NEW j \in Jobs, SucceedAndFailRaise(j) PROVE ArchivedBeforeUpsert'
  BY <1>15 DEF SucceedAndFailRaise, Goto
<1>16. ASSUME NEW j \in Jobs, Crash(j) PROVE ArchivedBeforeUpsert'
  BY <1>16 DEF Crash, Goto
<1>17. ASSUME NEW r \in Requests, NEW t \in Targets, NEW f \in Frames, AskSeries(r, t, f) PROVE ArchivedBeforeUpsert'
  BY <1>17 DEF AskSeries, Goto
<1>18. ASSUME NEW r \in Requests, RefuseSeries(r) PROVE ArchivedBeforeUpsert'
  BY <1>18 DEF RefuseSeries, Goto
<1>19. CASE UNCHANGED vars
  BY <1>19 DEF vars
<1>20. QED
  BY <1>1, <1>2, <1>3, <1>4, <1>5, <1>6, <1>7, <1>8, <1>9, <1>10, <1>11, <1>12, <1>13, <1>14, <1>15, <1>16, <1>17, <1>18, <1>19 DEF Next, JobStep, RequestStep, Terminated

(* The prices change at a commit and nowhere else.                           *)
LEMMA PricesChangeAtCommits ==
    ASSUME [Next]_vars, prices' # prices
    PROVE  \E a \in Actors : Commit(a)
BY ActorTypes DEF Next, JobStep, RequestStep, Terminated, vars, StartJob, OpenProvider,
   ProviderNotImplemented, FetchFails, Fetch, FetchMeetsMissingValue, LookUpRaw, LookUpRawRaises,
   SaveRaw, NothingToStore, ReadRows, CommitRaises, Succeed, SucceedAndFailRaise, Crash, AskSeries,
   RefuseSeries

(* Nobody deletes a bar: a key that is taken stays taken.                    *)
LEMMA KeysStay ==
    ASSUME TypeInv, [Next]_vars, NEW k \in Targets \X Times, prices[k] # NoBar
    PROVE  prices'[k] # NoBar
<1> USE DEF TypeInv, TypeOK
<1>1. ASSUME NEW a \in Actors, Commit(a) PROVE prices'[k] # NoBar
  <2>1. BarOf(a) \in [ver : Versions, by : {"job", "api"}]
    BY <1>1, FrameTypes DEF Commit, BarOf, HandledIsKnown, Handling
  <2>2. prices'[k] \in {BarOf(a), prices[k]}
    BY <1>1 DEF Commit, Upserted, Planned
  <2>3. QED
    BY <2>1, <2>2, NoBarFresh
<1>2. QED
  BY <1>1, PricesChangeAtCommits

(* Who is about to commit has just read the rows, or goes on with its plan.  *)
LEMMA FlushesStay ==
    ASSUME TypeInv, [Next]_vars, NEW b \in Actors, pc'[b] = "flush"
    PROVE  \/ ReadRows(b)
           \/ pc[b] = "flush" /\ UNCHANGED <<plan[b], target[b], answer[b]>>
<1> USE ActorTypes DEF TypeInv, TypeOK, HandledIsKnown, Handling
<1>1. ASSUME NEW j \in Jobs, StartJob(j) \/ OpenProvider(j) \/ ProviderNotImplemented(j)
                             \/ Succeed(j) \/ SucceedAndFailRaise(j) \/ Crash(j)
      PROVE  pc[b] = "flush" /\ UNCHANGED <<plan[b], target[b], answer[b]>>
  BY <1>1 DEF StartJob, OpenProvider, ProviderNotImplemented, Succeed, SucceedAndFailRaise,
              Crash, Goto
<1>2. ASSUME NEW j \in Jobs, NEW t \in Targets,
             \/ FetchFails(j, t)
             \/ \E f \in Frames : Fetch(j, t, f) \/ FetchMeetsMissingValue(j, t, f)
      PROVE  pc[b] = "flush" /\ UNCHANGED <<plan[b], target[b], answer[b]>>
  BY <1>2 DEF FetchFails, Fetch, FetchMeetsMissingValue, Goto
<1>3. ASSUME NEW j \in Jobs, LookUpRaw(j) \/ LookUpRawRaises(j) \/ SaveRaw(j) \/ NothingToStore(j)
      PROVE  pc[b] = "flush" /\ UNCHANGED <<plan[b], target[b], answer[b]>>
  BY <1>3 DEF LookUpRaw, LookUpRawRaises, SaveRaw, NothingToStore, Conclude, Goto
<1>4. ASSUME NEW a \in Actors, Commit(a) \/ CommitRaises(a) \/ (ReadRows(a) /\ a # b)
      PROVE  pc[b] = "flush" /\ UNCHANGED <<plan[b], target[b], answer[b]>>
  BY <1>4 DEF Commit, CommitRaises, AfterConflict, ReadRows, Conclude, Goto
<1>5. ASSUME NEW r \in Requests,
             RefuseSeries(r) \/ \E t \in Targets, f \in Frames : AskSeries(r, t, f)
      PROVE  pc[b] = "flush" /\ UNCHANGED <<plan[b], target[b], answer[b]>>
  BY <1>5 DEF AskSeries, RefuseSeries, Goto
<1>6. QED
  BY <1>1, <1>2, <1>3, <1>4, <1>5 DEF Next, JobStep, RequestStep, Terminated, vars

(* The plan of an open upsert covers every row that is still free.           *)
LEMMA PlanIsSoundStep == IInv /\ [Next]_vars => PlanIsSound'
<1> SUFFICES ASSUME IInv, [Next]_vars, NEW b \in Actors, pc'[b] = "flush"
             PROVE  /\ plan'[b].ins \cup plan'[b].upd \subseteq Storable(b, Answer(b)')
                    /\ \A x \in Storable(b, Answer(b)') \ plan'[b].ins : Stored(b, x)' # NoBar
  BY DEF PlanIsSound, Storable, RowsOf
<1> USE ActorTypes DEF IInv, TypeInv, TypeOK, PlanIsSound, HandledIsKnown, Handling, Answer
<1>1. CASE ReadRows(b)
  BY <1>1 DEF ReadRows, Goto, IsNew, IsModified, Stored
<1>2. CASE pc[b] = "flush" /\ plan'[b] = plan[b] /\ target'[b] = target[b] /\ answer'[b] = answer[b]
  <2>1. target[b] \in Targets
    BY <1>2
  <2>2. \A x \in Times : prices[<<target[b], x>>] # NoBar => prices'[<<target[b], x>>] # NoBar
    BY <2>1, KeysStay
  <2>3. QED
    BY <1>2, <2>2, StorableTimes DEF Stored
<1> HIDE DEF TypeInv
<1>3. TypeInv
  BY DEF IInv
<1>4. QED
  BY <1>1, <1>2, <1>3, FlushesStay

(* A job commits the bars of a payload it archived before.                   *)
LEMMA JobBarsStep == IInv /\ [Next]_vars => JobBarsAreArchived'
<1> SUFFICES ASSUME IInv, [Next]_vars, NEW k \in Targets \X Times,
                    prices'[k] # NoBar, prices'[k].by = "job"
             PROVE  \E p \in raw' : /\ p.target = k[1]
                                    /\ p.frame.ver = prices'[k].ver
                                    /\ p.frame.rows[k[2]] = "good"
  BY DEF JobBarsAreArchived
<1> USE ActorTypes DEF IInv, TypeInv, TypeOK
<1>1. raw \subseteq raw'
  BY DEF Next, JobStep, RequestStep, Terminated, vars, StartJob, OpenProvider,
     ProviderNotImplemented, FetchFails, Fetch, FetchMeetsMissingValue, LookUpRaw,
     LookUpRawRaises, SaveRaw, Archive, NothingToStore, ReadRows, Commit, CommitRaises,
     Succeed, SucceedAndFailRaise, Crash, AskSeries, RefuseSeries
<1>2. CASE prices'[k] = prices[k]
  BY <1>1, <1>2 DEF JobBarsAreArchived
<1>3. ASSUME NEW a \in Actors, Commit(a), prices'[k] # prices[k]
      PROVE  \E p \in raw' : /\ p.target = k[1]
                             /\ p.frame.ver = prices'[k].ver
                             /\ p.frame.rows[k[2]] = "good"
  <2>1. /\ k[1] = target[a] /\ k[2] \in plan[a].ins \cup plan[a].upd
        /\ prices'[k] = BarOf(a)
    BY <1>3 DEF Commit, Upserted, Planned
  <2>2. a \in Jobs /\ prices'[k].ver = Answer(a).ver
    BY <2>1 DEF BarOf
  <2>3. Payload(a) \in raw /\ k[2] \in RowsOf(Answer(a), {"good"})
    BY <1>3, <2>1, <2>2 DEF Commit, ArchivedBeforeUpsert, PlanIsSound, Storable
  <2>4. QED
    BY <1>1, <2>1, <2>2, <2>3 DEF Payload, RowsOf
<1>4. QED
  BY <1>2, <1>3, PricesChangeAtCommits

(* What a commit writes.                                                     *)
LEMMA CommitsUpsert ==
  ASSUME NEW a, Commit(a), NEW t \in Targets, t = target[a], NEW x \in Times
  PROVE  prices'[<<t, x>>] =
           IF x \in plan[a].ins \cup plan[a].upd THEN BarOf(a) ELSE prices[<<t, x>>]
<1>1. prices' = Upserted(a)
  BY DEF Commit
<1>2. <<t, x>> \in Targets \X Times /\ <<t, x>>[1] = t /\ <<t, x>>[2] = x
  OBVIOUS
<1>3. Planned(a, <<t, x>>) <=> x \in plan[a].ins \cup plan[a].upd
  BY <1>2 DEF Planned
<1>. QED  BY <1>1, <1>2, <1>3 DEF Upserted

(* A target is counted as stored at a commit that leaves no key free.        *)
LEMMA StoredTargetsStep == IInv /\ [Next]_vars => StoredTargetsAreComplete'
<1> SUFFICES ASSUME IInv, [Next]_vars, NEW j \in Jobs, NEW t \in Targets,
                    result'[j][t] = "stored", NEW x \in Storable(j, answer'[j][t])
             PROVE  prices'[<<t, x>>] # NoBar
  BY DEF StoredTargetsAreComplete, Storable, RowsOf
<1> USE ActorTypes DEF IInv, TypeInv, TypeOK, HandledIsKnown, Handling, Answer
<1>1. x \in Times
  BY StorableTimes
<1>2. CASE result[j][t] = "stored" /\ answer'[j][t] = answer[j][t]
  BY <1>1, <1>2, KeysStay DEF StoredTargetsAreComplete
<1>3. CASE NothingToStore(j) /\ t = target[j]
  BY <1>3 DEF NothingToStore
<1>4. CASE Commit(j) /\ t = target[j]
  <2>1. BarOf(j) # NoBar
    BY <1>4, FrameTypes, NoBarFresh DEF Commit, BarOf
  <2>2. x \in plan[j].ins \/ prices[<<t, x>>] # NoBar
    BY <1>4 DEF Commit, PlanIsSound, Stored
  <2>3. prices'[<<t, x>>] = IF x \in plan[j].ins \cup plan[j].upd THEN BarOf(j) ELSE prices[<<t, x>>]
    BY <1>1, <1>4, CommitsUpsert
  <2>4. QED
    BY <2>1, <2>2, <2>3
<1>5. ASSUME NEW i \in Jobs, StartJob(i) \/ OpenProvider(i) \/ ProviderNotImplemented(i)
                             \/ Succeed(i) \/ SucceedAndFailRaise(i) \/ Crash(i)
      PROVE  result[j][t] = "stored" /\ answer'[j][t] = answer[j][t]
  BY <1>5 DEF StartJob, OpenProvider, ProviderNotImplemented, Succeed, SucceedAndFailRaise,
              Crash
<1>6. ASSUME NEW i \in Jobs, NEW u \in Targets,
             \/ FetchFails(i, u)
             \/ \E f \in Frames : Fetch(i, u, f) \/ FetchMeetsMissingValue(i, u, f)
      PROVE  result[j][t] = "stored" /\ answer'[j][t] = answer[j][t]
  <2>1. CASE \E f \in Frames : Fetch(i, u, f)
    BY <2>1 DEF Fetch
  <2>2. CASE \E o \in {"provider", "missing"} : result' = [result EXCEPT ![i][u] = o]
    BY <1>6, <2>2 DEF FetchFails, Fetch, FetchMeetsMissingValue
  <2>3. QED
    BY <1>6, <2>1, <2>2 DEF FetchFails, FetchMeetsMissingValue
<1>7. ASSUME NEW i \in Jobs, LookUpRaw(i) \/ LookUpRawRaises(i) \/ SaveRaw(i)
      PROVE  result[j][t] = "stored" /\ answer'[j][t] = answer[j][t]
  BY <1>7 DEF LookUpRaw, LookUpRawRaises, SaveRaw, Conclude
<1>8. ASSUME NEW i \in Jobs, NothingToStore(i), ~(i = j /\ t = target[j])
      PROVE  result[j][t] = "stored" /\ answer'[j][t] = answer[j][t]
  BY <1>8 DEF NothingToStore, Conclude
<1>9. ASSUME NEW a \in Actors, ReadRows(a) \/ CommitRaises(a)
      PROVE  result[j][t] = "stored" /\ answer'[j][t] = answer[j][t]
  <2>1. CASE ReadRows(a)
    BY <2>1 DEF ReadRows
  <2>2. CASE CommitRaises(a) /\ a \in Jobs
    <3>1. answer' = answer /\ result' = [result EXCEPT ![a][target[a]] = "conflict"]
      BY <2>2 DEF CommitRaises, AfterConflict, Conclude
    <3>2. QED
      BY <3>1
  <2>3. CASE CommitRaises(a) /\ a \notin Jobs
    BY <2>3 DEF CommitRaises
  <2>4. QED
    BY <1>9, <2>1, <2>2, <2>3
<1>10. ASSUME NEW a \in Actors, Commit(a), ~(a = j /\ t = target[j])
       PROVE  result[j][t] = "stored" /\ answer'[j][t] = answer[j][t]
  <2>1. CASE a \notin Jobs
    BY <1>10, <2>1 DEF Commit
  <2>2. CASE a \in Jobs
    <3>1. result' = [result EXCEPT ![a][target[a]] = "stored"]
      BY <1>10, <2>2 DEF Commit, Conclude
    <3>2. QED
      BY <1>10, <2>2, <3>1 DEF Commit
  <2>3. QED
    BY <2>1, <2>2
<1>11. ASSUME NEW r \in Requests,
              RefuseSeries(r) \/ \E u \in Targets, f \in Frames : AskSeries(r, u, f)
       PROVE  result[j][t] = "stored" /\ answer'[j][t] = answer[j][t]
  BY <1>11 DEF AskSeries, RefuseSeries
<1>12. QED
  BY <1>2, <1>3, <1>4, <1>5, <1>6, <1>7, <1>8, <1>9, <1>10, <1>11 DEF Next, JobStep,
     RequestStep, Terminated, vars

-----------------------------------------------------------------------------
(* The inductive invariant holds initially.                                  *)
LEMMA InitIInv == Init => IInv
<1> SUFFICES ASSUME Init PROVE IInv
  OBVIOUS
<1>1. TypeInv
  BY InitTypeInv
<1>2. JobBarsAreArchived
  BY DEF Init, JobBarsAreArchived
<1>3. QED
  BY <1>1, <1>2, ActorTypes DEF Init, IInv, RunMatchesPlace, Working, BrokenSessionLostRace,
     PoisonNeedsBrokenSession, HandledIsTodo, Handling, ArchivedBeforeUpsert, PlanIsSound,
     StoredTargetsAreComplete, Untried

(* The inductive invariant holds in every reachable state.                   *)
LEMMA SpecIInv == Spec => []IInv
<1>1. IInv /\ [Next]_vars => IInv'
  BY NextTypeInv, RunMatchesPlaceStep, BrokenSessionStep, PoisonStep, HandledIsTodoStep, ArchivedStep,
     PlanIsSoundStep, JobBarsStep, StoredTargetsStep DEF IInv
<1>2. QED
  BY InitIInv, <1>1, PTL DEF Spec

(* Every bar a job wrote last was archived in raw_prices beforehand and had  *)
(* passed the validation, whatever the other jobs and requests do.           *)
THEOREM BarsAreArchived == Spec => []JobBarsAreArchived
BY SpecIInv, PTL DEF IInv

(* A target counted as a success has each of its valid bars in prices.       *)
THEOREM StoredIsComplete == Spec => []StoredTargetsAreComplete
BY SpecIInv, PTL DEF IInv

(* A job that ended without closing its run lost a race at the unique key.   *)
THEOREM OpenRunsHaveACause == Spec => []OpenRunsLostARace
<1>1. IInv => OpenRunsLostARace
  BY DEF IInv, RunMatchesPlace, BrokenSessionLostRace, OpenRunsLostARace, JobEnded
<1>2. QED
  BY SpecIInv, <1>1, PTL

(* A target fails, or is left out, for the sake of another one only after a  *)
(* lost race.                                                                *)
THEOREM PoisonHasACause == Spec => []PoisonedTargetsLostARace
<1>1. IInv => PoisonedTargetsLostARace
  BY DEF IInv, RunMatchesPlace, Untried, AllConcluded, GivenUp, JobEnded, PoisonNeedsBrokenSession,
         BrokenSessionLostRace, PoisonedTargetsLostARace
<1>2. QED
  BY SpecIInv, <1>1, PTL

(* With one writer at a time nothing is lost: as long as no flush loses the  *)
(* race, a job that ended has closed its run.                                *)
THEOREM NoRaceNoOpenRun ==
    Spec => []((\A j \in Jobs, t \in Targets : result[j][t] # "conflict") => EndedRunsAreClosed)
<1>1. IInv => ((\A j \in Jobs, t \in Targets : result[j][t] # "conflict") => EndedRunsAreClosed)
  BY DEF IInv, RunMatchesPlace, BrokenSessionLostRace, EndedRunsAreClosed, JobEnded
<1>2. QED
  BY SpecIInv, <1>1, PTL

-----------------------------------------------------------------------------
(* A step of a job opens its run, closes it, or leaves it alone.             *)
LEMMA RunSteps == IInv /\ [Next]_vars => [Lifecycle!Next]_jobRun
<1> SUFFICES ASSUME IInv, Next PROVE Lifecycle!Next \/ jobRun' = jobRun
  BY DEF vars
<1> USE DEF IInv, TypeInv, TypeOK, RunMatchesPlace, Working, Lifecycle!Next
<1>1. ASSUME NEW j \in Jobs, StartJob(j) PROVE Lifecycle!Next
  BY <1>1 DEF StartJob, Lifecycle!Start
<1>2. ASSUME NEW j \in Jobs, ProviderNotImplemented(j) PROVE Lifecycle!Next
  BY <1>2 DEF ProviderNotImplemented, Close, Lifecycle!Fail
<1>3. ASSUME NEW j \in Jobs, Succeed(j) PROVE Lifecycle!Next
  BY <1>3 DEF Succeed, Close, Lifecycle!Succeed
<1>4. QED
  BY <1>1, <1>2, <1>3 DEF Next, JobStep, RequestStep, Terminated, vars, OpenProvider,
     FetchFails, Fetch, FetchMeetsMissingValue, LookUpRaw, LookUpRawRaises, SaveRaw,
     NothingToStore, ReadRows, Commit, CommitRaises, SucceedAndFailRaise, Crash, AskSeries,
     RefuseSeries

(* The job implements the life cycle of a run: opened once, closed at most   *)
(* once, and never as success after failed or the other way round.           *)
THEOREM RunsRefineLifecycle == Spec => RunsFollowLifecycle
<1>1. Init => Lifecycle!Init
  BY DEF Init, Lifecycle!Init
<1>2. QED
  BY <1>1, RunSteps, SpecIInv, PTL DEF Spec, RunsFollowLifecycle, Lifecycle!Spec

-----------------------------------------------------------------------------
(* What a bar may become, and what the documented promise lacks. *)

(* Whatever the jobs and requests do beside each other, a stored bar is never *)
(* lost, and every change of one is a commit of an upsert of its target that *)
(* the provider's answer asks for.                                           *)
THEOREM NoBarIsLost == Spec => BarsAreOnlyUpserted
<1>1. ASSUME IInv, [Next]_vars, NEW k \in Targets \X Times, prices'[k] # prices[k]
      PROVE  /\ prices'[k] # NoBar
             /\ \E a \in Actors :
                  /\ pc[a] = "flush" /\ pc'[a] # "flush"
                  /\ target[a] = k[1] /\ k[2] \in Storable(a, Answer(a))
                  /\ prices'[k] = BarOf(a)
  <2>1. PICK a \in Actors : Commit(a)
    BY <1>1, PricesChangeAtCommits
  <2>2. /\ target[a] = k[1] /\ k[2] \in plan[a].ins \cup plan[a].upd
        /\ prices'[k] = BarOf(a) /\ pc[a] = "flush"
    BY <1>1, <2>1 DEF Commit, Upserted, Planned
  <2>3. k[2] \in Storable(a, Answer(a))
    BY <1>1, <2>2 DEF IInv, PlanIsSound
  <2>4. pc'[a] # "flush"
    BY <1>1, <2>1, ActorTypes DEF Commit, Conclude, Goto, IInv, TypeInv, TypeOK
  <2>5. BarOf(a) # NoBar
    BY <1>1, <2>2, FrameTypes, NoBarFresh DEF BarOf, IInv, TypeInv, HandledIsKnown, Handling
  <2>6. QED
    BY <2>2, <2>3, <2>4, <2>5
<1>2. IInv /\ [Next]_vars
        => [\A k \in Targets \X Times : prices'[k] # prices[k] =>
              /\ prices'[k] # NoBar
              /\ \E a \in Actors :
                   /\ pc[a] = "flush" /\ pc'[a] # "flush"
                   /\ target[a] = k[1] /\ k[2] \in Storable(a, Answer(a))
                   /\ prices'[k] = BarOf(a)]_vars
  BY <1>1
<1>3. QED
  BY SpecIInv, <1>2, PTL DEF Spec, BarsAreOnlyUpserted

\* At most one upsert of a target is between its reads and its commit.
UpsertsAlone ==
    \A a, b \in Actors : pc[a] = "flush" /\ pc[b] = "flush" /\ target[a] = target[b] => a = b

\* Then nobody has taken a key that an open upsert is about to add.
PlansAreFresh == \A a \in Actors : pc[a] = "flush" => ~LostRace(a)

NobodyLost == \A j \in Jobs, t \in Targets : result[j][t] # "conflict"

(* A step loses no race, if the upsert that commits is alone at its target.  *)
LEMMA UpsertsAloneStep ==
    IInv /\ UpsertsAlone /\ PlansAreFresh /\ NobodyLost /\ [Next]_vars
        => PlansAreFresh' /\ NobodyLost'
<1> SUFFICES ASSUME IInv, UpsertsAlone, PlansAreFresh, NobodyLost, [Next]_vars
             PROVE  PlansAreFresh' /\ NobodyLost'
  OBVIOUS
<1>0. /\ TypeInv
      /\ pc \in [Actors -> JobPlaces \cup RequestPlaces]
      /\ target \in [Actors -> Targets \cup {NoTarget}]
      /\ result \in [Jobs -> [Targets -> Outcomes]]
  BY DEF IInv, TypeInv, TypeOK
<1>1. ASSUME NEW b \in Actors, pc'[b] = "flush" PROVE ~LostRace(b)'
  <2>1. CASE ReadRows(b)
    BY <1>0, <2>1 DEF ReadRows, LostRace, IsNew, Stored, TypeInv, TypeOK
  <2>2. CASE pc[b] = "flush" /\ UNCHANGED <<plan[b], target[b], answer[b]>>
    <3>1. CASE prices' = prices
      BY <2>2, <3>1 DEF PlansAreFresh, LostRace, Stored
    <3>2. CASE prices' # prices
      <4>1. PICK a \in Actors : Commit(a)
        BY <3>2, PricesChangeAtCommits
      <4>2. pc'[a] # "flush" /\ pc[a] = "flush"
        BY <1>0, <4>1, ActorTypes DEF Commit, Conclude, Goto
      <4>3. target[a] # target[b]
        BY <1>1, <2>2, <4>2 DEF UpsertsAlone
      <4>4. target[b] \in Targets /\ plan[b].ins \subseteq Times
        BY <2>2, StorableTimes DEF IInv, TypeInv, HandledIsKnown, Handling, PlanIsSound
      <4>5. \A x \in plan[b].ins : prices'[<<target[b], x>>] = prices[<<target[b], x>>]
        BY <4>1, <4>3, <4>4 DEF Commit, Upserted, Planned
      <4>6. QED
        BY <2>2, <4>5 DEF PlansAreFresh, LostRace, Stored
    <3>3. QED
      BY <3>1, <3>2
  <2>3. QED
    BY <1>0, <1>1, <2>1, <2>2, FlushesStay
<1>2. ASSUME NEW a \in Actors, CommitRaises(a) PROVE FALSE
  BY <1>2 DEF CommitRaises, PlansAreFresh
<1>3. NobodyLost'
  <2>1. ASSUME NEW j \in Jobs, NEW t \in Targets, NEW o \in Outcomes \ {"conflict"},
               result' = [result EXCEPT ![j][t] = o]
        PROVE  NobodyLost'
    BY <1>0, <2>1 DEF NobodyLost
  <2>2. ASSUME NEW j \in Jobs, StartJob(j) PROVE NobodyLost'
    BY <1>0, <2>2 DEF StartJob, NobodyLost
  <2>3. ASSUME NEW j \in Jobs, NEW t \in Targets,
               FetchFails(j, t) \/ \E f \in Frames : FetchMeetsMissingValue(j, t, f)
        PROVE  NobodyLost'
    BY <2>1, <2>3 DEF FetchFails, FetchMeetsMissingValue, Outcomes
  <2>4. ASSUME NEW j \in Jobs, LookUpRawRaises(j) \/ NothingToStore(j) PROVE NobodyLost'
    <3>1. target[j] \in Targets
      BY <2>4, ActorTypes DEF LookUpRawRaises, NothingToStore, IInv, TypeInv, HandledIsKnown, Handling
    <3>2. QED
      BY <2>1, <2>4, <3>1 DEF LookUpRawRaises, NothingToStore, Conclude, Outcomes
  <2>5. ASSUME NEW a \in Actors, Commit(a) PROVE NobodyLost'
    <3>1. target[a] \in Targets
      BY <2>5 DEF Commit, IInv, TypeInv, HandledIsKnown, Handling
    <3>2. CASE a \in Jobs
      BY <2>1, <2>5, <3>1, <3>2 DEF Commit, Conclude, Outcomes
    <3>3. CASE a \notin Jobs
      BY <2>5, <3>3 DEF Commit, NobodyLost
    <3>4. QED
      BY <3>2, <3>3
  <2>6. CASE result' = result
    BY <2>6 DEF NobodyLost
  <2>7. QED
    BY <1>2, <2>2, <2>3, <2>4, <2>5, <2>6, ActorTypes DEF Next, JobStep, RequestStep, Terminated,
       vars, OpenProvider, ProviderNotImplemented, Fetch, LookUpRaw, SaveRaw, ReadRows, Succeed,
       SucceedAndFailRaise, Crash, AskSeries, RefuseSeries
<1>4. QED
  BY <1>1, <1>3 DEF PlansAreFresh

(* If no two upserts of one target are between their reads and their commits *)
(* at a time, a job that ended has closed its run: overlapping upserts of    *)
(* one target are the only way to what the run PriceOpenRun shows.           *)
THEOREM OpenRunsNeedOverlap == Spec /\ []UpsertsAlone => []EndedRunsAreClosed
<1>1. Init => PlansAreFresh /\ NobodyLost
  BY ActorTypes DEF Init, PlansAreFresh, NobodyLost
<1>2. IInv /\ NobodyLost => EndedRunsAreClosed
  BY DEF IInv, RunMatchesPlace, BrokenSessionLostRace, EndedRunsAreClosed, JobEnded, NobodyLost
<1>3. QED
  BY SpecIInv, UpsertsAloneStep, <1>1, <1>2, PTL DEF Spec

\* At most one job is under way.
OneWorks == \A i, j \in Jobs : Working(i) /\ Working(j) => i = j

(* One worker runs one job at a time.                                        *)
LEMMA OneWorkerStep ==
    ASSUME Workers = 1, IsFiniteSet(Jobs)
    PROVE  TypeInv /\ OneWorks /\ [Next]_vars => OneWorks'
<1> SUFFICES ASSUME TypeInv, OneWorks, [Next]_vars PROVE OneWorks'
  OBVIOUS
<1>0. pc \in [Actors -> JobPlaces \cup RequestPlaces]
  BY DEF TypeInv, TypeOK
<1>1. ASSUME NEW j \in Jobs, StartJob(j) PROVE OneWorks'
  <2> DEFINE W == {i \in Jobs : Working(i)}
  <2>1. IsFiniteSet(W) /\ Cardinality(W) < 1
    BY <1>1, FS_Subset DEF StartJob
  <2>2. W = {}
    <3> HIDE DEF W
    <3>1. QED
      BY <2>1, FS_CardinalityType, FS_EmptySet
  <2>3. \A i \in Jobs : Working(i)' => i = j
    BY <1>0, <1>1, <2>2, ActorTypes DEF StartJob, Goto, Working
  <2>4. QED
    BY <2>3 DEF OneWorks
<1>2. ASSUME \A j \in Jobs : Working(j)' => Working(j) PROVE OneWorks'
  BY <1>2 DEF OneWorks
<1>3. ASSUME NEW a \in Actors, Working(a), NEW place, pc' = [pc EXCEPT ![a] = place] PROVE OneWorks'
  BY <1>0, <1>2, <1>3, ActorTypes DEF Working
<1>4. ASSUME NEW j \in Jobs, JobStep(j) \/ Crash(j) PROVE OneWorks'
  <2>1. Working(j) /\ (pc' = pc \/ \E place : pc' = [pc EXCEPT ![j] = place])
    BY <1>4 DEF JobStep, OpenProvider, ProviderNotImplemented, FetchFails, Fetch,
       FetchMeetsMissingValue, LookUpRaw, LookUpRawRaises, SaveRaw, NothingToStore, ReadRows, Commit,
       CommitRaises, AfterConflict, Conclude, Succeed, SucceedAndFailRaise, Crash, Goto, Working
  <2>2. QED
    BY <1>2, <1>3, <2>1, ActorTypes DEF Working
<1>5. ASSUME NEW r \in Requests, RequestStep(r) PROVE OneWorks'
  <2>1. \E place : pc' = [pc EXCEPT ![r] = place]
    BY <1>5, ActorTypes DEF RequestStep, AskSeries, RefuseSeries, ReadRows, Commit, CommitRaises, Goto
  <2>2. QED
    BY <1>0, <1>2, <2>1, ActorTypes DEF Working
<1>6. CASE UNCHANGED vars
  BY <1>2, <1>6 DEF vars, Working
<1>7. QED
  BY <1>1, <1>4, <1>5, <1>6 DEF Next, Terminated

(* With one RQ worker process, and while no request stores what it fetches,  *)
(* docs/knowledge/product-workflow.md, lines 154-155, is right: every job    *)
(* that ended has closed its run.                                            *)
THEOREM OneWriterClosesItsRuns ==
    ASSUME Workers = 1, IsFiniteSet(Jobs), Requests = {}
    PROVE  Spec => []EndedRunsAreClosed
<1>1. Init => OneWorks
  BY ActorTypes DEF Init, OneWorks, Working
<1>2. IInv => TypeInv
  BY DEF IInv
<1>3. OneWorks => UpsertsAlone
  BY DEF OneWorks, UpsertsAlone, Working, Actors
<1>4. QED
  BY SpecIInv, OneWorkerStep, OpenRunsNeedOverlap, <1>1, <1>2, <1>3, PTL DEF Spec
=============================================================================
