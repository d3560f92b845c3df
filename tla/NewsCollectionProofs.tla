------------------------ MODULE NewsCollectionProofs ------------------------
(***************************************************************************)
(* The safety properties of NewsCollection for any number of jobs, workers *)
(* and targets, any urls, any canonicalization and any feeds.              *)
(***************************************************************************)
EXTENDS NewsCollection, FiniteSetTheorems, TLAPS

JobLifecycle == INSTANCE JobRunLifecycle WITH Runs <- Jobs, status <- jobRun

\* The job is between saving an event and marking it.
Holding(j) == pc[j] \in {"normalize", "create", "mark"}

(* A job past its query has a target; one that holds an event has an entry.  *)
WorkIsKnown ==
    \A j \in Jobs :
        /\ pc[j] = "entries" \/ Holding(j) => target[j] \in Targets
        /\ Holding(j) => entry[j] \in EntryType

(* The event a job holds is there, is the job's own and still "fetched".     *)
HeldIsFetched ==
    \A j \in Jobs : Holding(j) =>
        LET event == raw[entry[j].url] IN
        event # NoEvent /\ event.target = target[j] /\ event.status = "fetched"

(* No other job holds the event a job holds.                                 *)
HeldByOne ==
    \A i, j \in Jobs : Holding(i) /\ Holding(j) /\ entry[i].url = entry[j].url => i = j

(* A job about to create an item has created none at that url before.        *)
CreatesItsFirst ==
    \A j \in Jobs, i \in items :
        pc[j] = "create" /\ i.by = j => i.url # Canon[entry[j].url]

(* The run of a job is open while the job works, and when it died; a job     *)
(* that returned succeeded, with every target concluded.                     *)
RunsMatchPlace ==
    \A j \in Jobs :
        /\ pc[j] = "idle" => jobRun[j] = "absent"
        /\ Working(j) \/ pc[j] = "crashed" => jobRun[j] = "running"
        /\ pc[j] = "returned" => jobRun[j] = "success" /\ AllConcluded(j)
        /\ pc[j] = "raised" => jobRun[j] = "failed"

TypeInv == TypeOK /\ WorkIsKnown

IInv == /\ TypeInv /\ HeldIsFetched /\ HeldByOne /\ CreatesItsFirst /\ RunsMatchPlace
        /\ FetchedIsAccountedFor /\ DuplicatesNeedTwoJobs

-----------------------------------------------------------------------------
(* An event that is there has the fields of an event.                        *)
LEMMA EventTypes ==
    ASSUME TypeOK, NEW u \in Urls, raw[u] # NoEvent
    PROVE  /\ raw[u] \in EventType
           /\ raw[u].target \in Targets /\ raw[u].kind \in EntryKinds
           /\ raw[u].status \in {"fetched", "normalized", "failed"}
BY DEF TypeOK, EventType

(* Marking an event changes its status and nothing else of the table.        *)
LEMMA MarkTypes ==
    ASSUME TypeInv, HeldIsFetched, NEW j \in Jobs, Holding(j),
           NEW s \in {"normalized", "failed"}, Mark(j, s)
    PROVE  /\ raw' \in [Urls -> EventType \cup {NoEvent}]
           /\ entry[j].url \in Urls
           /\ raw'[entry[j].url] = [target |-> raw[entry[j].url].target,
                                    kind |-> raw[entry[j].url].kind, status |-> s]
           /\ raw'[entry[j].url] # NoEvent
           /\ \A u \in Urls \ {entry[j].url} : raw'[u] = raw[u]
<1> DEFINE u == entry[j].url
<1>1. u \in Urls
  BY DEF TypeInv, WorkIsKnown, EntryType
<1>2. raw \in [Urls -> EventType \cup {NoEvent}] /\ raw[u] \in EventType
  BY <1>1, EventTypes DEF TypeInv, TypeOK, HeldIsFetched
<1>3. raw' = [raw EXCEPT ![u] = [raw[u] EXCEPT !.status = s]]
  BY DEF Mark
<1>4. [raw[u] EXCEPT !.status = s] = [target |-> raw[u].target, kind |-> raw[u].kind, status |-> s]
  BY <1>2 DEF EventType
<1>5. [raw[u] EXCEPT !.status = s] \in EventType
  BY <1>2 DEF EventType
<1>6. QED
  BY <1>1, <1>2, <1>3, <1>4, <1>5, NoEventFresh

(* Initially nothing was collected.                                          *)
LEMMA InitIInv == Init => IInv
BY DEF Init, IInv, TypeInv, TypeOK, WorkIsKnown, Holding, HeldIsFetched, HeldByOne, CreatesItsFirst,
   RunsMatchPlace, Working, FetchedIsAccountedFor, DuplicatesNeedTwoJobs, Places

(* Every step preserves the type invariant.                                  *)
LEMMA TypeStep == TypeInv /\ HeldIsFetched /\ [Next]_vars => TypeInv'
<1> SUFFICES ASSUME TypeInv, HeldIsFetched, [Next]_vars PROVE TypeInv'
  OBVIOUS
<1> USE DEF TypeInv, TypeOK, WorkIsKnown, Holding, Places, Goto, Close
<1>1. ASSUME NEW j \in Jobs, StartJob(j) PROVE TypeInv'
  BY <1>1 DEF StartJob
<1>2. ASSUME NEW j \in Jobs,
             \/ OpenAdapter(j) \/ AdapterNotImplemented(j) \/ LeaveFetched(j)
             \/ LookUpItem(j) \/ Succeed(j) \/ Crash(j)
             \/ \E e \in feed[j] : EntryRefused(j, e)
      PROVE  TypeInv'
  BY <1>2 DEF OpenAdapter, AdapterNotImplemented, LeaveFetched, LookUpItem, PlaceOfUnknown,
              Succeed, Crash, EntryRefused, PlaceAfterOversized
<1>3. ASSUME NEW j \in Jobs, NEW t \in Targets, NEW f \in Feeds, Fetch(j, t, f) PROVE TypeInv'
  BY <1>3, FeedsType DEF Fetch
<1>4. ASSUME NEW j \in Jobs, NEW t \in Targets, FetchFails(j, t) PROVE TypeInv'
  BY <1>4 DEF FetchFails
<1>5. ASSUME NEW j \in Jobs, NEW e \in feed[j], SkipKnown(j, e) PROVE TypeInv'
  BY <1>5 DEF SkipKnown, KeepEvent
<1>6. ASSUME NEW j \in Jobs, NEW e \in feed[j], SaveRaw(j, e) PROVE TypeInv'
  <2>1. e \in EntryType /\ target[j] \in Targets
    BY <1>6 DEF SaveRaw
  <2>2. [target |-> target[j], kind |-> e.kind, status |-> "fetched"] \in EventType
    BY <2>1 DEF EntryType, EventType
  <2>3. QED
    BY <1>6, <2>1, <2>2 DEF SaveRaw
<1>7. ASSUME NEW j \in Jobs, MarkFailed(j) \/ MarkNormalized(j) PROVE TypeInv'
  <2>1. Holding(j) /\ \E s \in {"normalized", "failed"} : Mark(j, s)
    BY <1>7 DEF MarkFailed, MarkNormalized
  <2>2. raw' \in [Urls -> EventType \cup {NoEvent}]
    BY <2>1, MarkTypes
  <2>3. QED
    BY <1>7, <2>2 DEF MarkFailed, MarkNormalized
<1>8. ASSUME NEW j \in Jobs, CreateItem(j) PROVE TypeInv'
  <2>1. [url |-> Canon[entry[j].url], from |-> entry[j].url, by |-> j] \in ItemType
    BY <1>8, CanonType DEF CreateItem, EntryType, ItemType
  <2>2. QED
    BY <1>8, <2>1 DEF CreateItem
<1>9. ASSUME NEW j \in Jobs, FinishTarget(j) PROVE TypeInv'
  BY <1>9 DEF FinishTarget, Concluded
<1>10. CASE UNCHANGED vars
  BY <1>10 DEF vars
<1> HIDE DEF TypeInv
<1>11. QED
  BY <1>1, <1>2, <1>3, <1>4, <1>5, <1>6, <1>7, <1>8, <1>9, <1>10 DEF Next, JobStep, Terminated

-----------------------------------------------------------------------------
(* What a step does to the events and to their holders: a job saves one and  *)
(* holds it, ...                                                             *)
Saves(j, e) ==
    /\ e \in EntryType /\ target[j] \in Targets
    /\ pc[j] = "entries" /\ pc' = [pc EXCEPT ![j] = "normalize"]
    /\ entry' = [entry EXCEPT ![j] = e]
    /\ raw[e.url] = NoEvent /\ raw'[e.url] # NoEvent
    /\ raw'[e.url] = [target |-> target[j], kind |-> e.kind, status |-> "fetched"]
    /\ \A u \in Urls \ {e.url} : raw'[u] = raw[u]
    /\ UNCHANGED <<target, items>>

\* ... a job marks the event it holds and lets it go, ...
Marks(j, s) ==
    /\ Holding(j) /\ pc' = [pc EXCEPT ![j] = "entries"]
    /\ entry[j].url \in Urls
    /\ raw'[entry[j].url] # NoEvent
    /\ raw'[entry[j].url] = [target |-> raw[entry[j].url].target,
                             kind |-> raw[entry[j].url].kind, status |-> s]
    /\ \A u \in Urls \ {entry[j].url} : raw'[u] = raw[u]
    /\ UNCHANGED <<target, entry, items>>

\* ... or the events stay, and a job lets go of one only by crashing or
\* because its target names no asset.
Keeps ==
    /\ UNCHANGED <<raw, entry>>
    /\ \A j \in Jobs : Holding(j)' => Holding(j) /\ target'[j] = target[j]
    /\ \A j \in Jobs :
         Holding(j) => \/ Holding(j)' \/ pc'[j] = "crashed"
                       \/ pc[j] = "normalize" /\ target[j] \notin Resolved
    /\ \A j \in Jobs : pc[j] = "crashed" => pc'[j] = "crashed"

LEMMA StepKinds ==
    ASSUME TypeInv, HeldIsFetched, [Next]_vars
    PROVE  \/ \E j \in Jobs, e \in EntryType : Saves(j, e)
           \/ \E j \in Jobs, s \in {"normalized", "failed"} : Marks(j, s)
           \/ Keeps
<1>1. ASSUME NEW j \in Jobs, NEW e \in feed[j], SaveRaw(j, e) PROVE e \in EntryType /\ Saves(j, e)
  <2>1. e \in EntryType /\ target[j] \in Targets
    BY <1>1 DEF SaveRaw, TypeInv, TypeOK, WorkIsKnown
  <2>2. e.url \in Urls /\ [target |-> target[j], kind |-> e.kind, status |-> "fetched"] \in EventType
    BY <2>1 DEF EntryType, EventType
  <2>3. QED
    BY <1>1, <2>1, <2>2, NoEventFresh DEF Saves, SaveRaw, Goto, TypeInv, TypeOK
<1>2. ASSUME NEW j \in Jobs, MarkFailed(j) \/ MarkNormalized(j)
      PROVE  \E s \in {"normalized", "failed"} : Marks(j, s)
  <2>1. Holding(j) /\ \E s \in {"normalized", "failed"} : Mark(j, s)
    BY <1>2 DEF MarkFailed, MarkNormalized, Holding
  <2>2. pc' = [pc EXCEPT ![j] = "entries"] /\ UNCHANGED <<target, entry, items>>
    BY <1>2 DEF MarkFailed, MarkNormalized, Goto
  <2>3. QED
    BY <2>1, <2>2, MarkTypes DEF Marks
<1>3. ASSUME NEW j \in Jobs,
             \/ StartJob(j) \/ OpenAdapter(j) \/ AdapterNotImplemented(j) \/ LeaveFetched(j)
             \/ LookUpItem(j) \/ CreateItem(j) \/ FinishTarget(j) \/ Succeed(j) \/ Crash(j)
             \/ \E e \in feed[j] : SkipKnown(j, e) \/ EntryRefused(j, e)
             \/ \E t \in Targets : FetchFails(j, t) \/ \E f \in Feeds : Fetch(j, t, f)
      PROVE  Keeps
  BY <1>3 DEF Keeps, TypeInv, TypeOK, Holding, Goto, StartJob, OpenAdapter, AdapterNotImplemented,
     LeaveFetched, LookUpItem, PlaceOfUnknown, CreateItem, FinishTarget, Succeed, Crash, Working,
     SkipKnown, KeepEvent, EntryRefused, PlaceAfterOversized, FetchFails, Fetch
<1>4. CASE UNCHANGED vars
  BY <1>4 DEF vars, Keeps, Holding
<1>5. QED
  BY <1>1, <1>2, <1>3, <1>4 DEF Next, JobStep, Terminated

(* Every step keeps held events "fetched" and held by one job.               *)
LEMMA HeldStep ==
    TypeInv /\ HeldIsFetched /\ HeldByOne /\ [Next]_vars => HeldIsFetched' /\ HeldByOne'
<1> SUFFICES ASSUME TypeInv, HeldIsFetched, HeldByOne, [Next]_vars
             PROVE  HeldIsFetched' /\ HeldByOne'
  OBVIOUS
<1> USE DEF HeldIsFetched, HeldByOne
<1>0. /\ \A j \in Jobs : Holding(j) => entry[j].url \in Urls
      /\ pc \in [Jobs -> Places] /\ entry \in [Jobs -> EntryType \cup {NoEntry}]
  BY DEF TypeInv, TypeOK, WorkIsKnown, EntryType
<1>1. ASSUME NEW j \in Jobs, NEW e \in EntryType, Saves(j, e)
      PROVE  HeldIsFetched' /\ HeldByOne'
  <2>1. \A i \in Jobs : i # j /\ Holding(i)' => Holding(i) /\ entry'[i] = entry[i]
    BY <1>0, <1>1 DEF Saves, Holding
  <2>2. \A i \in Jobs : Holding(i) => entry[i].url # e.url
    BY <1>1 DEF Saves
  <2>3. entry'[j] = e
    BY <1>0, <1>1 DEF Saves
  <2>4. ASSUME NEW i \in Jobs, Holding(i)'
        PROVE  LET event == raw'[entry'[i].url] IN
               event # NoEvent /\ event.target = target'[i] /\ event.status = "fetched"
    <3>1. CASE i = j
      BY <1>1, <2>3, <3>1 DEF Saves
    <3>2. CASE i # j
      <4>1. raw'[entry'[i].url] = raw[entry[i].url] /\ target'[i] = target[i]
        BY <1>0, <1>1, <2>1, <2>2, <2>4, <3>2 DEF Saves
      <4>2. QED
        BY <2>1, <2>4, <3>2, <4>1
    <3>3. QED
      BY <3>1, <3>2
  <2>5. HeldByOne'
    BY <2>1, <2>2, <2>3
  <2>6. QED
    BY <2>4, <2>5
<1>2. ASSUME NEW j \in Jobs, NEW s \in {"normalized", "failed"}, Marks(j, s)
      PROVE  HeldIsFetched' /\ HeldByOne'
  <2>1. \A i \in Jobs : Holding(i)' => Holding(i) /\ i # j
    BY <1>0, <1>2 DEF Holding, Marks
  <2>2. \A i \in Jobs : Holding(i)' => raw'[entry[i].url] = raw[entry[i].url]
    BY <1>0, <1>2, <2>1 DEF Marks
  <2>3. QED
    BY <1>2, <2>1, <2>2 DEF Marks
<1>3. CASE Keeps
  BY <1>3 DEF Keeps
<1> HIDE DEF HeldIsFetched, HeldByOne
<1>4. QED
  BY <1>1, <1>2, <1>3, StepKinds

(* Every step keeps every "fetched" event accounted for.                     *)
LEMMA AccountStep ==
    TypeInv /\ HeldIsFetched /\ FetchedIsAccountedFor /\ [Next]_vars => FetchedIsAccountedFor'
<1> SUFFICES ASSUME TypeInv, HeldIsFetched, FetchedIsAccountedFor, [Next]_vars,
                    NEW u \in Urls, raw'[u] # NoEvent, raw'[u].status = "fetched"
             PROVE  \/ raw'[u].target \notin Resolved
                    \/ \E j \in Jobs : /\ entry'[j] # NoEntry /\ entry'[j].url = u
                                       /\ pc'[j] \in {"normalize", "create", "mark", "crashed"}
  BY DEF FetchedIsAccountedFor
<1> DEFINE Accounted == \/ raw[u].target \notin Resolved
                        \/ \E j \in Jobs : /\ entry[j] # NoEntry /\ entry[j].url = u
                                           /\ pc[j] \in {"normalize", "create", "mark", "crashed"}
<1>0. pc \in [Jobs -> Places] /\ entry \in [Jobs -> EntryType \cup {NoEntry}]
  BY DEF TypeInv, TypeOK
<1>1. ASSUME NEW j \in Jobs, NEW e \in EntryType, Saves(j, e) PROVE Accounted'
  <2>1. CASE u = e.url
    <3>1. entry'[j] = e /\ e # NoEntry /\ pc'[j] = "normalize"
      BY <1>0, <1>1, NoEntryFresh DEF Saves
    <3>2. QED
      BY <2>1, <3>1
  <2>2. CASE u # e.url
    <3>1. raw'[u] = raw[u]
      BY <1>1, <2>2 DEF Saves
    <3>2. Accounted
      BY <3>1 DEF FetchedIsAccountedFor
    <3>3. \A i \in Jobs : pc[i] \in {"normalize", "create", "mark", "crashed"}
              => entry'[i] = entry[i] /\ pc'[i] = pc[i]
      BY <1>0, <1>1 DEF Saves
    <3>4. QED
      BY <3>1, <3>2, <3>3
  <2>3. QED
    BY <2>1, <2>2
<1>2. ASSUME NEW j \in Jobs, NEW s \in {"normalized", "failed"}, Marks(j, s) PROVE Accounted'
  <2>1. u # entry[j].url
    BY <1>2 DEF Marks
  <2>2. raw'[u] = raw[u]
    BY <1>2, <2>1 DEF Marks
  <2>3. Accounted
    BY <2>2 DEF FetchedIsAccountedFor
  <2>4. \A i \in Jobs : entry[i].url = u => i # j
    BY <2>1
  <2>5. QED
    BY <1>0, <1>2, <2>2, <2>3, <2>4 DEF Marks
<1>3. CASE Keeps
  <2>1. Accounted /\ UNCHANGED <<raw, entry>>
    BY <1>3 DEF Keeps, FetchedIsAccountedFor
  <2>2. ASSUME raw[u].target \in Resolved, NEW j \in Jobs, entry[j] # NoEntry, entry[j].url = u,
               pc[j] \in {"normalize", "create", "mark", "crashed"}
        PROVE  pc'[j] \in {"normalize", "create", "mark", "crashed"}
    BY <1>3, <2>2 DEF Keeps, Holding, HeldIsFetched
  <2>3. QED
    BY <2>1, <2>2
<1>4. Accounted'
  BY <1>1, <1>2, <1>3, StepKinds
<1>5. QED
  BY <1>4

(* Every step keeps the items of a job at different urls: an item is created *)
(* where the look-up of the same job found none.                             *)
LEMMA ItemStep ==
    TypeInv /\ CreatesItsFirst /\ DuplicatesNeedTwoJobs /\ [Next]_vars
        => CreatesItsFirst' /\ DuplicatesNeedTwoJobs'
<1> SUFFICES ASSUME TypeInv, CreatesItsFirst, DuplicatesNeedTwoJobs, [Next]_vars
             PROVE  CreatesItsFirst' /\ DuplicatesNeedTwoJobs'
  OBVIOUS
<1> USE DEF CreatesItsFirst, DuplicatesNeedTwoJobs
<1>0. pc \in [Jobs -> Places] /\ entry \in [Jobs -> EntryType \cup {NoEntry}]
  BY DEF TypeInv, TypeOK
<1>1. ASSUME items' = items, \A j \in Jobs : pc'[j] = "create" => pc[j] = "create" /\ entry'[j] = entry[j]
      PROVE  CreatesItsFirst' /\ DuplicatesNeedTwoJobs'
  BY <1>1
<1>2. ASSUME NEW j \in Jobs,
             \/ StartJob(j) \/ OpenAdapter(j) \/ AdapterNotImplemented(j) \/ LeaveFetched(j)
             \/ MarkFailed(j) \/ MarkNormalized(j) \/ FinishTarget(j) \/ Succeed(j) \/ Crash(j)
             \/ \E e \in feed[j] : SkipKnown(j, e) \/ SaveRaw(j, e) \/ EntryRefused(j, e)
             \/ \E t \in Targets : FetchFails(j, t) \/ \E f \in Feeds : Fetch(j, t, f)
      PROVE  CreatesItsFirst' /\ DuplicatesNeedTwoJobs'
  <2>1. items' = items
    BY <1>2 DEF StartJob, OpenAdapter, AdapterNotImplemented, LeaveFetched, MarkFailed, MarkNormalized,
       FinishTarget, Succeed, Crash, SkipKnown, SaveRaw, EntryRefused, FetchFails, Fetch
  <2>2. \A i \in Jobs : pc'[i] = "create" => pc[i] = "create" /\ entry'[i] = entry[i]
    BY <1>0, <1>2 DEF StartJob, OpenAdapter, AdapterNotImplemented, LeaveFetched, MarkFailed,
       MarkNormalized, FinishTarget, Succeed, Crash, SkipKnown, SaveRaw, EntryRefused,
       PlaceAfterOversized, FetchFails, Fetch, Goto
  <2>3. QED
    BY <1>1, <2>1, <2>2
<1>3. ASSUME NEW j \in Jobs, LookUpItem(j) PROVE CreatesItsFirst' /\ DuplicatesNeedTwoJobs'
  BY <1>0, <1>3 DEF LookUpItem, KnownItem, Goto
<1>4. ASSUME NEW j \in Jobs, CreateItem(j) PROVE CreatesItsFirst' /\ DuplicatesNeedTwoJobs'
  <2> DEFINE new == [url |-> Canon[entry[j].url], from |-> entry[j].url, by |-> j]
  <2>1. items' = items \cup {new} /\ entry' = entry /\ pc' = [pc EXCEPT ![j] = "mark"]
    BY <1>4 DEF CreateItem, Goto
  <2>2. new.by = j /\ new.url = Canon[entry[j].url]
    OBVIOUS
  <2>3. \A i \in items : i.by = j => i.url # new.url
    BY <1>4, <2>2 DEF CreateItem
  <2>4. DuplicatesNeedTwoJobs'
    BY <2>1, <2>2, <2>3
  <2>5. CreatesItsFirst'
    BY <1>0, <2>1, <2>2
  <2>6. QED
    BY <2>4, <2>5
<1>5. CASE UNCHANGED vars
  BY <1>1, <1>5 DEF vars
<1> HIDE DEF CreatesItsFirst, DuplicatesNeedTwoJobs
<1>6. QED
  BY <1>2, <1>3, <1>4, <1>5 DEF Next, JobStep, Terminated

(* Every step keeps the run of a job in agreement with its place, and is a   *)
(* step of the life cycle of a run or none.                                  *)
LEMMA RunStep == TypeInv /\ RunsMatchPlace /\ [Next]_vars => RunsMatchPlace' /\ [JobLifecycle!Next]_jobRun
<1> SUFFICES ASSUME TypeInv, RunsMatchPlace, [Next]_vars
             PROVE  RunsMatchPlace' /\ [JobLifecycle!Next]_jobRun
  OBVIOUS
<1> USE DEF RunsMatchPlace, Working, Goto, Close
<1>0. pc \in [Jobs -> Places] /\ jobRun \in [Jobs -> {"absent", "running", "success", "failed"}]
  BY DEF TypeInv, TypeOK
<1>1. ASSUME NEW j \in Jobs, StartJob(j) PROVE RunsMatchPlace' /\ JobLifecycle!Start(j)
  <2>1. \A i \in Jobs : i # j => result'[i] = result[i]
    BY <1>1 DEF StartJob, TypeInv, TypeOK
  <2>2. QED
    BY <1>0, <1>1, <2>1 DEF StartJob, JobLifecycle!Start, AllConcluded
<1>2. ASSUME NEW j \in Jobs, AdapterNotImplemented(j) \/ \E e \in feed[j] : EntryRefused(j, e)
      PROVE  RunsMatchPlace' /\ JobLifecycle!Fail(j)
  BY <1>0, <1>2 DEF AdapterNotImplemented, EntryRefused, PlaceAfterOversized, JobLifecycle!Fail,
     AllConcluded
<1>3. ASSUME NEW j \in Jobs, Succeed(j) PROVE RunsMatchPlace' /\ JobLifecycle!Succeed(j)
  BY <1>0, <1>3 DEF Succeed, JobLifecycle!Succeed, AllConcluded
<1>4. ASSUME NEW j \in Jobs,
             \/ OpenAdapter(j) \/ LeaveFetched(j) \/ MarkFailed(j) \/ LookUpItem(j) \/ CreateItem(j)
             \/ MarkNormalized(j) \/ FinishTarget(j) \/ Crash(j)
             \/ \E e \in feed[j] : SkipKnown(j, e) \/ SaveRaw(j, e)
             \/ \E t \in Targets : FetchFails(j, t) \/ \E f \in Feeds : Fetch(j, t, f)
      PROVE  RunsMatchPlace' /\ jobRun' = jobRun
  <2>1. jobRun' = jobRun
    BY <1>4 DEF OpenAdapter, LeaveFetched, MarkFailed, LookUpItem, CreateItem, MarkNormalized,
       FinishTarget, Crash, SkipKnown, SaveRaw, FetchFails, Fetch
  <2>2. Working(j) /\ pc'[j] \notin {"idle", "returned", "raised"} /\ \A i \in Jobs : i # j => pc'[i] = pc[i]
    BY <1>0, <1>4 DEF OpenAdapter, LeaveFetched, MarkFailed, LookUpItem, PlaceOfUnknown, CreateItem,
       MarkNormalized, FinishTarget, Crash, SkipKnown, SaveRaw, FetchFails, Fetch
  <2>3. \A i \in Jobs : i # j => result'[i] = result[i]
    BY <1>4 DEF OpenAdapter, LeaveFetched, MarkFailed, LookUpItem, CreateItem, MarkNormalized,
       FinishTarget, Concluded, Crash, SkipKnown, SaveRaw, FetchFails, Fetch, TypeInv, TypeOK
  <2>4. QED
    BY <1>0, <2>1, <2>2, <2>3 DEF Places, AllConcluded
<1>5. ASSUME UNCHANGED vars PROVE RunsMatchPlace' /\ jobRun' = jobRun
  BY <1>5 DEF vars, AllConcluded
<1> HIDE DEF RunsMatchPlace
<1>6. QED
  BY <1>1, <1>2, <1>3, <1>4, <1>5 DEF Next, JobStep, Terminated, JobLifecycle!Next

(* The inductive invariant holds in every state.                             *)
LEMMA SpecIInv == Spec => []IInv
<1>1. Init => IInv
  BY InitIInv
<1>2. IInv /\ [Next]_vars => IInv'
  BY TypeStep, HeldStep, AccountStep, ItemStep, RunStep DEF IInv
<1>3. QED
  BY <1>1, <1>2, PTL DEF Spec

-----------------------------------------------------------------------------
(* Every reachable state of the news collection is of the right type.        *)
THEOREM TypeCorrect == Spec => []TypeOK
<1>1. IInv => TypeOK
  BY DEF IInv, TypeInv
<1>2. QED
  BY SpecIInv, <1>1, PTL

(* No article is lost between being saved and being normalized, whatever the *)
(* jobs that run beside each other and wherever they die.                    *)
THEOREM NoEventIsLost == Spec => []FetchedIsAccountedFor
<1>1. IInv => FetchedIsAccountedFor
  BY DEF IInv
<1>2. QED
  BY SpecIInv, <1>1, PTL

(* One job alone never creates two items at one url.                         *)
THEOREM OneJobMakesNoDuplicates == Spec => []DuplicatesNeedTwoJobs
<1>1. IInv => DuplicatesNeedTwoJobs
  BY DEF IInv
<1>2. QED
  BY SpecIInv, <1>1, PTL

(* No step takes an event from its target or back from where it got: only    *)
(* the one job that holds it moves it on.                                    *)
THEOREM NoEventGoesBack == Spec => EventsOnlyAdvance
<1>1. ASSUME IInv, [Next]_vars, NEW u \in Urls, raw[u] # NoEvent
      PROVE  /\ raw'[u] # NoEvent
             /\ raw'[u].target = raw[u].target /\ raw'[u].kind = raw[u].kind
             /\ raw[u].status # "fetched" => raw'[u].status = raw[u].status
  <2>1. ASSUME NEW j \in Jobs, NEW e \in EntryType, Saves(j, e) PROVE raw'[u] = raw[u]
    BY <1>1, <2>1 DEF Saves
  <2>2. ASSUME NEW j \in Jobs, NEW s \in {"normalized", "failed"}, Marks(j, s)
        PROVE  \/ raw'[u] = raw[u]
               \/ /\ raw'[u] # NoEvent /\ raw[u].status = "fetched"
                  /\ raw'[u].target = raw[u].target /\ raw'[u].kind = raw[u].kind
    BY <1>1, <2>2 DEF Marks, IInv, HeldIsFetched
  <2>3. CASE Keeps
    BY <1>1, <2>3 DEF Keeps
  <2>4. QED
    BY <1>1, <2>1, <2>2, <2>3, StepKinds DEF IInv
<1>2. IInv /\ [Next]_vars
        => [\A u \in Urls : raw[u] # NoEvent =>
              /\ raw'[u] # NoEvent
              /\ raw'[u].target = raw[u].target /\ raw'[u].kind = raw[u].kind
              /\ raw[u].status # "fetched" => raw'[u].status = raw[u].status]_vars
  BY <1>1
<1>3. QED
  BY SpecIInv, <1>2, PTL DEF Spec, EventsOnlyAdvance

(* The run of a job is opened once and closed at most once.                  *)
THEOREM RunsFollowLifecycle == Spec => JobLifecycle!Spec
<1>1. Init => JobLifecycle!Init
  BY DEF Init, JobLifecycle!Init
<1>2. IInv /\ [Next]_vars => [JobLifecycle!Next]_jobRun
  BY RunStep DEF IInv
<1>3. QED
  BY SpecIInv, <1>1, <1>2, PTL DEF Spec, JobLifecycle!Spec

(* A job that returned or raised has closed its run: only a job that works,  *)
(* or died, leaves one open.  A successful run has concluded every target.   *)
THEOREM EndedRunsAreClosed ==
    Spec => [](\A j \in Jobs : /\ JobEnded(j) => jobRun[j] # "running"
                              /\ jobRun[j] = "success" => AllConcluded(j))
<1>1. IInv => \A j \in Jobs : /\ JobEnded(j) => jobRun[j] # "running"
                             /\ jobRun[j] = "success" => AllConcluded(j)
  BY DEF IInv, TypeInv, TypeOK, RunsMatchPlace, JobEnded, Working, Places
<1>2. QED
  BY SpecIInv, <1>1, PTL

-----------------------------------------------------------------------------
(* When a url is created twice after all: what the look-up and the insert    *)
(* would have to be, and what is enough today.                               *)

\* At most one job is between the look-up and the insert of a canonical url.
CreatesAlone ==
    \A i, j \in Jobs :
        pc[i] = "create" /\ pc[j] = "create" /\ Canon[entry[i].url] = Canon[entry[j].url] => i = j

\* Then nobody has created an item where a job is about to.
CreatesTheFirst == \A j \in Jobs, i \in items : pc[j] = "create" => i.url # Canon[entry[j].url]

(* A step keeps the urls apart, if the job that creates is alone at its url. *)
LEMMA CreatesAloneStep ==
    TypeInv /\ CreatesAlone /\ CreatesTheFirst /\ UrlsAreUnique /\ [Next]_vars
        => CreatesTheFirst' /\ UrlsAreUnique'
<1> SUFFICES ASSUME TypeInv, CreatesAlone, CreatesTheFirst, UrlsAreUnique, [Next]_vars
             PROVE  CreatesTheFirst' /\ UrlsAreUnique'
  OBVIOUS
<1> USE DEF CreatesTheFirst, UrlsAreUnique
<1>0. pc \in [Jobs -> Places] /\ entry \in [Jobs -> EntryType \cup {NoEntry}]
  BY DEF TypeInv, TypeOK
<1>1. ASSUME items' = items, \A j \in Jobs : pc'[j] = "create" => pc[j] = "create" /\ entry'[j] = entry[j]
      PROVE  CreatesTheFirst' /\ UrlsAreUnique'
  BY <1>1
<1>2. CASE \E j \in Jobs : LookUpItem(j)
  BY <1>0, <1>2 DEF LookUpItem, KnownItem, Goto
<1>3. ASSUME NEW j \in Jobs, CreateItem(j) PROVE CreatesTheFirst' /\ UrlsAreUnique'
  <2> DEFINE new == [url |-> Canon[entry[j].url], from |-> entry[j].url, by |-> j]
  <2>1. items' = items \cup {new} /\ entry' = entry /\ pc' = [pc EXCEPT ![j] = "mark"]
    BY <1>3 DEF CreateItem, Goto
  <2>2. new.url = Canon[entry[j].url] /\ pc[j] = "create"
    BY <1>3 DEF CreateItem
  <2>3. UrlsAreUnique'
    BY <2>1, <2>2
  <2>4. \A i \in Jobs : pc'[i] = "create" => i # j /\ pc[i] = "create"
    BY <1>0, <2>1
  <2>5. \A i \in Jobs : pc'[i] = "create" => new.url # Canon[entry[i].url]
    BY <2>2, <2>4 DEF CreatesAlone
  <2>6. CreatesTheFirst'
    BY <2>1, <2>4, <2>5
  <2>7. QED
    BY <2>3, <2>6
<1>4. ASSUME NEW j \in Jobs,
             \/ StartJob(j) \/ OpenAdapter(j) \/ AdapterNotImplemented(j) \/ LeaveFetched(j)
             \/ MarkFailed(j) \/ MarkNormalized(j) \/ FinishTarget(j) \/ Succeed(j) \/ Crash(j)
             \/ \E e \in feed[j] : SkipKnown(j, e) \/ SaveRaw(j, e) \/ EntryRefused(j, e)
             \/ \E t \in Targets : FetchFails(j, t) \/ \E f \in Feeds : Fetch(j, t, f)
      PROVE  CreatesTheFirst' /\ UrlsAreUnique'
  <2>1. items' = items
    BY <1>4 DEF StartJob, OpenAdapter, AdapterNotImplemented, LeaveFetched, MarkFailed, MarkNormalized,
       FinishTarget, Succeed, Crash, SkipKnown, SaveRaw, EntryRefused, FetchFails, Fetch
  <2>2. \A i \in Jobs : pc'[i] = "create" => pc[i] = "create" /\ entry'[i] = entry[i]
    BY <1>0, <1>4 DEF StartJob, OpenAdapter, AdapterNotImplemented, LeaveFetched, MarkFailed,
       MarkNormalized, FinishTarget, Succeed, Crash, SkipKnown, SaveRaw, EntryRefused,
       PlaceAfterOversized, FetchFails, Fetch, Goto
  <2>3. QED
    BY <1>1, <2>1, <2>2
<1>5. CASE UNCHANGED vars
  BY <1>1, <1>5 DEF vars
<1> HIDE DEF CreatesTheFirst, UrlsAreUnique
<1>6. QED
  BY <1>2, <1>3, <1>4, <1>5 DEF Next, JobStep, Terminated

(* If no two jobs are between the look-up and the insert of one canonical    *)
(* url at a time, no url gets two items: that race is the only way to what   *)
(* the run NewsDuplicates shows.                                             *)
THEOREM DuplicatesNeedARace == Spec /\ []CreatesAlone => []UrlsAreUnique
<1>1. Init => CreatesTheFirst /\ UrlsAreUnique
  BY DEF Init, CreatesTheFirst, UrlsAreUnique
<1>2. IInv => TypeInv
  BY DEF IInv
<1>3. QED
  BY SpecIInv, CreatesAloneStep, <1>1, <1>2, PTL DEF Spec

\* At most one job is under way.
OneWorks == \A i, j \in Jobs : Working(i) /\ Working(j) => i = j

(* A job that is not at work is moved by its start only.                     *)
LEMMA OnlyWorkingMoves ==
    ASSUME NEW i \in Jobs, JobStep(i) \/ Crash(i)
    PROVE  Working(i) /\ (pc' = pc \/ \E place : Goto(i, place))
<1>1. CASE OpenAdapter(i) \/ AdapterNotImplemented(i)
  BY <1>1 DEF OpenAdapter, AdapterNotImplemented, Goto, Working
<1>2. CASE FinishTarget(i) \/ Succeed(i)
  BY <1>2 DEF FinishTarget, Succeed, Goto, Working
<1>3. CASE \E t \in Targets : FetchFails(i, t)
  BY <1>3 DEF FetchFails, Working
<1>4. CASE \E t \in Targets, f \in Feeds : Fetch(i, t, f)
  BY <1>4 DEF Fetch, Goto, Working
<1>5. ASSUME NEW e \in feed[i], SkipKnown(i, e) \/ SaveRaw(i, e) \/ EntryRefused(i, e)
      PROVE  Working(i) /\ (pc' = pc \/ \E place : Goto(i, place))
  BY <1>5 DEF SkipKnown, SaveRaw, EntryRefused, Goto, Working
<1>6. CASE LeaveFetched(i) \/ MarkFailed(i) \/ LookUpItem(i) \/ CreateItem(i) \/ MarkNormalized(i)
  BY <1>6 DEF LeaveFetched, MarkFailed, LookUpItem, CreateItem, MarkNormalized, Goto, Working
<1>7. CASE Crash(i)
  BY <1>7 DEF Crash, Goto
<1>8. QED
  BY <1>1, <1>2, <1>3, <1>4, <1>5, <1>6, <1>7 DEF JobStep

(* One worker runs one job at a time.                                        *)
LEMMA OneWorkerStep ==
    ASSUME Workers = 1, IsFiniteSet(Jobs)
    PROVE  TypeInv /\ OneWorks /\ [Next]_vars => OneWorks'
<1> SUFFICES ASSUME TypeInv, OneWorks, [Next]_vars PROVE OneWorks'
  OBVIOUS
<1>0. pc \in [Jobs -> Places]
  BY DEF TypeInv, TypeOK
<1>1. ASSUME NEW j \in Jobs, StartJob(j) PROVE OneWorks'
  <2> DEFINE W == {i \in Jobs : Working(i)}
  <2>1. IsFiniteSet(W) /\ Cardinality(W) < 1
    BY <1>1, FS_Subset DEF StartJob
  <2>2. W = {}
    <3> HIDE DEF W
    <3>1. QED
      BY <2>1, FS_CardinalityType, FS_EmptySet
  <2>3. \A i \in Jobs : Working(i)' => i = j
    BY <1>0, <1>1, <2>2 DEF StartJob, Goto, Working
  <2>4. QED
    BY <2>3 DEF OneWorks
<1>2. CASE ~(\E j \in Jobs : StartJob(j))
  <2>1. ASSUME NEW i \in Jobs, JobStep(i) \/ Crash(i)
        PROVE  \A j \in Jobs : Working(j)' => Working(j)
    <3>1. Working(i) /\ (pc' = pc \/ \E place : Goto(i, place))
      BY <2>1, OnlyWorkingMoves
    <3>2. \A j \in Jobs : j # i => pc'[j] = pc[j]
      BY <1>0, <3>1 DEF Goto
    <3>3. QED
      BY <3>1, <3>2 DEF Working
  <2>2. ASSUME pc' = pc PROVE \A j \in Jobs : Working(j)' => Working(j)
    BY <2>2 DEF Working
  <2>3. \A j \in Jobs : Working(j)' => Working(j)
    BY <1>2, <2>1, <2>2 DEF Next, Terminated, vars
  <2>4. QED
    BY <2>3 DEF OneWorks
<1>3. QED
  BY <1>1, <1>2

(* With one RQ worker process docs/designs/069 is right: no url gets two     *)
(* items, however many jobs are enqueued and wherever they die.              *)
THEOREM OneWorkerMakesNoDuplicates ==
    ASSUME Workers = 1, IsFiniteSet(Jobs)
    PROVE  Spec => []UrlsAreUnique
<1>1. Init => OneWorks
  BY DEF Init, OneWorks, Working
<1>2. IInv => TypeInv
  BY DEF IInv
<1>3. OneWorks => CreatesAlone
  BY DEF OneWorks, CreatesAlone, Working
<1>4. QED
  BY SpecIInv, OneWorkerStep, DuplicatesNeedARace, <1>1, <1>2, <1>3, PTL DEF Spec
=============================================================================
