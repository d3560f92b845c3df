----------------------- MODULE WatchlistAnalysisProofs -----------------------
(***************************************************************************)
(* The safety properties of WatchlistAnalysis for any number of jobs,      *)
(* workers, users and assets, and any feeds.                               *)
(***************************************************************************)
EXTENDS WatchlistAnalysis, TLAPS

JobLifecycle == INSTANCE JobRunLifecycle WITH Runs <- Jobs, status <- jobRun

\* Where a job has an asset, has an item it looked up, is analysing an item.
AtItem(j) == pc[j] \in {"summarize", "conflict", "report", "rules", "alert"}
AtAsset(j) == AtItem(j) \/ pc[j] \in {"archive", "lookup", "create", "next"}

\* The item is one the job creates or created for the asset it is at.
Own(j, i) == i \in ItemType /\ i.by = j /\ i.asset = asset[j]

(* A job that walks its watchlist has a user, and at an asset one still due. *)
WalkIsKnown ==
    \A j \in Jobs :
        /\ AtAsset(j) \/ pc[j] = "assets" => user[j] \in Users
        /\ AtAsset(j) => asset[j] \in Assets /\ result[j][asset[j]] = "todo"

(* A job handles only items it created itself, for the asset it is at.       *)
ItemsAreOwn ==
    \A j \in Jobs :
        /\ pc[j] = "create" => Own(j, item[j])
        /\ AtItem(j) => Own(j, item[j]) /\ item[j] \in items
        /\ AtAsset(j) => \A i \in fresh[j] : Own(j, i) /\ i \in items

(* What a job has still to look up is archived, as is what it will create.   *)
FeedIsArchived ==
    \A j \in Jobs :
        /\ pc[j] = "archive" => Feed[asset[j]] \subseteq urls[j] \cup raw
        /\ pc[j] \in {"lookup", "create"} => urls[j] \subseteq raw
        /\ pc[j] = "create" => item[j].url \in raw

(* A job has created items for no asset that is still due but the one it is  *)
(* at, and there each of them waits, is being analysed or has its report.    *)
ItemsAreOnTheWay ==
    \A i \in items :
        LET j == i.by IN
            /\ pc[j] \notin {"idle", "watchlist"}
            /\ result[j][i.asset] = "todo" /\ pc[j] # "crashed" => AtAsset(j) /\ i.asset = asset[j]
            /\ AtAsset(j) /\ i.asset = asset[j]
                 => \/ i \in fresh[j] \/ i \in reports
                    \/ pc[j] \in {"summarize", "conflict", "report"} /\ i = item[j]

(* While the engine and the alerts are at an item, a signal of it is among   *)
(* those to announce or was announced.                                       *)
SignalsAreQueued ==
    /\ \A s \in signals : s.item \in items
    /\ \A j \in Jobs, s \in signals :
         pc[j] \in {"rules", "alert"} /\ s.item = item[j]
            => \/ \E k \in 1 .. Len(created[j]) : created[j][k] = s
               \/ AlertOf(j, s) \in alerts

\* A job has no watchlist yet.
NothingTried(j) ==
    /\ asset[j] = NoAsset /\ partial[j] = {}
    /\ \A a \in Assets : result[j][a] = "unwatched"

(* The run of a job is open while it works and when it died; it succeeds     *)
(* with every asset tried and every failure on record, and fails before it   *)
(* has a watchlist or at an item that is gone.                               *)
RunsMatchPlace ==
    \A j \in Jobs :
        /\ pc[j] = "idle" => jobRun[j] = "absent"
        /\ Working(j) \/ pc[j] = "crashed" => jobRun[j] = "running"
        /\ pc[j] \in {"idle", "watchlist"} => NothingTried(j)
        /\ pc[j] = "returned" => jobRun[j] = "success" /\ Left(j) = {} /\ partial[j] = FailedAssets(j)
        /\ pc[j] = "raised" => /\ jobRun[j] = "failed"
                               /\ NothingTried(j) \/ (Expired(j) /\ Left(j) \cap removed[j] # {})

(* Reports and conflicts are of items with a summary, signals of items with  *)
(* a report; and what the rules of a job created is a signal.                *)
StagesFollow ==
    /\ reports \cup conflicts \subseteq summarized
    /\ \A j \in Jobs :
         /\ pc[j] \in {"conflict", "report", "rules", "alert"} => item[j] \in summarized
         /\ pc[j] \in {"rules", "alert"} => item[j] \in reports
         /\ \A k \in 1 .. Len(created[j]) : created[j][k] \in signals /\ created[j][k].item.by = j
    /\ \A s \in signals : s.item \in reports

(* An alert tells the owner of the run's watchlist of a signal.              *)
AlertsTell ==
    \A a \in alerts : /\ a.item \in items /\ a.user = user[a.item.by]
                      /\ \E s \in signals : s.item = a.item /\ s.type = a.type

(* A run only creates items for the assets of its watchlist.                 *)
ItemsAreWatched == \A i \in items : result[i.by][i.asset] # "unwatched"

OrderInv == StagesFollow /\ AlertsTell /\ ItemsAreWatched

TypeInv == TypeOK /\ WalkIsKnown /\ ItemsAreOwn

IInv == /\ TypeInv /\ FeedIsArchived /\ ItemsAreOnTheWay /\ SignalsAreQueued /\ RunsMatchPlace
        /\ ItemsAreArchived /\ ProcessedIsReported /\ SignalsAreAlerted /\ OneSignalPerCause
        /\ OrderInv

-----------------------------------------------------------------------------
(* What the rules propose is a sequence of candidates.                       *)
LEMMA CandidateTypes ==
    ASSUME NEW v \in Verdicts, NEW level \in Impacts
    PROVE  ThesisCandidates(v) \o ImpactCandidates(level) \in Seq(CandidateType)
<1>1. /\ [type |-> "THESIS_BROKEN", rule |-> "thesis"] \in CandidateType
      /\ [type |-> "RISK_ALERT", rule |-> "thesis"] \in CandidateType
      /\ [type |-> "RISK_ALERT", rule |-> "impact"] \in CandidateType
  BY DEF CandidateType, SignalTypes, Rules
<1>2. ThesisCandidates(v) \in Seq(CandidateType)
  BY <1>1 DEF ThesisCandidates, Verdicts
<1>3. ImpactCandidates(level) \in Seq(CandidateType)
  BY <1>1 DEF ImpactCandidates, Impacts
<1>4. QED
  BY <1>2, <1>3

(* A signal of a job is about the item the job is at.                        *)
LEMMA SignalTypesOf ==
    ASSUME NEW j \in Jobs, item[j] \in ItemType, NEW c \in CandidateType
    PROVE  /\ SignalOf(j, c) \in SignalType
           /\ SignalOf(j, c).item = item[j] /\ SignalOf(j, c).type = c.type
BY DEF SignalOf, SignalType, CandidateType

(* The head and the tail of a sequence that is not empty.                    *)
LEMMA HeadAndTail ==
    ASSUME NEW S, NEW q \in Seq(S), q # <<>>
    PROVE  /\ Head(q) \in S /\ Tail(q) \in Seq(S) /\ Head(q) = q[1]
           /\ \A k \in 1 .. Len(q) : k = 1 \/ (k - 1 \in 1 .. Len(Tail(q)) /\ Tail(q)[k - 1] = q[k])
OBVIOUS

(* Recording how an asset went keeps the table of results a table.           *)
LEMMA ResultTypes ==
    ASSUME result \in [Jobs -> [Assets -> {"unwatched", "todo", "processed", "failed"}]],
           NEW j \in Jobs, NEW a \in Assets, NEW o \in {"processed", "failed"}
    PROVE  /\ [result EXCEPT ![j][a] = o]
                \in [Jobs -> [Assets -> {"unwatched", "todo", "processed", "failed"}]]
           /\ [result EXCEPT ![j][a] = o][j][a] = o
           /\ \A i \in Jobs, b \in Assets :
                i # j \/ b # a => [result EXCEPT ![j][a] = o][i][b] = result[i][b]
<1>1. [result[j] EXCEPT ![a] = o] \in [Assets -> {"unwatched", "todo", "processed", "failed"}]
  OBVIOUS
<1>2. QED
  BY <1>1

(* The removal of an item changes nothing but what is removed.               *)
LEMMA RemovalsLeaveTheRest ==
    ASSUME NEW j \in Jobs, NEW a \in Assets, RemoveItem(j, a)
    PROVE  /\ UNCHANGED <<jobRun, partial, pc, user, result, asset, urls, fresh, raw, items, item, thesis,
                          impact, verdict, candidates, created, summarized, conflicts, reports,
                          signals, alerts>>
           /\ removed' = [removed EXCEPT ![j] = @ \cup {a}]
           /\ pc[j] \notin {"idle", "returned", "raised", "crashed"}
BY DEF RemoveItem, Working, jobVars, feedVars, analysisVars, tables

(* It preserves the type invariant.                                          *)
LEMMA RemovalStep ==
    ASSUME TypeInv, NEW j \in Jobs, NEW a \in Assets, RemoveItem(j, a)
    PROVE  TypeInv'
<1>1. removed' \in [Jobs -> SUBSET Assets]
  <2>1. removed \in [Jobs -> SUBSET Assets] /\ removed' = [removed EXCEPT ![j] = @ \cup {a}]
    BY RemovalsLeaveTheRest DEF TypeInv, TypeOK
  <2>2. QED
    BY <2>1
<1>2. TypeOK'
  BY <1>1, RemovalsLeaveTheRest DEF TypeInv, TypeOK
<1>3. WalkIsKnown' /\ ItemsAreOwn'
  BY RemovalsLeaveTheRest DEF TypeInv, WalkIsKnown, ItemsAreOwn, AtItem, AtAsset, Own
<1>4. QED
  BY <1>2, <1>3 DEF TypeInv

(* Initially nothing was analysed.                                           *)
LEMMA InitIInv == Init => IInv
<1> SUFFICES ASSUME Init PROVE IInv
  OBVIOUS
<1> USE DEF Init
<1>1. TypeInv
  <2>1. <<>> \in Seq(CandidateType) /\ <<>> \in Seq(SignalType)
    OBVIOUS
  <2>2. QED
    BY <2>1 DEF TypeInv, TypeOK, WalkIsKnown, ItemsAreOwn, AtItem, AtAsset, Places, Impacts, Verdicts
<1>2. FeedIsArchived /\ ItemsAreOnTheWay /\ SignalsAreQueued /\ RunsMatchPlace
  BY DEF FeedIsArchived, ItemsAreOnTheWay, SignalsAreQueued, RunsMatchPlace, NothingTried, Working
<1>3. ItemsAreArchived /\ ProcessedIsReported /\ SignalsAreAlerted /\ OneSignalPerCause
  BY DEF ItemsAreArchived, ProcessedIsReported, SignalsAreAlerted, OneSignalPerCause
<1>4. OrderInv
  BY DEF OrderInv, StagesFollow, AlertsTell, ItemsAreWatched
<1>5. QED
  BY <1>1, <1>2, <1>3, <1>4 DEF IInv

-----------------------------------------------------------------------------
(* Every step preserves the type invariant.                                  *)
LEMMA TypeStep == TypeInv /\ [Next]_vars => TypeInv'
<1> SUFFICES ASSUME TypeInv, [Next]_vars PROVE TypeInv'
  OBVIOUS
<1> USE DEF TypeInv, TypeOK, WalkIsKnown, ItemsAreOwn, AtItem, AtAsset, Own, Places, Goto, Close,
        jobVars, placeVars, feedVars, analysisVars, tables
<1>1. ASSUME NEW j \in Jobs, StartJob(j) \/ JobFails(j) \/ \E a \in Assets : ItemGone(j, a)
      PROVE  TypeInv'
  <2>1. CASE StartJob(j)
    BY <2>1 DEF StartJob
  <2>2. CASE JobFails(j)
    BY <2>2 DEF JobFails
  <2>3. CASE \E a \in Assets : ItemGone(j, a)
    BY <2>3 DEF ItemGone
  <2>4. QED
    BY <1>1, <2>1, <2>2, <2>3
<1>2. ASSUME NEW j \in Jobs, OpenWatchlist(j) PROVE TypeInv'
  <2>1. PICK u \in Users : user' = [user EXCEPT ![j] = u]
    BY <1>2 DEF OpenWatchlist
  <2>2. /\ result' \in [Jobs -> [Assets -> {"unwatched", "todo", "processed", "failed"}]]
        /\ \A i \in Jobs : i # j => result'[i] = result[i]
    BY <1>2 DEF OpenWatchlist
  <2>3. QED
    BY <1>2, <2>1, <2>2 DEF OpenWatchlist
<1>3. ASSUME NEW j \in Jobs, NEW a \in Assets, NextAsset(j, a) PROVE TypeInv'
  BY <1>3, FeedType DEF NextAsset
<1>4. ASSUME NEW j \in Jobs, NEW a \in Assets, AssetSkipped(j, a) PROVE TypeInv'
  BY <1>4, ResultTypes DEF AssetSkipped, Failed
<1>5. ASSUME NEW j \in Jobs, AssetFails(j) PROVE TypeInv'
  BY <1>5, ResultTypes DEF AssetFails, Failed, AfterFailure
<1>6. ASSUME NEW j \in Jobs, NEW u \in urls[j], SaveRaw(j, u) \/ SkipKnown(j, u) PROVE TypeInv'
  <2>1. CASE SaveRaw(j, u)
    BY <2>1 DEF SaveRaw, Archive
  <2>2. CASE SkipKnown(j, u)
    BY <2>2 DEF SkipKnown
  <2>3. QED
    BY <1>6, <2>1, <2>2
<1>7. ASSUME NEW j \in Jobs, Archived(j) PROVE TypeInv'
  BY <1>7, FeedType DEF Archived
<1>8. ASSUME NEW j \in Jobs, NEW u \in urls[j], LookUpNew(j, u) PROVE TypeInv'
  BY <1>8 DEF LookUpNew, ItemType
<1>9. ASSUME NEW j \in Jobs, CreateItem(j) PROVE TypeInv'
  BY <1>9 DEF CreateItem
<1>10. ASSUME NEW j \in Jobs, ReadThesis(j) PROVE TypeInv'
  BY <1>10 DEF ReadThesis
<1>11. ASSUME NEW j \in Jobs, NEW i \in fresh[j], NextItem(j, i) PROVE TypeInv'
  BY <1>11 DEF NextItem
<1>12. ASSUME NEW j \in Jobs, NEW level \in Impacts, Summarize(j, level) PROVE TypeInv'
  BY <1>12 DEF Summarize, AfterSummary, Verdicts
<1>13. ASSUME NEW j \in Jobs, NEW v \in Verdicts, AnalyzeConflict(j, v) PROVE TypeInv'
  BY <1>13 DEF AnalyzeConflict
<1>14. ASSUME NEW j \in Jobs, CreateReport(j) PROVE TypeInv'
  BY <1>14, CandidateTypes DEF CreateReport
<1>15. ASSUME NEW j \in Jobs, DropCandidate(j) PROVE TypeInv'
  BY <1>15, HeadAndTail DEF DropCandidate
<1>16. ASSUME NEW j \in Jobs, CreateSignal(j) PROVE TypeInv'
  <2>1. Head(candidates[j]) \in CandidateType /\ Tail(candidates[j]) \in Seq(CandidateType)
    BY <1>16, HeadAndTail DEF CreateSignal
  <2>2. SignalOf(j, Head(candidates[j])) \in SignalType
    BY <1>16, <2>1, SignalTypesOf DEF CreateSignal
  <2>3. QED
    BY <1>16, <2>1, <2>2 DEF CreateSignal
<1>17. ASSUME NEW j \in Jobs, EngineDone(j) \/ ItemDone(j) PROVE TypeInv'
  <2>1. CASE EngineDone(j)
    BY <2>1 DEF EngineDone
  <2>2. CASE ItemDone(j)
    BY <2>2 DEF ItemDone
  <2>3. QED
    BY <1>17, <2>1, <2>2
<1>18. ASSUME NEW j \in Jobs, CreateAlert(j) PROVE TypeInv'
  <2>1. Head(created[j]) \in SignalType /\ Tail(created[j]) \in Seq(SignalType)
    BY <1>18, HeadAndTail DEF CreateAlert
  <2>2. AlertOf(j, Head(created[j])) \in AlertType
    BY <1>18, <2>1 DEF CreateAlert, AlertOf, AlertType, SignalType
  <2>3. QED
    BY <1>18, <2>1, <2>2 DEF CreateAlert
<1>19. ASSUME NEW j \in Jobs, AssetDone(j) PROVE TypeInv'
  BY <1>19, ResultTypes DEF AssetDone, Processed
<1>20. ASSUME NEW j \in Jobs, Succeed(j) PROVE TypeInv'
  BY <1>20 DEF Succeed, Recorded, FailedAssets
<1>21. ASSUME NEW j \in Jobs, Crash(j) PROVE TypeInv'
  BY <1>21 DEF Crash
<1>22. CASE UNCHANGED vars
  BY <1>22 DEF vars
<1>23. ASSUME NEW j \in Jobs, NEW a \in Assets, RemoveItem(j, a) PROVE TypeInv'
  BY <1>23, RemovalStep
<1> HIDE DEF TypeInv
<1>24. QED
  BY <1>1, <1>2, <1>3, <1>4, <1>5, <1>6, <1>7, <1>8, <1>9, <1>10, <1>11, <1>12, <1>13, <1>14, <1>15,
     <1>16, <1>17, <1>18, <1>19, <1>20, <1>21, <1>22, <1>23 DEF Next, JobStep, Terminated

(* Every step keeps the archive ahead of the items.                          *)
LEMMA ArchiveStep ==
    TypeInv /\ FeedIsArchived /\ ItemsAreArchived /\ [Next]_vars => FeedIsArchived' /\ ItemsAreArchived'
<1> SUFFICES ASSUME TypeInv, FeedIsArchived, ItemsAreArchived, [Next]_vars
             PROVE  FeedIsArchived' /\ ItemsAreArchived'
  OBVIOUS
<1> USE DEF FeedIsArchived, ItemsAreArchived, Goto, placeVars, feedVars, analysisVars, tables
<1>0. /\ pc \in [Jobs -> Places] /\ asset \in [Jobs -> Assets \cup {NoAsset}]
      /\ urls \in [Jobs -> SUBSET Urls] /\ item \in [Jobs -> ItemType \cup {NoItem}]
  BY DEF TypeInv, TypeOK
<1>1. ASSUME UNCHANGED <<raw, items>>,
             \A j \in Jobs : pc'[j] \in {"archive", "lookup", "create"}
               => pc'[j] = pc[j] /\ urls'[j] = urls[j] /\ asset'[j] = asset[j] /\ item'[j] = item[j]
      PROVE  FeedIsArchived' /\ ItemsAreArchived'
  BY <1>1
<1>2. ASSUME NEW j \in Jobs,
             \/ StartJob(j) \/ OpenWatchlist(j) \/ JobFails(j) \/ AssetFails(j) \/ ReadThesis(j)
             \/ \E a \in Assets : AssetSkipped(j, a) \/ ItemGone(j, a)
             \/ \E i \in fresh[j] : NextItem(j, i)
             \/ \E level \in Impacts : Summarize(j, level)
             \/ \E v \in Verdicts : AnalyzeConflict(j, v)
             \/ CreateReport(j) \/ DropCandidate(j) \/ CreateSignal(j) \/ EngineDone(j)
             \/ CreateAlert(j) \/ ItemDone(j) \/ AssetDone(j) \/ Succeed(j) \/ Crash(j)
      PROVE  FeedIsArchived' /\ ItemsAreArchived'
  <2>1. UNCHANGED <<raw, items>>
    BY <1>2 DEF StartJob, OpenWatchlist, JobFails, AssetFails, ReadThesis, AssetSkipped, NextItem,
       Summarize, AnalyzeConflict, CreateReport, DropCandidate, CreateSignal, EngineDone, CreateAlert,
       ItemDone, AssetDone, Succeed, Crash, ItemGone
  <2>2. UNCHANGED <<urls, asset>> /\ \A i \in Jobs : i # j => pc'[i] = pc[i] /\ item'[i] = item[i]
    BY <1>0, <1>2 DEF StartJob, OpenWatchlist, JobFails, AssetFails, AfterFailure, ReadThesis,
       AssetSkipped, NextItem, Summarize, AnalyzeConflict, CreateReport, DropCandidate, CreateSignal,
       EngineDone, CreateAlert, ItemDone, AssetDone, Succeed, Crash,
       ItemGone
  <2>3. pc'[j] \notin {"archive", "lookup", "create"}
    BY <1>0, <1>2 DEF StartJob, OpenWatchlist, JobFails, AssetFails, AfterFailure, ReadThesis,
       AssetSkipped, NextItem, Summarize, AfterSummary, AnalyzeConflict, CreateReport, DropCandidate,
       CreateSignal, EngineDone, CreateAlert, ItemDone, AssetDone, Succeed, Crash, ItemGone
  <2>4. QED
    BY <1>1, <2>1, <2>2, <2>3
<1>3. ASSUME NEW j \in Jobs, NEW a \in Assets, NextAsset(j, a)
      PROVE  FeedIsArchived' /\ ItemsAreArchived'
  BY <1>0, <1>3, FeedType DEF NextAsset
<1>4. ASSUME NEW j \in Jobs, NEW u \in urls[j], SaveRaw(j, u)
      PROVE  FeedIsArchived' /\ ItemsAreArchived'
  BY <1>0, <1>4 DEF SaveRaw, Archive
<1>5. ASSUME NEW j \in Jobs, Archived(j) PROVE FeedIsArchived' /\ ItemsAreArchived'
  BY <1>0, <1>5 DEF Archived
<1>6. ASSUME NEW j \in Jobs, NEW u \in urls[j], SkipKnown(j, u)
      PROVE  FeedIsArchived' /\ ItemsAreArchived'
  BY <1>0, <1>6 DEF SkipKnown
<1>7. ASSUME NEW j \in Jobs, NEW u \in urls[j], LookUpNew(j, u)
      PROVE  FeedIsArchived' /\ ItemsAreArchived'
  BY <1>0, <1>7 DEF LookUpNew
<1>8. ASSUME NEW j \in Jobs, CreateItem(j) PROVE FeedIsArchived' /\ ItemsAreArchived'
  BY <1>0, <1>8 DEF CreateItem
<1>9. CASE UNCHANGED vars \/ \E j \in Jobs, a \in Assets : RemoveItem(j, a)
  <2>1. UNCHANGED <<raw, items, pc, urls, asset, item>>
    BY <1>9, RemovalsLeaveTheRest DEF vars
  <2>2. QED
    BY <1>1, <2>1
<1> HIDE DEF FeedIsArchived, ItemsAreArchived
<1>10. QED
  BY <1>2, <1>3, <1>4, <1>5, <1>6, <1>7, <1>8, <1>9 DEF Next, JobStep, Terminated

(* What ItemsAreOnTheWay says of one item.                                   *)
OnTheWay(i) ==
    LET j == i.by IN
        /\ pc[j] \notin {"idle", "watchlist"}
        /\ result[j][i.asset] = "todo" /\ pc[j] # "crashed" => AtAsset(j) /\ i.asset = asset[j]
        /\ AtAsset(j) /\ i.asset = asset[j]
             => \/ i \in fresh[j] \/ i \in reports
                \/ pc[j] \in {"summarize", "conflict", "report"} /\ i = item[j]

(* Every step keeps each item of an asset on its way to a report.            *)
LEMMA WayStep ==
    TypeInv /\ ItemsAreOnTheWay /\ ProcessedIsReported /\ [Next]_vars
        => ItemsAreOnTheWay' /\ ProcessedIsReported'
<1> SUFFICES ASSUME TypeInv, ItemsAreOnTheWay, ProcessedIsReported, [Next]_vars
             PROVE  ItemsAreOnTheWay' /\ ProcessedIsReported'
  OBVIOUS
<1> USE DEF ProcessedIsReported, AtAsset, AtItem, Goto, placeVars, feedVars, analysisVars, tables
<1>0. /\ pc \in [Jobs -> Places] /\ asset \in [Jobs -> Assets \cup {NoAsset}]
      /\ result \in [Jobs -> [Assets -> {"unwatched", "todo", "processed", "failed"}]]
      /\ fresh \in [Jobs -> SUBSET ItemType] /\ item \in [Jobs -> ItemType \cup {NoItem}]
      /\ \A i \in items : i.by \in Jobs /\ i.asset \in Assets
      /\ \A j \in Jobs : AtAsset(j) => result[j][asset[j]] = "todo" /\ asset[j] \in Assets
  BY DEF TypeInv, TypeOK, WalkIsKnown, ItemType
<1>a. \A i \in items : OnTheWay(i)
  BY DEF ItemsAreOnTheWay, OnTheWay
<1>b. (\A i \in items' : OnTheWay(i)') => ItemsAreOnTheWay'
  BY DEF ItemsAreOnTheWay, OnTheWay
\* The items of the jobs that do not move stay where they are.
<1>c. ASSUME NEW j \in Jobs, NEW i \in items, i.by # j, reports \subseteq reports',
             \A k \in Jobs : k # j => /\ pc'[k] = pc[k] /\ item'[k] = item[k] /\ fresh'[k] = fresh[k]
                                      /\ asset'[k] = asset[k] /\ result'[k] = result[k]
      PROVE  OnTheWay(i)'
  BY <1>0, <1>a, <1>c DEF OnTheWay
<1>1. ASSUME NEW j \in Jobs,
             \/ StartJob(j) \/ JobFails(j) \/ ReadThesis(j) \/ \E a \in Assets : ItemGone(j, a)
             \/ \E u \in urls[j] : SaveRaw(j, u) \/ SkipKnown(j, u) \/ LookUpNew(j, u)
             \/ Archived(j) \/ \E level \in Impacts : Summarize(j, level)
             \/ \E v \in Verdicts : AnalyzeConflict(j, v)
             \/ DropCandidate(j) \/ CreateSignal(j) \/ EngineDone(j)
             \/ CreateAlert(j) \/ ItemDone(j) \/ Succeed(j) \/ Crash(j)
      PROVE  ItemsAreOnTheWay' /\ ProcessedIsReported'
  <2>1. UNCHANGED <<result, asset, fresh, items, reports>>
    BY <1>1 DEF StartJob, JobFails, ItemGone, ReadThesis, SaveRaw, SkipKnown, LookUpNew, Archived, Summarize,
       AnalyzeConflict, DropCandidate, CreateSignal, EngineDone, CreateAlert, ItemDone, Succeed, Crash
  <2>2. \A i \in Jobs : i # j => pc'[i] = pc[i] /\ item'[i] = item[i]
    BY <1>0, <1>1 DEF StartJob, JobFails, ItemGone, ReadThesis, SaveRaw, SkipKnown, LookUpNew, Archived, Summarize,
       AnalyzeConflict, DropCandidate, CreateSignal, EngineDone, CreateAlert, ItemDone, Succeed, Crash
  <2>3. pc[j] \in {"idle", "watchlist"} \/ /\ pc[j] # "crashed" /\ pc'[j] \notin {"idle", "watchlist"}
                                           /\ pc'[j] # "crashed" => (AtAsset(j)' <=> AtAsset(j))
                                           /\ pc'[j] = "crashed" => ~AtAsset(j)'
    BY <1>0, <1>1 DEF StartJob, JobFails, ItemGone, ReadThesis, SaveRaw, SkipKnown, LookUpNew, Archived, Summarize,
       AfterSummary, AnalyzeConflict, DropCandidate, CreateSignal, EngineDone, CreateAlert, ItemDone,
       Succeed, Crash, Working
  <2>4. pc[j] \in {"summarize", "conflict", "report"}
           => item'[j] = item[j] /\ pc'[j] \in {"summarize", "conflict", "report", "crashed"}
    BY <1>0, <1>1 DEF StartJob, JobFails, ItemGone, ReadThesis, SaveRaw, SkipKnown, LookUpNew, Archived, Summarize,
       AfterSummary, AnalyzeConflict, DropCandidate, CreateSignal, EngineDone, CreateAlert, ItemDone,
       Succeed, Crash
  <2>5. ASSUME NEW i \in items, i.by = j PROVE OnTheWay(i)'
    BY <1>a, <2>1, <2>3, <2>4, <2>5 DEF OnTheWay
  <2>6. QED
    BY <1>b, <1>c, <2>1, <2>2, <2>5
<1>2. ASSUME NEW j \in Jobs, OpenWatchlist(j) PROVE ItemsAreOnTheWay' /\ ProcessedIsReported'
  <2>1. \A i \in items : i.by # j
    BY <1>2, <1>a DEF OpenWatchlist, OnTheWay
  <2>2. /\ UNCHANGED <<asset, fresh, item, items, reports>>
        /\ \A k \in Jobs : k # j => pc'[k] = pc[k] /\ result'[k] = result[k]
    BY <1>0, <1>2 DEF OpenWatchlist
  <2>3. QED
    BY <1>b, <1>c, <2>1, <2>2
<1>3. ASSUME NEW j \in Jobs, NEW a \in Assets, NextAsset(j, a)
      PROVE  ItemsAreOnTheWay' /\ ProcessedIsReported'
  <2>1. /\ UNCHANGED <<result, item, items, reports>>
        /\ pc' = [pc EXCEPT ![j] = "archive"] /\ asset' = [asset EXCEPT ![j] = a]
        /\ fresh' = [fresh EXCEPT ![j] = {}]
    BY <1>3 DEF NextAsset
  <2>2. ASSUME NEW i \in items, i.by = j PROVE OnTheWay(i)'
    <3>1. i.asset # a /\ result[j][i.asset] # "todo"
      BY <1>3, <1>a, <2>2 DEF OnTheWay, NextAsset
    <3>2. pc'[j] = "archive" /\ asset'[j] = a
      BY <1>0, <2>1
    <3>3. QED
      BY <2>1, <2>2, <3>1, <3>2 DEF OnTheWay
  <2>3. QED
    BY <1>0, <1>b, <1>c, <2>1, <2>2
<1>4. ASSUME NEW j \in Jobs, NEW a \in Assets, result[j][a] = "todo", Failed(j, a), ~AtAsset(j)',
             pc'[j] = "assets", \A k \in Jobs : k # j => pc'[k] = pc[k],
             UNCHANGED <<asset, fresh, item, items, reports>>,
             pc[j] = "assets" \/ (AtAsset(j) /\ a = asset[j])
      PROVE  ItemsAreOnTheWay' /\ ProcessedIsReported'
  <2>1. /\ \A b \in Assets : b # a => result'[j][b] = result[j][b]
        /\ result'[j][a] = "failed"
        /\ \A k \in Jobs : k # j => result'[k] = result[k]
    BY <1>0, <1>4 DEF Failed
  <2>2. ASSUME NEW i \in items, i.by = j PROVE OnTheWay(i)'
    BY <1>0, <1>4, <1>a, <2>1, <2>2 DEF OnTheWay
  <2>3. QED
    BY <1>0, <1>4, <1>b, <1>c, <2>1, <2>2
<1>5. ASSUME NEW j \in Jobs, AssetFails(j) \/ \E a \in Assets : AssetSkipped(j, a)
      PROVE  ItemsAreOnTheWay' /\ ProcessedIsReported'
  <2>1. CASE AssetFails(j)
    BY <1>0, <1>4, <2>1 DEF AssetFails, AfterFailure
  <2>2. CASE \E a \in Assets : AssetSkipped(j, a)
    BY <1>0, <1>4, <2>2 DEF AssetSkipped
  <2>3. QED
    BY <1>5, <2>1, <2>2
<1>6. ASSUME NEW j \in Jobs, CreateItem(j) PROVE ItemsAreOnTheWay' /\ ProcessedIsReported'
  <2>1. /\ UNCHANGED <<result, asset, item, reports>> /\ items' = items \cup {item[j]}
        /\ pc' = [pc EXCEPT ![j] = "lookup"] /\ fresh' = [fresh EXCEPT ![j] = @ \cup {item[j]}]
        /\ pc[j] = "create"
    BY <1>6 DEF CreateItem
  <2>2. item[j].by = j /\ item[j].asset = asset[j]
    BY <2>1 DEF TypeInv, ItemsAreOwn, Own
  <2>3. ASSUME NEW i \in items', i.by = j PROVE OnTheWay(i)'
    <3>1. pc'[j] = "lookup" /\ fresh'[j] = fresh[j] \cup {item[j]}
      BY <1>0, <2>1
    <3>2. CASE i = item[j]
      BY <2>1, <2>2, <3>1, <3>2 DEF OnTheWay
    <3>3. CASE i \in items
      BY <1>a, <2>1, <2>3, <3>1, <3>3 DEF OnTheWay
    <3>4. QED
      BY <2>1, <3>2, <3>3
  <2>4. ProcessedIsReported'
    BY <1>0, <2>1, <2>2
  <2>5. QED
    BY <1>0, <1>b, <1>c, <2>1, <2>2, <2>3, <2>4
<1>7. ASSUME NEW j \in Jobs, NEW n \in fresh[j], NextItem(j, n)
      PROVE  ItemsAreOnTheWay' /\ ProcessedIsReported'
  <2>1. /\ UNCHANGED <<result, asset, items, reports>> /\ item' = [item EXCEPT ![j] = n]
        /\ pc' = [pc EXCEPT ![j] = "summarize"] /\ fresh' = [fresh EXCEPT ![j] = @ \ {n}]
        /\ pc[j] = "next"
    BY <1>7 DEF NextItem
  <2>2. ASSUME NEW i \in items, i.by = j PROVE OnTheWay(i)'
    <3>1. pc'[j] = "summarize" /\ fresh'[j] = fresh[j] \ {n} /\ item'[j] = n
      BY <1>0, <2>1
    <3>2. QED
      BY <1>a, <2>1, <2>2, <3>1 DEF OnTheWay
  <2>3. QED
    BY <1>0, <1>b, <1>c, <2>1, <2>2
<1>8. ASSUME NEW j \in Jobs, CreateReport(j) PROVE ItemsAreOnTheWay' /\ ProcessedIsReported'
  <2>1. /\ UNCHANGED <<result, asset, items, fresh, item>> /\ reports' = reports \cup {item[j]}
        /\ pc' = [pc EXCEPT ![j] = "rules"] /\ pc[j] = "report"
    BY <1>8 DEF CreateReport
  <2>2. ASSUME NEW i \in items, i.by = j PROVE OnTheWay(i)'
    <3>1. pc'[j] = "rules"
      BY <1>0, <2>1
    <3>2. QED
      BY <1>a, <2>1, <2>2, <3>1 DEF OnTheWay
  <2>3. QED
    BY <1>0, <1>b, <1>c, <2>1, <2>2
<1>9. ASSUME NEW j \in Jobs, AssetDone(j) PROVE ItemsAreOnTheWay' /\ ProcessedIsReported'
  <2>1. /\ UNCHANGED <<asset, items, fresh, item, reports>> /\ fresh[j] = {}
        /\ pc' = [pc EXCEPT ![j] = "assets"] /\ pc[j] = "next"
        /\ asset[j] \in Assets /\ result[j][asset[j]] = "todo"
    BY <1>0, <1>9 DEF AssetDone, AllAnalysed
  <2>2. /\ \A b \in Assets : b # asset[j] => result'[j][b] = result[j][b]
        /\ result'[j][asset[j]] = "processed"
        /\ \A k \in Jobs : k # j => result'[k] = result[k]
    BY <1>0, <1>9, <2>1 DEF AssetDone, Processed
  <2>3. \A i \in items : i.by = j /\ i.asset = asset[j] => i \in reports
    BY <1>a, <2>1 DEF OnTheWay
  <2>4. ASSUME NEW i \in items, i.by = j PROVE OnTheWay(i)'
    <3>1. pc'[j] = "assets"
      BY <1>0, <2>1
    <3>2. QED
      BY <1>0, <1>a, <2>1, <2>2, <2>4, <3>1 DEF OnTheWay
  <2>5. ProcessedIsReported'
    BY <2>1, <2>2, <2>3
  <2>6. QED
    BY <1>0, <1>b, <1>c, <2>1, <2>2, <2>4, <2>5
<1>10. CASE UNCHANGED vars \/ \E j \in Jobs, a \in Assets : RemoveItem(j, a)
  <2>1. UNCHANGED <<pc, result, asset, fresh, items, item, reports>>
    BY <1>10, RemovalsLeaveTheRest DEF vars
  <2>2. QED
    BY <2>1 DEF ItemsAreOnTheWay
<1> HIDE DEF ProcessedIsReported
<1>11. QED
  BY <1>1, <1>2, <1>3, <1>5, <1>6, <1>7, <1>8, <1>9, <1>10 DEF Next, JobStep, Terminated

(* Every step keeps the signals of an item announced or queued, and one of   *)
(* each type.                                                                *)
SignalInv == SignalsAreQueued /\ SignalsAreAlerted /\ OneSignalPerCause

\* What the invariant says of one signal.
Announced(s) ==
    LET j == s.item.by IN
        \/ pc[j] = "crashed"
        \/ /\ pc[j] \in {"rules", "alert"} /\ item[j] = s.item
           /\ \E k \in 1 .. Len(created[j]) : created[j][k] = s
        \/ AlertOf(j, s) \in alerts

LEMMA SignalStep == TypeInv /\ ItemsAreOnTheWay /\ SignalInv /\ [Next]_vars => SignalInv'
<1> SUFFICES ASSUME TypeInv, ItemsAreOnTheWay, SignalInv, [Next]_vars PROVE SignalInv'
  OBVIOUS
<1> USE DEF Goto, placeVars, feedVars, analysisVars, tables
<1>0. /\ pc \in [Jobs -> Places] /\ user \in [Jobs -> Users \cup {NoUser}]
      /\ item \in [Jobs -> ItemType \cup {NoItem}]
      /\ candidates \in [Jobs -> Seq(CandidateType)] /\ created \in [Jobs -> Seq(SignalType)]
      /\ \A s \in signals : s.item \in items /\ s.item.by \in Jobs
      /\ \A j \in Jobs : pc[j] \in {"report", "rules", "alert"}
                           => item[j] \in items /\ item[j] \in ItemType /\ item[j].by = j
      /\ \A j \in Jobs, i \in items : i.by = j => pc[j] \notin {"idle", "watchlist"}
  BY DEF TypeInv, TypeOK, ItemsAreOwn, AtItem, Own, ItemType, SignalInv, SignalsAreQueued,
     ItemsAreOnTheWay
<1>a. \A s \in signals : Announced(s)
  BY <1>0 DEF SignalInv, SignalsAreQueued, SignalsAreAlerted, Announced
<1>b. ASSUME \A s \in signals' : s.item \in items' /\ Announced(s)', items \subseteq items',
             \A j \in Jobs : pc'[j] \in {"rules", "alert"} => item'[j].by = j, OneSignalPerCause'
      PROVE  SignalInv'
  <2>1. SignalsAreAlerted'
    BY <1>b DEF SignalsAreAlerted, Announced
  <2>2. SignalsAreQueued'
    BY <1>b DEF SignalsAreQueued, Announced
  <2>3. QED
    BY <1>b, <2>1, <2>2 DEF SignalInv
<1>c. OneSignalPerCause /\ \A j \in Jobs : pc[j] \in {"rules", "alert"} => item[j].by = j
  BY <1>0 DEF SignalInv
\* The signals of a job that keeps its item, its queue and its user stay announced.
<1>d. ASSUME NEW s \in signals, alerts \subseteq alerts', user'[s.item.by] = user[s.item.by],
             \/ pc[s.item.by] \notin {"rules", "alert", "crashed"}
             \/ pc'[s.item.by] = "crashed"
             \/ /\ pc[s.item.by] # "crashed" /\ pc'[s.item.by] \in {"rules", "alert"}
                /\ item'[s.item.by] = item[s.item.by] /\ created'[s.item.by] = created[s.item.by]
             \/ created[s.item.by] = <<>> /\ pc[s.item.by] # "crashed"
      PROVE  Announced(s)'
  <2>1. CASE pc[s.item.by] = "crashed"
    BY <1>d, <2>1 DEF Announced
  <2>2. CASE AlertOf(s.item.by, s) \in alerts
    BY <1>d, <2>2 DEF Announced, AlertOf
  <2>3. ASSUME pc[s.item.by] \in {"rules", "alert"}, item[s.item.by] = s.item,
               NEW k \in 1 .. Len(created[s.item.by]), created[s.item.by][k] = s
        PROVE  Announced(s)'
    <3>1. CASE created[s.item.by] = <<>>
      <4>1. 1 .. Len(created[s.item.by]) = {}
        BY <3>1
      <4>2. QED
        BY <2>3, <4>1
    <3>2. QED
      BY <1>d, <2>3, <3>1 DEF Announced
  <2>4. QED
    BY <1>a, <2>1, <2>2, <2>3 DEF Announced
<1>1. ASSUME NEW j \in Jobs,
             \/ StartJob(j) \/ JobFails(j) \/ AssetFails(j) \/ ReadThesis(j) \/ Archived(j)
             \/ \E a \in Assets : NextAsset(j, a) \/ AssetSkipped(j, a) \/ ItemGone(j, a)
             \/ \E u \in urls[j] : SaveRaw(j, u) \/ SkipKnown(j, u) \/ LookUpNew(j, u)
             \/ CreateItem(j)
             \/ \E i \in fresh[j] : NextItem(j, i)
             \/ \E level \in Impacts : Summarize(j, level)
             \/ \E v \in Verdicts : AnalyzeConflict(j, v)
             \/ DropCandidate(j) \/ EngineDone(j) \/ ItemDone(j) \/ AssetDone(j) \/ Succeed(j)
             \/ Crash(j)
      PROVE  SignalInv'
  <2>1. UNCHANGED <<user, created, signals, alerts>> /\ items \subseteq items'
    BY <1>1 DEF StartJob, JobFails, AssetFails, ReadThesis, Archived, NextAsset, AssetSkipped, ItemGone, SaveRaw,
       SkipKnown, LookUpNew, CreateItem, NextItem, Summarize, AnalyzeConflict, DropCandidate, EngineDone,
       ItemDone, AssetDone, Succeed, Crash
  <2>2. \A i \in Jobs : i # j => pc'[i] = pc[i] /\ item'[i] = item[i]
    BY <1>0, <1>1 DEF StartJob, JobFails, AssetFails, AfterFailure, ReadThesis, Archived, NextAsset,
       AssetSkipped, ItemGone, SaveRaw, SkipKnown, LookUpNew, CreateItem, NextItem, Summarize, AnalyzeConflict,
       DropCandidate, EngineDone, ItemDone, AssetDone, Succeed, Crash
  <2>3. /\ pc[j] # "crashed"
        /\ pc'[j] \in {"rules", "alert"} => pc[j] \in {"rules", "alert"}
        /\ pc[j] \in {"rules", "alert"}
             => \/ pc'[j] = "crashed" \/ created[j] = <<>>
                \/ pc'[j] \in {"rules", "alert"} /\ item'[j] = item[j]
        /\ pc'[j] \in {"rules", "alert"} => item'[j] = item[j]
    BY <1>0, <1>1 DEF StartJob, JobFails, AssetFails, AfterFailure, ReadThesis, Archived, NextAsset,
       AssetSkipped, ItemGone, SaveRaw, SkipKnown, LookUpNew, CreateItem, NextItem, Summarize, AfterSummary,
       AnalyzeConflict, DropCandidate, EngineDone, ItemDone, AllAlerted, AssetDone, Succeed, Crash,
       Working
  <2>4. ASSUME NEW s \in signals PROVE Announced(s)'
    <3>1. CASE s.item.by = j
      BY <1>d, <2>1, <2>3, <3>1
    <3>2. CASE s.item.by # j
      BY <1>0, <1>d, <2>1, <2>2, <3>2
    <3>3. QED
      BY <3>1, <3>2
  <2>5. OneSignalPerCause'
    BY <1>c, <2>1 DEF OneSignalPerCause
  <2>6. \A i \in Jobs : pc'[i] \in {"rules", "alert"} => item'[i].by = i
    BY <1>c, <2>2, <2>3
  <2>7. QED
    BY <1>0, <1>b, <2>1, <2>4, <2>5, <2>6
<1>2. ASSUME NEW j \in Jobs, OpenWatchlist(j) PROVE SignalInv'
  <2>1. /\ UNCHANGED <<created, item, signals, alerts, items>>
        /\ \A i \in Jobs : i # j => pc'[i] = pc[i] /\ user'[i] = user[i]
        /\ pc[j] = "watchlist" /\ pc'[j] = "assets"
    BY <1>0, <1>2 DEF OpenWatchlist
  <2>2. \A s \in signals : s.item.by # j
    BY <1>0, <2>1
  <2>3. ASSUME NEW s \in signals PROVE Announced(s)'
    BY <1>0, <1>d, <2>1, <2>2
  <2>4. OneSignalPerCause'
    BY <1>c, <2>1 DEF OneSignalPerCause
  <2>5. \A i \in Jobs : pc'[i] \in {"rules", "alert"} => item'[i].by = i
    BY <1>c, <2>1
  <2>6. QED
    BY <1>0, <1>b, <2>1, <2>3, <2>4, <2>5
<1>3. ASSUME NEW j \in Jobs, CreateReport(j) PROVE SignalInv'
  <2>1. /\ UNCHANGED <<user, item, signals, alerts, items>>
        /\ \A i \in Jobs : i # j => pc'[i] = pc[i] /\ created'[i] = created[i]
        /\ pc[j] = "report" /\ pc'[j] = "rules"
    BY <1>0, <1>3 DEF CreateReport
  <2>2. ASSUME NEW s \in signals PROVE Announced(s)'
    BY <1>0, <1>d, <2>1
  <2>3. OneSignalPerCause'
    BY <1>c, <2>1 DEF OneSignalPerCause
  <2>4. \A i \in Jobs : pc'[i] \in {"rules", "alert"} => item'[i].by = i
    BY <1>0, <1>c, <2>1
  <2>5. QED
    BY <1>0, <1>b, <2>1, <2>2, <2>3, <2>4
<1>4. ASSUME NEW j \in Jobs, CreateSignal(j) PROVE SignalInv'
  <2> DEFINE c == Head(candidates[j])
             new == SignalOf(j, c)
  <2>1. /\ UNCHANGED <<user, item, pc, alerts, items>> /\ signals' = signals \cup {new}
        /\ pc[j] = "rules" /\ ~ActiveSignal(j, c)
        /\ created' = [created EXCEPT ![j] = Append(@, new)]
    BY <1>4 DEF CreateSignal
  <2>2. c \in CandidateType
    BY <1>0, <1>4, HeadAndTail DEF CreateSignal
  <2>3. item[j] \in items /\ item[j].by = j /\ item[j] \in ItemType
    BY <1>0, <2>1
  <2>4. new \in SignalType /\ new.item = item[j] /\ new.type = c.type
    BY <2>2, <2>3, SignalTypesOf
  <2>5. /\ Len(created'[j]) = Len(created[j]) + 1 /\ Len(created[j]) \in Nat
        /\ created'[j][Len(created[j]) + 1] = new
        /\ \A k \in 1 .. Len(created[j]) : created'[j][k] = created[j][k]
        /\ \A i \in Jobs : i # j => created'[i] = created[i]
    <3>1. created[j] \in Seq(SignalType) /\ created'[j] = Append(created[j], new)
      BY <1>0, <2>1
    <3>2. QED
      BY <1>0, <2>1, <2>4, <3>1
  <2>6. ASSUME NEW s \in signals PROVE Announced(s)'
    <3>1. CASE s.item.by = j
      <4>1. CASE item[j] = s.item /\ \E k \in 1 .. Len(created[j]) : created[j][k] = s
        <5>1. PICK k \in 1 .. Len(created[j]) : created[j][k] = s
          BY <4>1
        <5>2. k \in 1 .. Len(created'[j]) /\ created'[j][k] = s
          BY <2>5, <5>1
        <5>3. QED
          BY <2>1, <3>1, <4>1, <5>2 DEF Announced
      <4>2. CASE AlertOf(j, s) \in alerts
        BY <2>1, <3>1, <4>2 DEF Announced, AlertOf
      <4>3. QED
        BY <1>a, <2>1, <3>1, <4>1, <4>2 DEF Announced
    <3>2. CASE s.item.by # j
      BY <1>0, <1>d, <2>1, <2>5, <3>2
    <3>3. QED
      BY <3>1, <3>2
  <2>7. ASSUME NEW s, s = new PROVE s.item \in items /\ Announced(s)'
    <3>1. Len(created[j]) + 1 \in 1 .. Len(created'[j]) /\ created'[j][Len(created[j]) + 1] = s
      BY <2>5, <2>7
    <3>2. s.item = item[j] /\ s.item.by = j
      BY <2>3, <2>4, <2>7
    <3>3. QED
      BY <2>1, <2>3, <3>1, <3>2 DEF Announced
  <2>8. OneSignalPerCause'
    <3>1. \A s \in signals : s.item = item[j] => s.type # c.type
      BY <2>1 DEF ActiveSignal
    <3>2. QED
      BY <1>c, <2>1, <2>4, <3>1 DEF OneSignalPerCause
  <2>9. QED
    BY <1>0, <1>b, <1>c, <2>1, <2>3, <2>4, <2>6, <2>7, <2>8
<1>5. ASSUME NEW j \in Jobs, CreateAlert(j) PROVE SignalInv'
  <2> DEFINE q == created[j]
  <2>1. /\ UNCHANGED <<user, item, pc, signals, items>>
        /\ alerts' = alerts \cup {AlertOf(j, Head(q))}
        /\ pc[j] = "alert" /\ q # <<>> /\ created' = [created EXCEPT ![j] = Tail(@)]
    BY <1>5 DEF CreateAlert
  <2>2. q \in Seq(SignalType) /\ created'[j] = Tail(q) /\ \A i \in Jobs : i # j => created'[i] = created[i]
    BY <1>0, <2>1
  <2>3. ASSUME NEW s \in signals, s.item.by = j PROVE Announced(s)'
    <3>1. CASE \E k \in 1 .. Len(q) : q[k] = s /\ item[j] = s.item
      <4>1. PICK k \in 1 .. Len(q) : q[k] = s
        BY <3>1
      <4>2. CASE k = 1
        BY <2>1, <2>2, <2>3, <4>1, <4>2, HeadAndTail DEF Announced, AlertOf
      <4>3. CASE k # 1
        <5>1. k - 1 \in 1 .. Len(Tail(q)) /\ Tail(q)[k - 1] = s
          BY <2>1, <2>2, <4>1, <4>3, HeadAndTail
        <5>2. QED
          BY <2>1, <2>2, <2>3, <3>1, <5>1 DEF Announced
      <4>4. QED
        BY <4>2, <4>3
    <3>2. CASE AlertOf(j, s) \in alerts
      BY <2>1, <2>3, <3>2 DEF Announced, AlertOf
    <3>3. QED
      BY <1>a, <2>1, <2>3, <3>1, <3>2 DEF Announced
  <2>4. ASSUME NEW s \in signals, s.item.by # j PROVE Announced(s)'
    BY <1>0, <1>d, <2>1, <2>2, <2>4
  <2>5. OneSignalPerCause'
    BY <1>c, <2>1 DEF OneSignalPerCause
  <2>6. QED
    BY <1>0, <1>b, <1>c, <2>1, <2>3, <2>4, <2>5
<1>6. CASE UNCHANGED vars \/ \E j \in Jobs, a \in Assets : RemoveItem(j, a)
  <2>1. UNCHANGED <<pc, user, item, created, signals, alerts, items>>
    BY <1>6, RemovalsLeaveTheRest DEF vars
  <2>2. QED
    BY <2>1 DEF SignalInv, SignalsAreQueued, SignalsAreAlerted, OneSignalPerCause, AlertOf
<1>7. QED
  BY <1>1, <1>2, <1>3, <1>4, <1>5, <1>6 DEF Next, JobStep, Terminated

(* Every step keeps the run of a job in agreement with its place, and is a   *)
(* step of the life cycle of a run or none.                                  *)
LEMMA RunStep == TypeInv /\ RunsMatchPlace /\ [Next]_vars => RunsMatchPlace' /\ [JobLifecycle!Next]_jobRun
<1> SUFFICES ASSUME TypeInv, RunsMatchPlace, [Next]_vars
             PROVE  RunsMatchPlace' /\ [JobLifecycle!Next]_jobRun
  OBVIOUS
<1> USE DEF RunsMatchPlace, NothingTried, Left, Expired, Working, FailedAssets, Goto, Close, jobVars,
        placeVars
<1>0. /\ pc \in [Jobs -> Places] /\ jobRun \in [Jobs -> {"absent", "running", "success", "failed"}]
      /\ asset \in [Jobs -> Assets \cup {NoAsset}] /\ partial \in [Jobs -> SUBSET Assets]
      /\ removed \in [Jobs -> SUBSET Assets]
  BY DEF TypeInv, TypeOK
<1>1. ASSUME NEW j \in Jobs, StartJob(j) PROVE RunsMatchPlace' /\ JobLifecycle!Start(j)
  BY <1>0, <1>1 DEF StartJob, JobLifecycle!Start
<1>2. ASSUME NEW j \in Jobs, JobFails(j) PROVE RunsMatchPlace' /\ JobLifecycle!Fail(j)
  BY <1>0, <1>2 DEF JobFails, JobLifecycle!Fail
<1>3. ASSUME NEW j \in Jobs, Succeed(j) PROVE RunsMatchPlace' /\ JobLifecycle!Succeed(j)
  BY <1>0, <1>3 DEF Succeed, Recorded, JobLifecycle!Succeed
<1>4. ASSUME NEW j \in Jobs,
             \/ OpenWatchlist(j) \/ AssetFails(j) \/ ReadThesis(j) \/ Archived(j)
             \/ \E a \in Assets : NextAsset(j, a) \/ AssetSkipped(j, a)
             \/ \E u \in urls[j] : SaveRaw(j, u) \/ SkipKnown(j, u) \/ LookUpNew(j, u)
             \/ CreateItem(j)
             \/ \E i \in fresh[j] : NextItem(j, i)
             \/ \E level \in Impacts : Summarize(j, level)
             \/ \E v \in Verdicts : AnalyzeConflict(j, v)
             \/ CreateReport(j) \/ DropCandidate(j) \/ CreateSignal(j) \/ EngineDone(j)
             \/ CreateAlert(j) \/ ItemDone(j) \/ AssetDone(j) \/ Crash(j)
      PROVE  RunsMatchPlace' /\ jobRun' = jobRun
  <2>1. UNCHANGED jobVars
    BY <1>4 DEF OpenWatchlist, AssetFails, AfterFailure, ReadThesis, Archived, NextAsset, AssetSkipped,
       SaveRaw, SkipKnown, LookUpNew, CreateItem, NextItem, Summarize, AnalyzeConflict, CreateReport,
       DropCandidate, CreateSignal, EngineDone, CreateAlert, ItemDone, AssetDone, Crash
  <2>2. /\ Working(j) /\ pc'[j] \notin {"idle", "watchlist", "returned", "raised"}
        /\ \A i \in Jobs : i # j => pc'[i] = pc[i]
    BY <1>0, <1>4 DEF OpenWatchlist, AssetFails, AfterFailure, ReadThesis, Archived, NextAsset,
       AssetSkipped, SaveRaw, SkipKnown, LookUpNew, CreateItem, NextItem, Summarize, AfterSummary,
       AnalyzeConflict, CreateReport, DropCandidate, CreateSignal, EngineDone, CreateAlert, ItemDone,
       AssetDone, Crash
  <2>3. \A i \in Jobs : i # j => result'[i] = result[i] /\ asset'[i] = asset[i] /\ removed'[i] = removed[i]
    BY <1>4 DEF OpenWatchlist, AssetFails, AssetSkipped, Failed, ReadThesis, Archived, NextAsset,
       SaveRaw, SkipKnown, LookUpNew, CreateItem, NextItem, Summarize, AnalyzeConflict, CreateReport,
       DropCandidate, CreateSignal, EngineDone, CreateAlert, ItemDone, AssetDone, Processed, Crash,
       TypeInv, TypeOK
  <2>4. QED
    BY <1>0, <2>1, <2>2, <2>3 DEF Places
<1>5. ASSUME UNCHANGED vars PROVE RunsMatchPlace' /\ jobRun' = jobRun
  BY <1>5 DEF vars
<1>6. ASSUME NEW j \in Jobs, NEW a \in Assets, ItemGone(j, a)
      PROVE  RunsMatchPlace' /\ JobLifecycle!Fail(j)
  BY <1>0, <1>6 DEF ItemGone, Readable, JobLifecycle!Fail
<1>7. ASSUME NEW j \in Jobs, NEW a \in Assets, RemoveItem(j, a)
      PROVE  RunsMatchPlace' /\ jobRun' = jobRun
  BY <1>0, <1>7, RemovalsLeaveTheRest
<1> HIDE DEF RunsMatchPlace
<1>8. QED
  BY <1>1, <1>2, <1>3, <1>4, <1>5, <1>6, <1>7 DEF Next, JobStep, Terminated, JobLifecycle!Next

-----------------------------------------------------------------------------
(* Every step keeps the stages in order.                                     *)
LEMMA OrderStep == TypeInv /\ ItemsAreOnTheWay /\ OrderInv /\ [Next]_vars => OrderInv'
<1> SUFFICES ASSUME TypeInv, ItemsAreOnTheWay, OrderInv, [Next]_vars PROVE OrderInv'
  OBVIOUS
<1> USE DEF Goto, placeVars, feedVars, analysisVars, tables
<1>0. /\ pc \in [Jobs -> Places] /\ user \in [Jobs -> Users \cup {NoUser}]
      /\ result \in [Jobs -> [Assets -> {"unwatched", "todo", "processed", "failed"}]]
      /\ item \in [Jobs -> ItemType \cup {NoItem}]
      /\ candidates \in [Jobs -> Seq(CandidateType)] /\ created \in [Jobs -> Seq(SignalType)]
      /\ \A i \in items : i \in ItemType /\ i.by \in Jobs /\ i.asset \in Assets
      /\ \A j \in Jobs : AtItem(j) => item[j] \in items /\ item[j] \in ItemType /\ item[j].by = j
      /\ \A j \in Jobs : AtAsset(j) => asset[j] \in Assets /\ result[j][asset[j]] = "todo"
      /\ \A j \in Jobs, i \in items : i.by = j => pc[j] \notin {"idle", "watchlist"}
  BY DEF TypeInv, TypeOK, ItemsAreOwn, WalkIsKnown, AtItem, AtAsset, Own, ItemType, ItemsAreOnTheWay
<1>a. StagesFollow /\ AlertsTell /\ ItemsAreWatched
  BY DEF OrderInv
<1>1. ASSUME NEW j \in Jobs,
             \/ StartJob(j) \/ JobFails(j) \/ AssetFails(j) \/ ReadThesis(j) \/ Archived(j)
             \/ \E a \in Assets : NextAsset(j, a) \/ AssetSkipped(j, a) \/ ItemGone(j, a)
             \/ \E u \in urls[j] : SaveRaw(j, u) \/ SkipKnown(j, u) \/ LookUpNew(j, u)
             \/ \E i \in fresh[j] : NextItem(j, i)
             \/ DropCandidate(j) \/ EngineDone(j) \/ ItemDone(j) \/ AssetDone(j) \/ Succeed(j)
             \/ Crash(j)
      PROVE  OrderInv'
  <2>1. UNCHANGED <<user, created, items, summarized, conflicts, reports, signals, alerts>>
    BY <1>1 DEF StartJob, JobFails, AssetFails, ReadThesis, Archived, NextAsset, AssetSkipped, ItemGone, SaveRaw,
       SkipKnown, LookUpNew, NextItem, DropCandidate, EngineDone, ItemDone, AssetDone, Succeed, Crash
  <2>2. \A i \in Jobs : i # j => pc'[i] = pc[i] /\ item'[i] = item[i]
    BY <1>0, <1>1 DEF StartJob, JobFails, AssetFails, AfterFailure, ReadThesis, Archived, NextAsset,
       AssetSkipped, ItemGone, SaveRaw, SkipKnown, LookUpNew, NextItem, DropCandidate, EngineDone, ItemDone,
       AssetDone, Succeed, Crash
  <2>3. pc'[j] \in {"conflict", "report", "rules", "alert"}
          => /\ item'[j] = item[j]
             /\ pc'[j] \in {"rules", "alert"} /\ pc[j] \in {"rules", "alert"}
    BY <1>0, <1>1 DEF StartJob, JobFails, AssetFails, AfterFailure, ReadThesis, Archived, NextAsset,
       AssetSkipped, ItemGone, SaveRaw, SkipKnown, LookUpNew, NextItem, DropCandidate, EngineDone, ItemDone,
       AssetDone, Succeed, Crash
  <2>4. StagesFollow'
    BY <1>a, <2>1, <2>2, <2>3 DEF StagesFollow
  <2>5. AlertsTell'
    BY <1>a, <2>1 DEF AlertsTell
  <2>6. \A i \in Jobs, a \in Assets : result[i][a] # "unwatched" => result'[i][a] # "unwatched"
    <3>1. \/ result' = result
          \/ \E a \in Assets : Failed(j, a)
          \/ asset[j] \in Assets /\ Processed(j)
      BY <1>0, <1>1 DEF StartJob, JobFails, AssetFails, ReadThesis, Archived, NextAsset, AssetSkipped, ItemGone, ItemGone,
         SaveRaw, SkipKnown, LookUpNew, NextItem, DropCandidate, EngineDone, ItemDone, AssetDone,
         Succeed, Crash, AtAsset, AtItem
    <3>2. ASSUME NEW a \in Assets, NEW o \in {"processed", "failed"}, result' = [result EXCEPT ![j][a] = o]
          PROVE  \A i \in Jobs, b \in Assets : result[i][b] # "unwatched" => result'[i][b] # "unwatched"
      <4>1. /\ result'[j][a] = o
            /\ \A i \in Jobs, b \in Assets : i # j \/ b # a => result'[i][b] = result[i][b]
        BY <1>0, <3>2, ResultTypes
      <4>2. QED
        BY <4>1
    <3>3. QED
      BY <3>1, <3>2 DEF Failed, Processed
  <2>7. QED
    BY <1>0, <1>a, <2>1, <2>4, <2>5, <2>6 DEF OrderInv, ItemsAreWatched
<1>2. ASSUME NEW j \in Jobs, OpenWatchlist(j) PROVE OrderInv'
  <2>1. /\ UNCHANGED <<created, item, items, summarized, conflicts, reports, signals, alerts>>
        /\ \A i \in Jobs : i # j => pc'[i] = pc[i] /\ user'[i] = user[i] /\ result'[i] = result[i]
        /\ pc[j] = "watchlist" /\ pc'[j] = "assets"
    BY <1>0, <1>2 DEF OpenWatchlist
  <2>2. \A i \in items : i.by # j
    BY <1>0, <2>1
  <2>3. StagesFollow'
    BY <1>a, <2>1 DEF StagesFollow
  <2>4. AlertsTell' /\ ItemsAreWatched'
    BY <1>0, <1>a, <2>1, <2>2 DEF AlertsTell, ItemsAreWatched
  <2>5. QED
    BY <2>3, <2>4 DEF OrderInv
<1>3. ASSUME NEW j \in Jobs, CreateItem(j) PROVE OrderInv'
  <2>1. /\ UNCHANGED <<user, result, item, created, summarized, conflicts, reports, signals, alerts>>
        /\ items' = items \cup {item[j]}
        /\ pc[j] = "create" /\ pc'[j] = "lookup" /\ \A i \in Jobs : i # j => pc'[i] = pc[i]
    BY <1>0, <1>3 DEF CreateItem
  <2>2. item[j].by = j /\ item[j].asset = asset[j]
    BY <2>1 DEF TypeInv, ItemsAreOwn, Own
  <2>3. ItemsAreWatched'
    BY <1>0, <1>a, <2>1, <2>2 DEF ItemsAreWatched, AtAsset
  <2>4. StagesFollow'
    BY <1>a, <2>1 DEF StagesFollow
  <2>5. QED
    BY <1>a, <2>1, <2>3, <2>4 DEF OrderInv, AlertsTell
<1>4. ASSUME NEW j \in Jobs,
             \/ \E level \in Impacts : Summarize(j, level)
             \/ \E v \in Verdicts : AnalyzeConflict(j, v)
             \/ CreateReport(j)
      PROVE  OrderInv'
  <2>1. /\ UNCHANGED <<user, result, item, items, signals, alerts>>
        /\ \A i \in Jobs : i # j => pc'[i] = pc[i] /\ created'[i] = created[i]
        /\ pc[j] \in {"summarize", "conflict", "report"} /\ AtItem(j)
    BY <1>0, <1>4 DEF Summarize, AnalyzeConflict, CreateReport, AtItem
  <2>2. \/ /\ pc[j] = "summarize" /\ pc'[j] \in {"conflict", "report"} /\ created' = created
           /\ summarized' = summarized \cup {item[j]} /\ UNCHANGED <<conflicts, reports>>
        \/ /\ pc[j] = "conflict" /\ pc'[j] = "report" /\ created' = created
           /\ conflicts' = conflicts \cup {item[j]} /\ UNCHANGED <<summarized, reports>>
        \/ /\ pc[j] = "report" /\ pc'[j] = "rules" /\ created'[j] = <<>>
           /\ reports' = reports \cup {item[j]} /\ UNCHANGED <<summarized, conflicts>>
    BY <1>0, <1>4 DEF Summarize, AfterSummary, AnalyzeConflict, CreateReport
  <2>3. ASSUME NEW i \in Jobs, NEW k \in 1 .. Len(created'[i])
        PROVE  created'[i][k] \in signals /\ created'[i][k].item.by = i
    <3>1. created'[i] = created[i] \/ created'[i] = <<>>
      BY <2>1, <2>2
    <3>2. QED
      BY <1>a, <2>3, <3>1 DEF StagesFollow
  <2>4. StagesFollow'
    BY <1>a, <2>1, <2>2, <2>3 DEF StagesFollow
  <2>5. QED
    BY <1>a, <2>1, <2>4 DEF OrderInv, AlertsTell, ItemsAreWatched
<1>5. ASSUME NEW j \in Jobs, CreateSignal(j) PROVE OrderInv'
  <2> DEFINE c == Head(candidates[j])
             new == SignalOf(j, c)
  <2>1. /\ UNCHANGED <<user, result, pc, item, items, summarized, conflicts, reports, alerts>>
        /\ signals' = signals \cup {new} /\ pc[j] = "rules"
        /\ created' = [created EXCEPT ![j] = Append(@, new)]
    BY <1>5 DEF CreateSignal
  <2>2. new.item = item[j] /\ item[j] \in reports /\ item[j].by = j /\ new \in SignalType
    <3>1. c \in CandidateType
      BY <1>0, <1>5, HeadAndTail DEF CreateSignal
    <3>2. QED
      BY <1>0, <1>a, <2>1, <3>1, SignalTypesOf DEF AtItem, StagesFollow
  <2>3. ASSUME NEW i \in Jobs, NEW k \in 1 .. Len(created'[i])
        PROVE  created'[i][k] \in signals' /\ created'[i][k].item.by = i
    <3>1. CASE i # j
      BY <1>0, <1>a, <2>1, <2>3, <3>1 DEF StagesFollow
    <3>2. CASE i = j
      <4>1. /\ created'[j] = Append(created[j], new) /\ created[j] \in Seq(SignalType)
            /\ Len(created'[j]) = Len(created[j]) + 1
        BY <1>0, <2>1, <2>2
      <4>2. CASE k \in 1 .. Len(created[j])
        BY <1>a, <2>1, <3>2, <4>1, <4>2 DEF StagesFollow
      <4>3. CASE k = Len(created[j]) + 1
        BY <2>1, <2>2, <3>2, <4>1, <4>3
      <4>4. QED
        BY <2>3, <3>2, <4>1, <4>2, <4>3
    <3>3. QED
      BY <3>1, <3>2
  <2>4. StagesFollow'
    BY <1>a, <2>1, <2>2, <2>3 DEF StagesFollow
  <2>5. QED
    BY <1>a, <2>1, <2>4 DEF OrderInv, AlertsTell, ItemsAreWatched
<1>6. ASSUME NEW j \in Jobs, CreateAlert(j) PROVE OrderInv'
  <2> DEFINE q == created[j]
  <2>1. /\ UNCHANGED <<user, result, pc, item, items, summarized, conflicts, reports, signals>>
        /\ alerts' = alerts \cup {AlertOf(j, Head(q))}
        /\ q # <<>> /\ created' = [created EXCEPT ![j] = Tail(@)]
    BY <1>6 DEF CreateAlert
  <2>2. /\ q \in Seq(SignalType) /\ created'[j] = Tail(q) /\ 1 \in 1 .. Len(q) /\ Head(q) = q[1]
        /\ Len(Tail(q)) = Len(q) - 1 /\ \A k \in 1 .. Len(Tail(q)) : k + 1 \in 1 .. Len(q) /\ Tail(q)[k] = q[k + 1]
        /\ \A i \in Jobs : i # j => created'[i] = created[i]
    BY <1>0, <2>1
  <2>3. ASSUME NEW i \in Jobs, NEW k \in 1 .. Len(created'[i])
        PROVE  created'[i][k] \in signals /\ created'[i][k].item.by = i
    <3>1. CASE i # j
      BY <1>a, <2>2, <2>3, <3>1 DEF StagesFollow
    <3>2. CASE i = j
      <4>1. k \in 1 .. Len(Tail(q)) /\ created'[i][k] = q[k + 1] /\ k + 1 \in 1 .. Len(q)
        BY <2>2, <2>3, <3>2
      <4>2. \A n \in 1 .. Len(q) : q[n] \in signals /\ q[n].item.by = j
        BY <1>a DEF StagesFollow
      <4>3. QED
        BY <3>2, <4>1, <4>2
    <3>3. QED
      BY <3>1, <3>2
  <2>4. StagesFollow'
    BY <1>a, <2>1, <2>3 DEF StagesFollow
  <2>5. Head(q) \in signals /\ Head(q).item.by = j /\ Head(q).item \in items
    BY <1>a, <2>2 DEF StagesFollow, TypeInv, TypeOK
  <2>6. AlertsTell'
    BY <1>a, <2>1, <2>5 DEF AlertsTell, AlertOf
  <2>7. QED
    BY <1>a, <2>1, <2>4, <2>6 DEF OrderInv, ItemsAreWatched
<1>7. CASE UNCHANGED vars \/ \E j \in Jobs, a \in Assets : RemoveItem(j, a)
  <2>1. UNCHANGED <<pc, user, result, item, created, items, summarized, conflicts, reports, signals,
                    alerts>>
    BY <1>7, RemovalsLeaveTheRest DEF vars
  <2>2. QED
    BY <1>a, <2>1 DEF OrderInv, StagesFollow, AlertsTell, ItemsAreWatched
<1>8. QED
  BY <1>1, <1>2, <1>3, <1>4, <1>5, <1>6, <1>7 DEF Next, JobStep, Terminated

(* The inductive invariant holds in every state.                             *)
LEMMA SpecIInv == Spec => []IInv
<1>1. Init => IInv
  BY InitIInv
<1>2. IInv /\ [Next]_vars => IInv'
  BY TypeStep, ArchiveStep, WayStep, SignalStep, RunStep, OrderStep DEF IInv, SignalInv
<1>3. QED
  BY <1>1, <1>2, PTL DEF Spec

-----------------------------------------------------------------------------
(* Every reachable state of the watchlist analysis is of the right type.     *)
THEOREM TypeCorrect == Spec => []TypeOK
<1>1. IInv => TypeOK
  BY DEF IInv, TypeInv
<1>2. QED
  BY SpecIInv, <1>1, PTL

(* However runs overlap, fail and crash, no stage of an analysis builds on   *)
(* one that is not complete.                                                 *)
THEOREM NoStageIsSkipped == Spec => []StagesAreComplete
<1>1. IInv => StagesAreComplete
  BY DEF IInv, StagesAreComplete
<1>2. QED
  BY SpecIInv, <1>1, PTL

(* Nothing is reported or found in conflict that was not summarized, and     *)
(* nothing signalled that was not reported; an alert tells the owner of the  *)
(* watchlist, and nobody else, of a signal there is.                         *)
THEOREM StagesComeInOrder ==
    Spec => [](/\ reports \cup conflicts \subseteq summarized
               /\ \A s \in signals : s.item \in reports
               /\ \A a \in alerts : /\ a.user = user[a.item.by]
                                   /\ \E s \in signals : s.item = a.item /\ s.type = a.type)
<1>1. IInv => /\ reports \cup conflicts \subseteq summarized
              /\ \A s \in signals : s.item \in reports
              /\ \A a \in alerts : /\ a.user = user[a.item.by]
                                  /\ \E s \in signals : s.item = a.item /\ s.type = a.type
  BY DEF IInv, OrderInv, StagesFollow, AlertsTell
<1>2. QED
  BY SpecIInv, <1>1, PTL

(* An item lacks its summary for three reasons only: the run that created it *)
(* is still at its asset, or that asset failed in it, or it died.            *)
THEOREM MissingSummariesHaveACause ==
    Spec => [](\A i \in items : i \notin summarized =>
                  \/ AtAsset(i.by) /\ asset[i.by] = i.asset
                  \/ result[i.by][i.asset] = "failed"
                  \/ pc[i.by] = "crashed")
<1>1. IInv => \A i \in items : i \notin summarized =>
                  \/ AtAsset(i.by) /\ asset[i.by] = i.asset
                  \/ result[i.by][i.asset] = "failed"
                  \/ pc[i.by] = "crashed"
  <2> SUFFICES ASSUME IInv, NEW i \in items, i \notin summarized
               PROVE  \/ AtAsset(i.by) /\ asset[i.by] = i.asset
                      \/ result[i.by][i.asset] = "failed"
                      \/ pc[i.by] = "crashed"
    OBVIOUS
  <2>1. /\ i.by \in Jobs /\ i.asset \in Assets
        /\ result[i.by][i.asset] \in {"unwatched", "todo", "processed", "failed"}
    BY DEF IInv, TypeInv, TypeOK, ItemType
  <2>2. i \notin reports /\ result[i.by][i.asset] # "unwatched"
    BY DEF IInv, OrderInv, StagesFollow, ItemsAreWatched
  <2>3. result[i.by][i.asset] # "processed"
    BY <2>1, <2>2 DEF IInv, ProcessedIsReported
  <2>4. QED
    BY <2>1, <2>2, <2>3 DEF IInv, ItemsAreOnTheWay
<1>2. QED
  BY SpecIInv, <1>1, PTL

(* No item has two signals of one type.                                      *)
THEOREM NoSignalTwice == Spec => []OneSignalPerCause
<1>1. IInv => OneSignalPerCause
  BY DEF IInv
<1>2. QED
  BY SpecIInv, <1>1, PTL

(* Two runs never analyse the same item: what the rule engine looks up for   *)
(* an item cannot be overtaken before it is acted on.                        *)
THEOREM OneAnalystPerItem ==
    Spec => [](\A i, j \in Jobs : AtItem(i) /\ AtItem(j) /\ item[i] = item[j] => i = j)
<1>1. IInv => \A i, j \in Jobs : AtItem(i) /\ AtItem(j) /\ item[i] = item[j] => i = j
  BY DEF IInv, TypeInv, ItemsAreOwn, Own
<1>2. QED
  BY SpecIInv, <1>1, PTL

(* A failing asset ends no run and takes no other asset with it, and none is *)
(* left out of the record; only an item its owner removed, read again after  *)
(* an earlier asset, ends a run with assets left.                            *)
THEOREM FailuresStayIsolated == Spec => []FailuresAreIsolated
<1>1. IInv => FailuresAreIsolated
  BY DEF IInv, RunsMatchPlace, NothingTried, Left, FailedAssets, JobEnded, FailuresAreIsolated
<1>2. QED
  BY SpecIInv, <1>1, PTL

(* If nobody takes an item off a watchlist while a run walks it, what        *)
(* docs/designs/019-watchlist-analysis-flow.md, line 37, says is right.      *)
THEOREM UndisturbedRunsLeaveNothing ==
    Spec => []((\A j \in Jobs : removed[j] = {}) => NoAssetIsLeftOut)
<1>1. IInv => ((\A j \in Jobs : removed[j] = {}) => NoAssetIsLeftOut)
  BY DEF IInv, RunsMatchPlace, NothingTried, Left, FailedAssets, JobEnded, NoAssetIsLeftOut
<1>2. QED
  BY SpecIInv, <1>1, PTL

(* The run of an analysis is opened once and closed at most once.            *)
THEOREM RunsFollowLifecycle == Spec => JobLifecycle!Spec
<1>1. Init => JobLifecycle!Init
  BY DEF Init, JobLifecycle!Init
<1>2. IInv /\ [Next]_vars => [JobLifecycle!Next]_jobRun
  BY RunStep DEF IInv
<1>3. QED
  BY SpecIInv, <1>1, <1>2, PTL DEF Spec, JobLifecycle!Spec
=============================================================================
