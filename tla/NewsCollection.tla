--------------------------- MODULE NewsCollection ---------------------------
(***************************************************************************)
(* collect_news_job running beside other collection jobs: the hourly cron  *)
(* and the manual trigger enqueue the same function.                       *)
(*                                                                         *)
(* A job walks its targets, asks the feed for each and walks the entries:  *)
(* save the raw event, normalize it, mark it.  Each of the three commits   *)
(* on its own.  raw_news_events has a unique url, the one the feed gave;   *)
(* news_items has no unique key, and its url is the canonical one, looked  *)
(* up in one statement and inserted in a later one.                        *)
(*                                                                         *)
(* The order of the entries of a feed is left open.                        *)
(***************************************************************************)
EXTENDS Naturals, FiniteSets

CONSTANTS
    Jobs,       \* executions of collect_news_job
    Workers,    \* how many of them the RQ workers run at a time
    Targets,    \* (symbol, market, name) triples
    Resolved,   \* targets whose canonical symbol and market name an asset
    Urls,
    Canon,      \* canonicalize_url
    Feeds,      \* what a query may return: sets of entries
    NoEvent, NoEntry, NoTarget

\* "invalid": blank field or future date; "oversized": longer than its column.
EntryKinds == {"good", "invalid", "oversized"}

EntryType == [url : Urls, kind : EntryKinds]
EventType == [target : Targets, kind : EntryKinds,
              status : {"fetched", "normalized", "failed"}]
ItemType == [url : Urls, from : Urls, by : Jobs]

ASSUME ResolvedType == Resolved \subseteq Targets
ASSUME CanonType == Canon \in [Urls -> Urls]
ASSUME FeedsType == \A f \in Feeds : f \subseteq EntryType
ASSUME NoEventFresh == NoEvent \notin EventType
ASSUME NoEntryFresh == NoEntry \notin EntryType
ASSUME NoTargetFresh == NoTarget \notin Targets

VARIABLES
    jobRun,     \* job_runs.status of each job
    pc,         \* where each job is
    result,     \* how each target of each job went
    target,     \* the target each job is working on
    feed,       \* its entries still to come
    entry,      \* the entry being normalized
    raw,        \* raw_news_events, one row per url
    items       \* news_items

vars == <<jobRun, pc, result, target, feed, entry, raw, items>>

Working(j) == pc[j] \notin {"idle", "returned", "raised", "crashed"}

JobEnded(j) == pc[j] \in {"returned", "raised"}

-----------------------------------------------------------------------------
Init ==
    /\ jobRun = [j \in Jobs |-> "absent"]
    /\ pc = [j \in Jobs |-> "idle"]
    /\ result = [j \in Jobs |-> [t \in Targets |-> "untargeted"]]
    /\ target = [j \in Jobs |-> NoTarget]
    /\ feed = [j \in Jobs |-> {}]
    /\ entry = [j \in Jobs |-> NoEntry]
    /\ raw = [u \in Urls |-> NoEvent]
    /\ items = {}

Goto(j, place) == pc' = [pc EXCEPT ![j] = place]

Close(j, status) == jobRun' = [jobRun EXCEPT ![j] = status]

\* The targets are the universe or the argument; the run is opened.
StartJob(j) ==
    /\ pc[j] = "idle"
    /\ Cardinality({i \in Jobs : Working(i)}) < Workers
    /\ \E ts \in SUBSET Targets :
         result' = [result EXCEPT ![j] =
                      [t \in Targets |-> IF t \in ts THEN "todo" ELSE "untargeted"]]
    /\ Close(j, "running")
    /\ Goto(j, "adapter")
    /\ UNCHANGED <<target, feed, entry, raw, items>>

OpenAdapter(j) ==
    /\ pc[j] = "adapter"
    /\ Goto(j, "collect")
    /\ UNCHANGED <<jobRun, result, target, feed, entry, raw, items>>

\* get_news_adapter() raises: the handler closes the run as failed.
AdapterNotImplemented(j) ==
    /\ pc[j] = "adapter"
    /\ Close(j, "failed")
    /\ Goto(j, "raised")
    /\ UNCHANGED <<result, target, feed, entry, raw, items>>

Fetch(j, t, f) ==
    /\ pc[j] = "collect" /\ result[j][t] = "todo"
    /\ target' = [target EXCEPT ![j] = t]
    /\ feed' = [feed EXCEPT ![j] = f]
    /\ Goto(j, "entries")
    /\ UNCHANGED <<jobRun, result, entry, raw, items>>

\* Only the query is inside the try of _collect_target.
FetchFails(j, t) ==
    /\ pc[j] = "collect" /\ result[j][t] = "todo"
    /\ result' = [result EXCEPT ![j][t] = "failed"]
    /\ UNCHANGED <<jobRun, pc, target, feed, entry, raw, items>>

-----------------------------------------------------------------------------
(* One entry: save_with_symbol, then normalize_event. *)

Fault_EventRetagged(j, e) ==
    raw' = [raw EXCEPT ![e.url] = [target |-> target[j], kind |-> e.kind, status |-> "fetched"]]
Fault_EventMarkedDuplicate(j, e) == raw' = [raw EXCEPT ![e.url].status = "skipped_duplicate"]
\* The IntegrityError of the unique url is rolled back and the entry skipped.
KeepEvent(j, e) == UNCHANGED raw

SkipKnown(j, e) ==
    /\ pc[j] = "entries" /\ e \in feed[j]
    /\ e.kind # "oversized" /\ raw[e.url] # NoEvent
    /\ KeepEvent(j, e)
    /\ feed' = [feed EXCEPT ![j] = @ \ {e}]
    /\ UNCHANGED <<jobRun, pc, result, target, entry, items>>

SaveRaw(j, e) ==
    /\ pc[j] = "entries" /\ e \in feed[j]
    /\ e.kind # "oversized" /\ raw[e.url] = NoEvent
    /\ raw' = [raw EXCEPT ![e.url] =
                 [target |-> target[j], kind |-> e.kind, status |-> "fetched"]]
    /\ feed' = [feed EXCEPT ![j] = @ \ {e}]
    /\ entry' = [entry EXCEPT ![j] = e]
    /\ Goto(j, "normalize")
    /\ UNCHANGED <<jobRun, result, target, items>>

\* RawNewsEventCreate refuses the entry: nobody catches it below the job.
PlaceAfterOversized == "raised"

EntryRefused(j, e) ==
    /\ pc[j] = "entries" /\ e \in feed[j]
    /\ e.kind = "oversized"
    /\ Close(j, "failed")
    /\ Goto(j, PlaceAfterOversized)
    /\ UNCHANGED <<result, target, feed, entry, raw, items>>

\* No asset: the event stays "fetched" and the job goes on.
LeaveFetched(j) ==
    /\ pc[j] = "normalize" /\ target[j] \notin Resolved
    /\ Goto(j, "entries")
    /\ UNCHANGED <<jobRun, result, target, feed, entry, raw, items>>

Acceptable(j) == entry[j].kind # "invalid"

Fault_MarkNothing(j, status) == UNCHANGED raw
Mark(j, status) == raw' = [raw EXCEPT ![entry[j].url].status = status]

MarkFailed(j) ==
    /\ pc[j] = "normalize" /\ target[j] \in Resolved
    /\ ~Acceptable(j)
    /\ Mark(j, "failed")
    /\ Goto(j, "entries")
    /\ UNCHANGED <<jobRun, result, target, feed, entry, items>>

\* exists_by_url looks for the canonical url.
Fault_KnownItemByFeedUrl(j) == \E i \in items : i.url = entry[j].url
KnownItem(j) == \E i \in items : i.url = Canon[entry[j].url]

PlaceOfUnknown == "create"

LookUpItem(j) ==
    /\ pc[j] = "normalize" /\ target[j] \in Resolved
    /\ Acceptable(j)
    /\ Goto(j, IF KnownItem(j) THEN "mark" ELSE PlaceOfUnknown)
    /\ UNCHANGED <<jobRun, result, target, feed, entry, raw, items>>

CreateItem(j) ==
    /\ pc[j] = "create"
    /\ items' = items \cup
         {[url |-> Canon[entry[j].url], from |-> entry[j].url, by |-> j]}
    /\ Goto(j, "mark")
    /\ UNCHANGED <<jobRun, result, target, feed, entry, raw>>

MarkNormalized(j) ==
    /\ pc[j] = "mark"
    /\ Mark(j, "normalized")
    /\ Goto(j, "entries")
    /\ UNCHANGED <<jobRun, result, target, feed, entry, items>>

-----------------------------------------------------------------------------
(* How a target and a job end. *)

Fault_ConcludedForgotten(j) == UNCHANGED result
Concluded(j) == result' = [result EXCEPT ![j][target[j]] = "collected"]

FinishTarget(j) ==
    /\ pc[j] = "entries" /\ feed[j] = {}
    /\ Concluded(j)
    /\ Goto(j, "collect")
    /\ UNCHANGED <<jobRun, target, feed, entry, raw, items>>

AllConcluded(j) == \A t \in Targets : result[j][t] # "todo"

Succeed(j) ==
    /\ pc[j] = "collect" /\ AllConcluded(j)
    /\ Close(j, "success")
    /\ Goto(j, "returned")
    /\ UNCHANGED <<result, target, feed, entry, raw, items>>

\* The worker process dies between two commits.
Crash(j) ==
    /\ Working(j)
    /\ Goto(j, "crashed")
    /\ UNCHANGED <<jobRun, result, target, feed, entry, raw, items>>

-----------------------------------------------------------------------------
JobStep(j) ==
    \/ OpenAdapter(j) \/ AdapterNotImplemented(j)
    \/ \E t \in Targets : FetchFails(j, t)
    \/ \E t \in Targets, f \in Feeds : Fetch(j, t, f)
    \/ \E e \in feed[j] : SkipKnown(j, e) \/ SaveRaw(j, e) \/ EntryRefused(j, e)
    \/ LeaveFetched(j) \/ MarkFailed(j) \/ LookUpItem(j) \/ CreateItem(j) \/ MarkNormalized(j)
    \/ FinishTarget(j) \/ Succeed(j)

Terminated ==
    /\ \A j \in Jobs : pc[j] \in {"returned", "raised", "crashed"}
    /\ UNCHANGED vars

Next ==
    \/ \E j \in Jobs : StartJob(j) \/ JobStep(j) \/ Crash(j)
    \/ Terminated

Spec == Init /\ [][Next]_vars

\* A job that was started runs on; being started and crashing are not promised.
FairSpec == Spec /\ \A j \in Jobs : WF_vars(JobStep(j))

-----------------------------------------------------------------------------
Places == {"idle", "adapter", "collect", "entries", "normalize", "create", "mark",
           "returned", "raised", "crashed"}

TypeOK ==
    /\ jobRun \in [Jobs -> {"absent", "running", "success", "failed"}]
    /\ pc \in [Jobs -> Places]
    /\ result \in [Jobs -> [Targets -> {"untargeted", "todo", "failed", "collected"}]]
    /\ target \in [Jobs -> Targets \cup {NoTarget}]
    /\ feed \in [Jobs -> SUBSET EntryType]
    /\ entry \in [Jobs -> EntryType \cup {NoEntry}]
    /\ raw \in [Urls -> EventType \cup {NoEvent}]
    /\ items \subseteq ItemType

(* An event stays "fetched" for three reasons only: its target names no      *)
(* asset, a job is just working on it, or a job crashed on it.  The job that *)
(* finds its url again skips it, so a fourth reason would lose the article.  *)
FetchedIsAccountedFor ==
    \A u \in Urls : (raw[u] # NoEvent /\ raw[u].status = "fetched")
        => \/ raw[u].target \notin Resolved
           \/ \E j \in Jobs : /\ entry[j] # NoEntry /\ entry[j].url = u
                              /\ pc[j] \in {"normalize", "create", "mark", "crashed"}

(* Two items at one url are the work of two jobs: within one job the second  *)
(* spelling of a url finds the item of the first one.                        *)
DuplicatesNeedTwoJobs ==
    \A i1, i2 \in items : i1.url = i2.url /\ i1 # i2 => i1.by # i2.by

(* The first job to save a url keeps it: its target is never changed, and    *)
(* its status only moves on from "fetched", once.                            *)
EventsOnlyAdvance ==
    [][\A u \in Urls : raw[u] # NoEvent =>
          /\ raw'[u] # NoEvent
          /\ raw'[u].target = raw[u].target /\ raw'[u].kind = raw[u].kind
          /\ raw[u].status # "fetched" => raw'[u].status = raw[u].status]_vars

(* A job that was started comes to an end, and closes its run, unless its    *)
(* process dies.                                                             *)
StartedJobsEnd ==
    \A j \in Jobs : pc[j] = "adapter" ~> \/ JobEnded(j) /\ jobRun[j] # "running"
                                         \/ pc[j] = "crashed"

-----------------------------------------------------------------------------
(* docs/designs/069-news-normalizer.md, line 132: a news item is not created *)
(* twice for one url.                                                        *)
UrlsAreUnique == \A i1, i2 \in items : i1.url = i2.url => i1 = i2
=============================================================================
