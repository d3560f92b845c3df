-------------------------- MODULE WatchlistAnalysis --------------------------
(***************************************************************************)
(* analyze_watchlist_job running beside other analysis jobs, of the same   *)
(* watchlist or of watchlists that share assets.                           *)
(*                                                                         *)
(* For every asset of its watchlist a run fetches the news, archives it,   *)
(* creates a news item for each url that has none, and takes the items it  *)
(* created, and no others, through summary, thesis conflict, report, rule  *)
(* engine and alerts.  Every repository method on the way commits, so the  *)
(* rollback of a failing asset has nothing to undo; but every commit and   *)
(* every rollback expires the rows the session holds, the items of the     *)
(* watchlist among them, and the loop reads the next one outside its try.  *)
(*                                                                         *)
(* The collection job writes the same two tables, but the adapters answer  *)
(* fetch and fetch_query with different urls, so it is left out here.  The *)
(* answer of the LLM is reduced to what the rules look at.                 *)
(***************************************************************************)
EXTENDS Naturals, FiniteSets, Sequences

CONSTANTS
    Jobs,       \* executions of analyze_watchlist_job
    Workers,    \* how many of them the RQ workers run at a time
    Users,      \* owners of watchlists
    Assets,
    Urls,
    Feed,       \* what the adapter returns for an asset
    NoUser, NoAsset, NoItem

Impacts == {"low", "high"}
Verdicts == {"none", "neutral", "conflicts", "broken"}
SignalTypes == {"THESIS_BROKEN", "RISK_ALERT"}
Rules == {"thesis", "impact"}

ItemType == [url : Urls, asset : Assets, by : Jobs]
CandidateType == [type : SignalTypes, rule : Rules]
SignalType == [item : ItemType, type : SignalTypes, rule : Rules]
AlertType == [user : Users, item : ItemType, type : SignalTypes]

ASSUME FeedType == Feed \in [Assets -> SUBSET Urls]
ASSUME NoUserFresh == NoUser \notin Users
ASSUME NoAssetFresh == NoAsset \notin Assets
ASSUME NoItemFresh == NoItem \notin ItemType

VARIABLES
    jobRun,     \* job_runs.status of each job
    partial,    \* job_runs.metadata["partial_failures"]
    pc,         \* where each job is
    user,       \* the owner of its watchlist
    result,     \* how each asset of its watchlist went
    asset,      \* the asset it is at
    removed,    \* assets whose item the owner took off the watchlist meanwhile
    urls,       \* urls of the feed still to archive, then to turn into items
    fresh,      \* items it created for the asset and has not analysed yet
    item,       \* the item it is analysing
    thesis,     \* whether the user has an active thesis on the asset
    impact,     \* the impact level of the summary
    verdict,    \* the outcome of the conflict analysis
    candidates, \* what the rules proposed and the engine has not seen yet
    created,    \* signals the engine created and nobody was alerted of yet
    raw,        \* urls of raw_news_events
    items, summarized, conflicts, reports, signals, alerts      \* tables

jobVars == <<jobRun, partial>>
placeVars == <<user, result, asset, removed>>
feedVars == <<urls, fresh, raw, items>>
analysisVars == <<item, thesis, impact, verdict, candidates, created>>
tables == <<summarized, conflicts, reports, signals, alerts>>
vars == <<jobVars, pc, placeVars, feedVars, analysisVars, tables>>

Working(j) == pc[j] \notin {"idle", "returned", "raised", "crashed"}

JobEnded(j) == pc[j] \in {"returned", "raised"}

-----------------------------------------------------------------------------
Init ==
    /\ jobRun = [j \in Jobs |-> "absent"]
    /\ partial = [j \in Jobs |-> {}]
    /\ pc = [j \in Jobs |-> "idle"]
    /\ user = [j \in Jobs |-> NoUser]
    /\ result = [j \in Jobs |-> [a \in Assets |-> "unwatched"]]
    /\ asset = [j \in Jobs |-> NoAsset]
    /\ removed = [j \in Jobs |-> {}]
    /\ urls = [j \in Jobs |-> {}]
    /\ fresh = [j \in Jobs |-> {}]
    /\ raw = {}
    /\ items = {}
    /\ item = [j \in Jobs |-> NoItem]
    /\ thesis = [j \in Jobs |-> FALSE]
    /\ impact = [j \in Jobs |-> "low"]
    /\ verdict = [j \in Jobs |-> "none"]
    /\ candidates = [j \in Jobs |-> <<>>]
    /\ created = [j \in Jobs |-> <<>>]
    /\ summarized = {} /\ conflicts = {} /\ reports = {} /\ signals = {} /\ alerts = {}

Goto(j, place) == pc' = [pc EXCEPT ![j] = place]

Close(j, status) == jobRun' = [jobRun EXCEPT ![j] = status]

-----------------------------------------------------------------------------
(* The job and its walk over the watchlist. *)

StartJob(j) ==
    /\ pc[j] = "idle"
    /\ Cardinality({i \in Jobs : Working(i)}) < Workers
    /\ Close(j, "running")
    /\ Goto(j, "watchlist")
    /\ UNCHANGED <<partial, placeVars, feedVars, analysisVars, tables>>

OpenWatchlist(j) ==
    /\ pc[j] = "watchlist"
    /\ \E u \in Users : user' = [user EXCEPT ![j] = u]
    /\ \E as \in SUBSET Assets :
         result' = [result EXCEPT ![j] =
                      [a \in Assets |-> IF a \in as THEN "todo" ELSE "unwatched"]]
    /\ Goto(j, "assets")
    /\ UNCHANGED <<jobVars, asset, removed, feedVars, analysisVars, tables>>

\* No such watchlist, or no gateway or adapter for the settings.
JobFails(j) ==
    /\ pc[j] = "watchlist"
    /\ Close(j, "failed")
    /\ Goto(j, "raised")
    /\ UNCHANGED <<partial, placeVars, feedVars, analysisVars, tables>>

\* An asset before committed or was rolled back, so the item is read anew.
Expired(j) ==
    \E a \in Assets : \/ result[j][a] = "failed"
                      \/ result[j][a] = "processed" /\ Feed[a] # {}

\* The row of the item is still there, or is not looked at again.
Readable(j, a) == Expired(j) => a \notin removed[j]

\* A request of the owner deletes an item the run has still to reach.
RemoveItem(j, a) ==
    /\ Working(j) /\ result[j][a] = "todo" /\ a # asset[j] /\ a \notin removed[j]
    /\ removed' = [removed EXCEPT ![j] = @ \cup {a}]
    /\ UNCHANGED <<jobVars, pc, user, result, asset, feedVars, analysisVars, tables>>

NextAsset(j, a) ==
    /\ pc[j] = "assets" /\ result[j][a] = "todo" /\ Readable(j, a)
    /\ asset' = [asset EXCEPT ![j] = a]
    /\ urls' = [urls EXCEPT ![j] = Feed[a]]
    /\ fresh' = [fresh EXCEPT ![j] = {}]
    /\ Goto(j, "archive")
    /\ UNCHANGED <<jobVars, user, result, removed, raw, items, analysisVars, tables>>

Failed(j, a) == result' = [result EXCEPT ![j][a] = "failed"]

\* Its feed cannot be read.  (No asset is ever deleted, so none is not found.)
AssetSkipped(j, a) ==
    /\ pc[j] = "assets" /\ result[j][a] = "todo" /\ Readable(j, a)
    /\ Failed(j, a)
    /\ UNCHANGED <<jobVars, pc, user, asset, removed, feedVars, analysisVars, tables>>

\* ObjectDeletedError at item.asset_id leaves the loop: the job closes the run
\* as failed, without the failures it had collected.
ItemGone(j, a) ==
    /\ pc[j] = "assets" /\ result[j][a] = "todo" /\ ~Readable(j, a)
    /\ Close(j, "failed")
    /\ Goto(j, "raised")
    /\ UNCHANGED <<partial, placeVars, feedVars, analysisVars, tables>>

\* An entry too long for its column, or an LLM call that raises or does not
\* validate: rollback() finds nothing uncommitted, and the next asset is due.
Fault_RaisesAfterFailure(j) == Close(j, "failed") /\ Goto(j, "raised")
AfterFailure(j) == UNCHANGED jobRun /\ Goto(j, "assets")

AssetFails(j) ==
    /\ pc[j] \in {"archive", "summarize", "conflict"}
    /\ Failed(j, asset[j])
    /\ AfterFailure(j)
    /\ UNCHANGED <<partial, user, asset, removed, feedVars, analysisVars, tables>>

-----------------------------------------------------------------------------
(* From the feed to news items. *)

Archive(j, u) == raw' = raw \cup {u}

SaveRaw(j, u) ==
    /\ pc[j] = "archive" /\ u \in urls[j]
    /\ Archive(j, u)
    /\ urls' = [urls EXCEPT ![j] = @ \ {u}]
    /\ UNCHANGED <<jobVars, pc, placeVars, fresh, items, analysisVars, tables>>

Archived(j) ==
    /\ pc[j] = "archive" /\ urls[j] = {}
    /\ urls' = [urls EXCEPT ![j] = Feed[asset[j]]]
    /\ Goto(j, "lookup")
    /\ UNCHANGED <<jobVars, placeVars, fresh, raw, items, analysisVars, tables>>

\* exists_by_url.
Known(j, u) == \E i \in items : i.url = u

SkipKnown(j, u) ==
    /\ pc[j] = "lookup" /\ u \in urls[j]
    /\ Known(j, u)
    /\ urls' = [urls EXCEPT ![j] = @ \ {u}]
    /\ UNCHANGED <<jobVars, pc, placeVars, fresh, raw, items, analysisVars, tables>>

\* Nothing is found: the url is kept alone until its item is created.
LookUpNew(j, u) ==
    /\ pc[j] = "lookup" /\ u \in urls[j]
    /\ ~Known(j, u)
    /\ item' = [item EXCEPT ![j] = [url |-> u, asset |-> asset[j], by |-> j]]
    /\ Goto(j, "create")
    /\ UNCHANGED <<jobVars, placeVars, feedVars, thesis, impact, verdict, candidates, created,
                   tables>>

CreateItem(j) ==
    /\ pc[j] = "create"
    /\ items' = items \cup {item[j]}
    /\ fresh' = [fresh EXCEPT ![j] = @ \cup {item[j]}]
    /\ urls' = [urls EXCEPT ![j] = @ \ {item[j].url}]
    /\ Goto(j, "lookup")
    /\ UNCHANGED <<jobVars, placeVars, raw, analysisVars, tables>>

\* get_latest_by_asset.
ReadThesis(j) ==
    /\ pc[j] = "lookup" /\ urls[j] = {}
    /\ \E active \in BOOLEAN : thesis' = [thesis EXCEPT ![j] = active]
    /\ Goto(j, "next")
    /\ UNCHANGED <<jobVars, placeVars, feedVars, item, impact, verdict, candidates, created,
                   tables>>

-----------------------------------------------------------------------------
(* The analysis of one item. *)

NextItem(j, i) ==
    /\ pc[j] = "next" /\ i \in fresh[j]
    /\ fresh' = [fresh EXCEPT ![j] = @ \ {i}]
    /\ item' = [item EXCEPT ![j] = i]
    /\ Goto(j, "summarize")
    /\ UNCHANGED <<jobVars, placeVars, urls, raw, items, thesis, impact, verdict, candidates,
                   created, tables>>

AfterSummary(j) == IF thesis[j] THEN "conflict" ELSE "report"

Summarize(j, level) ==
    /\ pc[j] = "summarize"
    /\ summarized' = summarized \cup {item[j]}
    /\ impact' = [impact EXCEPT ![j] = level]
    /\ verdict' = [verdict EXCEPT ![j] = "none"]
    /\ Goto(j, AfterSummary(j))
    /\ UNCHANGED <<jobVars, placeVars, feedVars, item, thesis, candidates, created, conflicts,
                   reports, signals, alerts>>

AnalyzeConflict(j, v) ==
    /\ pc[j] = "conflict" /\ v # "none"
    /\ conflicts' = conflicts \cup {item[j]}
    /\ verdict' = [verdict EXCEPT ![j] = v]
    /\ Goto(j, "report")
    /\ UNCHANGED <<jobVars, placeVars, feedVars, item, thesis, impact, candidates, created,
                   summarized, reports, signals, alerts>>

\* ThesisConflictRule, then HighImpactNewsRule.
ThesisCandidates(v) ==
    CASE v = "broken" -> <<[type |-> "THESIS_BROKEN", rule |-> "thesis"]>>
      [] v = "conflicts" -> <<[type |-> "RISK_ALERT", rule |-> "thesis"]>>
      [] OTHER -> <<>>

Fault_ImpactCandidatesByLevel(level) ==
    IF level = "high" THEN <<[type |-> level, rule |-> "impact"]>> ELSE <<>>
ImpactCandidates(level) ==
    IF level = "high" THEN <<[type |-> "RISK_ALERT", rule |-> "impact"]>> ELSE <<>>

CreateReport(j) ==
    /\ pc[j] = "report"
    /\ reports' = reports \cup {item[j]}
    /\ candidates' =
         [candidates EXCEPT ![j] = ThesisCandidates(verdict[j]) \o ImpactCandidates(impact[j])]
    /\ created' = [created EXCEPT ![j] = <<>>]
    /\ Goto(j, "rules")
    /\ UNCHANGED <<jobVars, placeVars, feedVars, item, thesis, impact, verdict, summarized,
                   conflicts, signals, alerts>>

\* exists_active; a signal of the rules never expires.
Fault_ActiveSignalByRule(j, c) ==
    \E s \in signals : s.item = item[j] /\ s.type = c.type /\ s.rule = c.rule
ActiveSignal(j, c) == \E s \in signals : s.item = item[j] /\ s.type = c.type

SignalOf(j, c) == [item |-> item[j], type |-> c.type, rule |-> c.rule]

DropCandidate(j) ==
    /\ pc[j] = "rules" /\ candidates[j] # <<>>
    /\ ActiveSignal(j, Head(candidates[j]))
    /\ candidates' = [candidates EXCEPT ![j] = Tail(@)]
    /\ UNCHANGED <<jobVars, pc, placeVars, feedVars, item, thesis, impact, verdict, created,
                   tables>>

CreateSignal(j) ==
    /\ pc[j] = "rules" /\ candidates[j] # <<>>
    /\ ~ActiveSignal(j, Head(candidates[j]))
    /\ signals' = signals \cup {SignalOf(j, Head(candidates[j]))}
    /\ created' = [created EXCEPT ![j] = Append(@, SignalOf(j, Head(candidates[j])))]
    /\ candidates' = [candidates EXCEPT ![j] = Tail(@)]
    /\ UNCHANGED <<jobVars, pc, placeVars, feedVars, item, thesis, impact, verdict, summarized,
                   conflicts, reports, alerts>>

EngineDone(j) ==
    /\ pc[j] = "rules" /\ candidates[j] = <<>>
    /\ Goto(j, "alert")
    /\ UNCHANGED <<jobVars, placeVars, feedVars, analysisVars, tables>>

AlertOf(j, s) == [user |-> user[j], item |-> s.item, type |-> s.type]

\* The unique (user_id, dedup_key) makes a second alert a no-op.
CreateAlert(j) ==
    /\ pc[j] = "alert" /\ created[j] # <<>>
    /\ alerts' = alerts \cup {AlertOf(j, Head(created[j]))}
    /\ created' = [created EXCEPT ![j] = Tail(@)]
    /\ UNCHANGED <<jobVars, pc, placeVars, feedVars, item, thesis, impact, verdict, candidates,
                   summarized, conflicts, reports, signals>>

Fault_AllAlertedAtFirst(j) == Len(created[j]) <= 1
AllAlerted(j) == created[j] = <<>>

ItemDone(j) ==
    /\ pc[j] = "alert" /\ AllAlerted(j)
    /\ Goto(j, "next")
    /\ UNCHANGED <<jobVars, placeVars, feedVars, analysisVars, tables>>

-----------------------------------------------------------------------------
(* How an asset and a job end. *)

AllAnalysed(j) == fresh[j] = {}

Processed(j) == result' = [result EXCEPT ![j][asset[j]] = "processed"]

AssetDone(j) ==
    /\ pc[j] = "next" /\ AllAnalysed(j)
    /\ Processed(j)
    /\ Goto(j, "assets")
    /\ UNCHANGED <<jobVars, user, asset, removed, feedVars, analysisVars, tables>>

FailedAssets(j) == {a \in Assets : result[j][a] = "failed"}

\* The partial failures go into the metadata with the commit of succeed().
Recorded(j) == FailedAssets(j)

Succeed(j) ==
    /\ pc[j] = "assets"
    /\ \A a \in Assets : result[j][a] # "todo"
    /\ partial' = [partial EXCEPT ![j] = Recorded(j)]
    /\ Close(j, "success")
    /\ Goto(j, "returned")
    /\ UNCHANGED <<placeVars, feedVars, analysisVars, tables>>

\* The worker process dies between two commits.
Crash(j) ==
    /\ Working(j)
    /\ Goto(j, "crashed")
    /\ UNCHANGED <<jobVars, placeVars, feedVars, analysisVars, tables>>

-----------------------------------------------------------------------------
JobStep(j) ==
    \/ OpenWatchlist(j) \/ JobFails(j)
    \/ \E a \in Assets : NextAsset(j, a) \/ AssetSkipped(j, a) \/ ItemGone(j, a)
    \/ AssetFails(j)
    \/ \E u \in urls[j] : SaveRaw(j, u) \/ SkipKnown(j, u) \/ LookUpNew(j, u)
    \/ Archived(j) \/ CreateItem(j) \/ ReadThesis(j)
    \/ \E i \in fresh[j] : NextItem(j, i)
    \/ \E level \in Impacts : Summarize(j, level)
    \/ \E v \in Verdicts : AnalyzeConflict(j, v)
    \/ CreateReport(j) \/ DropCandidate(j) \/ CreateSignal(j) \/ EngineDone(j)
    \/ CreateAlert(j) \/ ItemDone(j) \/ AssetDone(j) \/ Succeed(j)

Terminated ==
    /\ \A j \in Jobs : pc[j] \in {"returned", "raised", "crashed"}
    /\ UNCHANGED vars

Next ==
    \/ \E j \in Jobs : StartJob(j) \/ JobStep(j) \/ Crash(j)
    \/ \E j \in Jobs, a \in Assets : RemoveItem(j, a)
    \/ Terminated

Spec == Init /\ [][Next]_vars

-----------------------------------------------------------------------------
Places == {"idle", "watchlist", "assets", "archive", "lookup", "create", "next", "summarize",
           "conflict", "report", "rules", "alert", "returned", "raised", "crashed"}

TypeOK ==
    /\ jobRun \in [Jobs -> {"absent", "running", "success", "failed"}]
    /\ partial \in [Jobs -> SUBSET Assets]
    /\ pc \in [Jobs -> Places]
    /\ user \in [Jobs -> Users \cup {NoUser}]
    /\ result \in [Jobs -> [Assets -> {"unwatched", "todo", "processed", "failed"}]]
    /\ asset \in [Jobs -> Assets \cup {NoAsset}]
    /\ removed \in [Jobs -> SUBSET Assets]
    /\ urls \in [Jobs -> SUBSET Urls]
    /\ fresh \in [Jobs -> SUBSET ItemType]
    /\ raw \subseteq Urls
    /\ items \subseteq ItemType
    /\ item \in [Jobs -> ItemType \cup {NoItem}]
    /\ thesis \in [Jobs -> BOOLEAN]
    /\ impact \in [Jobs -> Impacts]
    /\ verdict \in [Jobs -> Verdicts]
    /\ candidates \in [Jobs -> Seq(CandidateType)]
    /\ created \in [Jobs -> Seq(SignalType)]
    /\ summarized \subseteq items
    /\ conflicts \subseteq items
    /\ reports \subseteq items
    /\ signals \subseteq SignalType
    /\ alerts \subseteq AlertType

\* A news item of the analysis refers to a raw event in the archive, also when
\* another run archived or created the url in between.
ItemsAreArchived == \A i \in items : i.url \in raw

\* An asset is processed only when each item the run created for it has a report.
ProcessedIsReported ==
    \A j \in Jobs, a \in Assets : result[j][a] = "processed"
        => \A i \in items : (i.by = j /\ i.asset = a) => i \in reports

(* docs/designs/020-rule-engine.md, line 74: one cause raises one signal.    *)
(* Both rules may propose a RISK_ALERT for the same item; one is created.    *)
OneSignalPerCause ==
    \A s1, s2 \in signals : s1.item = s2.item /\ s1.type = s2.type => s1 = s2

\* A run past the rules has alerted its user of every signal it raised; only a
\* crash between the two commits leaves one unannounced.
SignalsAreAlerted ==
    \A s \in signals :
        LET j == s.item.by IN
            \/ pc[j] = "crashed"
            \/ pc[j] \in {"rules", "alert"} /\ item[j] = s.item
            \/ AlertOf(j, s) \in alerts

(* Each stage of the analysis is complete before the next one builds on it:  *)
(* an item is archived before it exists, reported before its asset counts as *)
(* processed, and its signals are announced before the run goes on, whoever  *)
(* else archives, creates or crashes in between.                             *)
StagesAreComplete == ItemsAreArchived /\ ProcessedIsReported /\ SignalsAreAlerted

Left(j) == {a \in Assets : result[j][a] = "todo"}

(* A failing asset takes no other one with it.  A run that ended has left an *)
(* asset out, has not recorded a failure, or failed after it began, only     *)
(* when the owner took an item off its watchlist that it had to read again   *)
(* after an earlier asset.                                                   *)
FailuresAreIsolated ==
    \A j \in Jobs :
        JobEnded(j) /\ (Left(j) # {} \/ partial[j] # FailedAssets(j)
                         \/ (jobRun[j] = "failed" /\ asset[j] # NoAsset))
            => Expired(j) /\ Left(j) \cap removed[j] # {}

-----------------------------------------------------------------------------
(* docs/designs/019-watchlist-analysis-flow.md, line 37: an exception at one *)
(* asset does not stop the flow, the next asset is taken, and at the end the *)
(* failed ones are recorded; so no run ends with an asset left out or with a *)
(* failure off the record.                                                   *)
NoAssetIsLeftOut ==
    \A j \in Jobs : JobEnded(j) => Left(j) = {} /\ partial[j] = FailedAssets(j)

(* docs/knowledge/product-workflow.md, line 60: every news item is           *)
(* summarized, so a processed asset has none without a summary.              *)
ProcessedIsSummarized ==
    \A j \in Jobs, a \in Assets : (result[j][a] = "processed" /\ JobEnded(j))
        => \A i \in items : i.asset = a
             => i \in summarized \/ Working(i.by)
=============================================================================
