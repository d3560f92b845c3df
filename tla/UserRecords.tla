---------------------------- MODULE UserRecords ----------------------------
(***************************************************************************)
(* The records the users keep: checklists, decision logs, theses, alerts,  *)
(* registrations and watchlists.  No two of these components write a table *)
(* in common, so the requests of one component are explored at a time, and *)
(* part says of which.                                                     *)
(***************************************************************************)
EXTENDS Session, Functions

CONSTANTS
    Users, Assets, Texts, DayLength,                            \* shared
    Notes, Memos, Blank, Required,                              \* DecisionChecklist
    Logs, Patches, Kinds, LogBooks,                             \* DecisionLogs
    Theses, ThesisBooks,                                        \* Theses
    Rows, Causes, Topics, Expiry, Boxes,                        \* Inbox
    Emails, Symbols, Passwords,                                 \* Registration
    Lists, Priorities, SignalTypes, Stocks, ItemLimit, Before   \* Watchlists

ASSUME DaysPass == DayLength \in Nat \ {0}
ASSUME BlankIsNoMemo == Blank \notin Memos
ASSUME NobodyInsertsBefore == Before \notin Requests

VARIABLE part

vars == <<session, part>>

Checklist == INSTANCE DecisionChecklist
DecisionLog == INSTANCE DecisionLogs
Thesis == INSTANCE Theses
Messages == INSTANCE Inbox
Register == INSTANCE Registration
Watchlist == INSTANCE Watchlists

\* The markers are no values of what they stand beside.
ASSUME NullIsNothing == Null \notin Times
ASSUME KeepIsNothing == \A kind \in Messages!RowKinds : Keep \notin Messages!Statuses[kind]
ASSUME AbsentIsNothing ==
    /\ Absent \notin Checklist!NoteType \cup Checklist!SaveType
    /\ Absent \notin DecisionLog!LogType \cup Thesis!ThesisType \cup Messages!RowType
    /\ \A key \in Register!Keys : Absent \notin Register!RowFor(key)
    /\ Absent \notin Users

\* An id is a number of a bounded column.
ASSUME IdsAreFinite == \A ids \in {Logs, Rows, Symbols, Lists} : IsFiniteSet(ids)
ASSUME IdsAreApart == Users \cap (Lists \cup Assets) = {} /\ Lists \cap Assets = {}

ASSUME BooksAreTyped ==
    /\ LogBooks \subseteq [Logs -> DecisionLog!LogType \cup {Absent}]
    /\ ThesisBooks \subseteq [Theses -> Thesis!ThesisType \cup {Absent}]
    /\ Boxes \subseteq [Rows -> Messages!RowType \cup {Absent}]
    /\ \A box \in Boxes, i \in Rows : box[i] # Absent => box[i].created = 0
    /\ Stocks \subseteq [items : SUBSET Watchlist!ItemType, signals : SUBSET Watchlist!SignalType]
    /\ \A stock \in Stocks :
         /\ IsFiniteSet(stock.items) /\ IsFiniteSet(stock.signals)
         /\ \A row \in stock.items \cup stock.signals : row.created = 0
         /\ \A i, j \in stock.items : (i.list = j.list /\ i.asset = j.asset) => i = j
ASSUME PatchesAreTyped == Patches \subseteq DecisionLog!PatchType

Init ==
    \/ part = "checklist" /\ Checklist!Init
    \/ part = "logs" /\ DecisionLog!Init
    \/ part = "theses" /\ Thesis!Init
    \/ part = "inbox" /\ Messages!Init
    \/ part = "registration" /\ Register!Init
    \/ part = "watchlists" /\ Watchlist!Init

Handle(r) ==
    \/ part = "checklist" /\ Checklist!Handle(r)
    \/ part = "logs" /\ DecisionLog!Handle(r)
    \/ part = "theses" /\ Thesis!Handle(r)
    \/ part = "inbox" /\ Messages!Handle(r)
    \/ part = "registration" /\ Register!Handle(r)
    \/ part = "watchlists" /\ Watchlist!Handle(r)

Next ==
    /\ part' = part
    /\ \/ \E r \in Requests : Handle(r) \/ Crash(r)
       \/ Tick
       \/ Terminated

Spec == Init /\ [][Next]_vars

-----------------------------------------------------------------------------
TypeOK ==
    /\ now \in Times
    /\ CASE part = "checklist" -> Checklist!TypeOK
         [] part = "logs" -> DecisionLog!TypeOK
         [] part = "theses" -> Thesis!TypeOK
         [] part = "inbox" -> Messages!TypeOK
         [] part = "registration" -> Register!TypeOK
         [] part = "watchlists" -> Watchlist!TypeOK

(* docs/designs/033-decision-checklist-api.md: a note is decided while it is *)
(* complete and not otherwise, and keeps the time it was first complete, as  *)
(* long as no save was decided on a note that has been replaced since.       *)
DecidedFollowsTheNote == [][part = "checklist" => Checklist!KeepsNotesDecided]_vars

(* docs/designs/decision-log-domain.md, section 6.3: the time of a review or *)
(* a closing is never stamped over.  It changes only by an update that sends *)
(* another, or that read the log before the time was set; and even such an   *)
(* update puts its own stamp there and never takes the other's away.         *)
StampsAreKept == [][part = "logs" => DecisionLog!KeepsStamps]_vars

\* The requests about to commit a change of one row, and the fields they sent.
Commits(r) == pc[r] \in {"update", "commit", "mark"} /\ pc'[r] # pc[r]

Fields(data) == {c \in DOMAIN data : data[c] # Keep}

KeepsOtherColumns ==
    \A k \in DOMAIN table : (table[k] # Absent /\ table'[k] # table[k]) =>
        \E r \in Requests :
          /\ Commits(r)
          /\ \A c \in DOMAIN table[k] :
                \/ table'[k][c] = table[k][c]
                \/ c \in Fields(request[r].sent) \cup {"reviewed", "closed"}

(* A commit changes the columns its request was sent, and in a decision log  *)
(* the stamps: a request that read the row before somebody else changed      *)
(* another column of it does not undo that.  So a thesis, once deactivated,  *)
(* stays so, whoever edits it.                                               *)
OtherColumnsSurvive == [][(part \in {"logs", "theses", "inbox"}) => KeepsOtherColumns]_vars

(* docs/designs/036-list-query-conventions.md: the total of a list is never  *)
(* smaller than the rows up to the end of its page, although rows are        *)
(* inserted and changed between the two statements.  This is so where rows   *)
(* neither are deleted nor leave the filter of the list.                     *)
TotalsCoverPages ==
    \A r \in Requests : pc[r] = "count" =>
        LET q == request[r].what
        IN  CASE part = "logs" -> Covers(Cardinality(DecisionLog!Own(q)), request[r])
              [] part = "inbox" -> q.status = Null => Covers(Messages!Total(q), request[r])
              [] part = "registration" -> Covers(Cardinality(Register!Registered), request[r])
              [] part = "watchlists" ->
                   (q.of \in Users \/ (q.of \in Assets /\ q.all))
                     => Covers(Cardinality(Watchlist!Listed(q)), request[r])

Rising(series) ==
    \A d, e \in DOMAIN series : d <= e => series[d] <= series[e]

(* docs/designs/063-watchlist-summary-trends.md, section 3: the last day of  *)
(* the trends of a watchlist is its summary, and its items only grow; docs   *)
(* 062: the dashboard's unread messages of today are among its trends.       *)
(* What a watchlist highlights as a risk is what its summary counts.         *)
TrendsEndWithSummary ==
    CASE part = "watchlists" ->
           \A w \in Lists, days \in 1 .. 2 :
             LET trends == Watchlist!Trends(w, days)
                 summary == Watchlist!Summary(w)
                 today == Watchlist!Day(now)
             IN  /\ trends.total[today] = summary.total
                 /\ trends.risk[today] = summary.risk
                 /\ Rising(trends.total)
                 /\ \A top \in Watchlist!Highlighted(w) :
                      LET risky == Cardinality({i \in top : Watchlist!StatusOf(i) = "RISK_ALERT"})
                      IN  risky <= summary.risk /\ (top = Watchlist!Items(w) => risky = summary.risk)
      [] part = "inbox" ->
           \A u \in Users :
             LET trends == Messages!DashboardTrends(u, Messages!Day(now) + 1)
                 summary == Messages!DashboardSummary(u)
             IN  /\ summary.risk <= SumFunction(trends.risk)
                 /\ summary.news <= SumFunction(trends.news)
                 /\ summary.review <= SumFunction(trends.review)
      [] OTHER -> TRUE
=============================================================================
