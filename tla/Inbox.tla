------------------------------- MODULE Inbox -------------------------------
(***************************************************************************)
(* What a user is to look at: alerts, which come with a signal, and alert  *)
(* candidates.  Jobs create them; the user lists, reads, dismisses and     *)
(* confirms them; the dashboard counts them, once as they are and once by  *)
(* the day they were created.                                              *)
(***************************************************************************)
EXTENDS Session

CONSTANTS
    Rows,           \* ids of alerts and candidates
    Users,
    Causes,         \* signals: [type, of], where of is a news item or the signal itself
    Topics,         \* [type, importance] of a candidate
    Expiry,         \* when the signal of a cause expires, or Null
    DayLength,      \* units of the clock in a day
    Boxes           \* alerts and candidates the database may start with

Statuses == [alert |-> {"UNREAD", "READ", "DISMISSED"}, candidate |-> {"UNREAD", "READ", "CONFIRMED"}]

About == [alert |-> Causes, candidate |-> Topics]

RowKinds == DOMAIN Statuses

RowsOfKind(kind) ==
    [kind : {kind}, user : Users, about : About[kind], status : Statuses[kind], created : Times]

RowType == RowsOfKind("alert") \cup RowsOfKind("candidate")

Own(kind, u) == {i \in Rows : table[i] # Absent /\ table[i].kind = kind /\ table[i].user = u}

Init == table \in Boxes /\ Fresh

\* The key (user, dedup_key); the cause stands for the key.
IsAlerted(u, cause) == \E i \in Own("alert", u) : table[i].about = cause

Fault_InsertConfirmed(i, kind, u, about) ==
    table' = [table EXCEPT ![i] = [kind |-> kind, user |-> u, about |-> about,
                                   status |-> "CONFIRMED", created |-> now]]

Insert(i, kind, u, about) ==
    table' = [table EXCEPT ![i] = [kind |-> kind, user |-> u, about |-> about,
                                   status |-> "UNREAD", created |-> now]]

CreateAlert(r) ==
    /\ pc[r] = "idle"
    /\ \E i \in Rows, u \in Users, cause \in Causes :
         /\ table[i] = Absent
         /\ ~IsAlerted(u, cause)
         /\ Insert(i, "alert", u, cause)
    /\ Reply(r, "ok")

\* The IntegrityError is rolled back, and there is no second alert.
AlertIsThere(r) ==
    /\ \E u \in Users, cause \in Causes : IsAlerted(u, cause)
    /\ Read(r)

CreateCandidate(r) ==
    /\ pc[r] = "idle"
    /\ \E i \in Rows, u \in Users, topic \in Topics :
         table[i] = Absent /\ Insert(i, "candidate", u, topic)
    /\ Reply(r, "ok")

Load(r, kind, marks) ==
    /\ pc[r] = "idle"
    /\ \E u \in Users, status \in marks : \E i \in Own(kind, u) :
         Move(r, "mark", [row |-> i, loaded |-> table[i], sent |-> [status |-> status],
                          new |-> [table[i] EXCEPT !.status = status]])
    /\ UNCHANGED table

LoadAlert(r) == Load(r, "alert", {"READ", "DISMISSED"})

\* The order of reading and confirming is left to the client.
LoadCandidate(r) == Load(r, "candidate", {"READ", "CONFIRMED"})

\* No row, or somebody else's, are both not found.
RefuseMark(r) == (\E kind \in RowKinds, u \in Users : Rows \ Own(kind, u) # {}) /\ Refuse(r)

Mark(r) ==
    /\ pc[r] = "mark"
    /\ table' = [table EXCEPT ![request[r].row] = Flush(@, request[r].loaded, request[r].new)]
    /\ Reply(r, "ok")

Filtered(q) == {i \in Own(q.kind, q.user) : q.status \in {Null, table[i].status}}

Queries(kind) == [kind : {kind}, user : Users, status : Statuses[kind] \cup {Null}]

ListOf(r, kind) ==
    /\ pc[r] = "idle"
    /\ \E q \in Queries(kind) : \E answer \in PagesShown(Filtered(q), q) : Move(r, "count", answer)
    /\ UNCHANGED table

ListAlerts(r) == ListOf(r, "alert")

ListCandidates(r) == ListOf(r, "candidate")

CountListed(r) == CountRows(r)

Fault_Total(q) == Cardinality({i \in Own(q.kind, q.user) : table[i].status # "DISMISSED"})
Total(q) == Cardinality(Filtered(q))

-----------------------------------------------------------------------------
(* The dashboard. *)

RiskTypes == {"RISK_ALERT", "THESIS_BROKEN"}
ReviewTypes == {"SELL_REVIEW", "OVERHEATED"}

AlertsOf(u, types) == {i \in Own("alert", u) : table[i].about.type \in types}

ImportantNews(u) ==
    {i \in Own("candidate", u) : table[i].about.type \in {"NEWS_SURGE", "DISCLOSURE"}
                                 /\ table[i].about.importance = "HIGH"}

Unread(rows) == {i \in rows : table[i].status = "UNREAD"}

InForce(i) == Expiry[table[i].about] = Null \/ Expiry[table[i].about] > now

DashboardSummary(u) ==
    [risk |-> Cardinality(Unread(AlertsOf(u, RiskTypes))),
     news |-> Cardinality(Unread(ImportantNews(u))),
     review |-> Cardinality({i \in AlertsOf(u, ReviewTypes) : InForce(i)})]

Day(t) == t \div DayLength

Window(days) == (Day(now) - days + 1) .. Day(now)

ByDay(rows, days) ==
    [d \in Window(days) |-> Cardinality({i \in rows : Day(table[i].created) = d})]

DashboardTrends(u, days) ==
    [risk |-> ByDay(AlertsOf(u, RiskTypes), days),
     news |-> ByDay(ImportantNews(u), days),
     review |-> ByDay(AlertsOf(u, ReviewTypes), days)]

GetDashboard(r) == Read(r)

Handle(r) ==
    \/ CreateAlert(r) \/ AlertIsThere(r) \/ CreateCandidate(r)
    \/ LoadAlert(r) \/ LoadCandidate(r) \/ RefuseMark(r) \/ Mark(r)
    \/ ListAlerts(r) \/ ListCandidates(r) \/ CountListed(r) \/ GetDashboard(r)

TypeOK ==
    /\ table \in [Rows -> RowType \cup {Absent}]
    /\ pc \in [Requests -> {"idle", "mark", "count"} \cup Answered]
    /\ \A r \in Requests : pc[r] = "count" => request[r].what \in Queries("alert") \cup Queries("candidate")
=============================================================================
