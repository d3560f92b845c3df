----------------------------- MODULE Watchlists -----------------------------
(***************************************************************************)
(* The watchlists of the users: their items, the signals on their assets,  *)
(* and what is computed from both: the summary, its trends, the status of  *)
(* an item.                                                                *)
(***************************************************************************)
EXTENDS Session

CONSTANTS
    Lists,          \* ids of watchlists
    Users,
    Assets,
    Priorities,
    SignalTypes,
    Stocks,         \* items and signals the database may start with
    DayLength,      \* units of the clock in a day
    ItemLimit,      \* OBSERVATION_ITEM_LIMIT
    Before          \* who inserted the rows the database starts with

Never == MaxTime + 1

\* Who inserted a row stands for its id.
Inserters == Requests \cup {Before}

ItemType == [list : Lists, asset : Assets, priority : Priorities, created : Times, by : Inserters]

SignalType == [asset : Assets, type : SignalTypes, created : Times, expires : Times \cup {Never},
               by : Inserters]

Owned(w, u) == table.lists[w] = u

Items(w) == {i \in table.items : i.list = w}

Duplicate(w, a) == \E i \in Items(w) : i.asset = a

Init ==
    /\ \E owner \in [Lists -> Users], stock \in Stocks :
         table = [lists |-> [w \in Lists |-> IF \E i \in stock.items : i.list = w
                                             THEN owner[w] ELSE Absent],
                  items |-> stock.items, signals |-> stock.signals]
    /\ Fresh

CreateList(r) ==
    /\ pc[r] = "idle"
    /\ \E w \in Lists, u \in Users :
         table.lists[w] = Absent /\ table' = [table EXCEPT !.lists[w] = u]
    /\ Reply(r, "ok")

\* No list, somebody else's, no such asset, or no such item.
RefuseStranger(r) == (\E w \in Lists, u \in Users : ~Owned(w, u)) /\ Refuse(r)

\* The row is created when its transaction starts, by the database's clock.
LookUpItem(r) ==
    /\ pc[r] = "idle"
    /\ \E w \in Lists, u \in Users, a \in Assets, p \in Priorities :
         /\ Owned(w, u)
         /\ ~Duplicate(w, a)
         /\ Move(r, "insert", [list |-> w, asset |-> a, priority |-> p, created |-> now, by |-> r])
    /\ UNCHANGED table

RefuseDuplicate(r) ==
    /\ \E w \in Lists, u \in Users, a \in Assets : Owned(w, u) /\ Duplicate(w, a)
    /\ Refuse(r)

InsertItem(r) ==
    /\ pc[r] = "insert"
    /\ ~Duplicate(request[r].list, request[r].asset)
    /\ table' = [table EXCEPT !.items = @ \cup {request[r]}]
    /\ Move(r, "refresh", request[r])

\* After its commit the row is read again, unless it is gone already.
RefreshItem(r) ==
    /\ pc[r] = "refresh"
    /\ Reply(r, IF request[r] \in table.items THEN "ok" ELSE "error")
    /\ UNCHANGED table

InsertMeetsItem(r) ==
    /\ pc[r] = "insert"
    /\ Duplicate(request[r].list, request[r].asset)
    /\ Reply(r, "refused")
    /\ UNCHANGED table

LoadItem(r) ==
    /\ pc[r] = "idle"
    /\ \E i \in table.items, u \in Users : Owned(i.list, u) /\ Move(r, "remove", i)
    /\ UNCHANGED table

\* A row that is gone already makes the DELETE match nothing, and no error.
RemoveItem(r) ==
    /\ pc[r] = "remove"
    /\ table' = [table EXCEPT !.items = @ \ {request[r]}]
    /\ Reply(r, "ok")

CreateSignal(r) ==
    /\ pc[r] = "idle"
    /\ \E a \in Assets, type \in SignalTypes, expires \in (now + 1) .. Never :
         table' = [table EXCEPT !.signals = @ \cup
           {[asset |-> a, type |-> type, created |-> now, expires |-> expires, by |-> r]}]
    /\ Reply(r, "ok")

-----------------------------------------------------------------------------
(* Lists, and what is computed from a watchlist and the signals. *)

Active(s) == s.expires > now

SignalsOf(a, all) == {s \in table.signals : s.asset = a /\ (all \/ Active(s))}

Listed(q) ==
    CASE q.of \in Users -> {w \in Lists : Owned(w, q.of)}
      [] q.of \in Lists -> Items(q.of)
      [] OTHER -> SignalsOf(q.of, q.all)

\* Watchlists of a user, items of a watchlist, signals of an asset.
List(r) ==
    /\ pc[r] = "idle"
    /\ \E of \in Users \cup Lists \cup Assets, all \in BOOLEAN :
         \E answer \in PagesShown(Listed([of |-> of, all |-> all]), [of |-> of, all |-> all]) :
            Move(r, "count", answer)
    /\ UNCHANGED table

CountListed(r) == CountRows(r)

AssetsOf(w) == {i.asset : i \in Items(w)}

\* Assets with a RISK_ALERT in force at a time.
AtRisk(w, at) ==
    {a \in AssetsOf(w) : \E s \in table.signals :
        s.asset = a /\ s.type = "RISK_ALERT" /\ s.created <= at /\ s.expires > at}

Summary(w) ==
    [total |-> Cardinality(Items(w)),
     risk |-> Cardinality({a \in AssetsOf(w) : \E s \in SignalsOf(a, FALSE) : s.type = "RISK_ALERT"})]

Day(t) == t \div DayLength

Fault_AsOf(day) == (day + 1) * DayLength
\* The end of a day; for today, now.
AsOf(day) == IF day = Day(now) THEN now ELSE (day + 1) * DayLength

Window(days) == (Day(now) - days + 1) .. Day(now)

Trends(w, days) ==
    [total |-> [d \in Window(days) |-> Cardinality({i \in Items(w) : i.created <= AsOf(d)})],
     risk |-> [d \in Window(days) |-> Cardinality(AtRisk(w, AsOf(d)))]]

StatusPriority ==
    <<"RISK_ALERT", "THESIS_BROKEN", "SELL_REVIEW", "OVERHEATED", "BUY_CANDIDATE", "WATCH">>

Status(types) ==
    IF \A k \in DOMAIN StatusPriority : StatusPriority[k] \notin types THEN "NORMAL"
    ELSE StatusPriority[CHOOSE k \in DOMAIN StatusPriority :
           /\ StatusPriority[k] \in types
           /\ \A l \in 1 .. (k - 1) : StatusPriority[l] \notin types]

StatusOf(i) == Status({s.type : s \in SignalsOf(i.asset, FALSE)})

\* The first items by priority; which of equal ones is left to the ids.
Highlighted(w) ==
    {top \in SUBSET Items(w) :
        /\ Cardinality(top) = Shown(Cardinality(Items(w)), 1, ItemLimit)
        /\ \A i \in top, j \in Items(w) \ top : i.priority <= j.priority}

GetSummary(r) == (\E w \in Lists, u \in Users : Owned(w, u)) /\ Read(r)

Handle(r) ==
    \/ CreateList(r) \/ RefuseStranger(r) \/ LookUpItem(r) \/ RefuseDuplicate(r)
    \/ InsertItem(r) \/ RefreshItem(r) \/ InsertMeetsItem(r) \/ LoadItem(r) \/ RemoveItem(r)
    \/ CreateSignal(r) \/ List(r) \/ CountListed(r) \/ GetSummary(r)

TypeOK ==
    /\ table \in [lists : [Lists -> Users \cup {Absent}], items : SUBSET ItemType,
                  signals : SUBSET SignalType]
    /\ pc \in [Requests -> {"idle", "insert", "refresh", "remove", "count"} \cup Answered]
    /\ \A r \in Requests : pc[r] \in {"insert", "refresh", "remove"} => request[r] \in ItemType
=============================================================================
