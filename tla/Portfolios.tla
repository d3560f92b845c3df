----------------------------- MODULE Portfolios -----------------------------
(***************************************************************************)
(* The requests of /portfolios side by side: creating a portfolio, adding, *)
(* updating and removing a position, the summary and the concentration     *)
(* check, with signals created through the API beside them.                *)
(*                                                                         *)
(* A request reads in one transaction and commits in another, so others    *)
(* commit in between.  The check commits once for every signal it creates. *)
(* Signals are shared: the check looks for one of the asset, whoever's     *)
(* portfolio it came from.  A row is identified by the request that        *)
(* inserted it, which stands for its id: ids are not given out twice.      *)
(***************************************************************************)
EXTENDS PortfolioValuation

CONSTANTS
    Requests,
    Users,
    Portfolio,      \* ids of portfolios
    Terms,          \* [cash, threshold] a portfolio may be created with
    Prices,         \* average prices a client may send
    Quantities,     \* quantities a client may send
    Quotes,         \* answers of the market provider
    Books,          \* positions the database may start with
    MaxTime,        \* the clock's bound
    Before,         \* who inserted the rows the database starts with
    Absent, Null, Keep

ASSUME NobodyInsertsBefore == Before \notin Requests
ASSUME NoAmountIsAbsent == {Absent, Null, Keep} \cap (Prices \cup Quantities) = {}

Never == MaxTime + 1

RowType == [portfolio : Portfolio, asset : Assets, by : Requests \cup {Before},
            quantity : Quantities, price : Prices]

SignalType == [asset : Assets, news : BOOLEAN, expires : 1 .. Never, score : 0 .. 100,
               by : Requests, from : {"check", "api"}]

\* What PositionUpdate lets through: a column may be left out or be null, but
\* not both of them.
UpdateType == {d \in [quantity : Quantities \cup {Keep, Null}, price : Prices \cup {Keep, Null}] :
                 d.quantity \notin {Keep, Null} \/ d.price \notin {Keep, Null}}

ASSUME ClockType == MaxTime \in Nat
ASSUME AmountsAreIntegers == Prices \cup Quantities \subseteq Int

\* PortfolioCreate bounds both: cash from below, the threshold to (0, 1].
ASSUME TermsType ==
    \A terms \in Terms :
        /\ terms.cash \in Nat
        /\ terms.threshold \in (Nat \ {0}) \X (Nat \ {0})

\* Nothing is quoted below zero, nor falls by more than it was worth.
ASSUME QuotesType ==
    \A quote \in Quotes, a \in Assets :
        quote[a].price \in Nat /\ quote[a].change \in {n \in Int : n >= -100}
ASSUME BooksType ==
    \A book \in Books :
        book \subseteq RowType /\ IsFiniteSet(book) /\ \A b \in book : b.by = Before

\* None is no row, no update and no portfolio.
ASSUME AbsentIsNothing == Absent \notin RowType \cup UpdateType \cup [owner : Users, terms : Terms]

VARIABLES
    portfolios, positions, signals,     \* tables
    removed,    \* positions that were, without what was in them
    now,
    pc,         \* where each request is, or how it was answered
    row,        \* the row it loaded, or is about to insert
    data,       \* the update it was sent
    todo,       \* positions a check saw exceeding and has not dealt with
    seen,       \* assets it saw exceeding
    since,      \* when it read them
    alongside   \* checks that were under way then

tables == <<portfolios, positions, removed, signals>>
checkVars == <<todo, seen, since, alongside>>
vars == <<tables, now, pc, row, data, checkVars>>

Answered == {"ok", "refused", "error", "crashed"}

Checking(r) == pc[r] \in {"look", "signal"}

Init ==
    /\ \E owner \in [Portfolio -> Users], terms \in Terms, book \in Books :
         /\ positions = book
         /\ portfolios = [p \in Portfolio |->
              IF \E b \in book : b.portfolio = p THEN [owner |-> owner[p], terms |-> terms]
              ELSE Absent]
    /\ removed = {}
    /\ signals = {}
    /\ now = 0
    /\ pc = [r \in Requests |-> "idle"]
    /\ row = [r \in Requests |-> Absent]
    /\ data = [r \in Requests |-> Absent]
    /\ todo = [r \in Requests |-> {}]
    /\ seen = [r \in Requests |-> {}]
    /\ since = [r \in Requests |-> 0]
    /\ alongside = [r \in Requests |-> {}]

Goto(r, place) == pc' = [pc EXCEPT ![r] = place]

\* The answer to a request ends its session.
Answer(r) ==
    /\ Goto(r, "ok")
    /\ row' = [row EXCEPT ![r] = Absent]
    /\ data' = [data EXCEPT ![r] = Absent]

Rows(p) == {b \in positions : b.portfolio = p}

Owned(p, u) == portfolios[p] # Absent /\ portfolios[p].owner = u

\* Whatever the session had loaded or added goes with the refusal.
Refuse(r) ==
    /\ Goto(r, "refused")
    /\ row' = [row EXCEPT ![r] = Absent]
    /\ UNCHANGED <<tables, now, data, checkVars>>

Fails(r) == Goto(r, "error") /\ UNCHANGED <<tables, now, row, data, checkVars>>

-----------------------------------------------------------------------------
CreatePortfolio(r) ==
    /\ pc[r] = "idle"
    /\ \E p \in Portfolio, u \in Users, terms \in Terms :
         /\ portfolios[p] = Absent
         /\ portfolios' = [portfolios EXCEPT ![p] = [owner |-> u, terms |-> terms]]
    /\ Goto(r, "ok")
    /\ UNCHANGED <<positions, removed, signals, now, row, data, checkVars>>

\* Somebody else's portfolio, or none.
RefuseStranger(r) ==
    /\ pc[r] = "idle"
    /\ \E p \in Portfolio, u \in Users : ~Owned(p, u)
    /\ Refuse(r)

Duplicate(p, a) == \E b \in Rows(p) : b.asset = a

AddPosition(r) ==
    /\ pc[r] = "idle"
    /\ \E p \in Portfolio, u \in Users, a \in Assets, n \in Quantities, price \in Prices :
         /\ Owned(p, u)
         /\ ~Duplicate(p, a)
         /\ row' = [row EXCEPT ![r] = [portfolio |-> p, asset |-> a, by |-> r,
                                       quantity |-> n, price |-> price]]
    /\ Goto(r, "insert")
    /\ UNCHANGED <<tables, now, data, checkVars>>

RefuseDuplicate(r) ==
    /\ pc[r] = "idle"
    /\ \E p \in Portfolio, u \in Users, a \in Assets : Owned(p, u) /\ Duplicate(p, a)
    /\ Refuse(r)

InsertPosition(r) ==
    /\ pc[r] = "insert"
    /\ ~Duplicate(row[r].portfolio, row[r].asset)
    /\ positions' = positions \cup {row[r]}
    /\ Goto(r, "refresh")
    /\ UNCHANGED <<portfolios, removed, signals, now, row, data, checkVars>>

Fault_InsertConflictUnhandled(r) ==
    /\ pc[r] = "insert"
    /\ Duplicate(row[r].portfolio, row[r].asset)
    /\ Fails(r)

\* The IntegrityError is rolled back and answered like the duplicate it is.
InsertMeetsDuplicate(r) ==
    /\ pc[r] = "insert"
    /\ Duplicate(row[r].portfolio, row[r].asset)
    /\ Refuse(r)

LoadForUpdate(r) ==
    /\ pc[r] = "idle"
    /\ \E b \in positions, u \in Users, d \in UpdateType :
         /\ Owned(b.portfolio, u)
         /\ row' = [row EXCEPT ![r] = b]
         /\ data' = [data EXCEPT ![r] = d]
    /\ Goto(r, "update")
    /\ UNCHANGED <<tables, now, checkVars>>

\* The position is none, or one of another portfolio.
RefusePosition(r) ==
    /\ pc[r] = "idle"
    /\ \E p \in Portfolio, u \in Users : Owned(p, u)
    /\ Refuse(r)

Id(b) == [by |-> b.by, portfolio |-> b.portfolio, asset |-> b.asset]

Current(r) == {b \in positions : Id(b) = Id(row[r])}

\* An UPDATE writes the columns the session saw change, and no others.
Written(b, loaded, d) ==
    [b EXCEPT !.quantity = IF d.quantity \in {Keep, loaded.quantity} THEN @ ELSE d.quantity,
              !.price = IF d.price \in {Keep, loaded.price} THEN @ ELSE d.price]

UpdatePosition(r) ==
    /\ pc[r] = "update"
    /\ Null \notin {data[r].quantity, data[r].price}
    /\ \E b \in Current(r) :
         positions' = (positions \ {b}) \cup {Written(b, row[r], data[r])}
    /\ data' = [data EXCEPT ![r] = Absent]
    /\ Goto(r, "refresh")
    /\ UNCHANGED <<portfolios, removed, signals, now, row, checkVars>>

\* StaleDataError, or a column not nullable.
UpdateFails(r) ==
    /\ pc[r] = "update"
    /\ Current(r) = {} \/ Null \in {data[r].quantity, data[r].price}
    /\ Fails(r)

\* After its commit a row is read again, and answered, if it is still there.
RefreshPosition(r) ==
    /\ pc[r] = "refresh"
    /\ Current(r) # {}
    /\ Answer(r)
    /\ UNCHANGED <<tables, now, checkVars>>

RefreshFails(r) ==
    /\ pc[r] = "refresh"
    /\ Current(r) = {}
    /\ Fails(r)

LoadForRemoval(r) ==
    /\ pc[r] = "idle"
    /\ \E b \in positions, u \in Users :
         Owned(b.portfolio, u) /\ row' = [row EXCEPT ![r] = b]
    /\ Goto(r, "remove")
    /\ UNCHANGED <<tables, now, data, checkVars>>

\* A row that is gone already makes the DELETE match nothing, and no error.
RemovePosition(r) ==
    /\ pc[r] = "remove"
    /\ positions' = positions \ Current(r)
    /\ removed' = removed \cup {Id(b) : b \in Current(r)}
    /\ Answer(r)
    /\ UNCHANGED <<portfolios, signals, now, checkVars>>

-----------------------------------------------------------------------------
(* The summary, the check, and the signals beside it. *)

SummaryOf(p, quote) ==
    Summary(Rows(p), quote, portfolios[p].terms.cash, portfolios[p].terms.threshold)

TotalOf(p, quote) == TotalValue(Rows(p), quote, portfolios[p].terms.cash)

Scored(p, quote) ==
    {[asset |-> b.asset, score |-> ScoreOf(PositionWeight(b, quote, TotalOf(p, quote)))] :
        b \in Exceeding(Rows(p), quote, TotalOf(p, quote), portfolios[p].terms.threshold)}

GetSummary(r) ==
    /\ pc[r] = "idle"
    /\ \E p \in Portfolio, u \in Users : Owned(p, u)
    /\ Goto(r, "ok")
    /\ UNCHANGED <<tables, now, row, data, checkVars>>

Check(r) ==
    /\ pc[r] = "idle"
    /\ \E p \in Portfolio, u \in Users, quote \in Quotes :
         /\ Owned(p, u)
         /\ todo' = [todo EXCEPT ![r] = Scored(p, quote)]
         /\ seen' = [seen EXCEPT ![r] = {s.asset : s \in Scored(p, quote)}]
         /\ Goto(r, IF Scored(p, quote) = {} THEN "ok" ELSE "look")
    /\ since' = [since EXCEPT ![r] = now]
    /\ alongside' = [alongside EXCEPT ![r] = {q \in Requests : Checking(q)}]
    /\ UNCHANGED <<tables, now, row, data>>

Fault_UnexpiredByTime(s) == s.expires # Never /\ s.expires > now
Unexpired(s) == s.expires = Never \/ s.expires > now

Fault_ActiveWithNews(a) == \E s \in signals : s.asset = a /\ Unexpired(s)
Active(a) == \E s \in signals : s.asset = a /\ ~s.news /\ Unexpired(s)

\* The check goes through its positions in the order of their ids.
First(r) == CHOOSE s \in todo[r] : TRUE

Rest(r) == todo' = [todo EXCEPT ![r] = @ \ {First(r)}]

AfterPosition(r) == IF todo[r] = {First(r)} THEN "ok" ELSE "look"

SkipSignalled(r) ==
    /\ pc[r] = "look"
    /\ Active(First(r).asset)
    /\ Rest(r)
    /\ Goto(r, AfterPosition(r))
    /\ UNCHANGED <<tables, now, row, data, seen, since, alongside>>

LookUpSignal(r) ==
    /\ pc[r] = "look"
    /\ ~Active(First(r).asset)
    /\ Goto(r, "signal")
    /\ UNCHANGED <<tables, now, row, data, checkVars>>

CreateSignal(r) ==
    /\ pc[r] = "signal"
    /\ signals' = signals \cup {[asset |-> First(r).asset, news |-> FALSE, expires |-> Never,
                                 score |-> First(r).score, by |-> r, from |-> "check"]}
    /\ Rest(r)
    /\ Goto(r, AfterPosition(r))
    /\ UNCHANGED <<portfolios, positions, removed, now, row, data, seen, since, alongside>>

\* POST /signals, or the analysis job, whose signals name a news item.
CreateOther(r) ==
    /\ pc[r] = "idle"
    /\ \E a \in Assets, news \in BOOLEAN, expires \in (now + 1) .. Never :
         signals' = signals \cup {[asset |-> a, news |-> news, expires |-> expires,
                                   score |-> 0, by |-> r, from |-> "api"]}
    /\ Goto(r, "ok")
    /\ UNCHANGED <<portfolios, positions, removed, now, row, data, checkVars>>

Tick ==
    /\ now < MaxTime
    /\ now' = now + 1
    /\ UNCHANGED <<tables, pc, row, data, checkVars>>

\* The process dies, or the database refuses a commit.
Crash(r) ==
    /\ pc[r] \notin Answered \cup {"idle"}
    /\ Goto(r, "crashed")
    /\ row' = [row EXCEPT ![r] = Absent]
    /\ data' = [data EXCEPT ![r] = Absent]
    /\ UNCHANGED <<tables, now, checkVars>>

-----------------------------------------------------------------------------
Handle(r) ==
    \/ CreatePortfolio(r) \/ RefuseStranger(r) \/ RefuseDuplicate(r) \/ RefusePosition(r)
    \/ AddPosition(r) \/ InsertPosition(r) \/ InsertMeetsDuplicate(r)
    \/ LoadForUpdate(r) \/ UpdatePosition(r) \/ UpdateFails(r)
    \/ RefreshPosition(r) \/ RefreshFails(r)
    \/ LoadForRemoval(r) \/ RemovePosition(r)
    \/ GetSummary(r) \/ Check(r) \/ SkipSignalled(r) \/ LookUpSignal(r) \/ CreateSignal(r)

Terminated ==
    /\ \A r \in Requests : pc[r] \in Answered
    /\ UNCHANGED vars

Next ==
    \/ \E r \in Requests : Handle(r) \/ CreateOther(r) \/ Crash(r)
    \/ Tick
    \/ Terminated

Spec == Init /\ [][Next]_vars

-----------------------------------------------------------------------------
TypeOK ==
    /\ portfolios \in [Portfolio -> [owner : Users, terms : Terms] \cup {Absent}]
    /\ positions \subseteq RowType
    /\ removed \subseteq {Id(b) : b \in RowType}
    /\ signals \subseteq SignalType
    /\ now \in 0 .. MaxTime
    /\ pc \in [Requests -> {"idle", "insert", "update", "refresh", "remove", "look", "signal"} \cup Answered]
    /\ row \in [Requests -> RowType \cup {Absent}]
    /\ data \in [Requests -> UpdateType \cup {Absent}]
    /\ todo \in [Requests -> SUBSET [asset : Assets, score : 0 .. 100]]
    /\ seen \in [Requests -> SUBSET Assets]
    /\ since \in [Requests -> 0 .. MaxTime]
    /\ alongside \in [Requests -> SUBSET Requests]

(* docs/designs/022-portfolio-concentration.md, line 39: when a check is     *)
(* answered, every asset it saw over the threshold has a RISK_ALERT without  *)
(* a news item that was in force at some time since, whoever created it; a   *)
(* signal of the news analysis does not stand in for one.                    *)
CheckedIsSignalled ==
    \A r \in Requests : pc[r] = "ok" =>
        \A a \in seen[r] : \E s \in signals :
            s.asset = a /\ ~s.news /\ s.expires > since[r]

(* The same document, line 45: a check does not repeat a signal that is in   *)
(* force.  Its look-up and its commit are two transactions, so checks of one *)
(* asset that run at the same time may; others never do.                     *)
DuplicatesNeedOverlap ==
    \A s, t \in signals :
        (s # t /\ s.asset = t.asset /\ s.from = "check" /\ t.from = "check")
            => s.by \in alongside[t.by] \/ t.by \in alongside[s.by]

(* A request breaks off with an unhandled error only when it was sent a null *)
(* for a column or its position was removed under its hands; who loses the   *)
(* race for an asset of a portfolio is told so.                              *)
ErrorsAreExplained ==
    \A r \in Requests : pc[r] = "error" =>
        \/ data[r] # Absent /\ Null \in {data[r].quantity, data[r].price}
        \/ Id(row[r]) \in removed

Long(p) == \A b \in Rows(p) : b.quantity >= 0

Covers(e, f) == e.level = f.level \/ e.level = "HIGH"

Of(summary, code) == {e \in summary.exposures : e.code = code}

\* The briefing, the context of an LLM and the exposures, which each work it
\* out on their own, agree on whether a portfolio is concentrated.
ReadersAgree(p, summary) ==
    LET risk == ConcentrationRisk(summary)
        named == Of(summary, "name") # {}
    IN  /\ named <=> IsConcentrated(summary, portfolios[p].terms.threshold)
        /\ named <=> risk = "high"
        /\ Of(summary, "sector") # {} => risk # "low"

\* A concentrated name concentrates its sector at least as badly, names over
\* the threshold cannot together weigh more than everything, and a portfolio
\* worth nothing has no exposure.
ExposuresAreConsistent(p, summary, quote) ==
    LET terms == portfolios[p].terms
        names == Of(summary, "name")
    IN  /\ \A e \in names : SectorOf[e.of] # Unknown =>
             \E f \in Of(summary, "sector") : f.of = SectorOf[e.of] /\ Covers(f, e)
        /\ names # {} => Cardinality(names) * terms.threshold[1] < terms.threshold[2]
        /\ TotalOf(p, quote) = 0 => summary.exposures = {}

\* The change of a day lies within those of the assets and of the cash, which
\* does not change.
DayChangeIsBounded(p, summary, quote) ==
    LET changes == {0} \cup {quote[b.asset].change : b \in Rows(p)}
    IN  \E least \in changes, most \in changes :
           AtMost(Whole(least), summary.change) /\ AtMost(summary.change, Whole(most))

(* Whatever the quotes, the readers of a summary agree, and that of a        *)
(* portfolio without short positions agrees with itself: its exposures with  *)
(* each other and with its total (docs/designs/049, section 3.4), its change *)
(* with those of its assets.                                                 *)
SummaryIsConsistent ==
    \A p \in Portfolio, quote \in Quotes : portfolios[p] # Absent =>
        LET summary == SummaryOf(p, quote)
        IN  /\ ReadersAgree(p, summary)
            /\ Long(p) => /\ ExposuresAreConsistent(p, summary, quote)
                          /\ DayChangeIsBounded(p, summary, quote)
=============================================================================
