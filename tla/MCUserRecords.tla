--------------------------- MODULE MCUserRecords ---------------------------
(***************************************************************************)
(* Two requests race for one row of each component, after others have made *)
(* it what it is; three races take place on the rows of watchlists.        *)
(***************************************************************************)
EXTENDS UserRecords, TLC

CONSTANTS r1, r2, r3, u1, u2, a1, a2, w1, w2, n1, l1, l2, t1, t2, i1, i2, e1, s1, memo, text, other,
          k1, k2, BUY, SELL, news

MCPatch == [kind |-> Keep, status |-> Keep, summary |-> Keep, risks |-> Keep,
            reviewed |-> Keep, closed |-> Keep]

MCPatches ==
    {[MCPatch EXCEPT !.status = "REVIEWED"],
     [MCPatch EXCEPT !.status = "CLOSED", !.reviewed = 0],
     [MCPatch EXCEPT !.status = "REVIEWED", !.reviewed = Null],
     [MCPatch EXCEPT !.kind = SELL],
     [MCPatch EXCEPT !.kind = Null],
     [MCPatch EXCEPT !.risks = Null, !.summary = Null]}

MCLog == [user |-> u1, kind |-> BUY, status |-> "OPEN", summary |-> "text", risks |-> "list",
          reviewed |-> Null, closed |-> Null]

MCLogBooks ==
    {[l \in Logs |-> IF l = l1 THEN row ELSE Absent] :
        row \in {Absent} \cup UNION {{[MCLog EXCEPT !.user = u],
                                     [MCLog EXCEPT !.user = u, !.status = "REVIEWED", !.reviewed = 0]} :
                                      u \in Users}}

MCThesis == [user |-> u1, asset |-> a1, active |-> TRUE, summary |-> text, risks |-> Null]

MCThesisBooks ==
    {[t \in Theses |-> IF t = t1 THEN row ELSE Absent] :
        row \in {Absent} \cup {[MCThesis EXCEPT !.user = u] : u \in Users}}

Cause(type, of) == [type |-> type, of |-> of]

MCCauses == {Cause("RISK_ALERT", news), Cause("SELL_REVIEW", s1)}

MCExpiry == [c \in MCCauses |-> IF c.of = news THEN Null ELSE 1]

MCTopics == {[type |-> "DISCLOSURE", importance |-> "HIGH"], [type |-> "DISCLOSURE", importance |-> "LOW"]}

MCAlert == [kind |-> "alert", user |-> u1, about |-> Cause("SELL_REVIEW", s1),
            status |-> "UNREAD", created |-> 0]

MCBoxes ==
    {[i \in Rows |-> IF i = i1 THEN row ELSE Absent] :
        row \in {Absent} \cup {[MCAlert EXCEPT !.user = u] : u \in Users}}

MCItem(w, a, p, at) == [list |-> w, asset |-> a, priority |-> p, created |-> at, by |-> Before]

MCSignal(a, type, until) ==
    [asset |-> a, type |-> type, created |-> 0, expires |-> until, by |-> Before]

MCStocks ==
    {[items |-> {MCItem(w1, a1, 1, 0)},
      signals |-> {MCSignal(a1, "RISK_ALERT", 1), MCSignal(a1, "WATCH", 2)}]}

MCSymmetry == Permutations(Requests) \cup Permutations(Users)
=============================================================================
