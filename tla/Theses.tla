------------------------------- MODULE Theses -------------------------------
(***************************************************************************)
(* The investment theses of the users: creating, updating, deactivating,   *)
(* and the latest active thesis of an asset.                               *)
(***************************************************************************)
EXTENDS Session

CONSTANTS
    Theses,         \* ids of theses, in the order they are given out
    Users,
    Assets,
    Texts,
    ThesisBooks     \* theses the database may start with

ThesisType == [user : Users, asset : Assets, active : BOOLEAN,
               summary : Texts, risks : Texts \cup {Null}]

\* ThesisUpdate refuses a null summary.
UpdateType == [summary : Texts \cup {Keep}, risks : Texts \cup {Keep, Null}]

Own(u) == {t \in Theses : table[t] # Absent /\ table[t].user = u}

ActiveOf(u, a) == {t \in Own(u) : table[t].asset = a /\ table[t].active}

Init == table \in ThesisBooks /\ Fresh

Create(r) ==
    /\ pc[r] = "idle"
    /\ \E t \in Theses, u \in Users, a \in Assets, text \in Texts, risks \in Texts \cup {Null} :
         /\ table[t] = Absent
         /\ table' = [table EXCEPT ![t] = [user |-> u, asset |-> a, active |-> TRUE,
                                           summary |-> text, risks |-> risks]]
    /\ Reply(r, "ok")

\* An asset that is not there, no thesis, or somebody else's.
RefuseStranger(r) == Refuse(r)

Load(r, t, sent) ==
    Move(r, "commit", [thesis |-> t, loaded |-> table[t], sent |-> sent,
                       new |-> Patched(table[t], sent)])

LoadForUpdate(r) ==
    /\ pc[r] = "idle"
    /\ \E u \in Users : \E t \in Own(u), sent \in UpdateType : Load(r, t, sent)
    /\ UNCHANGED table

LoadForDeactivation(r) ==
    /\ pc[r] = "idle"
    /\ \E u \in Users : \E t \in Own(u) : Load(r, t, [active |-> FALSE])
    /\ UNCHANGED table

Commit(r) ==
    /\ pc[r] = "commit"
    /\ table' = [table EXCEPT ![request[r].thesis] = Flush(@, request[r].loaded, request[r].new)]
    /\ Reply(r, "ok")

GetLatest(r) ==
    /\ \E u \in Users, a \in Assets : ActiveOf(u, a) # {}
    /\ Read(r)

RefuseLatest(r) ==
    /\ \E u \in Users, a \in Assets : ActiveOf(u, a) = {}
    /\ Refuse(r)

Handle(r) ==
    \/ Create(r) \/ RefuseStranger(r) \/ LoadForUpdate(r) \/ LoadForDeactivation(r)
    \/ Commit(r) \/ GetLatest(r) \/ RefuseLatest(r)

TypeOK ==
    /\ table \in [Theses -> ThesisType \cup {Absent}]
    /\ pc \in [Requests -> {"idle", "commit"} \cup Answered]
    /\ \A r \in Requests : pc[r] = "commit" => request[r].loaded \in ThesisType
=============================================================================
