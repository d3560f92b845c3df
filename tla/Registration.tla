---------------------------- MODULE Registration ----------------------------
(***************************************************************************)
(* Users and assets, which are both registered once: a look-up, and then   *)
(* an insertion under a unique key.  Users log in with their password.     *)
(***************************************************************************)
EXTENDS Session

CONSTANTS
    Emails,
    Symbols,        \* pairs of a symbol and a market
    Passwords

Keys == Emails \cup Symbols

\* What a registration stores besides its key; an asset is active.
RowFor(key) == IF key \in Emails THEN [password : Passwords] ELSE [active : {TRUE}]

Init == table = [k \in Keys |-> Absent] /\ Fresh

Known(key) == table[key] # Absent

LookUp(r) ==
    /\ pc[r] = "idle"
    /\ \E key \in Keys : \E row \in RowFor(key) :
         ~Known(key) /\ Move(r, "insert", [key |-> key, row |-> row])
    /\ UNCHANGED table

RefuseDuplicate(r) == (\E key \in Keys : Known(key)) /\ Refuse(r)

Insert(r) ==
    /\ pc[r] = "insert"
    /\ ~Known(request[r].key)
    /\ table' = [table EXCEPT ![request[r].key] = request[r].row]
    /\ Reply(r, "ok")

\* The asset's IntegrityError is answered like the duplicate it is.
InsertMeetsAsset(r) ==
    /\ pc[r] = "insert"
    /\ request[r].key \in Symbols
    /\ Known(request[r].key)
    /\ Reply(r, "refused")
    /\ UNCHANGED table

\* Nobody handles the user's.
InsertMeetsUser(r) ==
    /\ pc[r] = "insert"
    /\ request[r].key \in Emails
    /\ Known(request[r].key)
    /\ Fail(r)

Login(r) ==
    /\ \E email \in Emails, password \in Passwords : table[email] = [password |-> password]
    /\ Read(r)

\* An address that is not registered, or another password.
RefuseLogin(r) ==
    /\ \E email \in Emails, password \in Passwords : table[email] # [password |-> password]
    /\ Refuse(r)

\* The user a token names is still looked up: get_current_user, refresh.
Authenticate(r) == (\E email \in Emails : Known(email)) /\ Read(r)

RefuseToken(r) == Refuse(r)

GetAsset(r) == (\E symbol \in Symbols : Known(symbol)) /\ Read(r)

RefuseAsset(r) == (\E symbol \in Symbols : ~Known(symbol)) /\ Refuse(r)

Registered == {symbol \in Symbols : Known(symbol)}

ListAssets(r) ==
    /\ pc[r] = "idle"
    /\ \E answer \in PagesShown(Registered, Null) : Move(r, "count", answer)
    /\ UNCHANGED table

CountAssets(r) == CountRows(r)

Handle(r) ==
    \/ LookUp(r) \/ RefuseDuplicate(r) \/ Insert(r) \/ InsertMeetsAsset(r) \/ InsertMeetsUser(r)
    \/ Login(r) \/ RefuseLogin(r) \/ Authenticate(r) \/ RefuseToken(r)
    \/ GetAsset(r) \/ RefuseAsset(r) \/ ListAssets(r) \/ CountAssets(r)

TypeOK ==
    /\ \A key \in Keys : table[key] \in RowFor(key) \cup {Absent}
    /\ pc \in [Requests -> {"idle", "insert", "count"} \cup Answered]
    /\ \A r \in Requests : pc[r] = "insert" => request[r].row \in RowFor(request[r].key)
=============================================================================
