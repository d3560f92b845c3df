---------------------------- MODULE DecisionLogs ----------------------------
(***************************************************************************)
(* The decision logs of the users: creating, updating, listing, and the    *)
(* stamps an update sets when a decision is reviewed or closed.            *)
(***************************************************************************)
EXTENDS Session

CONSTANTS
    Logs,           \* ids of decision logs
    Users,
    Patches,        \* what clients send to update a log
    Kinds,          \* types of decision
    LogBooks        \* logs the database may start with

Statuses == {"OPEN", "REVIEWED", "CLOSED"}

\* kind stands for the columns that must not be null, summary for those that
\* may be.  The risks are a JSON column, where a null is a value like others.
LogType == [user : Users, kind : Kinds, status : Statuses, summary : {"text", Null},
            risks : {"list", Null}, reviewed : Times \cup {Null}, closed : Times \cup {Null}]

PatchType == [kind : Kinds \cup {Keep, Null}, status : Statuses \cup {Keep, Null},
              summary : {"text", Keep, Null}, risks : {"list", Keep, Null},
              reviewed : Times \cup {Keep, Null}, closed : Times \cup {Keep, Null}]

Own(u) == {l \in Logs : table[l] # Absent /\ table[l].user = u}

\* A row whose risks are null does not fit the schema of a response.
Readable(row) == row.risks # Null

\* REVIEWED and CLOSED stamp a column that is not sent and not stamped yet.
Stamp(sent, loaded, status, column, at) ==
    IF sent.status = status /\ sent[column] = Keep /\ loaded[column] = Null
    THEN at ELSE sent[column]

WithLifecycleStamp(sent, loaded) ==
    [sent EXCEPT !.reviewed = Stamp(sent, loaded, "REVIEWED", "reviewed", now),
                 !.closed = Stamp(sent, loaded, "CLOSED", "closed", now)]

Init == table \in LogBooks /\ Fresh

\* Any status may be given to a new log; it is not stamped for it.
Create(r) ==
    /\ pc[r] = "idle"
    /\ \E l \in Logs, u \in Users, kind \in Kinds, status \in Statuses :
         /\ table[l] = Absent
         /\ table' = [table EXCEPT ![l] =
              [user |-> u, kind |-> kind, status |-> status, summary |-> "text",
               risks |-> "list", reviewed |-> Null, closed |-> Null]]
    /\ Reply(r, "ok")

\* 404 and 403.
RefuseUpdate(r) == (\E l \in Logs, u \in Users : l \notin Own(u)) /\ Refuse(r)

LoadLog(r) ==
    /\ pc[r] = "idle"
    /\ \E u \in Users : \E l \in Own(u), sent \in Patches :
         Move(r, "update",
              [log |-> l, loaded |-> table[l], sent |-> sent,
               new |-> Patched(table[l], WithLifecycleStamp(sent, table[l]))])
    /\ UNCHANGED table

Mandatory(row) == {row.kind, row.status}

UpdateLog(r) ==
    /\ pc[r] = "update"
    /\ Null \notin Mandatory(request[r].new)
    /\ LET l == request[r].log
           row == Flush(table[l], request[r].loaded, request[r].new)
       IN  /\ table' = [table EXCEPT ![l] = row]
           /\ Reply(r, IF Readable(row) THEN "ok" ELSE "error")

\* Nobody handles the IntegrityError of a column that must not be null.
UpdateMeetsNull(r) ==
    /\ pc[r] = "update"
    /\ Null \in Mandatory(request[r].new)
    /\ Fail(r)

\* One row that cannot be read makes the answer that holds it an error.
GetLog(r) ==
    /\ pc[r] = "idle"
    /\ \E u \in Users : \E l \in Own(u) : Reply(r, IF Readable(table[l]) THEN "ok" ELSE "error")
    /\ UNCHANGED table

ListLogs(r) ==
    /\ pc[r] = "idle"
    /\ \E u \in Users : \E answer \in PagesShown(Own(u), u) :
         IF \A l \in answer.shown : Readable(table[l]) THEN Move(r, "count", answer)
         ELSE Reply(r, "error")
    /\ UNCHANGED table

CountLogs(r) == CountRows(r)

\* Counts by type and the recent reviews, neither of which shows the risks.
GetStats(r) == Read(r)

Handle(r) ==
    \/ Create(r) \/ RefuseUpdate(r) \/ LoadLog(r) \/ UpdateLog(r) \/ UpdateMeetsNull(r)
    \/ GetLog(r) \/ ListLogs(r) \/ CountLogs(r) \/ GetStats(r)

TypeOK ==
    /\ table \in [Logs -> LogType \cup {Absent}]
    /\ pc \in [Requests -> {"idle", "update", "count"} \cup Answered]
    /\ \A r \in Requests :
         /\ pc[r] = "update" => /\ request[r].loaded \in LogType
                                /\ request[r].sent \in PatchType
         /\ pc[r] = "count" => request[r].shown \subseteq Own(request[r].what)

\* A stamp changes by an update that sends it.  One that read the log before it
\* was stamped puts another stamp in its place, and never erases it.
KeepsStamps ==
    \A l \in Logs, column \in {"reviewed", "closed"} :
        (table[l] # Absent /\ table[l][column] # Null /\ table'[l][column] # table[l][column])
          => \E r \in Requests :
               /\ pc[r] = "update" /\ pc'[r] # "update" /\ request[r].log = l
               /\ \/ request[r].sent[column] # Keep
                  \/ request[r].loaded[column] = Null /\ table'[l][column] # Null
=============================================================================
