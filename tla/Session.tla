------------------------------ MODULE Session ------------------------------
(***************************************************************************)
(* What the requests of the API have in common.  A request has a session   *)
(* of its own: it reads rows, decides, and commits, and other requests     *)
(* commit between any two of its statements.  The session keeps each row   *)
(* as it first read it, and an UPDATE writes the columns that it saw       *)
(* change, and no others.                                                  *)
(*                                                                         *)
(* A component keeps its rows in table, what a request has read and was    *)
(* sent in request, and adds the actions.                                  *)
(***************************************************************************)
EXTENDS Integers, Sequences, FiniteSets

CONSTANTS
    Requests,
    MaxTime,        \* the clock's bound
    Absent,         \* no row, no request
    Null,           \* SQL's NULL and JSON's null
    Keep,           \* a field a client leaves out
    Pages,          \* numbers of a page
    Sizes           \* sizes of a page

ASSUME TimeIsBounded == MaxTime \in Nat
ASSUME PagesStartAtOne == Pages \subseteq Nat \ {0} /\ Sizes \subseteq Nat \ {0}

Times == 0 .. MaxTime

VARIABLES table, pc, request, now

session == <<table, pc, request, now>>

Answered == {"ok", "refused", "error", "crashed"}

Fresh ==
    /\ pc = [r \in Requests |-> "idle"]
    /\ request = [r \in Requests |-> Absent]
    /\ now = 0

Move(r, place, what) ==
    /\ pc' = [pc EXCEPT ![r] = place]
    /\ request' = [request EXCEPT ![r] = what]
    /\ now' = now

\* The answer ends the session.
Reply(r, answer) == Move(r, answer, Absent)

Refuse(r) == pc[r] = "idle" /\ Reply(r, "refused") /\ UNCHANGED table

Read(r) == pc[r] = "idle" /\ Reply(r, "ok") /\ UNCHANGED table

Fail(r) == Reply(r, "error") /\ UNCHANGED table

Fault_Flush(row, loaded, new) == new
Flush(row, loaded, new) ==
    [c \in DOMAIN row |-> IF new[c] = loaded[c] THEN row[c] ELSE new[c]]

\* The fields a client left out are not set.
Patched(row, data) ==
    [c \in DOMAIN row |-> IF c \in DOMAIN data /\ data[c] # Keep THEN data[c] ELSE row[c]]

\* How many of n rows are on a page; which ones depends on the order asked for.
Offset(page, size) == (page - 1) * size

Shown(n, page, size) ==
    IF Offset(page, size) >= n THEN 0
    ELSE IF n - Offset(page, size) < size THEN n - Offset(page, size) ELSE size

PagesOf(rows, page, size) == {s \in SUBSET rows : Cardinality(s) = Shown(Cardinality(rows), page, size)}

\* A list answers with a page and, by a second statement, a total.
PagesShown(rows, what) ==
    UNION {{[what |-> what, shown |-> shown, offset |-> Offset(page, size)] :
              shown \in PagesOf(rows, page, size)} : page \in Pages, size \in Sizes}

CountRows(r) == pc[r] = "count" /\ Reply(r, "ok") /\ UNCHANGED table

Covers(total, answer) == answer.shown = {} \/ answer.offset + Cardinality(answer.shown) <= total

Tick ==
    /\ now < MaxTime
    /\ now' = now + 1
    /\ UNCHANGED <<table, pc, request>>

\* The process dies, or the database refuses a statement.
Crash(r) ==
    /\ pc[r] \notin Answered \cup {"idle"}
    /\ Reply(r, "crashed")
    /\ UNCHANGED table

Terminated ==
    /\ \A r \in Requests : pc[r] \in Answered
    /\ UNCHANGED session
=============================================================================
