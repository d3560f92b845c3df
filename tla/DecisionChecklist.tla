------------------------- MODULE DecisionChecklist -------------------------
(***************************************************************************)
(* The pre-buy checklist: a user's note on an asset, when it was first     *)
(* complete, and the saves that race for it.                               *)
(***************************************************************************)
EXTENDS Session

CONSTANTS
    Notes,          \* pairs of a user and an asset
    Memos,          \* texts of a memo
    Blank,          \* a memo of spaces
    Required        \* the keys to check

\* The lists of keys without a repeated one, which is what a save keeps.
KeyLists ==
    {list \in UNION {[1 .. n -> Required] : n \in 0 .. Cardinality(Required)} :
        \A i, j \in DOMAIN list : list[i] = list[j] => i = j}

NoteType == [memo : Memos \cup {Blank, Null}, keys : KeyLists, decided : Times \cup {Null}]

SaveType == [note : Notes, read : NoteType \cup {Absent}, loaded : NoteType \cup {Absent},
             new : NoteType]

Complete(memo, keys) == memo \in Memos /\ \A k \in Required : \E i \in DOMAIN keys : keys[i] = k

IsComplete(note) == Complete(note.memo, note.keys)

Fault_NextDecidedAt(note, complete) ==
    IF note # Absent /\ note.decided # Null THEN note.decided
    ELSE IF complete THEN now ELSE Null

\* When the note was decided, by the note as it was read.
NextDecidedAt(note, complete) ==
    CASE ~complete -> Null
      [] complete /\ note # Absent /\ note.decided # Null -> note.decided
      [] OTHER -> now

Init == table = [n \in Notes |-> Absent] /\ Fresh

ReadNote(r) ==
    /\ pc[r] = "idle"
    /\ \E n \in Notes, memo \in Memos \cup {Blank, Null}, keys \in KeyLists :
         Move(r, IF table[n] = Absent THEN "reread" ELSE "save",
              [note |-> n, read |-> table[n], loaded |-> table[n],
               new |-> [memo |-> memo, keys |-> keys,
                        decided |-> NextDecidedAt(table[n], Complete(memo, keys))]])
    /\ UNCHANGED table

\* The upsert looks again.  A row the session holds stays as it was read.
RereadNote(r) ==
    /\ pc[r] = "reread"
    /\ Move(r, "save", [request[r] EXCEPT !.loaded = table[request[r].note]])
    /\ UNCHANGED table

InsertNote(r) ==
    /\ pc[r] = "save"
    /\ request[r].loaded = Absent
    /\ table[request[r].note] = Absent
    /\ table' = [table EXCEPT ![request[r].note] = request[r].new]
    /\ Reply(r, "ok")

\* Nobody handles the IntegrityError of the unique key.
InsertMeetsNote(r) ==
    /\ pc[r] = "save"
    /\ request[r].loaded = Absent
    /\ table[request[r].note] # Absent
    /\ Fail(r)

UpdateNote(r) ==
    /\ pc[r] = "save"
    /\ request[r].loaded # Absent
    /\ table' = [table EXCEPT ![request[r].note] = Flush(@, request[r].loaded, request[r].new)]
    /\ Reply(r, "ok")

GetChecklist(r) == Read(r)

EnsureAsset(r) == Refuse(r)

Handle(r) ==
    \/ GetChecklist(r) \/ EnsureAsset(r)
    \/ ReadNote(r) \/ RereadNote(r) \/ InsertNote(r) \/ InsertMeetsNote(r) \/ UpdateNote(r)

TypeOK ==
    /\ table \in [Notes -> NoteType \cup {Absent}]
    /\ pc \in [Requests -> {"idle", "reread", "save"} \cup Answered]
    /\ request \in [Requests -> {Absent} \cup SaveType]

\* The request decided on a note that another one has replaced since.
Overtaken(r, n) == request[r] # Absent /\ request[r].note = n /\ request[r].read # table[n]

\* A step leaves a note decided if it is complete and not otherwise, and one
\* that was decided and is complete with the time it was decided at.
KeepsNotesDecided ==
    \A n \in Notes : table'[n] # table[n] =>
        \/ /\ IsComplete(table'[n]) <=> table'[n].decided # Null
           /\ (table[n] # Absent /\ table[n].decided # Null /\ IsComplete(table'[n]))
                => table'[n].decided = table[n].decided
        \/ \E r \in Requests : Overtaken(r, n) /\ pc[r] = "save" /\ pc'[r] = "ok"
=============================================================================
