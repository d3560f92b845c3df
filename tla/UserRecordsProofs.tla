------------------------- MODULE UserRecordsProofs -------------------------
(***************************************************************************)
(* The safety properties of the records the users keep, for any number of  *)
(* requests and rows.  Each component has an invariant of its own, since   *)
(* all requests of a behaviour are of one component.                       *)
(***************************************************************************)
EXTENDS UserRecords, SumProofs

\* What holds of the session of every component.
SessionInv ==
    /\ now \in Times
    /\ request = [r \in Requests |-> request[r]]

\* A request is answered, and nothing else happens.
Answers(r) ==
    /\ \E answer \in Answered : pc' = [pc EXCEPT ![r] = answer]
    /\ request' = [request EXCEPT ![r] = Absent]
    /\ table' = table
    /\ now' = now

\* A step without a request: the clock, or none.
Passes ==
    /\ now' = now \/ (now < MaxTime /\ now' = now + 1)
    /\ UNCHANGED <<table, pc, request>>

LEMMA CommonSteps ==
  /\ \A r \in Requests : Crash(r) => Answers(r)
  /\ Tick \/ Terminated \/ UNCHANGED vars => Passes
BY DEF Crash, Reply, Move, Tick, Terminated, session, vars, Answers, Passes, Answered

(* A page never reaches beyond the rows it was taken from.                   *)
LEMMA PagesAreCovered ==
  ASSUME NEW rows, IsFiniteSet(rows), NEW what, NEW answer \in PagesShown(rows, what)
  PROVE  /\ answer.what = what /\ answer.offset \in Nat
         /\ answer.shown \subseteq rows /\ IsFiniteSet(answer.shown)
         /\ Covers(Cardinality(rows), answer)
<1>1. PICK page \in Pages, size \in Sizes :
        \E shown \in PagesOf(rows, page, size) :
           answer = [what |-> what, shown |-> shown, offset |-> Offset(page, size)]
  BY DEF PagesShown
<1>. PICK shown \in PagesOf(rows, page, size) :
       answer = [what |-> what, shown |-> shown, offset |-> Offset(page, size)]
  BY <1>1
<1>2. Cardinality(rows) \in Nat
  BY FS_CardinalityType
<1>3. Offset(page, size) \in Nat
  BY PagesStartAtOne DEF Offset
<1>4. shown \subseteq rows /\ Cardinality(shown) = Shown(Cardinality(rows), page, size)
  BY DEF PagesOf
<1>5. Cardinality(shown) = 0 => shown = {}
  BY <1>4, FS_Subset, FS_EmptySet
<1>6. size \in Nat
  BY PagesStartAtOne
<1>7. shown = {} \/ Offset(page, size) + Cardinality(shown) <= Cardinality(rows)
  BY <1>2, <1>3, <1>4, <1>5, <1>6 DEF Shown
<1>. QED  BY <1>3, <1>4, <1>7, FS_Subset DEF Covers

(* Rows that are there to stay keep a page covered.                          *)
LEMMA PagesStayCovered ==
  ASSUME NEW rows, NEW more, IsFiniteSet(more), rows \subseteq more,
         NEW answer, Covers(Cardinality(rows), answer),
         answer.offset \in Nat, IsFiniteSet(answer.shown)
  PROVE  Covers(Cardinality(more), answer)
<1>1. Cardinality(rows) <= Cardinality(more) /\ Cardinality(rows) \in Nat /\ Cardinality(more) \in Nat
  BY FS_Subset, FS_CardinalityType
<1>2. Cardinality(answer.shown) \in Nat
  BY FS_CardinalityType
<1>. QED  BY <1>1, <1>2 DEF Covers

(* What the components count and show is what this module counts and shows.  *)
LEMMA SameCounts ==
  \A S : /\ DecisionLog!Cardinality(S) = Cardinality(S) /\ Messages!Cardinality(S) = Cardinality(S)
         /\ Register!Cardinality(S) = Cardinality(S) /\ Watchlist!Cardinality(S) = Cardinality(S)
<1>1. \A S : DecisionLog!Cardinality(S) = Cardinality(S)
  BY DEF Cardinality, DecisionLog!Cardinality
<1>2. \A S : Messages!Cardinality(S) = Cardinality(S)
  BY DEF Cardinality, Messages!Cardinality
<1>3. \A S : Register!Cardinality(S) = Cardinality(S)
  BY DEF Cardinality, Register!Cardinality
<1>4. \A S : Watchlist!Cardinality(S) = Cardinality(S)
  BY DEF Cardinality, Watchlist!Cardinality
<1>. QED  BY <1>1, <1>2, <1>3, <1>4

LEMMA SamePages ==
  ASSUME NEW rows, NEW what
  PROVE  /\ DecisionLog!PagesShown(rows, what) = PagesShown(rows, what)
         /\ Messages!PagesShown(rows, what) = PagesShown(rows, what)
         /\ Register!PagesShown(rows, what) = PagesShown(rows, what)
         /\ Watchlist!PagesShown(rows, what) = PagesShown(rows, what)
<1>. USE SameCounts DEF PagesShown, PagesOf, Shown, Offset
<1>1. DecisionLog!PagesShown(rows, what) = PagesShown(rows, what)
  BY SMT DEF DecisionLog!PagesShown, DecisionLog!PagesOf, DecisionLog!Shown, DecisionLog!Offset
<1>2. Messages!PagesShown(rows, what) = PagesShown(rows, what)
  BY SMT DEF Messages!PagesShown, Messages!PagesOf, Messages!Shown, Messages!Offset
<1>3. Register!PagesShown(rows, what) = PagesShown(rows, what)
  BY SMT DEF Register!PagesShown, Register!PagesOf, Register!Shown, Register!Offset
<1>4. Watchlist!PagesShown(rows, what) = PagesShown(rows, what)
  BY SMT DEF Watchlist!PagesShown, Watchlist!PagesOf, Watchlist!Shown, Watchlist!Offset
<1>. QED  BY <1>1, <1>2, <1>3, <1>4

-----------------------------------------------------------------------------
(* The checklist. *)

(* A save has decided on the note as it was read: Null unless it makes the   *)
(* note complete, and else the time the note had, if it had one.  What it    *)
(* has loaded is that note, or one inserted since, and is still there.       *)
SavesAreDecided ==
    \A r \in Requests : pc[r] \in {"reread", "save"} =>
        LET save == request[r]
            complete == Checklist!Complete(save.new.memo, save.new.keys)
        IN  /\ save \in Checklist!SaveType
            /\ save.new.decided = Null <=> ~complete
            /\ (save.read # Absent /\ save.read.decided # Null /\ complete)
                 => save.new.decided = save.read.decided
            /\ save.read # Absent => save.loaded = save.read
            /\ pc[r] = "reread" => save.read = Absent
            /\ save.loaded # Absent => table[save.note] # Absent

ChecklistInv == Checklist!TypeOK /\ SavesAreDecided

\* Nothing takes a note away.
NotesStay == \A n \in Notes : table[n] # Absent => table'[n] # Absent

ChecklistKeeps == Checklist!KeepsNotesDecided /\ NotesStay

LEMMA ChecklistInit == Checklist!Init => SessionInv /\ ChecklistInv
BY TimeIsBounded DEF Checklist!Init, Checklist!Fresh, SessionInv, ChecklistInv, Checklist!TypeOK,
   SavesAreDecided, Times, Checklist!Answered

LEMMA ChecklistFlush ==
  ASSUME NEW row \in Checklist!NoteType, NEW loaded \in Checklist!NoteType,
         NEW new \in Checklist!NoteType
  PROVE  /\ Checklist!Flush(row, loaded, new) \in Checklist!NoteType
         /\ row = loaded => Checklist!Flush(row, loaded, new) = new
BY DEF Checklist!Flush, Checklist!NoteType

LEMMA ChecklistAnswers ==
  ASSUME SessionInv, ChecklistInv, (\E r \in Requests : Answers(r)) \/ Passes
  PROVE  ChecklistInv' /\ ChecklistKeeps
<1>. USE DEF SessionInv, ChecklistInv, Checklist!TypeOK, SavesAreDecided, ChecklistKeeps, NotesStay, Checklist!KeepsNotesDecided
<1>1. ASSUME NEW r \in Requests, Answers(r)
      PROVE  ChecklistInv' /\ ChecklistKeeps
  BY <1>1 DEF Answers, Answered, Checklist!Answered
<1>2. CASE Passes
  BY <1>2 DEF Passes
<1>. QED  BY <1>1, <1>2

LEMMA ChecklistHandles ==
  ASSUME SessionInv, ChecklistInv, NEW r \in Requests, Checklist!Handle(r)
  PROVE  ChecklistInv' /\ ChecklistKeeps
<1>. USE DEF SessionInv, ChecklistInv, Checklist!TypeOK, Checklist!Move, Checklist!Reply,
          Checklist!Answered
<1>1. CASE Checklist!ReadNote(r)
  <2>1. PICK n \in Notes, memo \in Memos \cup {Blank, Null}, keys \in Checklist!KeyLists :
          Checklist!Move(r, IF table[n] = Absent THEN "reread" ELSE "save",
              [note |-> n, read |-> table[n], loaded |-> table[n],
               new |-> [memo |-> memo, keys |-> keys,
                        decided |-> Checklist!NextDecidedAt(table[n],
                                      Checklist!Complete(memo, keys))]])
    BY <1>1 DEF Checklist!ReadNote
  <2> DEFINE complete == Checklist!Complete(memo, keys)
             decided == Checklist!NextDecidedAt(table[n], complete)
             save == [note |-> n, read |-> table[n], loaded |-> table[n],
                      new |-> [memo |-> memo, keys |-> keys, decided |-> decided]]
  <2>2. /\ decided \in Times \cup {Null}
        /\ decided = Null <=> ~complete
        /\ (table[n] # Absent /\ table[n].decided # Null /\ complete)
             => decided = table[n].decided
    BY NullIsNothing DEF Checklist!NextDecidedAt, Checklist!NoteType, Times, Checklist!Times
  <2> HIDE DEF decided, complete
  <2>3. save \in Checklist!SaveType
    BY <2>2 DEF Checklist!SaveType, Checklist!NoteType, Times, Checklist!Times
  <2>. QED  BY <1>1, <2>1, <2>2, <2>3 DEF Checklist!ReadNote, SavesAreDecided,
              ChecklistKeeps, NotesStay, Checklist!KeepsNotesDecided, complete, decided
<1>2. CASE Checklist!RereadNote(r)
  <2> DEFINE n == request[r].note
             save == [request[r] EXCEPT !.loaded = table[n]]
  <2>1. request[r] \in Checklist!SaveType /\ request[r].read = Absent
    BY <1>2 DEF Checklist!RereadNote, SavesAreDecided
  <2>2. /\ save \in Checklist!SaveType /\ save.note = n /\ save.new = request[r].new
        /\ save.read = Absent /\ save.loaded = table[n]
    BY <2>1 DEF Checklist!SaveType
  <2>3. /\ pc' = [pc EXCEPT ![r] = "save"] /\ request' = [request EXCEPT ![r] = save]
        /\ table' = table
    BY <1>2 DEF Checklist!RereadNote
  <2> HIDE DEF save
  <2>4. request' \in [Requests -> {Absent} \cup Checklist!SaveType]
    BY <2>2, <2>3
  <2>. QED  BY <1>2, <2>1, <2>2, <2>3, <2>4 DEF Checklist!RereadNote, SavesAreDecided,
              ChecklistKeeps, NotesStay, Checklist!KeepsNotesDecided
<1>3. ASSUME pc[r] = "save", NEW row \in Checklist!NoteType,
             table' = [table EXCEPT ![request[r].note] = row], Checklist!Reply(r, "ok"),
             request[r].read = table[request[r].note] => row = request[r].new
      PROVE  ChecklistInv' /\ ChecklistKeeps
  <2> DEFINE n == request[r].note
             new == request[r].new
  <2>1. /\ request[r] \in Checklist!SaveType
        /\ new.decided = Null <=> ~Checklist!Complete(new.memo, new.keys)
        /\ (request[r].read # Absent /\ request[r].read.decided # Null
              /\ Checklist!Complete(new.memo, new.keys)) => new.decided = request[r].read.decided
    BY <1>3 DEF SavesAreDecided
  <2>2. n \in Notes /\ request[r] # Absent
    BY <2>1, AbsentIsNothing DEF Checklist!SaveType
  <2>3. table' \in [Notes -> Checklist!NoteType \cup {Absent}] /\ row # Absent
    BY <1>3, <2>2, AbsentIsNothing
  <2>4. ChecklistInv'
    BY <1>3, <2>2, <2>3 DEF SavesAreDecided
  <2>5. Checklist!KeepsNotesDecided
    <3>1. CASE request[r].read # table[n]
      BY <1>3, <2>2, <3>1 DEF Checklist!KeepsNotesDecided, Checklist!Overtaken
    <3>2. CASE request[r].read = table[n]
      BY <1>3, <2>1, <2>2, <3>2 DEF Checklist!KeepsNotesDecided, Checklist!IsComplete
    <3>. QED  BY <3>1, <3>2
  <2>6. NotesStay
    BY <1>3, <2>2, <2>3 DEF NotesStay
  <2>. QED  BY <2>4, <2>5, <2>6 DEF ChecklistKeeps
<1>4. CASE Checklist!InsertNote(r)
  <2>1. request[r].new \in Checklist!NoteType
    BY <1>4 DEF Checklist!InsertNote, SavesAreDecided, Checklist!SaveType
  <2>. QED  BY <1>3, <1>4, <2>1 DEF Checklist!InsertNote
<1>5. CASE Checklist!UpdateNote(r)
  <2> DEFINE n == request[r].note
             row == Checklist!Flush(table[n], request[r].loaded, request[r].new)
  <2>1. /\ request[r] \in Checklist!SaveType /\ table[n] # Absent
        /\ request[r].read # Absent => request[r].loaded = request[r].read
    BY <1>5 DEF Checklist!UpdateNote, SavesAreDecided
  <2>2. /\ n \in Notes /\ table[n] \in Checklist!NoteType
        /\ request[r].loaded \in Checklist!NoteType /\ request[r].new \in Checklist!NoteType
    BY <1>5, <2>1 DEF Checklist!UpdateNote, Checklist!SaveType
  <2>3. row \in Checklist!NoteType /\ (request[r].read = table[n] => row = request[r].new)
    BY <2>1, <2>2, ChecklistFlush
  <2>. QED  BY <1>3, <1>5, <2>3 DEF Checklist!UpdateNote
<1>6. CASE Checklist!GetChecklist(r) \/ Checklist!EnsureAsset(r) \/ Checklist!InsertMeetsNote(r)
  <2>1. Answers(r)
    BY <1>6 DEF Checklist!GetChecklist, Checklist!EnsureAsset, Checklist!InsertMeetsNote,
       Checklist!Read, Checklist!Refuse, Checklist!Fail, Answers, Answered
  <2>. QED  BY <2>1, ChecklistAnswers
<1>. QED  BY <1>1, <1>2, <1>4, <1>5, <1>6 DEF Checklist!Handle

-----------------------------------------------------------------------------
(* Decision logs. *)

(* An update has loaded a log that is still there, of the same user.  What   *)
(* it is about to write differs from what it loaded in the fields it was     *)
(* sent, and in a stamp the log it loaded did not have.                      *)
UpdatesAreSent ==
    \A r \in Requests : pc[r] = "update" =>
        LET update == request[r]
        IN  /\ update.log \in Logs /\ table[update.log] # Absent
            /\ update.loaded \in DecisionLog!LogType /\ update.sent \in DecisionLog!PatchType
            /\ update.new \in [user : Users, kind : Kinds \cup {Null},
                               status : DecisionLog!Statuses \cup {Null},
                               summary : {"text", Null}, risks : {"list", Null},
                               reviewed : Times \cup {Null}, closed : Times \cup {Null}]
            /\ update.new.user = update.loaded.user
            /\ \A c \in {"kind", "status", "summary", "risks"} :
                 update.new[c] # update.loaded[c] => update.sent[c] # Keep
            /\ \A c \in {"reviewed", "closed"} :
                 update.new[c] # update.loaded[c] => update.sent[c] # Keep \/ update.loaded[c] = Null

LogPagesAreCovered ==
    \A r \in Requests : pc[r] = "count" =>
        /\ request[r].offset \in Nat /\ IsFiniteSet(request[r].shown)
        /\ Covers(Cardinality(DecisionLog!Own(request[r].what)), request[r])

LogsInv == DecisionLog!TypeOK /\ UpdatesAreSent /\ LogPagesAreCovered

(* Nothing takes a log away or gives it to somebody else.                    *)
LogsStay ==
    \A l \in Logs : table[l] # Absent => table'[l] # Absent /\ table'[l].user = table[l].user

LogsKeep == DecisionLog!KeepsStamps /\ KeepsOtherColumns /\ LogsStay

LEMMA LogsInit == DecisionLog!Init => SessionInv /\ LogsInv
BY TimeIsBounded, BooksAreTyped DEF DecisionLog!Init, DecisionLog!Fresh, SessionInv, LogsInv,
   DecisionLog!TypeOK, UpdatesAreSent, LogPagesAreCovered, Times, DecisionLog!Answered

(* What an update that was sent a patch is about to write.                   *)
LEMMA StampedPatch ==
  ASSUME NEW loaded \in DecisionLog!LogType, NEW sent \in DecisionLog!PatchType, now \in Times,
         NEW new, new = DecisionLog!Patched(loaded, DecisionLog!WithLifecycleStamp(sent, loaded))
  PROVE  /\ new \in [user : Users, kind : Kinds \cup {Null},
                     status : DecisionLog!Statuses \cup {Null},
                     summary : {"text", Null}, risks : {"list", Null},
                     reviewed : Times \cup {Null}, closed : Times \cup {Null}]
         /\ new.user = loaded.user
         /\ \A c \in {"kind", "status", "summary", "risks"} : new[c] # loaded[c] => sent[c] # Keep
         /\ \A c \in {"reviewed", "closed"} : new[c] # loaded[c] => sent[c] # Keep \/ loaded[c] = Null
<1> DEFINE stamped == DecisionLog!WithLifecycleStamp(sent, loaded)
<1>1. /\ DOMAIN stamped = {"kind", "status", "summary", "risks", "reviewed", "closed"}
      /\ \A c \in {"kind", "status", "summary", "risks"} : stamped[c] = sent[c]
      /\ \A c \in {"reviewed", "closed"} :
           stamped[c] = sent[c] \/ (stamped[c] = now /\ loaded[c] = Null)
  BY DEF DecisionLog!WithLifecycleStamp, DecisionLog!Stamp, DecisionLog!PatchType
<1> HIDE DEF stamped
<1>2. DOMAIN loaded = {"user", "kind", "status", "summary", "risks", "reviewed", "closed"}
  BY DEF DecisionLog!LogType
<1>3. new = [c \in DOMAIN loaded |->
               IF c \in DOMAIN stamped /\ stamped[c] # Keep THEN stamped[c] ELSE loaded[c]]
  BY DEF DecisionLog!Patched, stamped
<1>4. /\ sent.kind \in Kinds \cup {Keep, Null} /\ sent.status \in DecisionLog!Statuses \cup {Keep, Null}
      /\ sent.summary \in {"text", Keep, Null} /\ sent.risks \in {"list", Keep, Null}
      /\ sent.reviewed \in Times \cup {Keep, Null} /\ sent.closed \in Times \cup {Keep, Null}
  BY DEF DecisionLog!PatchType, Times, DecisionLog!Times
<1>5. /\ loaded.user \in Users /\ loaded.kind \in Kinds /\ loaded.status \in DecisionLog!Statuses
      /\ loaded.summary \in {"text", Null} /\ loaded.risks \in {"list", Null}
      /\ loaded.reviewed \in Times \cup {Null} /\ loaded.closed \in Times \cup {Null}
  BY DEF DecisionLog!LogType, Times, DecisionLog!Times
<1>6. /\ new.user = loaded.user
      /\ \A c \in {"kind", "status", "summary", "risks"} :
           new[c] = IF sent[c] # Keep THEN sent[c] ELSE loaded[c]
      /\ \A c \in {"reviewed", "closed"} :
           new[c] = IF stamped[c] # Keep THEN stamped[c] ELSE loaded[c]
  BY <1>1, <1>2, <1>3
<1>7. new.reviewed \in Times \cup {Null} /\ new.closed \in Times \cup {Null}
  BY <1>1, <1>4, <1>5, <1>6
<1>8. /\ new.kind \in Kinds \cup {Null} /\ new.status \in DecisionLog!Statuses \cup {Null}
      /\ new.summary \in {"text", Null} /\ new.risks \in {"list", Null}
  BY <1>4, <1>5, <1>6
<1>9. new = [user |-> new.user, kind |-> new.kind, status |-> new.status, summary |-> new.summary,
             risks |-> new.risks, reviewed |-> new.reviewed, closed |-> new.closed]
  BY <1>2, <1>3
<1>. QED  BY <1>1, <1>5, <1>6, <1>7, <1>8, <1>9

\* The requests of q between its two statements were there before.
CountsStay(q) == pc'[q] = "count" => pc[q] = "count" /\ request'[q] = request[q]

LEMMA LogPageStays ==
  ASSUME SessionInv, LogsInv, LogsStay, NEW q \in Requests, pc'[q] = "count", CountsStay(q)
  PROVE  /\ request'[q].offset \in Nat /\ IsFiniteSet(request'[q].shown)
         /\ (request[q].shown \subseteq DecisionLog!Own(request[q].what))'
         /\ Covers(Cardinality(DecisionLog!Own(request[q].what)), request[q])'
<1> DEFINE u == request[q].what
           own == DecisionLog!Own(u)
           grown == {l \in Logs : table'[l] # Absent /\ table'[l].user = u}
<1>1. /\ pc[q] = "count" /\ request'[q] = request[q]
      /\ request[q].offset \in Nat /\ IsFiniteSet(request[q].shown)
      /\ request[q].shown \subseteq own /\ Covers(Cardinality(own), request[q])
  BY DEF CountsStay, LogsInv, LogPagesAreCovered, DecisionLog!TypeOK
<1>2. own \subseteq grown /\ IsFiniteSet(grown)
  BY IdsAreFinite, FS_Subset DEF DecisionLog!Own, LogsStay
<1>3. Covers(Cardinality(grown), request[q])
  BY <1>1, <1>2, PagesStayCovered
<1>4. DecisionLog!Own(request[q].what)' = grown
  BY <1>1 DEF DecisionLog!Own
<1>. QED  BY <1>1, <1>2, <1>3, <1>4 DEF Covers

(* A request that answers, whatever it writes, leaves the others as they are. *)
LEMMA LogAnswers ==
  ASSUME SessionInv, LogsInv, LogsKeep,
         table' \in [Logs -> DecisionLog!LogType \cup {Absent}],
         (\E r \in Requests : /\ \E answer \in Answered : pc' = [pc EXCEPT ![r] = answer]
                              /\ request' = [request EXCEPT ![r] = Absent])
           \/ UNCHANGED <<pc, request>>
  PROVE  LogsInv' /\ LogsKeep
<1>1. \A q \in Requests : /\ pc'[q] \in {"idle", "update", "count"} => pc'[q] = pc[q] /\ request'[q] = request[q]
                          /\ pc'[q] \in {"idle", "update", "count"} \cup Answered
  BY DEF LogsInv, DecisionLog!TypeOK, SessionInv, Answered, DecisionLog!Answered
<1>2. pc' \in [Requests -> {"idle", "update", "count"} \cup DecisionLog!Answered]
  BY DEF LogsInv, DecisionLog!TypeOK, SessionInv, Answered, DecisionLog!Answered
<1>3. LogPagesAreCovered' /\ DecisionLog!TypeOK'
  BY <1>1, <1>2, LogPageStays DEF LogsKeep, CountsStay, LogsInv, LogPagesAreCovered, DecisionLog!TypeOK
<1>4. UpdatesAreSent'
  BY <1>1 DEF LogsKeep, LogsStay, LogsInv, UpdatesAreSent
<1>. QED  BY <1>3, <1>4 DEF LogsInv

(* A request that moves on without writing anything.                         *)
LEMMA LogMoves ==
  ASSUME SessionInv, LogsInv, NEW r \in Requests, NEW place \in {"update", "count"}, NEW what,
         pc' = [pc EXCEPT ![r] = place], request' = [request EXCEPT ![r] = what], table' = table,
         /\ UpdatesAreSent'
         /\ place = "update" => what.loaded \in DecisionLog!LogType /\ what.sent \in DecisionLog!PatchType
         /\ place = "count" => /\ what.offset \in Nat /\ IsFiniteSet(what.shown)
                               /\ what.shown \subseteq DecisionLog!Own(what.what)
                               /\ Covers(Cardinality(DecisionLog!Own(what.what)), what)
  PROVE  LogsInv' /\ LogsKeep
<1>1. LogsKeep /\ LogsStay
  BY DEF LogsKeep, LogsStay, DecisionLog!KeepsStamps, KeepsOtherColumns
<1>2. \A q \in Requests : q # r => pc'[q] = pc[q] /\ request'[q] = request[q]
  BY DEF LogsInv, DecisionLog!TypeOK, SessionInv
<1>3. pc'[r] = place /\ request'[r] = what
  BY DEF LogsInv, DecisionLog!TypeOK, SessionInv
<1>4. pc' \in [Requests -> {"idle", "update", "count"} \cup DecisionLog!Answered]
  BY DEF LogsInv, DecisionLog!TypeOK
<1>5. place = "count" => /\ (request[r].shown \subseteq DecisionLog!Own(request[r].what))'
                         /\ Covers(Cardinality(DecisionLog!Own(request[r].what)), request[r])'
  BY <1>3 DEF DecisionLog!Own, Covers
<1>6. LogPagesAreCovered' /\ DecisionLog!TypeOK'
  <2>1. ASSUME NEW q \in Requests, q # r, pc'[q] = "count"
        PROVE  /\ request'[q].offset \in Nat /\ IsFiniteSet(request'[q].shown)
               /\ (request[q].shown \subseteq DecisionLog!Own(request[q].what))'
               /\ Covers(Cardinality(DecisionLog!Own(request[q].what)), request[q])'
    BY <1>1, <1>2, <2>1, LogPageStays DEF CountsStay
  <2>2. LogPagesAreCovered'
    BY <1>3, <1>5, <2>1 DEF LogPagesAreCovered
  <2>3. DecisionLog!TypeOK'
    BY <1>2, <1>3, <1>4, <1>5, <2>1 DEF LogsInv, DecisionLog!TypeOK
  <2>. QED  BY <2>2, <2>3
<1>. QED  BY <1>1, <1>6 DEF LogsInv

LEMMA LogsHandle ==
  ASSUME SessionInv, LogsInv, NEW r \in Requests, DecisionLog!Handle(r)
  PROVE  LogsInv' /\ LogsKeep
<1>. USE DEF SessionInv, DecisionLog!Move, DecisionLog!Reply, Answered, DecisionLog!Answered
<1>1. CASE /\ table' = table
           /\ DecisionLog!Reply(r, "ok") \/ DecisionLog!Reply(r, "error") \/ DecisionLog!Reply(r, "refused")
  <2>1. LogsKeep /\ LogsStay
    BY <1>1 DEF LogsKeep, LogsStay, DecisionLog!KeepsStamps, KeepsOtherColumns
  <2>. QED  BY <1>1, <2>1, LogAnswers DEF LogsInv, DecisionLog!TypeOK
<1>2. CASE DecisionLog!Create(r)
  <2>1. PICK l \in Logs, u \in Users, kind \in Kinds, status \in DecisionLog!Statuses :
          /\ table[l] = Absent
          /\ table' = [table EXCEPT ![l] =
               [user |-> u, kind |-> kind, status |-> status, summary |-> "text",
                risks |-> "list", reviewed |-> Null, closed |-> Null]]
    BY <1>2 DEF DecisionLog!Create
  <2> DEFINE log == [user |-> u, kind |-> kind, status |-> status, summary |-> "text",
                     risks |-> "list", reviewed |-> Null, closed |-> Null]
  <2>2. log \in DecisionLog!LogType
    BY DEF DecisionLog!LogType
  <2> HIDE DEF log
  <2>3. /\ table' \in [Logs -> DecisionLog!LogType \cup {Absent}]
        /\ \A k \in Logs : table[k] # Absent => table'[k] = table[k]
        /\ DOMAIN table = Logs
    BY <2>1, <2>2 DEF LogsInv, DecisionLog!TypeOK, log
  <2>4. LogsKeep /\ LogsStay
    BY <2>3 DEF LogsKeep, LogsStay, DecisionLog!KeepsStamps, KeepsOtherColumns
  <2>. QED  BY <1>2, <2>3, <2>4, LogAnswers DEF DecisionLog!Create
<1>3. CASE DecisionLog!LoadLog(r)
  <2>1. PICK u \in Users : \E l \in DecisionLog!Own(u), sent \in Patches :
          DecisionLog!Move(r, "update",
            [log |-> l, loaded |-> table[l], sent |-> sent,
             new |-> DecisionLog!Patched(table[l], DecisionLog!WithLifecycleStamp(sent, table[l]))])
    BY <1>3 DEF DecisionLog!LoadLog
  <2>2. PICK l \in DecisionLog!Own(u), sent \in Patches :
          DecisionLog!Move(r, "update",
            [log |-> l, loaded |-> table[l], sent |-> sent,
             new |-> DecisionLog!Patched(table[l], DecisionLog!WithLifecycleStamp(sent, table[l]))])
    BY <2>1
  <2> DEFINE new == DecisionLog!Patched(table[l], DecisionLog!WithLifecycleStamp(sent, table[l]))
             update == [log |-> l, loaded |-> table[l], sent |-> sent, new |-> new]
  <2>3. l \in Logs /\ table[l] # Absent /\ table[l] \in DecisionLog!LogType
        /\ sent \in DecisionLog!PatchType
    BY PatchesAreTyped DEF LogsInv, DecisionLog!TypeOK, DecisionLog!Own
  <2>4. /\ update.log = l /\ update.loaded = table[l] /\ update.sent = sent /\ update.new = new
        /\ pc' = [pc EXCEPT ![r] = "update"] /\ request' = [request EXCEPT ![r] = update]
        /\ table' = table
    BY <1>3, <2>2 DEF DecisionLog!LoadLog
  <2>5. /\ new \in [user : Users, kind : Kinds \cup {Null},
                    status : DecisionLog!Statuses \cup {Null},
                    summary : {"text", Null}, risks : {"list", Null},
                    reviewed : Times \cup {Null}, closed : Times \cup {Null}]
        /\ new.user = table[l].user
        /\ \A c \in {"kind", "status", "summary", "risks"} : new[c] # table[l][c] => sent[c] # Keep
        /\ \A c \in {"reviewed", "closed"} :
             new[c] # table[l][c] => sent[c] # Keep \/ table[l][c] = Null
    BY <2>3, StampedPatch
  <2> HIDE DEF new, update
  <2>6. \A q \in Requests : /\ q # r => pc'[q] = pc[q] /\ request'[q] = request[q]
                            /\ pc'[r] = "update" /\ request'[r] = update
    BY <2>4 DEF LogsInv, DecisionLog!TypeOK
  <2>7. UpdatesAreSent'
    BY <2>3, <2>4, <2>5, <2>6 DEF LogsInv, UpdatesAreSent
  <2>. QED  BY <2>3, <2>4, <2>7, LogMoves
<1>4. CASE DecisionLog!UpdateLog(r)
  <2> DEFINE l == request[r].log
             loaded == request[r].loaded
             new == request[r].new
             row == DecisionLog!Flush(table[l], loaded, new)
  <2>1. /\ pc[r] = "update" /\ l \in Logs /\ table[l] # Absent /\ new.kind # Null /\ new.status # Null
        /\ loaded \in DecisionLog!LogType /\ request[r].sent \in DecisionLog!PatchType
        /\ new \in [user : Users, kind : Kinds \cup {Null},
                    status : DecisionLog!Statuses \cup {Null},
                    summary : {"text", Null}, risks : {"list", Null},
                    reviewed : Times \cup {Null}, closed : Times \cup {Null}]
        /\ new.user = loaded.user
        /\ \A c \in {"kind", "status", "summary", "risks"} : new[c] # loaded[c] => request[r].sent[c] # Keep
        /\ \A c \in {"reviewed", "closed"} :
             new[c] # loaded[c] => request[r].sent[c] # Keep \/ loaded[c] = Null
    BY <1>4 DEF DecisionLog!UpdateLog, DecisionLog!Mandatory, LogsInv, UpdatesAreSent
  <2>2. table[l] \in DecisionLog!LogType /\ DOMAIN table = Logs
    BY <2>1 DEF LogsInv, DecisionLog!TypeOK
  <2>3. /\ table' = [table EXCEPT ![l] = row]
        /\ \E answer \in Answered : pc' = [pc EXCEPT ![r] = answer]
        /\ request' = [request EXCEPT ![r] = Absent]
    BY <1>4 DEF DecisionLog!UpdateLog
  <2>4. /\ DOMAIN table[l] = {"user", "kind", "status", "summary", "risks", "reviewed", "closed"}
        /\ \A c \in DOMAIN table[l] :
             row[c] = IF new[c] = loaded[c] THEN table[l][c] ELSE new[c]
        /\ DOMAIN row = DOMAIN table[l]
    BY <2>2 DEF DecisionLog!Flush, DecisionLog!LogType
  <2>5. row = [user |-> row.user, kind |-> row.kind, status |-> row.status, summary |-> row.summary,
               risks |-> row.risks, reviewed |-> row.reviewed, closed |-> row.closed]
    BY <2>4 DEF DecisionLog!Flush
  <2> HIDE DEF row
  <2>6. row \in DecisionLog!LogType /\ row.user = table[l].user
    <3> HIDE DEF new, loaded
    <3>1. /\ row.user = table[l].user /\ row.user \in Users
      BY <2>1, <2>2, <2>4 DEF DecisionLog!LogType
    <3>2. row.kind \in Kinds /\ row.status \in DecisionLog!Statuses
      BY <2>1, <2>2, <2>4 DEF DecisionLog!LogType
    <3>3. row.summary \in {"text", Null} /\ row.risks \in {"list", Null}
      BY <2>1, <2>2, <2>4 DEF DecisionLog!LogType
    <3>4. row.reviewed \in Times \cup {Null} /\ row.closed \in Times \cup {Null}
      BY <2>1, <2>2, <2>4 DEF DecisionLog!LogType, Times, DecisionLog!Times
    <3>. QED  BY <2>5, <3>1, <3>2, <3>3, <3>4 DEF DecisionLog!LogType, Times, DecisionLog!Times
  <2>7. /\ table' \in [Logs -> DecisionLog!LogType \cup {Absent}]
        /\ \A k \in Logs : k # l => table'[k] = table[k]
        /\ table'[l] = row /\ row # Absent
    BY <2>1, <2>2, <2>3, <2>6, AbsentIsNothing DEF LogsInv, DecisionLog!TypeOK
  <2>8. pc'[r] # "update"
    BY <2>3 DEF LogsInv, DecisionLog!TypeOK
  <2>9. LogsStay
    BY <2>6, <2>7 DEF LogsStay
  <2>10. DecisionLog!KeepsStamps
    BY <2>1, <2>4, <2>7, <2>8 DEF DecisionLog!KeepsStamps
  <2>11. \A c \in DOMAIN table[l] : row[c] = table[l][c] \/ c \in Fields(request[r].sent) \cup {"reviewed", "closed"}
    <3>1. DOMAIN request[r].sent = {"kind", "status", "summary", "risks", "reviewed", "closed"}
      BY <2>1 DEF DecisionLog!PatchType
    <3>. QED  BY <2>1, <2>4, <3>1 DEF Fields
  <2>12. KeepsOtherColumns
    BY <2>1, <2>2, <2>7, <2>8, <2>11 DEF KeepsOtherColumns, Commits
  <2>. QED  BY <2>3, <2>7, <2>9, <2>10, <2>12, LogAnswers DEF LogsKeep
<1>5. CASE DecisionLog!ListLogs(r)
  <2>1. PICK u \in Users : \E answer \in DecisionLog!PagesShown(DecisionLog!Own(u), u) :
          IF \A l \in answer.shown : DecisionLog!Readable(table[l])
          THEN DecisionLog!Move(r, "count", answer) ELSE DecisionLog!Reply(r, "error")
    BY <1>5 DEF DecisionLog!ListLogs
  <2>2. PICK answer \in DecisionLog!PagesShown(DecisionLog!Own(u), u) :
          IF \A l \in answer.shown : DecisionLog!Readable(table[l])
          THEN DecisionLog!Move(r, "count", answer) ELSE DecisionLog!Reply(r, "error")
    BY <2>1
  <2>3. IsFiniteSet(DecisionLog!Own(u))
    BY IdsAreFinite, FS_Subset DEF DecisionLog!Own
  <2>4. answer \in PagesShown(DecisionLog!Own(u), u)
    BY SamePages
  <2>5. /\ answer.what = u /\ answer.shown \subseteq DecisionLog!Own(u)
        /\ Covers(Cardinality(DecisionLog!Own(u)), answer) /\ answer.offset \in Nat
    <3> DEFINE own == DecisionLog!Own(u)
    <3>1. answer \in PagesShown(own, u) /\ IsFiniteSet(own)
      BY <2>3, <2>4
    <3> HIDE DEF own
    <3>2. answer.what = u /\ answer.shown \subseteq own /\ Covers(Cardinality(own), answer) /\ answer.offset \in Nat
      BY <3>1, PagesAreCovered
    <3>. QED  BY <3>2 DEF own
  <2>6. IsFiniteSet(answer.shown)
    BY <2>3, <2>5, FS_Subset
  <2>7. CASE DecisionLog!Move(r, "count", answer)
    <3>1. UpdatesAreSent'
      BY <1>5, <2>7 DEF DecisionLog!ListLogs, LogsInv, DecisionLog!TypeOK, UpdatesAreSent
    <3>. QED  BY <1>5, <2>5, <2>6, <2>7, <3>1, LogMoves DEF DecisionLog!ListLogs
  <2>. QED  BY <1>1, <1>5, <2>2, <2>7 DEF DecisionLog!ListLogs
<1>6. CASE \/ DecisionLog!RefuseUpdate(r) \/ DecisionLog!UpdateMeetsNull(r)
           \/ DecisionLog!CountLogs(r) \/ DecisionLog!GetStats(r)
  BY <1>1, <1>6 DEF DecisionLog!RefuseUpdate, DecisionLog!UpdateMeetsNull,
     DecisionLog!CountLogs, DecisionLog!CountRows, DecisionLog!GetStats, DecisionLog!Refuse,
     DecisionLog!Fail, DecisionLog!Read
<1>7. CASE DecisionLog!GetLog(r)
  BY <1>1, <1>7 DEF DecisionLog!GetLog
<1>. QED  BY <1>2, <1>3, <1>4, <1>5, <1>6, <1>7 DEF DecisionLog!Handle

-----------------------------------------------------------------------------
(* Theses. *)

ThesisColumns == {"user", "asset", "active", "summary", "risks"}

(* A request about to commit has loaded a thesis that is still there, and    *)
(* changes it in the fields it was sent.                                     *)
CommitsAreSent ==
    \A r \in Requests : pc[r] = "commit" =>
        LET commit == request[r]
        IN  /\ commit.thesis \in Theses /\ table[commit.thesis] # Absent
            /\ commit.loaded \in Thesis!ThesisType /\ commit.new \in Thesis!ThesisType
            /\ \A c \in ThesisColumns : commit.new[c] # commit.loaded[c] => c \in Fields(commit.sent)
            /\ commit.new.user = commit.loaded.user /\ commit.new.asset = commit.loaded.asset
            /\ commit.new.active => commit.loaded.active

ThesesInv == Thesis!TypeOK /\ CommitsAreSent

\* Nothing takes a thesis away, gives it to somebody else or revives it.
ThesesStay ==
    \A t \in Theses : table[t] # Absent =>
        /\ table'[t] # Absent
        /\ table'[t].user = table[t].user /\ table'[t].asset = table[t].asset
        /\ table'[t].active => table[t].active

ThesesKeep == KeepsOtherColumns /\ ThesesStay

LEMMA ThesesInit == Thesis!Init => SessionInv /\ ThesesInv
BY TimeIsBounded, BooksAreTyped DEF Thesis!Init, Thesis!Fresh, SessionInv, ThesesInv,
   Thesis!TypeOK, CommitsAreSent, Times, Thesis!Answered

LEMMA ThesesAnswer ==
  ASSUME SessionInv, ThesesInv, ThesesKeep,
         table' \in [Theses -> Thesis!ThesisType \cup {Absent}],
         (\E r \in Requests : /\ \E answer \in Answered : pc' = [pc EXCEPT ![r] = answer]
                              /\ request' = [request EXCEPT ![r] = Absent])
           \/ UNCHANGED <<pc, request>>
  PROVE  ThesesInv' /\ ThesesKeep
<1>1. \A q \in Requests : pc'[q] = "commit" => pc[q] = "commit" /\ request'[q] = request[q]
  BY DEF ThesesInv, Thesis!TypeOK, SessionInv, Answered, Thesis!Answered
<1>2. pc' \in [Requests -> {"idle", "commit"} \cup Thesis!Answered]
  BY DEF ThesesInv, Thesis!TypeOK, SessionInv, Answered, Thesis!Answered
<1>3. Thesis!TypeOK'
  BY <1>1, <1>2 DEF ThesesInv, Thesis!TypeOK
<1>4. CommitsAreSent'
  BY <1>1 DEF ThesesInv, CommitsAreSent, ThesesKeep, ThesesStay
<1>. QED  BY <1>3, <1>4 DEF ThesesInv

(* A request that loads a thesis to change the fields it was sent.           *)
LEMMA ThesisLoads ==
  ASSUME SessionInv, ThesesInv, NEW r \in Requests, NEW u \in Users, NEW t \in Thesis!Own(u), NEW sent,
         sent \in Thesis!UpdateType \/ sent = [active |-> FALSE],
         Thesis!Load(r, t, sent), table' = table
  PROVE  ThesesInv' /\ ThesesKeep
<1> DEFINE new == Thesis!Patched(table[t], sent)
           commit == [thesis |-> t, loaded |-> table[t], sent |-> sent, new |-> new]
<1>1. t \in Theses /\ table[t] # Absent /\ table[t] \in Thesis!ThesisType
  BY DEF ThesesInv, Thesis!TypeOK, Thesis!Own
<1>2. DOMAIN table[t] = ThesisColumns
  BY <1>1 DEF Thesis!ThesisType, ThesisColumns
<1>3. /\ \A c \in ThesisColumns :
           new[c] = IF c \in DOMAIN sent /\ sent[c] # Keep THEN sent[c] ELSE table[t][c]
      /\ new = [user |-> new.user, asset |-> new.asset, active |-> new.active,
                summary |-> new.summary, risks |-> new.risks]
  BY <1>2 DEF Thesis!Patched, ThesisColumns
<1>4. \A c \in ThesisColumns : new[c] # table[t][c] => c \in Fields(sent)
  BY <1>3 DEF Fields
<1>5. /\ new.user \in Users /\ new.asset \in Assets /\ new.active \in BOOLEAN
      /\ new.summary \in Texts /\ new.risks \in Texts \cup {Null}
  <2> HIDE DEF new
  <2>1. /\ table[t].user \in Users /\ table[t].asset \in Assets /\ table[t].active \in BOOLEAN
        /\ table[t].summary \in Texts /\ table[t].risks \in Texts \cup {Null}
    BY <1>1 DEF Thesis!ThesisType
  <2>2. CASE sent \in Thesis!UpdateType
    <3>1. /\ DOMAIN sent = {"summary", "risks"} /\ sent.summary \in Texts \cup {Keep}
          /\ sent.risks \in Texts \cup {Keep, Null}
      BY <2>2 DEF Thesis!UpdateType
    <3>. QED  BY <1>3, <2>1, <3>1 DEF ThesisColumns
  <2>3. CASE sent = [active |-> FALSE]
    <3>1. DOMAIN sent = {"active"} /\ sent["active"] = FALSE
      BY <2>3
    <3>. QED  BY <1>3, <2>1, <3>1 DEF ThesisColumns
  <2>. QED  BY <2>2, <2>3
<1> HIDE DEF new
<1>6. new \in Thesis!ThesisType
  BY <1>3, <1>5 DEF Thesis!ThesisType
<1>a. new.user = table[t].user /\ new.asset = table[t].asset /\ (new.active => table[t].active)
  <2>1. CASE sent \in Thesis!UpdateType
    <3>1. DOMAIN sent = {"summary", "risks"}
      BY <2>1 DEF Thesis!UpdateType
    <3>. QED  BY <1>3, <3>1 DEF ThesisColumns
  <2>2. CASE sent = [active |-> FALSE]
    <3>1. DOMAIN sent = {"active"} /\ sent["active"] = FALSE
      BY <2>2
    <3>. QED  BY <1>3, <3>1 DEF ThesisColumns
  <2>. QED  BY <2>1, <2>2
<1>7. /\ commit.thesis = t /\ commit.loaded = table[t] /\ commit.sent = sent /\ commit.new = new
      /\ pc' = [pc EXCEPT ![r] = "commit"] /\ request' = [request EXCEPT ![r] = commit]
  BY DEF Thesis!Load, Thesis!Move, new
<1> HIDE DEF commit
<1>8. /\ \A q \in Requests : q # r => pc'[q] = pc[q] /\ request'[q] = request[q]
      /\ pc'[r] = "commit" /\ request'[r] = commit
      /\ pc' \in [Requests -> {"idle", "commit"} \cup Thesis!Answered]
  BY <1>7 DEF ThesesInv, Thesis!TypeOK, SessionInv
<1>9. CommitsAreSent'
  BY <1>1, <1>4, <1>6, <1>a, <1>7, <1>8 DEF ThesesInv, CommitsAreSent
<1>10. Thesis!TypeOK'
  BY <1>1, <1>7, <1>8 DEF ThesesInv, Thesis!TypeOK
<1>. QED  BY <1>9, <1>10 DEF ThesesInv, ThesesKeep, ThesesStay, KeepsOtherColumns

LEMMA ThesesHandle ==
  ASSUME SessionInv, ThesesInv, NEW r \in Requests, Thesis!Handle(r)
  PROVE  ThesesInv' /\ ThesesKeep
<1>. USE DEF SessionInv, Thesis!Move, Thesis!Reply, Answered, Thesis!Answered
<1>1. CASE /\ table' = table
           /\ Thesis!Reply(r, "ok") \/ Thesis!Reply(r, "refused")
  <2>1. ThesesKeep
    BY <1>1 DEF ThesesKeep, ThesesStay, KeepsOtherColumns
  <2>. QED  BY <1>1, <2>1, ThesesAnswer DEF ThesesInv, Thesis!TypeOK
<1>2. CASE Thesis!Create(r)
  <2>1. PICK t \in Theses, u \in Users, a \in Assets, text \in Texts, risks \in Texts \cup {Null} :
          /\ table[t] = Absent
          /\ table' = [table EXCEPT ![t] = [user |-> u, asset |-> a, active |-> TRUE,
                                            summary |-> text, risks |-> risks]]
    BY <1>2 DEF Thesis!Create
  <2> DEFINE thesis == [user |-> u, asset |-> a, active |-> TRUE, summary |-> text, risks |-> risks]
  <2>2. thesis \in Thesis!ThesisType
    BY DEF Thesis!ThesisType
  <2> HIDE DEF thesis
  <2>3. /\ table' \in [Theses -> Thesis!ThesisType \cup {Absent}]
        /\ \A k \in Theses : table[k] # Absent => table'[k] = table[k]
        /\ DOMAIN table = Theses
    BY <2>1, <2>2 DEF ThesesInv, Thesis!TypeOK, thesis
  <2>4. ThesesKeep
    BY <2>3 DEF ThesesKeep, ThesesStay, KeepsOtherColumns
  <2>. QED  BY <1>2, <2>3, <2>4, ThesesAnswer DEF Thesis!Create
<1>3. CASE Thesis!LoadForUpdate(r)
  BY <1>3, ThesisLoads DEF Thesis!LoadForUpdate
<1>4. CASE Thesis!LoadForDeactivation(r)
  BY <1>4, ThesisLoads DEF Thesis!LoadForDeactivation
<1>5. CASE Thesis!Commit(r)
  <2> DEFINE t == request[r].thesis
             loaded == request[r].loaded
             new == request[r].new
             row == Thesis!Flush(table[t], loaded, new)
  <2>1. /\ pc[r] = "commit" /\ t \in Theses /\ table[t] # Absent
        /\ loaded \in Thesis!ThesisType /\ new \in Thesis!ThesisType
        /\ \A c \in ThesisColumns : new[c] # loaded[c] => c \in Fields(request[r].sent)
        /\ new.user = loaded.user /\ new.asset = loaded.asset /\ (new.active => loaded.active)
    BY <1>5 DEF Thesis!Commit, ThesesInv, CommitsAreSent
  <2>2. table[t] \in Thesis!ThesisType /\ DOMAIN table = Theses
    BY <2>1 DEF ThesesInv, Thesis!TypeOK
  <2>3. /\ table' = [table EXCEPT ![t] = row]
        /\ pc' = [pc EXCEPT ![r] = "ok"] /\ request' = [request EXCEPT ![r] = Absent]
    BY <1>5 DEF Thesis!Commit
  <2>4. /\ DOMAIN table[t] = ThesisColumns
        /\ \A c \in ThesisColumns : row[c] = IF new[c] = loaded[c] THEN table[t][c] ELSE new[c]
    BY <2>2 DEF Thesis!Flush, Thesis!ThesisType, ThesisColumns
  <2>5. row \in Thesis!ThesisType
    BY <2>1, <2>2 DEF Thesis!Flush, Thesis!ThesisType
  <2> HIDE DEF row
  <2>6. /\ table' \in [Theses -> Thesis!ThesisType \cup {Absent}]
        /\ \A k \in Theses : k # t => table'[k] = table[k]
        /\ table'[t] = row /\ row # Absent
    BY <2>1, <2>2, <2>3, <2>5, AbsentIsNothing DEF ThesesInv, Thesis!TypeOK
  <2>7. pc'[r] # "commit"
    BY <2>3 DEF ThesesInv, Thesis!TypeOK
  <2>8. KeepsOtherColumns
    BY <2>1, <2>2, <2>4, <2>6, <2>7 DEF KeepsOtherColumns, Commits
  <2>9. ThesesStay
    <3>1. /\ row.user = table[t].user /\ row.asset = table[t].asset
          /\ row.active => table[t].active
      <4>1. loaded.active \in BOOLEAN /\ new.active \in BOOLEAN
        BY <2>1 DEF Thesis!ThesisType
      <4> HIDE DEF new, loaded
      <4>. QED  BY <2>1, <2>4, <4>1 DEF ThesisColumns
    <3>. QED  BY <2>6, <3>1 DEF ThesesStay
  <2>. QED  BY <2>3, <2>6, <2>8, <2>9, ThesesAnswer DEF ThesesKeep
<1>6. CASE \/ Thesis!RefuseStranger(r) \/ Thesis!GetLatest(r) \/ Thesis!RefuseLatest(r)
  BY <1>1, <1>6 DEF Thesis!RefuseStranger, Thesis!GetLatest, Thesis!RefuseLatest, Thesis!Refuse, Thesis!Read
<1>. QED  BY <1>2, <1>3, <1>4, <1>5, <1>6 DEF Thesis!Handle

-----------------------------------------------------------------------------
(* The inbox. *)

BoxColumns == {"kind", "user", "about", "status", "created"}

(* A request about to mark a row has loaded it, and changes its status and   *)
(* no other column.                                                          *)
MarksAreSent ==
    \A r \in Requests : pc[r] = "mark" =>
        LET mark == request[r]
        IN  /\ mark.row \in Rows /\ table[mark.row] # Absent
            /\ mark.loaded \in Messages!RowType /\ mark.new \in Messages!RowType
            /\ table[mark.row].kind = mark.loaded.kind
            /\ \A c \in BoxColumns \ {"status"} : mark.new[c] = mark.loaded[c]
            /\ "status" \in Fields(mark.sent)

BoxPagesAreCovered ==
    \A r \in Requests : pc[r] = "count" =>
        LET q == request[r].what
        IN  /\ request[r].offset \in Nat /\ IsFiniteSet(request[r].shown)
            /\ q.status = Null => Covers(Cardinality(Messages!Own(q.kind, q.user)), request[r])

NothingIsFromTomorrow == \A i \in Rows : table[i] # Absent => table[i].created <= now

InboxInv == Messages!TypeOK /\ MarksAreSent /\ BoxPagesAreCovered /\ NothingIsFromTomorrow

LEMMA InboxInit == Messages!Init => SessionInv /\ InboxInv
BY TimeIsBounded, BooksAreTyped DEF Messages!Init, Messages!Fresh, SessionInv, InboxInv,
   Messages!TypeOK, MarksAreSent, BoxPagesAreCovered, NothingIsFromTomorrow, Times, Messages!Answered

(* The columns of a row, and its kind's.                                     *)
LEMMA BoxRow ==
  ASSUME NEW row \in Messages!RowType
  PROVE  /\ row.kind \in Messages!RowKinds /\ row \in Messages!RowsOfKind(row.kind)
         /\ row.user \in Users /\ row.about \in Messages!About[row.kind]
         /\ row.status \in Messages!Statuses[row.kind] /\ row.created \in Times
         /\ DOMAIN row = BoxColumns
         /\ row = [kind |-> row.kind, user |-> row.user, about |-> row.about,
                   status |-> row.status, created |-> row.created]
BY DEF Messages!RowType, Messages!RowsOfKind, Messages!RowKinds, Messages!Statuses, BoxColumns,
   Times, Messages!Times

LEMMA BoxRowIsMade ==
  ASSUME NEW kind \in Messages!RowKinds, NEW u \in Users, NEW about \in Messages!About[kind],
         NEW status \in Messages!Statuses[kind], NEW at \in Times, NEW row,
         row = [kind |-> kind, user |-> u, about |-> about, status |-> status, created |-> at]
  PROVE  row \in Messages!RowType
<1>1. row \in Messages!RowsOfKind(kind)
  BY DEF Messages!RowsOfKind, Times, Messages!Times
<1>2. kind \in {"alert", "candidate"}
  BY DEF Messages!RowKinds, Messages!Statuses
<1>. QED  BY <1>1, <1>2 DEF Messages!RowType

RowsStay ==
    \A i \in Rows : table[i] # Absent =>
        /\ table'[i] # Absent
        /\ \A c \in BoxColumns \ {"status"} : table'[i][c] = table[i][c]

InboxKeeps == KeepsOtherColumns /\ RowsStay

LEMMA BoxPageStays ==
  ASSUME SessionInv, InboxInv, RowsStay, NEW q \in Requests, pc'[q] = "count", CountsStay(q)
  PROVE  /\ request'[q].offset \in Nat /\ IsFiniteSet(request'[q].shown)
         /\ request'[q].what \in Messages!Queries("alert") \cup Messages!Queries("candidate")
         /\ request'[q].what.status = Null =>
              Covers(Cardinality(Messages!Own(request[q].what.kind, request[q].what.user)), request[q])'
<1> DEFINE query == request[q].what
           own == Messages!Own(query.kind, query.user)
           grown == {i \in Rows : table'[i] # Absent /\ table'[i].kind = query.kind /\ table'[i].user = query.user}
<1>1. /\ pc[q] = "count" /\ request'[q] = request[q]
      /\ request[q].offset \in Nat /\ IsFiniteSet(request[q].shown)
      /\ query \in Messages!Queries("alert") \cup Messages!Queries("candidate")
      /\ query.status = Null => Covers(Cardinality(own), request[q])
  BY DEF CountsStay, InboxInv, BoxPagesAreCovered, Messages!TypeOK
<1>2. own \subseteq grown /\ IsFiniteSet(grown)
  BY IdsAreFinite, FS_Subset DEF Messages!Own, RowsStay, BoxColumns
<1>3. query.status = Null => Covers(Cardinality(grown), request[q])
  BY <1>1, <1>2, PagesStayCovered
<1>4. Messages!Own(request[q].what.kind, request[q].what.user)' = grown
  BY <1>1 DEF Messages!Own
<1>. QED  BY <1>1, <1>2, <1>3, <1>4 DEF Covers

LEMMA InboxAnswers ==
  ASSUME SessionInv, InboxInv, InboxKeeps, NothingIsFromTomorrow',
         table' \in [Rows -> Messages!RowType \cup {Absent}],
         (\E r \in Requests : /\ \E answer \in Answered : pc' = [pc EXCEPT ![r] = answer]
                              /\ request' = [request EXCEPT ![r] = Absent])
           \/ UNCHANGED <<pc, request>>
  PROVE  InboxInv' /\ InboxKeeps
<1>1. \A q \in Requests : pc'[q] \in {"idle", "mark", "count"} => pc'[q] = pc[q] /\ request'[q] = request[q]
  BY DEF InboxInv, Messages!TypeOK, SessionInv, Answered, Messages!Answered
<1>2. pc' \in [Requests -> {"idle", "mark", "count"} \cup Messages!Answered]
  BY DEF InboxInv, Messages!TypeOK, SessionInv, Answered, Messages!Answered
<1>3. BoxPagesAreCovered' /\ Messages!TypeOK'
  BY <1>1, <1>2, BoxPageStays DEF InboxKeeps, CountsStay, BoxPagesAreCovered, Messages!TypeOK
<1>4. MarksAreSent'
  BY <1>1 DEF InboxKeeps, RowsStay, InboxInv, MarksAreSent, BoxColumns
<1>. QED  BY <1>3, <1>4 DEF InboxInv

(* A request that moves on without writing anything.                         *)
LEMMA InboxMoves ==
  ASSUME SessionInv, InboxInv, NEW r \in Requests, NEW place \in {"mark", "count"}, NEW what,
         pc' = [pc EXCEPT ![r] = place], request' = [request EXCEPT ![r] = what],
         table' = table, now' = now,
         MarksAreSent',
         place = "count" => /\ what.offset \in Nat /\ IsFiniteSet(what.shown)
                            /\ what.what \in Messages!Queries("alert") \cup Messages!Queries("candidate")
                            /\ what.what.status = Null =>
                                 Covers(Cardinality(Messages!Own(what.what.kind, what.what.user)), what)
  PROVE  InboxInv' /\ InboxKeeps
<1>1. KeepsOtherColumns /\ RowsStay /\ NothingIsFromTomorrow'
  BY DEF KeepsOtherColumns, RowsStay, InboxInv, NothingIsFromTomorrow
<1>2. /\ \A q \in Requests : q # r => pc'[q] = pc[q] /\ request'[q] = request[q]
      /\ pc'[r] = place /\ request'[r] = what
      /\ pc' \in [Requests -> {"idle", "mark", "count"} \cup Messages!Answered]
  BY DEF InboxInv, Messages!TypeOK, SessionInv
<1>3. place = "count" /\ what.what.status = Null =>
        Covers(Cardinality(Messages!Own(request[r].what.kind, request[r].what.user)), request[r])'
  BY <1>2 DEF Messages!Own, Covers
<1>4. ASSUME NEW q \in Requests, q # r, pc'[q] = "count"
      PROVE  /\ request'[q].offset \in Nat /\ IsFiniteSet(request'[q].shown)
             /\ request'[q].what \in Messages!Queries("alert") \cup Messages!Queries("candidate")
             /\ request'[q].what.status = Null =>
                  Covers(Cardinality(Messages!Own(request[q].what.kind, request[q].what.user)), request[q])'
  BY <1>1, <1>2, <1>4, BoxPageStays DEF CountsStay
<1>5. BoxPagesAreCovered'
  BY <1>2, <1>3, <1>4 DEF BoxPagesAreCovered
<1>6. Messages!TypeOK'
  BY <1>2, <1>4 DEF InboxInv, Messages!TypeOK
<1>. QED  BY <1>1, <1>5, <1>6 DEF InboxInv, InboxKeeps

LEMMA InboxHandles ==
  ASSUME SessionInv, InboxInv, NEW r \in Requests, Messages!Handle(r)
  PROVE  InboxInv' /\ InboxKeeps
<1>. USE DEF SessionInv, Messages!Move, Messages!Reply, Answered, Messages!Answered
<1>1. CASE /\ table' = table
           /\ Messages!Reply(r, "ok") \/ Messages!Reply(r, "refused")
  <2>1. KeepsOtherColumns /\ RowsStay /\ NothingIsFromTomorrow'
    BY <1>1 DEF KeepsOtherColumns, RowsStay, InboxInv, NothingIsFromTomorrow
  <2>. QED  BY <1>1, <2>1, InboxAnswers DEF InboxInv, InboxKeeps, Messages!TypeOK
<1>2. ASSUME NEW i \in Rows, NEW kind \in Messages!RowKinds, NEW u \in Users,
             NEW about \in Messages!About[kind],
             table[i] = Absent, Messages!Insert(i, kind, u, about), Messages!Reply(r, "ok")
      PROVE  InboxInv' /\ InboxKeeps
  <2> DEFINE row == [kind |-> kind, user |-> u, about |-> about, status |-> "UNREAD", created |-> now]
  <2>1. "UNREAD" \in Messages!Statuses[kind]
    BY DEF Messages!RowKinds, Messages!Statuses
  <2>2. row \in Messages!RowType /\ row.created = now
    BY <2>1, BoxRowIsMade
  <2>3. table' = [table EXCEPT ![i] = row]
    BY <1>2 DEF Messages!Insert
  <2> HIDE DEF row
  <2>4. /\ table' \in [Rows -> Messages!RowType \cup {Absent}]
        /\ \A k \in Rows : table[k] # Absent => table'[k] = table[k]
        /\ \A k \in Rows : table'[k] = table[k] \/ table'[k].created = now
        /\ DOMAIN table = Rows
    BY <1>2, <2>2, <2>3 DEF InboxInv, Messages!TypeOK
  <2>5. now \in Int /\ now' = now
    BY <1>2, TimeIsBounded DEF Times
  <2>6. KeepsOtherColumns /\ RowsStay /\ NothingIsFromTomorrow'
    BY <2>4, <2>5 DEF KeepsOtherColumns, RowsStay, InboxInv, NothingIsFromTomorrow
  <2>. QED  BY <1>2, <2>4, <2>6, InboxAnswers DEF InboxKeeps
<1>3. CASE Messages!CreateAlert(r) \/ Messages!CreateCandidate(r)
  BY <1>2, <1>3 DEF Messages!CreateAlert, Messages!CreateCandidate, Messages!About, Messages!RowKinds,
     Messages!Statuses
<1>4. ASSUME NEW kind \in Messages!RowKinds, NEW marks \in SUBSET Messages!Statuses[kind],
             Messages!Load(r, kind, marks)
      PROVE  InboxInv' /\ InboxKeeps
  <2>1. PICK u \in Users, status \in marks : \E i \in Messages!Own(kind, u) :
          Messages!Move(r, "mark", [row |-> i, loaded |-> table[i], sent |-> [status |-> status],
                                    new |-> [table[i] EXCEPT !.status = status]])
    BY <1>4 DEF Messages!Load
  <2>2. PICK i \in Messages!Own(kind, u) :
          Messages!Move(r, "mark", [row |-> i, loaded |-> table[i], sent |-> [status |-> status],
                                    new |-> [table[i] EXCEPT !.status = status]])
    BY <2>1
  <2> DEFINE new == [table[i] EXCEPT !.status = status]
             mark == [row |-> i, loaded |-> table[i], sent |-> [status |-> status], new |-> new]
  <2>3. i \in Rows /\ table[i] # Absent /\ table[i] \in Messages!RowType /\ table[i].kind = kind
    BY DEF Messages!Own, InboxInv, Messages!TypeOK
  <2>4. /\ new.kind = kind /\ new.user = table[i].user /\ new.about = table[i].about
        /\ new.status = status /\ new.created = table[i].created
        /\ new = [kind |-> new.kind, user |-> new.user, about |-> new.about,
                  status |-> new.status, created |-> new.created]
    BY <2>3, BoxRow DEF BoxColumns
  <2> HIDE DEF new
  <2>5. new \in Messages!RowType
    BY <2>3, <2>4, BoxRow, BoxRowIsMade
  <2>6. "status" \in Fields([status |-> status])
    BY KeepIsNothing DEF Fields
  <2>7. /\ mark.row = i /\ mark.loaded = table[i] /\ mark.sent = [status |-> status] /\ mark.new = new
        /\ pc' = [pc EXCEPT ![r] = "mark"] /\ request' = [request EXCEPT ![r] = mark]
        /\ table' = table /\ now' = now
    BY <1>4, <2>2 DEF Messages!Load, new
  <2> HIDE DEF mark
  <2>8. /\ \A q \in Requests : q # r => pc'[q] = pc[q] /\ request'[q] = request[q]
        /\ pc'[r] = "mark" /\ request'[r] = mark
    BY <2>7 DEF InboxInv, Messages!TypeOK
  <2>9. MarksAreSent'
    BY <2>3, <2>4, <2>5, <2>6, <2>7, <2>8 DEF InboxInv, MarksAreSent, BoxColumns
  <2>. QED  BY <2>7, <2>9, InboxMoves
<1>5. CASE Messages!LoadAlert(r) \/ Messages!LoadCandidate(r)
  BY <1>4, <1>5 DEF Messages!LoadAlert, Messages!LoadCandidate, Messages!RowKinds, Messages!Statuses
<1>6. CASE Messages!Mark(r)
  <2> DEFINE i == request[r].row
             loaded == request[r].loaded
             new == request[r].new
             row == Messages!Flush(table[i], loaded, new)
  <2>1. /\ pc[r] = "mark" /\ i \in Rows /\ table[i] # Absent
        /\ loaded \in Messages!RowType /\ new \in Messages!RowType
        /\ table[i].kind = loaded.kind
        /\ \A c \in BoxColumns \ {"status"} : new[c] = loaded[c]
        /\ "status" \in Fields(request[r].sent)
    BY <1>6 DEF Messages!Mark, InboxInv, MarksAreSent
  <2>2. table[i] \in Messages!RowType /\ DOMAIN table = Rows
    BY <2>1 DEF InboxInv, Messages!TypeOK
  <2>3. /\ table' = [table EXCEPT ![i] = row] /\ now' = now
        /\ pc' = [pc EXCEPT ![r] = "ok"] /\ request' = [request EXCEPT ![r] = Absent]
    BY <1>6 DEF Messages!Mark
  <2>4. DOMAIN table[i] = BoxColumns
    BY <2>2, BoxRow
  <2>5. /\ \A c \in BoxColumns : row[c] = IF new[c] = loaded[c] THEN table[i][c] ELSE new[c]
        /\ row = [kind |-> row.kind, user |-> row.user, about |-> row.about,
                  status |-> row.status, created |-> row.created]
    BY <2>4 DEF Messages!Flush, BoxColumns
  <2> HIDE DEF row
  <2>6. \A c \in BoxColumns \ {"status"} : row[c] = table[i][c]
    BY <2>1, <2>5
  <2>7. row \in Messages!RowType
    <3>1. /\ table[i].user \in Users /\ table[i].created \in Times /\ table[i].kind \in Messages!RowKinds
          /\ table[i].about \in Messages!About[table[i].kind]
          /\ table[i].status \in Messages!Statuses[table[i].kind]
      BY <2>2, BoxRow
    <3>2. new.status \in Messages!Statuses[table[i].kind]
      BY <2>1, BoxRow DEF BoxColumns
    <3>3. row.status \in Messages!Statuses[table[i].kind]
      BY <2>5, <3>1, <3>2 DEF BoxColumns
    <3>. QED  BY <2>5, <2>6, <3>1, <3>3, BoxRowIsMade DEF BoxColumns
  <2>8. /\ table' \in [Rows -> Messages!RowType \cup {Absent}]
        /\ \A k \in Rows : k # i => table'[k] = table[k]
        /\ table'[i] = row /\ row # Absent
    BY <2>1, <2>2, <2>3, <2>7, AbsentIsNothing DEF InboxInv, Messages!TypeOK
  <2>9. pc'[r] # "mark"
    BY <2>3 DEF InboxInv, Messages!TypeOK
  <2>10. KeepsOtherColumns
    BY <2>1, <2>2, <2>4, <2>6, <2>8, <2>9 DEF KeepsOtherColumns, Commits
  <2>11. RowsStay
    BY <2>6, <2>8 DEF RowsStay
  <2>12. NothingIsFromTomorrow'
    BY <2>1, <2>3, <2>6, <2>8 DEF InboxInv, NothingIsFromTomorrow, BoxColumns
  <2>. QED  BY <2>3, <2>8, <2>10, <2>11, <2>12, InboxAnswers DEF InboxKeeps
<1>7. ASSUME NEW kind \in {"alert", "candidate"}, Messages!ListOf(r, kind)
      PROVE  InboxInv' /\ InboxKeeps
  <2>1. PICK q \in Messages!Queries(kind) : \E answer \in Messages!PagesShown(Messages!Filtered(q), q) :
          Messages!Move(r, "count", answer)
    BY <1>7 DEF Messages!ListOf
  <2> DEFINE rows == Messages!Filtered(q)
  <2>2. PICK answer \in PagesShown(rows, q) : Messages!Move(r, "count", answer)
    BY <2>1, SamePages
  <2>3. rows \subseteq Rows /\ IsFiniteSet(rows)
    BY IdsAreFinite, FS_Subset DEF Messages!Filtered, Messages!Own
  <2>4. q.status = Null => rows = Messages!Own(q.kind, q.user)
    BY DEF Messages!Filtered
  <2> HIDE DEF rows
  <2>5. /\ answer.what = q /\ answer.offset \in Nat /\ IsFiniteSet(answer.shown)
        /\ Covers(Cardinality(rows), answer)
    BY <2>3, PagesAreCovered
  <2>6. table' = table /\ now' = now /\ pc' = [pc EXCEPT ![r] = "count"]
        /\ request' = [request EXCEPT ![r] = answer]
    BY <1>7, <2>2 DEF Messages!ListOf
  <2>7. MarksAreSent'
    BY <2>6 DEF InboxInv, Messages!TypeOK, MarksAreSent
  <2>. QED  BY <2>4, <2>5, <2>6, <2>7, InboxMoves
<1>8. CASE Messages!ListAlerts(r) \/ Messages!ListCandidates(r)
  BY <1>7, <1>8 DEF Messages!ListAlerts, Messages!ListCandidates
<1>9. CASE \/ Messages!AlertIsThere(r) \/ Messages!RefuseMark(r) \/ Messages!CountListed(r)
           \/ Messages!GetDashboard(r)
  BY <1>1, <1>9 DEF Messages!AlertIsThere, Messages!RefuseMark, Messages!CountListed, Messages!CountRows,
     Messages!GetDashboard, Messages!Refuse, Messages!Read
<1>. QED  BY <1>3, <1>5, <1>6, <1>8, <1>9 DEF Messages!Handle

-----------------------------------------------------------------------------
(* Registration. *)

AssetPagesAreCovered ==
    \A r \in Requests : pc[r] = "count" =>
        /\ request[r].offset \in Nat /\ IsFiniteSet(request[r].shown)
        /\ Covers(Cardinality(Register!Registered), request[r])

RegistrationInv ==
    /\ Register!TypeOK
    /\ table = [key \in Register!Keys |-> table[key]]
    /\ \A r \in Requests : pc[r] = "insert" => request[r].key \in Register!Keys
    /\ AssetPagesAreCovered

LEMMA RegistrationInit == Register!Init => SessionInv /\ RegistrationInv
BY TimeIsBounded DEF Register!Init, Register!Fresh, SessionInv, RegistrationInv,
   Register!TypeOK, AssetPagesAreCovered, Times, Register!Answered

\* What is registered stays as it was registered.
RegisteredStays == \A key \in Register!Keys : table[key] # Absent => table'[key] = table[key]

LEMMA AssetPageStays ==
  ASSUME SessionInv, RegistrationInv, RegisteredStays,
         NEW q \in Requests, pc'[q] = "count", CountsStay(q)
  PROVE  /\ request'[q].offset \in Nat /\ IsFiniteSet(request'[q].shown)
         /\ Covers(Cardinality(Register!Registered), request[q])'
<1> DEFINE known == Register!Registered
           grown == {symbol \in Symbols : table'[symbol] # Absent}
<1>1. /\ pc[q] = "count" /\ request'[q] = request[q]
      /\ request[q].offset \in Nat /\ IsFiniteSet(request[q].shown)
      /\ Covers(Cardinality(known), request[q])
  BY DEF CountsStay, RegistrationInv, AssetPagesAreCovered
<1>2. known \subseteq grown /\ IsFiniteSet(grown)
  BY IdsAreFinite, FS_Subset DEF Register!Registered, Register!Known, RegisteredStays, Register!Keys
<1>3. Covers(Cardinality(grown), request[q])
  BY <1>1, <1>2, PagesStayCovered
<1>4. Register!Registered' = grown
  BY DEF Register!Registered, Register!Known
<1>. QED  BY <1>1, <1>2, <1>3, <1>4 DEF Covers

LEMMA RegistrationAnswers ==
  ASSUME SessionInv, RegistrationInv, RegisteredStays,
         table' = [key \in Register!Keys |-> table'[key]],
         \A key \in Register!Keys : table'[key] \in Register!RowFor(key) \cup {Absent},
         (\E r \in Requests : /\ \E answer \in Answered : pc' = [pc EXCEPT ![r] = answer]
                              /\ request' = [request EXCEPT ![r] = Absent])
           \/ UNCHANGED <<pc, request>>
  PROVE  RegistrationInv' /\ RegisteredStays
<1>1. \A q \in Requests : pc'[q] \in {"idle", "insert", "count"} => pc'[q] = pc[q] /\ request'[q] = request[q]
  BY DEF RegistrationInv, Register!TypeOK, SessionInv, Answered, Register!Answered
<1>2. pc' \in [Requests -> {"idle", "insert", "count"} \cup Register!Answered]
  BY DEF RegistrationInv, Register!TypeOK, SessionInv, Answered, Register!Answered
<1>3. AssetPagesAreCovered'
  BY <1>1, AssetPageStays DEF CountsStay, AssetPagesAreCovered
<1>4. Register!TypeOK'
  BY <1>1, <1>2 DEF RegistrationInv, Register!TypeOK
<1>. QED  BY <1>1, <1>3, <1>4 DEF RegistrationInv

(* A request that moves on without writing anything.                         *)
LEMMA RegistrationMoves ==
  ASSUME SessionInv, RegistrationInv, NEW r \in Requests, NEW place \in {"insert", "count"}, NEW what,
         pc' = [pc EXCEPT ![r] = place], request' = [request EXCEPT ![r] = what], table' = table,
         place = "insert" => what.key \in Register!Keys /\ what.row \in Register!RowFor(what.key),
         place = "count" => /\ what.offset \in Nat /\ IsFiniteSet(what.shown)
                            /\ Covers(Cardinality(Register!Registered), what)
  PROVE  RegistrationInv' /\ RegisteredStays
<1>1. /\ \A q \in Requests : q # r => pc'[q] = pc[q] /\ request'[q] = request[q]
      /\ pc'[r] = place /\ request'[r] = what
      /\ pc' \in [Requests -> {"idle", "insert", "count"} \cup Register!Answered]
  BY DEF RegistrationInv, Register!TypeOK, SessionInv
<1>2. place = "count" => Covers(Cardinality(Register!Registered), request[r])'
  BY <1>1 DEF Register!Registered, Register!Known, Covers
<1>3. ASSUME NEW q \in Requests, q # r, pc'[q] = "count"
      PROVE  /\ request'[q].offset \in Nat /\ IsFiniteSet(request'[q].shown)
             /\ Covers(Cardinality(Register!Registered), request[q])'
  BY <1>1, <1>3, AssetPageStays DEF CountsStay, RegisteredStays
<1>4. AssetPagesAreCovered'
  BY <1>1, <1>2, <1>3 DEF AssetPagesAreCovered
<1>5. Register!TypeOK'
  BY <1>1 DEF RegistrationInv, Register!TypeOK
<1>. QED  BY <1>1, <1>4, <1>5 DEF RegistrationInv, RegisteredStays

LEMMA RegistrationHandles ==
  ASSUME SessionInv, RegistrationInv, NEW r \in Requests, Register!Handle(r)
  PROVE  RegistrationInv' /\ RegisteredStays
<1>. USE DEF SessionInv, Register!Move, Register!Reply, Answered, Register!Answered
<1>1. CASE /\ table' = table
           /\ Register!Reply(r, "ok") \/ Register!Reply(r, "refused") \/ Register!Reply(r, "error")
  BY <1>1, RegistrationAnswers DEF RegistrationInv, Register!TypeOK, RegisteredStays
<1>2. CASE Register!LookUp(r)
  <2>1. PICK key \in Register!Keys : \E row \in Register!RowFor(key) :
          Register!Move(r, "insert", [key |-> key, row |-> row])
    BY <1>2 DEF Register!LookUp
  <2>2. PICK row \in Register!RowFor(key) : Register!Move(r, "insert", [key |-> key, row |-> row])
    BY <2>1
  <2> DEFINE insert == [key |-> key, row |-> row]
  <2>3. insert.key = key /\ insert.row = row
    OBVIOUS
  <2>4. pc' = [pc EXCEPT ![r] = "insert"] /\ request' = [request EXCEPT ![r] = insert] /\ table' = table
    BY <1>2, <2>2 DEF Register!LookUp
  <2> HIDE DEF insert
  <2>. QED  BY <2>3, <2>4, RegistrationMoves
<1>3. CASE Register!Insert(r)
  <2> DEFINE key == request[r].key
             row == request[r].row
  <2>1. key \in Register!Keys /\ row \in Register!RowFor(key) /\ table[key] = Absent
    BY <1>3 DEF Register!Insert, Register!Known, RegistrationInv, Register!TypeOK
  <2>2. table' = [table EXCEPT ![key] = row]
    BY <1>3 DEF Register!Insert
  <2> HIDE DEF key, row
  <2>3. /\ table' = [k \in Register!Keys |-> table'[k]]
        /\ table'[key] = row /\ \A k \in Register!Keys : k # key => table'[k] = table[k]
    BY <2>1, <2>2 DEF RegistrationInv
  <2>4. RegisteredStays
    BY <2>1, <2>3 DEF RegisteredStays
  <2>5. \A k \in Register!Keys : table'[k] \in Register!RowFor(k) \cup {Absent}
    BY <2>1, <2>3 DEF RegistrationInv, Register!TypeOK
  <2>. QED  BY <1>3, <2>3, <2>4, <2>5, RegistrationAnswers DEF Register!Insert
<1>4. CASE Register!ListAssets(r)
  <2> DEFINE rows == Register!Registered
  <2>1. PICK answer \in PagesShown(rows, Null) : Register!Move(r, "count", answer)
    BY <1>4, SamePages DEF Register!ListAssets
  <2>2. IsFiniteSet(rows)
    BY IdsAreFinite, FS_Subset DEF Register!Registered
  <2> HIDE DEF rows
  <2>3. answer.offset \in Nat /\ IsFiniteSet(answer.shown) /\ Covers(Cardinality(rows), answer)
    BY <2>2, PagesAreCovered
  <2>. QED  BY <1>4, <2>1, <2>3, RegistrationMoves DEF Register!ListAssets, rows
<1>5. CASE \/ Register!RefuseDuplicate(r) \/ Register!InsertMeetsAsset(r) \/ Register!InsertMeetsUser(r)
           \/ Register!Login(r) \/ Register!RefuseLogin(r) \/ Register!Authenticate(r)
           \/ Register!RefuseToken(r) \/ Register!GetAsset(r) \/ Register!RefuseAsset(r)
           \/ Register!CountAssets(r)
  BY <1>1, <1>5 DEF Register!RefuseDuplicate, Register!InsertMeetsAsset, Register!InsertMeetsUser,
     Register!Login, Register!RefuseLogin, Register!Authenticate, Register!RefuseToken, Register!GetAsset,
     Register!RefuseAsset, Register!CountAssets, Register!CountRows, Register!Read, Register!Refuse,
     Register!Fail
<1>. QED  BY <1>2, <1>3, <1>4, <1>5 DEF Register!Handle

-----------------------------------------------------------------------------
(* Watchlists. *)

(* The items and signals were created by now, and an asset is on a watchlist *)
(* once.                                                                     *)
StockIsSound ==
    /\ IsFiniteSet(table.items) /\ IsFiniteSet(table.signals)
    /\ \A row \in table.items \cup table.signals : row.created <= now
    /\ \A i, j \in table.items : (i.list = j.list /\ i.asset = j.asset) => i = j

InsertsAreOfToday == \A r \in Requests : pc[r] = "insert" => request[r].created <= now

\* The lists that rows are neither taken from nor drop out of.
OnlyGrows(q) == q.of \in Users \/ (q.of \in Assets /\ q.all)

WatchPagesAreCovered ==
    \A r \in Requests : pc[r] = "count" =>
        /\ request[r].offset \in Nat /\ IsFiniteSet(request[r].shown)
        /\ OnlyGrows(request[r].what) =>
             Covers(Cardinality(Watchlist!Listed(request[r].what)), request[r])

WatchlistsInv == Watchlist!TypeOK /\ StockIsSound /\ InsertsAreOfToday /\ WatchPagesAreCovered

LEMMA WatchlistsInit == Watchlist!Init => SessionInv /\ WatchlistsInv
<1>. SUFFICES ASSUME Watchlist!Init PROVE SessionInv /\ WatchlistsInv
  OBVIOUS
<1>1. PICK owner \in [Lists -> Users], stock \in Stocks :
        table = [lists |-> [w \in Lists |-> IF \E i \in stock.items : i.list = w
                                            THEN owner[w] ELSE Absent],
                 items |-> stock.items, signals |-> stock.signals]
  BY DEF Watchlist!Init
<1>2. /\ table.lists \in [Lists -> Users \cup {Absent}]
      /\ table.items = stock.items /\ table.signals = stock.signals
      /\ table = [lists |-> table.lists, items |-> table.items, signals |-> table.signals]
  BY <1>1
<1>3. /\ stock.items \in SUBSET Watchlist!ItemType /\ stock.signals \in SUBSET Watchlist!SignalType
      /\ IsFiniteSet(stock.items) /\ IsFiniteSet(stock.signals)
      /\ \A row \in stock.items \cup stock.signals : row.created = 0
      /\ \A i, j \in stock.items : (i.list = j.list /\ i.asset = j.asset) => i = j
  BY BooksAreTyped
<1>4. now = 0 /\ \A r \in Requests : pc[r] = "idle" /\ request[r] = Absent
  BY DEF Watchlist!Init, Watchlist!Fresh
<1>5. Watchlist!TypeOK
  BY <1>2, <1>3, <1>4 DEF Watchlist!Init, Watchlist!Fresh, Watchlist!TypeOK
<1>6. StockIsSound
  BY <1>2, <1>3, <1>4 DEF StockIsSound
<1>7. SessionInv
  BY TimeIsBounded DEF Watchlist!Init, Watchlist!Fresh, SessionInv, Times
<1>. QED  BY <1>4, <1>5, <1>6, <1>7 DEF WatchlistsInv, InsertsAreOfToday, WatchPagesAreCovered

\* Nobody loses a watchlist, and nothing deletes a signal.
ListsStay ==
    /\ \A w \in Lists : table.lists[w] \in Users => table'.lists[w] = table.lists[w]
    /\ table.signals \subseteq table'.signals

LEMMA WatchPageStays ==
  ASSUME SessionInv, WatchlistsInv, ListsStay, IsFiniteSet(table'.signals),
         NEW q \in Requests, pc'[q] = "count", CountsStay(q)
  PROVE  /\ request'[q].offset \in Nat /\ IsFiniteSet(request'[q].shown)
         /\ OnlyGrows(request'[q].what) =>
              Covers(Cardinality(Watchlist!Listed(request[q].what)), request[q])'
<1> DEFINE query == request[q].what
<1>1. /\ pc[q] = "count" /\ request'[q] = request[q]
      /\ request[q].offset \in Nat /\ IsFiniteSet(request[q].shown)
      /\ OnlyGrows(query) => Covers(Cardinality(Watchlist!Listed(query)), request[q])
  BY DEF CountsStay, WatchlistsInv, WatchPagesAreCovered
<1>2. CASE query.of \in Users
  <2> DEFINE lists == {w \in Lists : table.lists[w] = query.of}
             grown == {w \in Lists : table'.lists[w] = query.of}
  <2>1. Watchlist!Listed(query) = lists /\ Watchlist!Listed(request[q].what)' = grown
    BY <1>1, <1>2, IdsAreApart DEF Watchlist!Listed, Watchlist!Owned
  <2>2. lists \subseteq grown /\ IsFiniteSet(grown)
    BY <1>2, IdsAreFinite, FS_Subset DEF ListsStay
  <2> HIDE DEF lists, grown
  <2>3. Covers(Cardinality(grown), request[q])
    BY <1>1, <1>2, <2>1, <2>2, PagesStayCovered DEF OnlyGrows
  <2>. QED  BY <1>1, <2>1, <2>3 DEF Covers
<1>3. CASE query.of \in Assets /\ query.all
  <2> DEFINE signals == {s \in table.signals : s.asset = query.of}
             grown == {s \in table'.signals : s.asset = query.of}
  <2>1. Watchlist!Listed(query) = signals /\ Watchlist!Listed(request[q].what)' = grown
    BY <1>1, <1>3, IdsAreApart DEF Watchlist!Listed, Watchlist!SignalsOf
  <2>2. signals \subseteq grown /\ IsFiniteSet(grown)
    BY FS_Subset DEF ListsStay
  <2> HIDE DEF signals, grown
  <2>3. Covers(Cardinality(grown), request[q])
    BY <1>1, <1>3, <2>1, <2>2, PagesStayCovered DEF OnlyGrows
  <2>. QED  BY <1>1, <2>1, <2>3 DEF Covers
<1>. QED  BY <1>1, <1>2, <1>3 DEF OnlyGrows

(* A list whose table and clock stand still stays what it was.               *)
LEMMA ListedStays ==
  ASSUME NEW r \in Requests, NEW what, request'[r] = what, table' = table, now' = now
  PROVE  Watchlist!Listed(request[r].what)' = Watchlist!Listed(what.what)
<1>1. /\ \A u : {w \in Lists : Watchlist!Owned(w, u)}' = {w \in Lists : Watchlist!Owned(w, u)}
      /\ \A w : Watchlist!Items(w)' = Watchlist!Items(w)
  BY DEF Watchlist!Owned, Watchlist!Items
<1>2. \A a, all : Watchlist!SignalsOf(a, all)' = Watchlist!SignalsOf(a, all)
  BY DEF Watchlist!SignalsOf, Watchlist!Active
<1>. QED  BY <1>1, <1>2 DEF Watchlist!Listed

(* What a step of one request leaves of the invariant to be shown.           *)
LEMMA WatchlistSteps ==
  ASSUME SessionInv, WatchlistsInv, NEW r \in Requests, NEW place, NEW what,
         place \in {"insert", "refresh", "remove", "count"} \cup Answered,
         pc' = [pc EXCEPT ![r] = place], request' = [request EXCEPT ![r] = what],
         now' = now, ListsStay, StockIsSound',
         table' \in [lists : [Lists -> Users \cup {Absent}], items : SUBSET Watchlist!ItemType,
                     signals : SUBSET Watchlist!SignalType],
         place \in {"insert", "refresh", "remove"} => what \in Watchlist!ItemType,
         place = "insert" => what.created <= now,
         place = "count" =>
           /\ table' = table /\ what.offset \in Nat /\ IsFiniteSet(what.shown)
           /\ OnlyGrows(what.what) => Covers(Cardinality(Watchlist!Listed(what.what)), what)
  PROVE  WatchlistsInv' /\ ListsStay
<1>1. /\ \A q \in Requests : q # r => pc'[q] = pc[q] /\ request'[q] = request[q]
      /\ pc'[r] = place /\ request'[r] = what
      /\ pc' \in [Requests -> {"idle", "insert", "refresh", "remove", "count"} \cup Watchlist!Answered]
  BY DEF WatchlistsInv, Watchlist!TypeOK, SessionInv, Answered, Watchlist!Answered
<1>2. Watchlist!TypeOK'
  BY <1>1 DEF WatchlistsInv, Watchlist!TypeOK
<1>3. InsertsAreOfToday'
  BY <1>1 DEF WatchlistsInv, InsertsAreOfToday
<1>4. ASSUME NEW q \in Requests, q # r, pc'[q] = "count"
      PROVE  /\ request'[q].offset \in Nat /\ IsFiniteSet(request'[q].shown)
             /\ OnlyGrows(request'[q].what) =>
                  Covers(Cardinality(Watchlist!Listed(request[q].what)), request[q])'
  BY <1>1, <1>4, WatchPageStays DEF CountsStay, StockIsSound
<1>5. ASSUME place = "count"
      PROVE  /\ request'[r].offset \in Nat /\ IsFiniteSet(request'[r].shown)
             /\ OnlyGrows(request'[r].what) =>
                  Covers(Cardinality(Watchlist!Listed(request[r].what)), request[r])'
  <2>1. Watchlist!Listed(request[r].what)' = Watchlist!Listed(what.what)
    BY <1>1, <1>5, ListedStays
  <2>. QED  BY <1>1, <1>5, <2>1 DEF Covers
<1>6. WatchPagesAreCovered'
  BY <1>1, <1>4, <1>5 DEF WatchPagesAreCovered, OnlyGrows
<1>. QED  BY <1>2, <1>3, <1>6 DEF WatchlistsInv

LEMMA WatchlistsPass ==
  ASSUME SessionInv, WatchlistsInv, Passes
  PROVE  WatchlistsInv' /\ ListsStay
<1>1. ListsStay /\ IsFiniteSet(table'.signals) /\ \A q \in Requests : CountsStay(q)
  BY DEF Passes, ListsStay, WatchlistsInv, StockIsSound, CountsStay
<1>2. WatchPagesAreCovered'
  BY <1>1, WatchPageStays DEF WatchPagesAreCovered
<1>3. now \in Int /\ now <= now'
  BY TimeIsBounded DEF Passes, SessionInv, Times
<1>4. Watchlist!TypeOK'
  BY DEF Passes, WatchlistsInv, Watchlist!TypeOK
<1>5. /\ \A row \in table.items \cup table.signals : row.created \in Int
      /\ \A q \in Requests : pc[q] = "insert" => request[q].created \in Int
  BY TimeIsBounded DEF WatchlistsInv, Watchlist!TypeOK, Watchlist!ItemType, Watchlist!SignalType,
     Watchlist!Times
<1>6. StockIsSound' /\ InsertsAreOfToday'
  BY <1>3, <1>5 DEF Passes, WatchlistsInv, StockIsSound, InsertsAreOfToday
<1>. QED  BY <1>1, <1>2, <1>4, <1>6 DEF WatchlistsInv

LEMMA WatchlistsHandle ==
  ASSUME SessionInv, WatchlistsInv, NEW r \in Requests, Watchlist!Handle(r)
  PROVE  WatchlistsInv' /\ ListsStay
<1>. USE DEF Watchlist!Move, Watchlist!Reply
<1> DEFINE TableType == [lists : [Lists -> Users \cup {Absent}], items : SUBSET Watchlist!ItemType,
                         signals : SUBSET Watchlist!SignalType]
<1>1. table \in TableType /\ StockIsSound /\ now \in Int
  BY TimeIsBounded DEF WatchlistsInv, Watchlist!TypeOK, SessionInv, Times
<1>2. ASSUME table' = table, now' = now
      PROVE  ListsStay /\ StockIsSound' /\ table' \in TableType
  BY <1>1, <1>2 DEF ListsStay, StockIsSound
<1>3. ASSUME table' = table, NEW answer \in Answered, Watchlist!Reply(r, answer)
      PROVE  WatchlistsInv' /\ ListsStay
  BY <1>2, <1>3, WatchlistSteps DEF Answered
<1>4. CASE Watchlist!CreateList(r)
  <2>1. PICK w \in Lists, u \in Users : table.lists[w] = Absent /\ table' = [table EXCEPT !.lists[w] = u]
    BY <1>4 DEF Watchlist!CreateList
  <2>2. /\ table'.lists = [table.lists EXCEPT ![w] = u]
        /\ table'.items = table.items /\ table'.signals = table.signals
        /\ table' = [lists |-> table'.lists, items |-> table'.items, signals |-> table'.signals]
    BY <1>1, <2>1
  <2>3. table'.lists \in [Lists -> Users \cup {Absent}]
    BY <1>1, <2>2
  <2>4. table' \in TableType
    BY <1>1, <2>2, <2>3
  <2>5. ListsStay
    <3>1. Absent \notin Users
      BY AbsentIsNothing
    <3>2. \A v \in Lists : v # w => table'.lists[v] = table.lists[v]
      BY <1>1, <2>2
    <3>. QED  BY <2>1, <2>2, <3>1, <3>2 DEF ListsStay
  <2>6. now' = now /\ StockIsSound'
    BY <1>1, <1>4, <2>2 DEF Watchlist!CreateList, StockIsSound
  <2>. QED  BY <1>4, <2>4, <2>5, <2>6, WatchlistSteps DEF Watchlist!CreateList, Answered
<1>5. CASE Watchlist!LookUpItem(r)
  <2>1. PICK w \in Lists, u \in Users, a \in Assets, p \in Priorities :
          Watchlist!Move(r, "insert", [list |-> w, asset |-> a, priority |-> p, created |-> now, by |-> r])
    BY <1>5 DEF Watchlist!LookUpItem
  <2> DEFINE item == [list |-> w, asset |-> a, priority |-> p, created |-> now, by |-> r]
  <2>2. item \in Watchlist!ItemType /\ item.created = now
    BY DEF Watchlist!ItemType, Watchlist!Inserters, SessionInv, Times, Watchlist!Times
  <2>3. pc' = [pc EXCEPT ![r] = "insert"] /\ request' = [request EXCEPT ![r] = item]
        /\ now' = now /\ table' = table
    BY <1>5, <2>1 DEF Watchlist!LookUpItem
  <2> HIDE DEF item
  <2>4. item.created <= now
    BY <1>1, <2>2
  <2>. QED  BY <1>2, <2>2, <2>3, <2>4, WatchlistSteps
<1>6. CASE Watchlist!InsertItem(r)
  <2>1. /\ request[r] \in Watchlist!ItemType /\ request[r].created <= now
        /\ ~Watchlist!Duplicate(request[r].list, request[r].asset)
    BY <1>6 DEF Watchlist!InsertItem, WatchlistsInv, Watchlist!TypeOK, InsertsAreOfToday
  <2>2. /\ table'.items = table.items \cup {request[r]}
        /\ table'.lists = table.lists /\ table'.signals = table.signals
        /\ table' = [lists |-> table'.lists, items |-> table'.items, signals |-> table'.signals]
        /\ now' = now
    BY <1>1, <1>6 DEF Watchlist!InsertItem
  <2>3. table' \in TableType
    BY <1>1, <2>1, <2>2
  <2>4. ListsStay
    BY <2>2 DEF ListsStay
  <2>5. \A i \in table.items : i.list = request[r].list => i.asset # request[r].asset
    BY <2>1 DEF Watchlist!Duplicate, Watchlist!Items
  <2>6. IsFiniteSet(table'.items)
    BY <1>1, <2>2, FS_AddElement DEF StockIsSound
  <2>7. StockIsSound'
    BY <1>1, <2>1, <2>2, <2>5, <2>6 DEF StockIsSound
  <2>. QED  BY <1>6, <2>1, <2>2, <2>3, <2>4, <2>7, WatchlistSteps DEF Watchlist!InsertItem
<1>7. CASE Watchlist!LoadItem(r)
  <2>1. PICK i \in table.items : Watchlist!Move(r, "remove", i)
    BY <1>7 DEF Watchlist!LoadItem
  <2>2. i \in Watchlist!ItemType
    BY <1>1
  <2>. QED  BY <1>2, <1>7, <2>1, <2>2, WatchlistSteps DEF Watchlist!LoadItem
<1>8. CASE Watchlist!RemoveItem(r)
  <2>1. /\ table'.items = table.items \ {request[r]}
        /\ table'.lists = table.lists /\ table'.signals = table.signals
        /\ table' = [lists |-> table'.lists, items |-> table'.items, signals |-> table'.signals]
        /\ now' = now
    BY <1>1, <1>8 DEF Watchlist!RemoveItem
  <2>2. table' \in TableType
    BY <1>1, <2>1
  <2>3. ListsStay
    BY <2>1 DEF ListsStay
  <2>4. IsFiniteSet(table'.items)
    BY <1>1, <2>1, FS_Subset DEF StockIsSound
  <2>5. StockIsSound'
    BY <1>1, <2>1, <2>4 DEF StockIsSound
  <2>. QED  BY <1>8, <2>2, <2>3, <2>5, WatchlistSteps DEF Watchlist!RemoveItem, Answered
<1>9. CASE Watchlist!CreateSignal(r)
  <2>1. PICK a \in Assets, type \in SignalTypes, expires \in (now + 1) .. Watchlist!Never :
          table' = [table EXCEPT !.signals = @ \cup
            {[asset |-> a, type |-> type, created |-> now, expires |-> expires, by |-> r]}]
    BY <1>9 DEF Watchlist!CreateSignal
  <2> DEFINE signal == [asset |-> a, type |-> type, created |-> now, expires |-> expires, by |-> r]
  <2>2. expires \in Watchlist!Times \cup {Watchlist!Never}
    BY <1>1, TimeIsBounded DEF SessionInv, Times, Watchlist!Times, Watchlist!Never
  <2>3. signal \in Watchlist!SignalType /\ signal.created = now
    BY <2>2 DEF Watchlist!SignalType, Watchlist!Inserters, SessionInv, Times, Watchlist!Times
  <2> HIDE DEF signal
  <2>4. /\ table'.signals = table.signals \cup {signal}
        /\ table'.lists = table.lists /\ table'.items = table.items
        /\ table' = [lists |-> table'.lists, items |-> table'.items, signals |-> table'.signals]
        /\ now' = now
    BY <1>1, <1>9, <2>1 DEF Watchlist!CreateSignal, signal
  <2>5. table' \in TableType
    BY <1>1, <2>3, <2>4
  <2>6. ListsStay
    BY <2>4 DEF ListsStay
  <2>7. IsFiniteSet(table'.signals)
    BY <1>1, <2>4, FS_AddElement DEF StockIsSound
  <2>8. StockIsSound'
    BY <1>1, <2>3, <2>4, <2>7 DEF StockIsSound
  <2>. QED  BY <1>9, <2>5, <2>6, <2>8, WatchlistSteps DEF Watchlist!CreateSignal, Answered
<1>10. CASE Watchlist!List(r)
  <2>1. PICK of \in Users \cup Lists \cup Assets, all \in BOOLEAN :
          \E answer \in Watchlist!PagesShown(Watchlist!Listed([of |-> of, all |-> all]), [of |-> of, all |-> all]) :
            Watchlist!Move(r, "count", answer)
    BY <1>10 DEF Watchlist!List
  <2> DEFINE query == [of |-> of, all |-> all]
             rows == Watchlist!Listed(query)
  <2>2. PICK answer \in Watchlist!PagesShown(rows, query) : Watchlist!Move(r, "count", answer)
    BY <2>1
  <2>3. IsFiniteSet(rows)
    <3>1. \/ rows = {w \in Lists : Watchlist!Owned(w, of)}
          \/ rows = Watchlist!Items(of)
          \/ rows = Watchlist!SignalsOf(of, all)
      BY <2>1, IdsAreApart DEF Watchlist!Listed
    <3>2. rows \subseteq Lists \/ rows \subseteq table.items \/ rows \subseteq table.signals
      BY <3>1 DEF Watchlist!Items, Watchlist!SignalsOf
    <3>. QED  BY <1>1, <3>2, IdsAreFinite, FS_Subset DEF StockIsSound
  <2> HIDE DEF rows, query
  <2>4. /\ answer.what = query /\ answer.offset \in Nat /\ IsFiniteSet(answer.shown)
        /\ Covers(Cardinality(rows), answer)
    <3>1. answer \in PagesShown(rows, query)
      BY SamePages
    <3>. QED  BY <2>3, <3>1, PagesAreCovered
  <2>. QED  BY <1>2, <1>10, <2>2, <2>4, WatchlistSteps DEF Watchlist!List, rows
<1>11. CASE Watchlist!RefreshItem(r)
  BY <1>3, <1>11 DEF Watchlist!RefreshItem, Answered
<1>12. CASE \/ Watchlist!RefuseStranger(r) \/ Watchlist!RefuseDuplicate(r)
            \/ Watchlist!InsertMeetsItem(r) \/ Watchlist!CountListed(r) \/ Watchlist!GetSummary(r)
  <2>1. table' = table /\ (Watchlist!Reply(r, "ok") \/ Watchlist!Reply(r, "refused"))
    BY <1>12 DEF Watchlist!RefuseStranger, Watchlist!RefuseDuplicate, Watchlist!InsertMeetsItem,
       Watchlist!CountListed, Watchlist!GetSummary, Watchlist!CountRows, Watchlist!Read, Watchlist!Refuse
  <2>. QED  BY <1>3, <2>1 DEF Answered
<1>. QED  BY <1>4, <1>5, <1>6, <1>7, <1>8, <1>9, <1>10, <1>11, <1>12 DEF Watchlist!Handle

-----------------------------------------------------------------------------
(* All components together. *)

(* Every statement of a request moves this request and leaves the clock.     *)
Moves(r) == now' = now /\ \E what : request' = [request EXCEPT ![r] = what]

LEMMA HandlesMove ==
  ASSUME NEW r \in Requests, Handle(r)
  PROVE  Moves(r)
<1>1. CASE Checklist!Handle(r)
  BY <1>1 DEF Moves, Checklist!Handle, Checklist!GetChecklist, Checklist!EnsureAsset, Checklist!ReadNote,
     Checklist!RereadNote, Checklist!InsertNote, Checklist!InsertMeetsNote, Checklist!UpdateNote,
     Checklist!Read, Checklist!Refuse, Checklist!Fail, Checklist!Reply, Checklist!Move
<1>2. CASE DecisionLog!Handle(r)
  BY <1>2 DEF Moves, DecisionLog!Handle, DecisionLog!Create, DecisionLog!RefuseUpdate, DecisionLog!LoadLog,
     DecisionLog!UpdateLog, DecisionLog!UpdateMeetsNull, DecisionLog!GetLog, DecisionLog!ListLogs,
     DecisionLog!CountLogs, DecisionLog!GetStats, DecisionLog!CountRows, DecisionLog!Read,
     DecisionLog!Refuse, DecisionLog!Fail, DecisionLog!Reply, DecisionLog!Move
<1>3. CASE Thesis!Handle(r)
  BY <1>3 DEF Moves, Thesis!Handle, Thesis!Create, Thesis!RefuseStranger, Thesis!LoadForUpdate,
     Thesis!LoadForDeactivation, Thesis!Load, Thesis!Commit, Thesis!GetLatest, Thesis!RefuseLatest,
     Thesis!Read, Thesis!Refuse, Thesis!Reply, Thesis!Move
<1>4. CASE Messages!Handle(r)
  BY <1>4 DEF Moves, Messages!Handle, Messages!CreateAlert, Messages!AlertIsThere, Messages!CreateCandidate,
     Messages!LoadAlert, Messages!LoadCandidate, Messages!Load, Messages!RefuseMark, Messages!Mark,
     Messages!ListAlerts, Messages!ListCandidates, Messages!ListOf, Messages!CountListed,
     Messages!CountRows, Messages!GetDashboard, Messages!Read, Messages!Refuse, Messages!Reply, Messages!Move
<1>5. CASE Register!Handle(r)
  BY <1>5 DEF Moves, Register!Handle, Register!LookUp, Register!RefuseDuplicate, Register!Insert,
     Register!InsertMeetsAsset, Register!InsertMeetsUser, Register!Login, Register!RefuseLogin,
     Register!Authenticate, Register!RefuseToken, Register!GetAsset, Register!RefuseAsset,
     Register!ListAssets, Register!CountAssets, Register!CountRows, Register!Read, Register!Refuse,
     Register!Fail, Register!Reply, Register!Move
<1>6. CASE Watchlist!Handle(r)
  BY <1>6 DEF Moves, Watchlist!Handle, Watchlist!CreateList, Watchlist!RefuseStranger, Watchlist!LookUpItem,
     Watchlist!RefuseDuplicate, Watchlist!InsertItem, Watchlist!RefreshItem, Watchlist!InsertMeetsItem,
     Watchlist!LoadItem, Watchlist!RemoveItem, Watchlist!CreateSignal, Watchlist!List, Watchlist!CountListed,
     Watchlist!GetSummary, Watchlist!CountRows, Watchlist!Read, Watchlist!Refuse, Watchlist!Reply,
     Watchlist!Move
<1>. QED  BY <1>1, <1>2, <1>3, <1>4, <1>5, <1>6 DEF Handle

Parts == {"checklist", "logs", "theses", "inbox", "registration", "watchlists"}

IInv ==
    /\ part \in Parts
    /\ SessionInv
    /\ part = "checklist" => ChecklistInv
    /\ part = "logs" => LogsInv
    /\ part = "theses" => ThesesInv
    /\ part = "inbox" => InboxInv
    /\ part = "registration" => RegistrationInv
    /\ part = "watchlists" => WatchlistsInv

\* What every step keeps.
PartKeeps ==
    /\ part = "checklist" => ChecklistKeeps
    /\ part = "logs" => LogsKeep
    /\ part = "theses" => ThesesKeep
    /\ part = "inbox" => InboxKeeps
    /\ part = "registration" => RegisteredStays
    /\ part = "watchlists" => ListsStay

LEMMA Begins == Init => IInv
BY ChecklistInit, LogsInit, ThesesInit, InboxInit, RegistrationInit, WatchlistsInit DEF Init, IInv, Parts

(* A step that writes no table disturbs no component.                        *)
LEMMA NothingWritten ==
  ASSUME IInv, part' = part, (\E r \in Requests : Answers(r)) \/ Passes
  PROVE  IInv' /\ PartKeeps
<1>1. table' = table /\ (now' = now \/ Passes)
  BY DEF Answers, Passes
<1>2. (\E r \in Requests : /\ \E answer \in Answered : pc' = [pc EXCEPT ![r] = answer]
                           /\ request' = [request EXCEPT ![r] = Absent])
        \/ UNCHANGED <<pc, request>>
  BY DEF Answers, Passes
<1>3. KeepsOtherColumns /\ DecisionLog!KeepsStamps
  BY <1>1 DEF KeepsOtherColumns, DecisionLog!KeepsStamps
<1>4. part = "checklist" => ChecklistInv' /\ ChecklistKeeps
  BY ChecklistAnswers DEF IInv
<1>5. part = "logs" => LogsInv' /\ LogsKeep
  <2>1. ASSUME part = "logs" PROVE LogsInv' /\ LogsKeep
    <3>1. SessionInv /\ LogsInv /\ table' \in [Logs -> DecisionLog!LogType \cup {Absent}]
      BY <1>1, <2>1 DEF IInv, LogsInv, DecisionLog!TypeOK
    <3>. QED  BY <1>1, <1>2, <1>3, <3>1, LogAnswers DEF LogsKeep, LogsStay
  <2>. QED  BY <2>1
<1>6. part = "theses" => ThesesInv' /\ ThesesKeep
  <2>1. ASSUME part = "theses" PROVE ThesesInv' /\ ThesesKeep
    <3>1. SessionInv /\ ThesesInv /\ table' \in [Theses -> Thesis!ThesisType \cup {Absent}]
      BY <1>1, <2>1 DEF IInv, ThesesInv, Thesis!TypeOK
    <3>. QED  BY <1>1, <1>2, <1>3, <3>1, ThesesAnswer DEF ThesesKeep, ThesesStay
  <2>. QED  BY <2>1
<1>7. part = "inbox" => InboxInv' /\ InboxKeeps
  <2>1. ASSUME part = "inbox" PROVE InboxInv' /\ InboxKeeps
    <3>1. SessionInv /\ InboxInv /\ table' \in [Rows -> Messages!RowType \cup {Absent}]
      BY <1>1, <2>1 DEF IInv, InboxInv, Messages!TypeOK
    <3>2. \A i \in Rows : table[i] # Absent => table[i].created \in Int
      BY <3>1, BoxRow, TimeIsBounded DEF InboxInv, Messages!TypeOK, Times
    <3>3. NothingIsFromTomorrow'
      BY <1>1, <3>1, <3>2, TimeIsBounded DEF InboxInv, NothingIsFromTomorrow, Passes, SessionInv, Times
    <3>. QED  BY <1>1, <1>2, <1>3, <3>1, <3>3, InboxAnswers DEF InboxKeeps, RowsStay
  <2>. QED  BY <2>1
<1>8. part = "registration" => RegistrationInv' /\ RegisteredStays
  <2>1. ASSUME part = "registration" PROVE RegistrationInv' /\ RegisteredStays
    <3>1. SessionInv /\ RegistrationInv
      BY <2>1 DEF IInv
    <3>2. /\ table' = [key \in Register!Keys |-> table'[key]]
          /\ \A key \in Register!Keys : table'[key] \in Register!RowFor(key) \cup {Absent}
      BY <1>1, <3>1 DEF RegistrationInv, Register!TypeOK
    <3>. QED  BY <1>1, <1>2, <3>1, <3>2, RegistrationAnswers DEF RegisteredStays
  <2>. QED  BY <2>1
<1>9. part = "watchlists" => WatchlistsInv' /\ ListsStay
  <2>1. ASSUME part = "watchlists" PROVE WatchlistsInv' /\ ListsStay
    <3>1. SessionInv /\ WatchlistsInv
      BY <2>1 DEF IInv
    <3>2. ASSUME NEW r \in Requests, Answers(r) PROVE WatchlistsInv' /\ ListsStay
      <4>1. PICK answer \in Answered : pc' = [pc EXCEPT ![r] = answer]
        BY <3>2 DEF Answers
      <4>2. /\ request' = [request EXCEPT ![r] = Absent] /\ table' = table /\ now' = now
            /\ answer \notin {"insert", "refresh", "remove", "count"}
        BY <3>2 DEF Answers, Answered
      <4>3. /\ ListsStay /\ StockIsSound'
            /\ table' \in [lists : [Lists -> Users \cup {Absent}], items : SUBSET Watchlist!ItemType,
                           signals : SUBSET Watchlist!SignalType]
        BY <3>1, <4>2 DEF WatchlistsInv, Watchlist!TypeOK, ListsStay, StockIsSound
      <4>. QED  BY <3>1, <4>1, <4>2, <4>3, WatchlistSteps
    <3>. QED  BY <3>1, <3>2, WatchlistsPass
  <2>. QED  BY <2>1
<1>10. SessionInv'
  BY TimeIsBounded DEF IInv, SessionInv, Answers, Passes, Times
<1>. QED  BY <1>4, <1>5, <1>6, <1>7, <1>8, <1>9, <1>10 DEF IInv, PartKeeps

LEMMA StepsKeep ==
  ASSUME IInv, [Next]_vars
  PROVE  IInv' /\ PartKeeps
<1>1. part' = part
  BY DEF Next, vars
<1>2. ASSUME NEW r \in Requests, Handle(r) PROVE IInv' /\ PartKeeps
  <2>1. SessionInv'
    BY <1>2, HandlesMove DEF IInv, SessionInv, Moves
  <2>2. SessionInv
    BY DEF IInv
  <2>3. part = "checklist" => ChecklistInv' /\ ChecklistKeeps
    BY <1>2, <2>2, ChecklistHandles DEF IInv, Handle
  <2>4. part = "logs" => LogsInv' /\ LogsKeep
    BY <1>2, <2>2, LogsHandle DEF IInv, Handle
  <2>5. part = "theses" => ThesesInv' /\ ThesesKeep
    BY <1>2, <2>2, ThesesHandle DEF IInv, Handle
  <2>6. part = "inbox" => InboxInv' /\ InboxKeeps
    BY <1>2, <2>2, InboxHandles DEF IInv, Handle
  <2>7. part = "registration" => RegistrationInv' /\ RegisteredStays
    BY <1>2, <2>2, RegistrationHandles DEF IInv, Handle
  <2>8. part = "watchlists" => WatchlistsInv' /\ ListsStay
    BY <1>2, <2>2, WatchlistsHandle DEF IInv, Handle
  <2>. QED  BY <1>1, <2>1, <2>3, <2>4, <2>5, <2>6, <2>7, <2>8 DEF IInv, PartKeeps
<1>3. ASSUME NEW r \in Requests, Crash(r) PROVE IInv' /\ PartKeeps
  BY <1>1, <1>3, CommonSteps, NothingWritten
<1>4. CASE Tick \/ Terminated \/ UNCHANGED vars
  BY <1>1, <1>4, CommonSteps, NothingWritten
<1>. QED  BY <1>2, <1>3, <1>4 DEF Next

LEMMA AlwaysIInv == Spec => []IInv
<1>1. IInv /\ [Next]_vars => IInv'
  BY StepsKeep
<1>. QED  BY <1>1, Begins, PTL DEF Spec

(* The rows of every component, and what its requests hold of them, have     *)
(* their types.                                                              *)
THEOREM TypeCorrect == Spec => []TypeOK
<1>1. IInv => TypeOK
  BY DEF IInv, Parts, TypeOK, SessionInv, ChecklistInv, LogsInv, ThesesInv, InboxInv, RegistrationInv,
     WatchlistsInv
<1>. QED  BY <1>1, AlwaysIInv, PTL

(* put_decision_checklist keeps a note decided exactly while it is complete, *)
(* and since when, but for a save that had read a note replaced since.       *)
THEOREM NotesStayDecided == Spec => DecidedFollowsTheNote
<1>1. IInv /\ [Next]_vars => [part = "checklist" => Checklist!KeepsNotesDecided]_vars
  BY StepsKeep DEF PartKeeps, ChecklistKeeps
<1>. QED  BY <1>1, AlwaysIInv, PTL DEF Spec, DecidedFollowsTheNote

(* update_decision_log never stamps over a review or a closing it has read.  *)
THEOREM NothingIsStampedOver == Spec => StampsAreKept
<1>1. IInv /\ [Next]_vars => [part = "logs" => DecisionLog!KeepsStamps]_vars
  BY StepsKeep DEF PartKeeps, LogsKeep
<1>. QED  BY <1>1, AlwaysIInv, PTL DEF Spec, StampsAreKept

(* The updates of logs, theses, alerts and candidates undo no change that    *)
(* another request committed to a column they were not sent.                 *)
THEOREM NoUpdateIsUndone == Spec => OtherColumnsSurvive
<1>1. IInv /\ [Next]_vars => [(part \in {"logs", "theses", "inbox"}) => KeepsOtherColumns]_vars
  BY StepsKeep DEF PartKeeps, LogsKeep, ThesesKeep, InboxKeeps
<1>. QED  BY <1>1, AlwaysIInv, PTL DEF Spec, OtherColumnsSurvive

(* No request, whatever it races with, loses a record of a user or hands it  *)
(* to somebody else: a deactivated thesis is not revived by an update that   *)
(* had read it before, the second registration of an address does not touch  *)
(* the password of the first, and a row of the inbox stays what it was but   *)
(* for its status.                                                           *)
RecordStep ==
    /\ part = "checklist" => NotesStay
    /\ part = "logs" => LogsStay
    /\ part = "theses" => ThesesStay
    /\ part = "inbox" => RowsStay
    /\ part = "registration" => RegisteredStays
    /\ part = "watchlists" => ListsStay

RecordsAreKept == [][RecordStep]_vars

(* The requests of every component keep what the users stored.               *)
THEOREM NoRecordIsLost == Spec => RecordsAreKept
<1>1. IInv /\ [Next]_vars => RecordStep
  BY StepsKeep DEF PartKeeps, RecordStep, ChecklistKeeps, LogsKeep, ThesesKeep, InboxKeeps
<1>. QED  BY <1>1, AlwaysIInv, PTL DEF Spec, RecordsAreKept

(* The total of a list that rows neither leave nor are deleted from reaches  *)
(* to the end of the page it is shown with.                                  *)
THEOREM NoPageBeyondItsTotal == Spec => []TotalsCoverPages
<1>1. IInv => TotalsCoverPages
  <2>. SUFFICES ASSUME IInv, NEW r \in Requests, pc[r] = "count"
                PROVE  LET q == request[r].what
                       IN  CASE part = "logs" -> Covers(Cardinality(DecisionLog!Own(q)), request[r])
                             [] part = "inbox" -> q.status = Null => Covers(Messages!Total(q), request[r])
                             [] part = "registration" -> Covers(Cardinality(Register!Registered), request[r])
                             [] part = "watchlists" ->
                                  (q.of \in Users \/ (q.of \in Assets /\ q.all))
                                    => Covers(Cardinality(Watchlist!Listed(q)), request[r])
    BY DEF TotalsCoverPages
  <2>1. part \notin {"checklist", "theses"}
    BY DEF IInv, ChecklistInv, Checklist!TypeOK, Checklist!Answered, ThesesInv, Thesis!TypeOK,
       Thesis!Answered
  <2>2. CASE part = "logs"
    BY <2>2 DEF IInv, LogsInv, LogPagesAreCovered
  <2>3. CASE part = "inbox"
    <3>1. \A q : q.status = Null => Messages!Total(q) = Cardinality(Messages!Own(q.kind, q.user))
      BY SameCounts DEF Messages!Total, Messages!Filtered
    <3>. QED  BY <2>3, <3>1 DEF IInv, InboxInv, BoxPagesAreCovered
  <2>4. CASE part = "registration"
    BY <2>4 DEF IInv, RegistrationInv, AssetPagesAreCovered
  <2>5. CASE part = "watchlists"
    BY <2>5 DEF IInv, WatchlistsInv, WatchPagesAreCovered, OnlyGrows
  <2>. QED  BY <2>1, <2>2, <2>3, <2>4, <2>5 DEF IInv, Parts
<1>. QED  BY <1>1, AlwaysIInv, PTL

-----------------------------------------------------------------------------
(* What is computed from a watchlist. *)

LEMMA DaysAreOrdered ==
  ASSUME NEW a \in Int, NEW b \in Int, a <= b
  PROVE  /\ a \div DayLength \in Int /\ a \div DayLength <= b \div DayLength
         /\ (a \div DayLength) * DayLength <= a
<1>1. DayLength \in Int /\ DayLength > 0
  BY DaysPass
<1> DEFINE d == a \div DayLength
           e == b \div DayLength
<1>2. d \in Int /\ e \in Int /\ d * DayLength <= a /\ a < (d + 1) * DayLength
      /\ e * DayLength <= b /\ b < (e + 1) * DayLength
  BY <1>1
<1> HIDE DEF d, e
<1>3. d <= e
  <2>1. SUFFICES ASSUME e + 1 <= d PROVE FALSE
    BY <1>2
  <2>2. (e + 1) * DayLength <= d * DayLength
    BY <1>1, <1>2, <2>1
  <2>. QED  BY <1>1, <1>2, <2>2
<1>. QED  BY <1>2, <1>3 DEF d, e

(* The status of an item is RISK_ALERT if a signal of that type is in force. *)
LEMMA RiskComesFirst ==
  ASSUME NEW types
  PROVE  Watchlist!Status(types) = "RISK_ALERT" <=> "RISK_ALERT" \in types
<1> DEFINE order == Watchlist!StatusPriority
           Is(k) == order[k] \in types /\ \A l \in 1 .. (k - 1) : order[l] \notin types
<1>1. /\ DOMAIN order = 1 .. 6 /\ order[1] = "RISK_ALERT"
      /\ \A k \in 2 .. 6 : order[k] # "RISK_ALERT"
  BY DEF Watchlist!StatusPriority
<1>2. Watchlist!Status(types) = IF \A k \in DOMAIN order : order[k] \notin types THEN "NORMAL"
                                ELSE order[CHOOSE k \in DOMAIN order : Is(k)]
  BY DEF Watchlist!Status
<1> HIDE DEF order
<1>3. CASE "RISK_ALERT" \in types
  <2>1. Is(1)
    BY <1>1, <1>3
  <2>2. \A k \in DOMAIN order : Is(k) => k = 1
    BY <1>1, <1>3
  <2>3. (CHOOSE k \in DOMAIN order : Is(k)) = 1
    <3> DEFINE k == CHOOSE n \in DOMAIN order : Is(n)
    <3>1. k \in DOMAIN order /\ Is(k)
      BY <1>1, <2>1
    <3>. QED  BY <2>2, <3>1
  <2>. QED  BY <1>1, <1>2, <1>3, <2>3
<1>4. CASE "RISK_ALERT" \notin types
  <2>1. CASE \A k \in DOMAIN order : order[k] \notin types
    BY <1>2, <1>4, <2>1
  <2>2. CASE \E k \in DOMAIN order : order[k] \in types
    <3> DEFINE Having == {n \in Nat : n \in DOMAIN order /\ order[n] \in types}
    <3>1. PICK n \in Having : \A m \in Having : n <= m
      <4>1. Having # {} /\ Having \in SUBSET Nat
        BY <1>1, <2>2
      <4>. QED  BY <4>1, LeastOf
    <3>2. n \in DOMAIN order /\ Is(n)
      BY <1>1, <3>1
    <3> DEFINE k == CHOOSE m \in DOMAIN order : Is(m)
    <3>3. k \in DOMAIN order /\ order[k] \in types
      BY <3>2
    <3>. QED  BY <1>2, <1>4, <2>2, <3>3
  <2>. QED  BY <2>1, <2>2
<1>. QED  BY <1>3, <1>4

(* An item that was on a watchlist at the end of a day still was at the end  *)
(* of a later one, the last of which is now.                                 *)
LEMMA DaysEndInOrder ==
  ASSUME SessionInv, NEW days \in Nat \ {0}
  PROVE  /\ Watchlist!Day(now) \in Watchlist!Window(days)
         /\ Watchlist!AsOf(Watchlist!Day(now)) = now
         /\ \A d, e \in Watchlist!Window(days) : d <= e =>
              /\ Watchlist!AsOf(d) \in Int /\ Watchlist!AsOf(e) \in Int
              /\ Watchlist!AsOf(d) <= Watchlist!AsOf(e)
<1> DEFINE today == Watchlist!Day(now)
<1>1. now \in Int /\ DayLength \in Int /\ DayLength > 0
  BY TimeIsBounded, DaysPass DEF SessionInv, Times
<1>2. today \in Int /\ today * DayLength <= now
  BY <1>1, DaysAreOrdered DEF Watchlist!Day
<1>3. Watchlist!Window(days) = (today - days + 1) .. today
  BY DEF Watchlist!Window
<1>4. \A d : Watchlist!AsOf(d) = IF d = today THEN now ELSE (d + 1) * DayLength
  BY DEF Watchlist!AsOf
<1> HIDE DEF today
<1>5. ASSUME NEW d \in Int, NEW e \in Int, d <= e, e <= today
      PROVE  /\ Watchlist!AsOf(d) \in Int /\ Watchlist!AsOf(e) \in Int
             /\ Watchlist!AsOf(d) <= Watchlist!AsOf(e)
  <2>1. CASE d = e
    BY <1>1, <1>4, <2>1
  <2>2. CASE d < e
    <3>1. (d + 1) * DayLength <= e * DayLength /\ e * DayLength <= today * DayLength
          /\ e * DayLength <= (e + 1) * DayLength
      BY <1>1, <1>2, <1>5, <2>2
    <3>. QED  BY <1>1, <1>2, <1>4, <1>5, <2>2, <3>1
  <2>. QED  BY <1>5, <2>1, <2>2
<1>. QED  BY <1>2, <1>3, <1>4, <1>5 DEF today

LEMMA WatchlistTrends ==
  ASSUME SessionInv, WatchlistsInv, NEW w \in Lists, NEW days \in Nat \ {0}
  PROVE  LET trends == Watchlist!Trends(w, days)
             summary == Watchlist!Summary(w)
             today == Watchlist!Day(now)
         IN  /\ trends.total[today] = summary.total
             /\ trends.risk[today] = summary.risk
             /\ Rising(trends.total)
<1> DEFINE items == Watchlist!Items(w)
           On(d) == {i \in items : i.created <= Watchlist!AsOf(d)}
           window == Watchlist!Window(days)
           today == Watchlist!Day(now)
<1>1. /\ items \subseteq table.items /\ IsFiniteSet(items)
      /\ \A i \in items : i.created <= now /\ i.created \in Int
  <2>1. items \subseteq table.items
    BY DEF Watchlist!Items
  <2>. QED  BY <2>1, FS_Subset, TimeIsBounded DEF WatchlistsInv, StockIsSound, Watchlist!TypeOK,
               Watchlist!ItemType, Watchlist!Times
<1>2. /\ Watchlist!Trends(w, days).total = [d \in window |-> Cardinality(On(d))]
      /\ Watchlist!Trends(w, days).risk =
           [d \in window |-> Cardinality(Watchlist!AtRisk(w, Watchlist!AsOf(d)))]
      /\ Watchlist!Summary(w).total = Cardinality(items)
      /\ Watchlist!Summary(w).risk =
           Cardinality({a \in Watchlist!AssetsOf(w) :
              \E s \in Watchlist!SignalsOf(a, FALSE) : s.type = "RISK_ALERT"})
  BY SameCounts DEF Watchlist!Trends, Watchlist!Summary
<1>3. /\ today \in window /\ Watchlist!AsOf(today) = now
      /\ \A d, e \in window : d <= e =>
           /\ Watchlist!AsOf(d) \in Int /\ Watchlist!AsOf(e) \in Int
           /\ Watchlist!AsOf(d) <= Watchlist!AsOf(e)
  BY DaysEndInOrder
<1>4. On(today) = items
  BY <1>1, <1>3
<1>5. Watchlist!AtRisk(w, now) = {a \in Watchlist!AssetsOf(w) :
              \E s \in Watchlist!SignalsOf(a, FALSE) : s.type = "RISK_ALERT"}
  BY DEF Watchlist!AtRisk, Watchlist!SignalsOf, Watchlist!Active, WatchlistsInv, StockIsSound
<1>6. ASSUME NEW d \in window, NEW e \in window, d <= e
      PROVE  Cardinality(On(d)) <= Cardinality(On(e))
  <2>1. On(d) \subseteq On(e)
    BY <1>1, <1>3, <1>6
  <2>2. IsFiniteSet(On(e))
    BY <1>1, FS_Subset
  <2>. QED  BY <2>1, <2>2, FS_Subset
<1> HIDE DEF On, window, today, items
<1>7. Watchlist!Trends(w, days).total[today] = Watchlist!Summary(w).total
  BY <1>2, <1>3, <1>4
<1>8. Watchlist!Trends(w, days).risk[today] = Watchlist!Summary(w).risk
  BY <1>2, <1>3, <1>5
<1>9. Rising(Watchlist!Trends(w, days).total)
  <2>1. DOMAIN Watchlist!Trends(w, days).total = window
    BY <1>2
  <2>2. ASSUME NEW d \in window, NEW e \in window, d <= e
        PROVE  Watchlist!Trends(w, days).total[d] <= Watchlist!Trends(w, days).total[e]
    BY <1>2, <1>6, <2>2
  <2>. QED  BY <2>1, <2>2 DEF Rising
<1>. QED  BY <1>7, <1>8, <1>9 DEF today

LEMMA RiskIsHighlighted ==
  ASSUME WatchlistsInv, NEW w \in Lists, NEW top \in Watchlist!Highlighted(w)
  PROVE  LET risky == Cardinality({i \in top : Watchlist!StatusOf(i) = "RISK_ALERT"})
             summary == Watchlist!Summary(w)
         IN  risky <= summary.risk /\ (top = Watchlist!Items(w) => risky = summary.risk)
<1> DEFINE items == Watchlist!Items(w)
           At(a) == \E s \in Watchlist!SignalsOf(a, FALSE) : s.type = "RISK_ALERT"
           risky == {i \in top : Watchlist!StatusOf(i) = "RISK_ALERT"}
           assets == {a \in Watchlist!AssetsOf(w) : At(a)}
           assetOf == [i \in risky |-> i.asset]
<1>1. /\ top \subseteq items /\ items \subseteq table.items /\ IsFiniteSet(items)
      /\ \A i, j \in items : i.asset = j.asset => i = j
  <2>1. top \subseteq items /\ items \subseteq table.items /\ \A i \in items : i.list = w
    BY DEF Watchlist!Highlighted, Watchlist!Items
  <2>. QED  BY <2>1, FS_Subset DEF WatchlistsInv, StockIsSound
<1>2. \A i : Watchlist!StatusOf(i) = "RISK_ALERT" <=> At(i.asset)
  <2>1. ASSUME NEW i PROVE Watchlist!StatusOf(i) = "RISK_ALERT" <=> At(i.asset)
    <3> DEFINE types == {s.type : s \in Watchlist!SignalsOf(i.asset, FALSE)}
    <3>1. Watchlist!StatusOf(i) = Watchlist!Status(types)
      BY DEF Watchlist!StatusOf
    <3>2. "RISK_ALERT" \in types <=> At(i.asset)
      OBVIOUS
    <3>. QED  BY <3>1, <3>2, RiskComesFirst
  <2>. QED  BY <2>1
<1>3. Watchlist!Summary(w).risk = Cardinality(assets)
  BY SameCounts DEF Watchlist!Summary
<1>4. assets = {a \in {i.asset : i \in items} : At(a)}
  BY DEF Watchlist!AssetsOf
<1>5. IsFiniteSet(assets)
  <2>1. IsFiniteSet({i.asset : i \in items})
    <3>1. [i \in items |-> i.asset] \in Surjection(items, {i.asset : i \in items})
      BY DEF Surjection
    <3>. QED  BY <1>1, <3>1, FS_Surjection
  <2>. QED  BY <1>4, <2>1, FS_Subset
<1> HIDE DEF At, items
<1>6. assetOf \in Injection(risky, assets)
  BY <1>1, <1>2, <1>4 DEF Injection, IsInjective
<1>7. Cardinality(risky) <= Cardinality(assets)
  BY <1>5, <1>6, FS_Injection
<1>8. ASSUME top = items PROVE Cardinality(risky) = Cardinality(assets)
  <2>1. \A a \in assets : \E i \in risky : assetOf[i] = a
    BY <1>2, <1>4, <1>8
  <2>2. assetOf \in Surjection(risky, assets)
    BY <1>6, <2>1 DEF Surjection, Injection
  <2>. QED  BY <1>5, <1>6, <2>2, FS_Injection
<1>. QED  BY <1>3, <1>7, <1>8 DEF items

-----------------------------------------------------------------------------
(* What the dashboard shows of an inbox. *)

(* Every row was created on one of the days up to today.                     *)
LEMMA DaysCoverAll ==
  ASSUME SessionInv, InboxInv, NEW rows, rows \subseteq {i \in Rows : table[i] # Absent}
  PROVE  SumFunction(Messages!ByDay(rows, Messages!Day(now) + 1)) = Cardinality(rows)
<1> DEFINE today == Messages!Day(now)
           class == [i \in rows |-> Messages!Day(table[i].created)]
           f == [d \in 0 .. today |-> Cardinality({i \in rows : class[i] = d})]
<1>1. /\ today \in Int
      /\ \A i \in rows : class[i] \in 0 .. today
  <2>1. now \in Int /\ \A i \in rows : table[i].created \in Int /\ 0 <= table[i].created /\ table[i].created <= now
    BY TimeIsBounded, BoxRow DEF SessionInv, Times, InboxInv, NothingIsFromTomorrow, Messages!TypeOK
  <2>2. ASSUME NEW i \in rows
        PROVE  class[i] \in 0 .. today
    <3>1. /\ table[i].created \div DayLength \in Int /\ now \div DayLength \in Int
          /\ table[i].created \div DayLength <= now \div DayLength
          /\ 0 \div DayLength <= table[i].created \div DayLength
      BY <2>1, DaysAreOrdered
    <3>2. 0 \div DayLength = 0
      BY DaysPass
    <3>. QED  BY <3>1, <3>2 DEF Messages!Day
  <2>3. now \div DayLength \in Int
    BY <2>1, DaysAreOrdered
  <2>. QED  BY <2>2, <2>3 DEF Messages!Day
<1>2. IsFiniteSet(rows) /\ IsFiniteSet(0 .. today)
  BY <1>1, IdsAreFinite, FS_Subset, FS_Interval
<1>3. Messages!ByDay(rows, today + 1) = f
  <2>1. Messages!Window(today + 1) = 0 .. today
    BY <1>1 DEF Messages!Window
  <2>2. \A d : {i \in rows : Messages!Day(table[i].created) = d} = {i \in rows : class[i] = d}
    OBVIOUS
  <2> HIDE DEF class, today
  <2>. QED  BY <2>1, <2>2, SameCounts DEF Messages!ByDay
<1>4. {i \in rows : class[i] \in 0 .. today} = rows
  BY <1>1
<1> HIDE DEF class, today
<1>5. SumFunction(f) = Cardinality({i \in rows : class[i] \in 0 .. today})
  <2> DEFINE classes == 0 .. today
  <2>1. f = [d \in classes |-> Cardinality({i \in rows : class[i] = d})] /\ IsFiniteSet(classes)
    BY <1>2
  <2> HIDE DEF f, classes
  <2>2. SumFunction(f) = Cardinality({i \in rows : class[i] \in classes})
    BY <1>2, <2>1, SumOfClasses
  <2>. QED  BY <2>2 DEF classes
<1>. QED  BY <1>3, <1>4, <1>5 DEF today

LEMMA DashboardCounts ==
  ASSUME SessionInv, InboxInv, NEW u \in Users
  PROVE  LET trends == Messages!DashboardTrends(u, Messages!Day(now) + 1)
             summary == Messages!DashboardSummary(u)
         IN  /\ summary.risk <= SumFunction(trends.risk)
             /\ summary.news <= SumFunction(trends.news)
             /\ summary.review <= SumFunction(trends.review)
<1> DEFINE risk == Messages!AlertsOf(u, Messages!RiskTypes)
           news == Messages!ImportantNews(u)
           review == Messages!AlertsOf(u, Messages!ReviewTypes)
           there == {i \in Rows : table[i] # Absent}
<1>1. /\ risk \subseteq there /\ news \subseteq there /\ review \subseteq there
      /\ IsFiniteSet(risk) /\ IsFiniteSet(news) /\ IsFiniteSet(review)
  BY IdsAreFinite, FS_Subset DEF Messages!AlertsOf, Messages!ImportantNews, Messages!Own
<1>2. /\ Messages!DashboardSummary(u).risk = Cardinality(Messages!Unread(risk))
      /\ Messages!DashboardSummary(u).news = Cardinality(Messages!Unread(news))
      /\ Messages!DashboardSummary(u).review = Cardinality({i \in review : Messages!InForce(i)})
  BY SameCounts DEF Messages!DashboardSummary
<1>3. /\ Messages!DashboardTrends(u, Messages!Day(now) + 1).risk = Messages!ByDay(risk, Messages!Day(now) + 1)
      /\ Messages!DashboardTrends(u, Messages!Day(now) + 1).news = Messages!ByDay(news, Messages!Day(now) + 1)
      /\ Messages!DashboardTrends(u, Messages!Day(now) + 1).review =
           Messages!ByDay(review, Messages!Day(now) + 1)
  BY DEF Messages!DashboardTrends
<1> HIDE DEF risk, news, review
<1>4. /\ Cardinality(Messages!Unread(risk)) <= Cardinality(risk)
      /\ Cardinality(Messages!Unread(news)) <= Cardinality(news)
      /\ Cardinality({i \in review : Messages!InForce(i)}) <= Cardinality(review)
  BY <1>1, FS_Subset DEF Messages!Unread
<1>. QED  BY <1>1, <1>2, <1>3, <1>4, DaysCoverAll

(* The trends of a watchlist end with its summary, what it highlights as a   *)
(* risk is counted there, and the dashboard's trends hold what it counts.    *)
THEOREM SummaryIsLastDay == Spec => []TrendsEndWithSummary
<1>1. IInv => TrendsEndWithSummary
  <2>. SUFFICES ASSUME IInv PROVE TrendsEndWithSummary
    OBVIOUS
  <2>1. part = "watchlists" =>
          \A w \in Lists, days \in 1 .. 2 :
             LET trends == Watchlist!Trends(w, days)
                 summary == Watchlist!Summary(w)
                 today == Watchlist!Day(now)
             IN  /\ trends.total[today] = summary.total
                 /\ trends.risk[today] = summary.risk
                 /\ Rising(trends.total)
                 /\ \A top \in Watchlist!Highlighted(w) :
                      LET risky == Cardinality({i \in top : Watchlist!StatusOf(i) = "RISK_ALERT"})
                      IN  risky <= summary.risk /\ (top = Watchlist!Items(w) => risky = summary.risk)
    <3>1. 1 .. 2 \subseteq Nat \ {0}
      OBVIOUS
    <3>. QED  BY <3>1, WatchlistTrends, RiskIsHighlighted DEF IInv
  <2>2. part = "inbox" =>
          \A u \in Users :
             LET trends == Messages!DashboardTrends(u, Messages!Day(now) + 1)
                 summary == Messages!DashboardSummary(u)
             IN  /\ summary.risk <= SumFunction(trends.risk)
                 /\ summary.news <= SumFunction(trends.news)
                 /\ summary.review <= SumFunction(trends.review)
    BY DashboardCounts DEF IInv
  <2>. QED  BY <2>1, <2>2 DEF TrendsEndWithSummary
<1>. QED  BY <1>1, AlwaysIInv, PTL
=============================================================================
