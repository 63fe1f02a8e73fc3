----------------------------- MODULE SessionList -----------------------------
(***************************************************************************)
(* AT+LIST?page&per_page (at_commands.c, storage.c) and the client that    *)
(* walks through all pages as list_all_sessions of the SDK does, while     *)
(* sessions are recorded and deleted.  What a session is on the card is    *)
(* module SessionStore's subject: here it is listed, and has files or not. *)
(*                                                                         *)
(* A session is its id, a number: a later time is a larger one.  The clock *)
(* can be set back, so that ids come in any order.                         *)
(***************************************************************************)
EXTENDS Integers, FiniteSets, Sequences, SequencesExt

CONSTANTS
    NSessions,      \* sessions recorded in the life of the card
    MaxIds,         \* ids a LIST collects (200 in the code)
    PerPage,        \* per_page the client asks for
    Room            \* sessions that a response holds, however long (about 13)

ASSUME SessionListAssumption ==
    /\ NSessions \in Nat \ {0} /\ MaxIds \in Nat \ {0}
    /\ PerPage \in Nat \ {0} /\ Room \in Nat \ {0}

Sessions == 1..NSessions
None == 0

VARIABLES
    dirs,           \* the listed sessions, in the order a scan meets them
    filled,         \* those that have files
    used,           \* the ids that were used
    current,        \* current_session_id
    at,             \* where the AT server is
    list_ids, pos,  \* its list, and its place in it
    sent,           \* sessions in the response so far
    walk,           \* is the client walking, what page is next
    result,         \* what it has so far
    there,          \* history: the sessions with files when the walk began
    excused,        \* history: since then, one was deleted, or there were too many
    lost            \* history: of its pages, what the response had no room for

cardVars == <<dirs, filled, used, current>>
atVars   == <<at, list_ids, pos, sent>>
walkVars == <<walk, result, there, excused, lost>>
listVars == <<cardVars, atVars, walkVars>>

ListInit ==
    /\ dirs = <<>> /\ filled = {} /\ used = {} /\ current = None
    /\ at = "idle" /\ list_ids = <<>> /\ pos = 0 /\ sent = 0
    /\ walk = [st |-> "off", page |-> 1]
    /\ result = <<>> /\ there = {} /\ excused = FALSE /\ lost = {}

----------------------------------------------------------------------------
(* Recordings begin, get their first file, and end. *)

Record(s) ==
    /\ current = None /\ s \notin used
    /\ dirs' = Append(dirs, s) /\ used' = used \cup {s} /\ current' = s
    /\ UNCHANGED <<filled, atVars, walkVars>>

FirstFile ==
    /\ current # None /\ current \notin filled
    /\ filled' = filled \cup {current}
    /\ UNCHANGED <<dirs, used, current, atVars, walkVars>>

\* One without files is left behind when its first file could not be created.
EndRecording ==
    /\ current # None
    /\ current' = None
    /\ UNCHANGED <<dirs, filled, used, atVars, walkVars>>

----------------------------------------------------------------------------
(* The AT server. *)

\* Newest first: before the first older one, or at the end.  (The branch of a
\* full list is never taken, as the scan ends first, nor that of an id met twice.)
AddSessionId(ids, s) ==
    LET older == { i \in DOMAIN ids : ids[i] < s } IN
    InsertAt(ids, IF older = {} THEN Len(ids) + 1 ELSE Min(older), s)

\* The scan ends with the first MaxIds sessions it meets.
ScanSessionIds ==
    LET ids[n \in 0..Len(dirs)] ==
            IF n = 0 THEN <<>> ELSE AddSessionId(ids[n - 1], dirs[n])
    IN  ids[Min({MaxIds, Len(dirs)})]

\* Mutant: pages are counted from nought.
Offset_FromNought == walk.page * PerPage

Offset == (walk.page - 1) * PerPage

PageEnd == Min({Offset + PerPage, Len(list_ids)})

StartWalk ==
    /\ walk.st # "on" /\ at = "idle"
    /\ walk' = [st |-> "on", page |-> 1]
    /\ result' = <<>> /\ there' = filled /\ excused' = FALSE /\ lost' = {}
    /\ UNCHANGED <<cardVars, atVars>>

\* Mutant: a client that lacks sessions asks for the empty page again.
AfterEmptyPage_Again == walk

\* An empty page ends the walk.
AfterEmptyPage == [walk EXCEPT !.st = "done"]

\* A page past the end is empty.
List ==
    /\ at = "idle" /\ walk.st = "on"
    /\ LET ids == ScanSessionIds IN
       IF Offset >= Len(ids)
       THEN walk' = AfterEmptyPage /\ UNCHANGED <<atVars, excused>>
       ELSE /\ list_ids' = ids /\ pos' = Offset + 1 /\ sent' = 0
            /\ excused' = (excused \/ Len(dirs) > MaxIds)
            /\ at' = "item"
            /\ UNCHANGED walk
    /\ UNCHANGED <<cardVars, result, there, lost>>

\* storage_delete_session takes the session off the card.
TakeOff(s) ==
    /\ \E i \in DOMAIN dirs : dirs[i] = s /\ dirs' = RemoveAt(dirs, i)
    /\ filled' = filled \ {s}
    /\ excused' = TRUE

\* A session without files is deleted on the way, but for the current one.  The
\* comma of the next one is written all the same: as the first of a response it
\* is not JSON, and the client gives up.
ListItem ==
    /\ at = "item" /\ pos <= PageEnd
    /\ LET s == list_ids[pos] IN
         \/ /\ s \in filled
            /\ result' = Append(result, s) /\ sent' = sent + 1
            /\ walk' = IF sent = 0 /\ pos > Offset + 1
                       THEN [walk EXCEPT !.st = "broken"] ELSE walk
            /\ UNCHANGED <<dirs, filled, excused>>
         \/ /\ s \notin filled /\ s # current
            /\ TakeOff(s)
            /\ UNCHANGED <<result, sent, walk>>
         \/ /\ s \notin filled /\ s = current
            /\ UNCHANGED <<dirs, filled, excused, result, sent, walk>>
    /\ pos' = pos + 1
    /\ UNCHANGED <<used, current, at, list_ids, there, lost>>

\* The response ends with the page, or when it is full: after Room sessions, or
\* a few more if they are short.  The client goes on until it has "total"
\* sessions or a page is empty; it cannot tell that a page was cut.
ListEnd ==
    /\ at = "item" /\ (pos > PageEnd \/ sent >= Room)
    /\ walk' = IF walk.st = "broken" THEN walk
               ELSE IF sent = 0 THEN AfterEmptyPage
               ELSE IF Len(result) >= Len(list_ids) THEN [walk EXCEPT !.st = "done"]
               ELSE [walk EXCEPT !.page = @ + 1]
    /\ at' = "idle" /\ list_ids' = <<>> /\ pos' = 0 /\ sent' = 0
    /\ lost' = lost \cup { list_ids[i] : i \in pos..PageEnd }
    /\ UNCHANGED <<cardVars, result, there, excused>>

\* A DELETE of this client or, over another transport, of another one.
Delete(s) ==
    /\ at = "idle" /\ s \in ToSet(dirs) /\ s # current
    /\ TakeOff(s)
    /\ UNCHANGED <<used, current, atVars, walk, result, there, lost>>

ListNext ==
    \/ \E s \in Sessions : Record(s) \/ Delete(s)
    \/ FirstFile \/ EndRecording
    \/ StartWalk \/ List \/ ListItem \/ ListEnd

ListSpec == ListInit /\ [][ListNext]_listVars

\* The AT server does its work, and a client that walks asks for the next page.
\* Nobody has to record, to delete or to begin a walk.
ListFairSpec == ListSpec /\ WF_listVars(ListItem \/ ListEnd) /\ WF_listVars(List)

----------------------------------------------------------------------------
(* Properties. *)

\* Every variable keeps to its type.
ListTypeOK ==
    /\ dirs \in Seq(Sessions) /\ filled \in SUBSET Sessions /\ used \in SUBSET Sessions
    /\ current \in Sessions \cup {None}
    /\ at \in {"idle", "item"}
    /\ list_ids \in Seq(Sessions) /\ pos \in Nat /\ sent \in Nat
    /\ walk \in [st : {"off", "on", "done", "broken"}, page : Nat \ {0}]
    /\ result \in Seq(Sessions) /\ there \in SUBSET Sessions /\ excused \in BOOLEAN
    /\ lost \in SUBSET Sessions

\* A client that walks through all pages gets every session that was there from
\* the beginning, though new ones push it to later places and later pages, if
\* none was deleted meanwhile and the list was never too long, but for those cut
\* off a full response: the next page begins behind them.
PagesCover == walk.st = "done" /\ ~excused => there \subseteq ToSet(result) \cup lost

\* It gets every one, as list_all_sessions of the SDK takes for granted.  This
\* does not hold when PerPage > Room, and by default the SDK asks for 50.
WalkComplete == walk.st = "done" /\ ~excused => there \subseteq ToSet(result)

\* The walk ends, though the list changes under it.
WalkEnds == walk.st = "on" ~> walk.st # "on"

\* Every response is JSON ("All responses use unified JSON format",
\* docs/protocol.md:37).  This does not hold: see ListItem.
ResponsesParse == walk.st # "broken"
=============================================================================
