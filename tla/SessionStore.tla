---------------------------- MODULE SessionStore -----------------------------
(***************************************************************************)
(* The sessions on the card (storage.c) as four threads use them: the      *)
(* audio thread, which creates, fills and closes them; the AT server,      *)
(* which deletes them and takes the empty ones out of a list               *)
(* (at_commands.c); the transfer thread, which saves "synced"              *)
(* (transfer.c); the main loop, which adds bookmarks.  The power may be    *)
(* cut at any time: what is in memory is lost, what is on the card stays   *)
(* as it is.                                                               *)
(*                                                                         *)
(* Sessions are numbered as they are recorded: an id is used once.  A step *)
(* is the code between two calls of the file system, which locks the       *)
(* volume for one call only.                                               *)
(***************************************************************************)
EXTENDS Integers, FiniteSets

CONSTANTS
    NSessions,      \* sessions recorded in the life of the card
    NOld,           \* those among them that are on the card from the beginning
    NFiles,         \* bound of the model: files of a session
    MaxMarks,       \* bound of the model: bookmarks of a session
    Faults          \* the failures a run allows

\* A rewrite of session.json, a bookmark; the making of a session or of a file; an
\* unlink; the power.
FaultNames == {"json", "mark", "create", "unlink", "power"}

ASSUME SessionStoreAssumption ==
    /\ NSessions \in Nat \ {0} /\ NOld \in 0..NSessions /\ NFiles \in Nat \ {0}
    /\ MaxMarks \in Nat
    /\ Faults \subseteq FaultNames

Sessions == 1..NSessions
None == 0
ToRecord == Sessions \cup {None}

VARIABLES
    dirs,           \* the session directories
    json,           \* session.json of each session
    files,          \* the .opus files in its directory
    marks,          \* its marks.bin
    current,        \* current_session_id of storage.c
    json_mutex,     \* who holds session_json_mutex
    rec,            \* where the audio thread is
    sid,            \* current_session_id of audio.c
    index,          \* current_file_index
    open,           \* the file being written, 0: none
    rec_synced,     \* the "synced" update_session_json has read
    sync,           \* where the transfer thread is in transfer_set_synced_files
    sync_args,      \* its session, its count, the session.json it has read
    mark,           \* the session storage_add_bookmark is appending to
    at,             \* where the AT server is
    target,         \* the session it is deleting
    pruning,        \* on behalf of LIST, not of DELETE
    recorded,       \* history: the files closed, of a session that is not deleted
    last_synced,    \* history: the last count saved, likewise
    added,          \* history: the bookmarks added, likewise
    deleted,        \* history: sessions a DELETE of the client was accepted for
    gone,           \* history: those among them it was answered for
    raced,          \* history: sessions a delete began on while they were created
                    \* or, their creation having failed, recorded
    unmade,         \* history: sessions whose session.json could not be made
    lacking,        \* history: sessions whose first file could not be made
    undeleted       \* history: sessions of which a delete could not remove all

cardVars  == <<dirs, json, files, marks>>
recVars   == <<rec, sid, index, open, rec_synced>>
syncVars  == <<sync, sync_args>>
atVars    == <<at, target, pruning>>
failVars  == <<unmade, lacking, undeleted>>
histVars  == <<recorded, last_synced, added, deleted, gone, raced, failVars>>
vars == <<cardVars, current, json_mutex, recVars, syncVars, mark, atVars, histVars>>

NoJson == [st |-> "none", files |-> 0, synced |-> 0]
NewJson == [st |-> "recording", files |-> 0, synced |-> 0]
OldJson == [st |-> "done", files |-> 1, synced |-> 0]
BlankJson == [NoJson EXCEPT !.st = "blank"]
NoMarks == [there |-> FALSE, count |-> 0, entries |-> 0]

HasDir(s) == s \in dirs
Used == dirs \cup deleted \cup raced \cup unmade \cup lacking
            \cup { s \in Sessions : recorded[s] # {} } \cup ({sid} \ {None})

Init ==
    /\ dirs = 1..NOld
    /\ json = [s \in Sessions |-> IF s \in dirs THEN OldJson ELSE NoJson]
    /\ files = [s \in Sessions |-> IF s \in dirs THEN {1} ELSE {}]
    /\ marks = [s \in Sessions |-> [NoMarks EXCEPT !.there = s \in dirs]]
    /\ current = None /\ json_mutex = "free"
    /\ rec = "idle" /\ sid = None /\ index = 0 /\ open = 0 /\ rec_synced = 0
    /\ sync = "idle" /\ sync_args = [s |-> None, n |-> 0, read |-> NoJson]
    /\ mark = None
    /\ at = "idle" /\ target = None /\ pruning = FALSE
    /\ recorded = files
    /\ last_synced = [s \in Sessions |-> 0]
    /\ added = [s \in Sessions |-> 0]
    /\ deleted = {} /\ gone = {} /\ raced = {}
    /\ unmade = {} /\ lacking = {} /\ undeleted = {}

----------------------------------------------------------------------------
(* The audio thread: a session, its files, its end. *)

\* The id is the second the recording starts in; the directories and an empty
\* marks.bin come first.  Where storage_create_session fails the recording goes on.
CreateSession(s) ==
    /\ rec = "idle"
    /\ s \notin Used /\ 1..(s - 1) \subseteq Used
    /\ sid' = s
    /\ \/ /\ dirs' = dirs \cup {s}
          /\ marks' = [marks EXCEPT ![s] = [NoMarks EXCEPT !.there = TRUE]]
          /\ rec' = "json" /\ UNCHANGED unmade
       \/ /\ "create" \in Faults
          /\ dirs' \in {dirs, dirs \cup {s}} /\ UNCHANGED marks
          /\ rec' = "first" /\ unmade' = unmade \cup {s}
    /\ UNCHANGED <<json, files, current, json_mutex, index, open, rec_synced, syncVars,
                   mark, atVars, recorded, last_synced, added, deleted, gone, raced, lacking,
                   undeleted>>

\* session.json exists from here on, and a LIST finds the session.
OpenSessionJson ==
    /\ rec = "json"
    /\ \/ /\ HasDir(sid)
          /\ json' = [json EXCEPT ![sid] = BlankJson]
          /\ rec' = "blank" /\ UNCHANGED unmade
       \/ /\ ~HasDir(sid) \/ "create" \in Faults
          /\ rec' = "first" /\ unmade' = unmade \cup {sid}
          /\ UNCHANGED json
    /\ UNCHANGED <<dirs, files, marks, current, json_mutex, sid, index, open, rec_synced,
                   syncVars, mark, atVars, recorded, last_synced, added, deleted, gone, raced,
                   lacking, undeleted>>

\* A file deleted while it is open is gone: what is written to it is, too.  Of a write
\* that fails nothing is there.
WriteSessionJson ==
    /\ rec = "blank"
    /\ \/ /\ json' = IF json[sid].st = "blank" THEN [json EXCEPT ![sid] = NewJson] ELSE json
          /\ rec' = "made"
       \/ "create" \in Faults /\ rec' = "first" /\ UNCHANGED json
    /\ UNCHANGED <<dirs, files, marks, current, json_mutex, sid, index, open, rec_synced,
                   syncVars, mark, atVars, histVars>>

SetCurrent ==
    /\ rec = "made"
    /\ current' = sid
    /\ rec' = "first"
    /\ UNCHANGED <<cardVars, json_mutex, sid, index, open, rec_synced, syncVars, mark,
                   atVars, histVars>>

\* The recording is on even if there is no file to write to, and that file counts.
CreateFirstFile ==
    /\ rec = "first"
    /\ index' = 1
    /\ \/ /\ HasDir(sid)
          /\ open' = 1 /\ files' = [files EXCEPT ![sid] = @ \cup {1}]
          /\ UNCHANGED lacking
       \/ /\ ~HasDir(sid) \/ "create" \in Faults
          /\ lacking' = lacking \cup {sid}
          /\ UNCHANGED <<open, files>>
    /\ rec' = "on"
    /\ UNCHANGED <<dirs, json, marks, current, json_mutex, sid, rec_synced, syncVars, mark,
                   atVars, recorded, last_synced, added, deleted, gone, raced, unmade, undeleted>>

\* storage_close_file: the file is on the card, though a flush may have failed.
CloseOpenFile ==
    /\ open' = 0
    /\ recorded' = IF open = 0 THEN recorded
                   ELSE [recorded EXCEPT ![sid] = @ \cup {open}]

\* A segment is full, or the user pauses.
CloseFile ==
    /\ rec = "on" /\ open # 0
    /\ CloseOpenFile
    /\ rec' = "between"
    /\ UNCHANGED <<cardVars, current, json_mutex, sid, index, rec_synced, syncVars, mark,
                   atVars, last_synced, added, deleted, gone, raced, failVars>>

\* A file that could not be made is tried again.
CreateNextFile ==
    /\ rec = "between" \/ (rec = "on" /\ open = 0)
    /\ index < NFiles
    /\ \/ /\ HasDir(sid)
          /\ index' = index + 1 /\ open' = index + 1
          /\ files' = [files EXCEPT ![sid] = @ \cup {index + 1}]
       \/ /\ ~HasDir(sid) \/ "create" \in Faults
          /\ UNCHANGED <<index, open, files>>
    /\ rec' = "on"
    /\ UNCHANGED <<dirs, json, marks, current, json_mutex, sid, rec_synced, syncVars, mark,
                   atVars, histVars>>

\* While paused, too.
StopRecording ==
    /\ rec \in {"on", "between"}
    /\ CloseOpenFile
    /\ rec' = "closing"
    /\ UNCHANGED <<cardVars, current, json_mutex, sid, index, rec_synced, syncVars, mark,
                   atVars, last_synced, added, deleted, gone, raced, failVars>>

\* Mutant: update_session_json does not take the mutex.
ReadJsonToClose_NoLock ==
    /\ rec = "closing"
    /\ rec_synced' = json[sid].synced
    /\ rec' = "writing"
    /\ UNCHANGED <<cardVars, current, json_mutex, sid, index, open, syncVars, mark, atVars,
                   histVars>>

ReadJsonToClose ==
    /\ rec = "closing" /\ json_mutex = "free"
    /\ json_mutex' = "audio"
    /\ rec_synced' = json[sid].synced
    /\ rec' = "writing"
    /\ UNCHANGED <<cardVars, current, sid, index, open, syncVars, mark, atVars, histVars>>

\* The result of the update is ignored: the session is no longer the current one.
WriteJsonToClose ==
    /\ rec = "writing"
    /\ \/ /\ HasDir(sid)
          /\ json' = [json EXCEPT ![sid] = [st |-> "done", files |-> index,
                                            synced |-> rec_synced]]
          /\ unmade' = unmade \ {sid}
       \/ /\ ~HasDir(sid) \/ "json" \in Faults
          /\ UNCHANGED <<json, unmade>>
    /\ json_mutex' = IF json_mutex = "audio" THEN "free" ELSE json_mutex
    /\ current' = IF current = sid THEN None ELSE current
    /\ rec' = "idle" /\ sid' = None /\ index' = 0 /\ rec_synced' = 0
    /\ UNCHANGED <<dirs, files, marks, open, syncVars, mark, atVars, recorded, last_synced,
                   added, deleted, gone, raced, lacking, undeleted>>

----------------------------------------------------------------------------
(* The transfer thread: transfer_set_synced_files. *)

\* n files of the session have been acknowledged.
ReadJsonToSync(s, n) ==
    /\ sync = "idle" /\ json_mutex = "free"
    /\ n \in recorded[s] /\ n > last_synced[s]
    /\ json[s].st # "none"
    /\ json_mutex' = "transfer"
    /\ sync' = "write"
    /\ sync_args' = [s |-> s, n |-> n, read |-> json[s]]
    /\ UNCHANGED <<cardVars, current, recVars, mark, atVars, histVars>>

\* Mutant: session.json is opened with FS_O_CREATE.
WriteJsonToSync_Creates ==
    /\ sync = "write"
    /\ LET s == sync_args.s IN
         IF HasDir(s)
         THEN /\ json' = [json EXCEPT ![s] = [sync_args.read EXCEPT !.synced = sync_args.n]]
              /\ last_synced' = [last_synced EXCEPT ![s] = sync_args.n]
         ELSE UNCHANGED <<json, last_synced>>
    /\ json_mutex' = "free" /\ sync' = "idle"
    /\ sync_args' = [s |-> None, n |-> 0, read |-> NoJson]
    /\ UNCHANGED <<dirs, files, marks, current, recVars, mark, atVars, recorded, added,
                   deleted, gone, raced, failVars>>

\* Mutant: the error path forgets the mutex.
WriteJsonToSync_KeepsLock ==
    /\ sync = "write"
    /\ LET s == sync_args.s IN
         \/ /\ json[s].st # "none"
            /\ json' = [json EXCEPT ![s] = [sync_args.read EXCEPT !.synced = sync_args.n]]
            /\ last_synced' = [last_synced EXCEPT ![s] = sync_args.n]
            /\ json_mutex' = "free"
         \/ /\ json[s].st = "none" \/ "json" \in Faults
            /\ UNCHANGED <<json, last_synced, json_mutex>>
    /\ sync' = "idle"
    /\ sync_args' = [s |-> None, n |-> 0, read |-> NoJson]
    /\ UNCHANGED <<dirs, files, marks, current, recVars, mark, atVars, recorded, added,
                   deleted, gone, raced, failVars>>

\* The file is opened for writing without FS_O_CREATE.  An empty one has no place for
\* the count: it is written back as it is, and the count is not saved.
WriteJsonToSync ==
    /\ sync = "write"
    /\ LET s == sync_args.s IN
         \/ /\ json[s].st # "none" /\ sync_args.read.st # "blank"
            /\ json' = [json EXCEPT ![s] = [sync_args.read EXCEPT !.synced = sync_args.n]]
            /\ last_synced' = [last_synced EXCEPT ![s] = sync_args.n]
         \/ /\ json[s].st = "none" \/ sync_args.read.st = "blank" \/ "json" \in Faults
            /\ UNCHANGED <<json, last_synced>>
    /\ json_mutex' = "free" /\ sync' = "idle"
    /\ sync_args' = [s |-> None, n |-> 0, read |-> NoJson]
    /\ UNCHANGED <<dirs, files, marks, current, recVars, mark, atVars, recorded, added,
                   deleted, gone, raced, failVars>>

----------------------------------------------------------------------------
(* The main loop: storage_add_bookmark. *)

\* The count goes up before the bookmark is there; a missing file is made anew.
CountBookmark ==
    /\ mark = None /\ rec \in {"on", "between"}
    /\ HasDir(sid) /\ marks[sid].count < MaxMarks /\ added[sid] < MaxMarks
    /\ mark' = sid
    /\ marks' = [marks EXCEPT ![sid] =
                    [there |-> TRUE, count |-> @.count + 1, entries |-> @.entries]]
    /\ UNCHANGED <<dirs, json, files, current, json_mutex, recVars, syncVars, atVars, histVars>>

AppendBookmark ==
    /\ mark # None
    /\ \/ /\ marks[mark].there
          /\ marks' = [marks EXCEPT ![mark].entries = @ + 1]
          /\ added' = [added EXCEPT ![mark] = @ + 1]
       \/ /\ ~marks[mark].there \/ "mark" \in Faults
          /\ UNCHANGED <<marks, added>>
    /\ mark' = None
    /\ UNCHANGED <<dirs, json, files, current, json_mutex, recVars, syncVars, atVars,
                   recorded, last_synced, deleted, gone, raced, failVars>>

\* Mutant: pages are counted from nought.
BookmarkPage_FromNought(s, page, per_page) ==
    { i \in 1..marks[s].entries :
        /\ page * per_page < i /\ i <= (page + 1) * per_page
        /\ i <= marks[s].count }

\* The bookmarks a page returns: the read ends with the count or with the file.
BookmarkPage(s, page, per_page) ==
    { i \in 1..marks[s].entries :
        /\ (page - 1) * per_page < i /\ i <= page * per_page
        /\ i <= marks[s].count }

----------------------------------------------------------------------------
(* The AT server: LIST?page&per_page and DELETE. *)

\* Mutant: the files are never counted.
GetSessionInfo_Trusts(s) ==
    [ found |-> json[s].st # "none", files |-> json[s].files ]

\* What LIST and DOWNLOAD are told of a session.  While it is being recorded, or
\* if it was when the power went, the files are counted.
GetSessionInfo(s) ==
    [ found |-> json[s].files > 0 \/ HasDir(s),
      files |-> IF json[s].files > 0 THEN json[s].files ELSE Cardinality(files[s]) ]

\* storage_delete_session begins: the session being recorded is refused, but
\* it is not the current one while it is created, nor later if that failed.  The
\* entries go in the order of the directory; one that cannot be unlinked stays.
BeginDelete(s) ==
    /\ at = "idle" /\ s # current
    /\ \/ marks' = [marks EXCEPT ![s] = NoMarks] /\ UNCHANGED undeleted
       \/ "unlink" \in Faults /\ UNCHANGED marks /\ undeleted' = undeleted \cup {s}
    /\ at' = "json" /\ target' = s
    /\ raced' = IF s = sid THEN raced \cup {s} ELSE raced

\* A scan passes over a directory without session.json.
Listed == { s \in dirs : json[s].st # "none" }

\* LIST meets a session without files.
Prune(s) ==
    /\ s \in Listed
    /\ GetSessionInfo(s) = [found |-> TRUE, files |-> 0]
    /\ BeginDelete(s)
    /\ pruning' = TRUE
    /\ UNCHANGED <<dirs, json, files, current, json_mutex, recVars, syncVars, mark, recorded,
                   last_synced, added, deleted, gone, unmade, lacking>>

\* A client may try again.
Delete(s) ==
    /\ s \in Used \ (deleted \ undeleted)
    /\ BeginDelete(s)
    /\ pruning' = FALSE
    /\ deleted' = deleted \cup {s}
    /\ recorded' = [recorded EXCEPT ![s] = {}]
    /\ last_synced' = [last_synced EXCEPT ![s] = 0]
    /\ added' = [added EXCEPT ![s] = 0]
    /\ UNCHANGED <<dirs, json, files, current, json_mutex, recVars, syncVars, mark, gone,
                   unmade, lacking>>

DeleteJson ==
    /\ at = "json"
    /\ \/ json' = [json EXCEPT ![target] = NoJson] /\ UNCHANGED undeleted
       \/ "unlink" \in Faults /\ UNCHANGED json /\ undeleted' = undeleted \cup {target}
    /\ at' = "files"
    /\ UNCHANGED <<dirs, files, marks, current, json_mutex, recVars, syncVars, mark, target,
                   pruning, recorded, last_synced, added, deleted, gone, raced, unmade, lacking>>

DeleteFile ==
    /\ at = "files"
    /\ \E f \in files[target] : files' = [files EXCEPT ![target] = @ \ {f}]
    /\ UNCHANGED <<dirs, json, marks, current, json_mutex, recVars, syncVars, mark, atVars,
                   histVars>>

\* A directory that is not empty stays, and so may any other; the answer is the same.
DeleteDirectory ==
    /\ at = "files"
    /\ \/ /\ files[target] = {}
          /\ IF json[target].st = "none" /\ ~marks[target].there
             THEN dirs' = dirs \ {target} /\ undeleted' = undeleted \ {target}
             ELSE UNCHANGED <<dirs, undeleted>>
       \/ "unlink" \in Faults /\ UNCHANGED dirs /\ undeleted' = undeleted \cup {target}
    /\ gone' = IF pruning THEN gone ELSE gone \cup {target}
    /\ at' = "idle" /\ target' = None /\ pruning' = FALSE
    /\ UNCHANGED <<json, files, marks, current, json_mutex, recVars, syncVars, mark, recorded,
                   last_synced, added, deleted, raced, unmade, lacking>>

----------------------------------------------------------------------------
(* The power. *)

\* What is in memory is lost.  A bookmark that was counted may have been counted
\* in memory only.
PowerCut ==
    /\ "power" \in Faults
    /\ \/ UNCHANGED marks
       \/ mark # None /\ marks[mark].there /\ marks' = [marks EXCEPT ![mark].count = @ - 1]
    /\ current' = None /\ json_mutex' = "free"
    /\ rec' = "idle" /\ sid' = None /\ index' = 0 /\ open' = 0 /\ rec_synced' = 0
    /\ sync' = "idle" /\ sync_args' = [s |-> None, n |-> 0, read |-> NoJson]
    /\ mark' = None
    /\ at' = "idle" /\ target' = None /\ pruning' = FALSE
    /\ UNCHANGED <<dirs, json, files, histVars>>

RecNext ==
    \/ \E s \in Sessions : CreateSession(s)
    \/ OpenSessionJson \/ WriteSessionJson \/ SetCurrent \/ CreateFirstFile
    \/ CloseFile \/ CreateNextFile \/ StopRecording
    \/ ReadJsonToClose \/ WriteJsonToClose

SyncNext == (\E s \in Sessions, n \in 1..NFiles : ReadJsonToSync(s, n)) \/ WriteJsonToSync
MarkNext == CountBookmark \/ AppendBookmark

AtNext ==
    \/ \E s \in Sessions : Prune(s) \/ Delete(s)
    \/ DeleteJson \/ DeleteFile \/ DeleteDirectory

Next == RecNext \/ SyncNext \/ MarkNext \/ AtNext \/ PowerCut

Spec == Init /\ [][Next]_vars

\* A thread that has work does it, and a mutex is handed to who waits for it.
\* Nobody has to record or to delete.
Fairness ==
    /\ SF_vars(ReadJsonToClose) /\ WF_vars(WriteJsonToClose)
    /\ WF_vars(WriteJsonToSync)

FairSpec == Spec /\ Fairness

----------------------------------------------------------------------------
(* Properties. *)

Jsons == [st : {"none", "blank", "recording", "done"}, files : 0..NFiles, synced : 0..NFiles]

\* Every variable keeps to its type.
TypeOK ==
    /\ dirs \in SUBSET Sessions
    /\ json \in [Sessions -> Jsons]
    /\ files \in [Sessions -> SUBSET (1..NFiles)]
    /\ marks \in [Sessions -> [there : BOOLEAN, count : Nat, entries : Nat]]
    /\ current \in ToRecord /\ json_mutex \in {"free", "audio", "transfer"}
    /\ rec \in {"idle", "json", "blank", "made", "first", "on", "between", "closing",
                "writing"}
    /\ sid \in ToRecord /\ index \in 0..NFiles /\ open \in 0..NFiles
    /\ rec_synced \in 0..NFiles
    /\ sync \in {"idle", "write"}
    /\ sync_args \in [s : ToRecord, n : 0..NFiles, read : Jsons]
    /\ mark \in ToRecord
    /\ at \in {"idle", "json", "files"}
    /\ target \in ToRecord /\ pruning \in BOOLEAN
    /\ recorded \in [Sessions -> SUBSET (1..NFiles)]
    /\ last_synced \in [Sessions -> 0..NFiles]
    /\ added \in [Sessions -> Nat]
    /\ deleted \in SUBSET Sessions /\ gone \in SUBSET Sessions /\ raced \in SUBSET Sessions
    /\ unmade \in SUBSET Sessions /\ lacking \in SUBSET Sessions
    /\ undeleted \in SUBSET Sessions

\* Nobody deletes it, nor began to while the device did not take it for current.
Kept(s) == s \notin deleted \cup raced

\* A recording of which a file was closed stays on the card until the client deletes
\* it, whatever cut the power in between: every closed file is there, who asks for the
\* session is told how many there are (storage.c:1332), and LIST finds it.  Two failures
\* that audio.c only logs take something from this: a session whose session.json was
\* never made is not in a list, one whose first file was not made counts it still.
RecordingsListed ==
    \A s \in Sessions : recorded[s] # {} /\ Kept(s) =>
        /\ recorded[s] \subseteq files[s]
        /\ GetSessionInfo(s).found
        /\ GetSessionInfo(s).files = Cardinality(files[s]) \/ s \in lacking
        /\ s \in Listed \/ s \in unmade

\* The audio thread, which closes a session, and the transfer thread, which
\* counts what is synced, both rewrite session.json from what they have read:
\* neither undoes the other (session_json_mutex).  The files are counted right unless
\* the first could not be made.
NoLostUpdate ==
    \A s \in Sessions : Kept(s) /\ json[s].st \in {"recording", "done"} =>
        /\ json[s].synced = last_synced[s]
        /\ json[s].st = "done" => json[s].files = Cardinality(recorded[s]) \/ s \in lacking

\* A session DELETE was answered for does not come back, though a transfer of
\* it may be about to save its count (transfer.c:608), unless the card refused an
\* unlink, for which the answer is OK as well (storage.c:1520).
DeletedStaysDeleted ==
    \A s \in gone \ (raced \cup undeleted) : ~HasDir(s) /\ json[s].st = "none"

\* A bookmark that was added is on one of the pages of AT+MARKS, whatever failed
\* or was cut between a count and its bookmark. A session of which no file could be
\* made is taken for empty, and LIST deletes it with its bookmarks (at_commands.c:1053).
BookmarksReturned ==
    \A s \in Sessions : Kept(s) /\ (s \in lacking => files[s] # {}) =>
        UNION { BookmarkPage(s, page, 1) : page \in 1..MaxMarks } = 1..added[s]

\* A recording that stops is closed, though the transfer thread uses
\* session.json at the same time.
SessionCloses == rec = "closing" ~> rec = "idle"
=============================================================================
