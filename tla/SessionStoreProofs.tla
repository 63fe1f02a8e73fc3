-------------------------- MODULE SessionStoreProofs --------------------------
(***************************************************************************)
(* The safety properties of SessionStore, for any number of sessions,      *)
(* files and bookmarks, and for all its faults, the power cut at any step  *)
(* included.                                                               *)
(***************************************************************************)
EXTENDS SessionStore, FiniteSetTheorems, TLAPS

----------------------------------------------------------------------------
(* The inductive invariant. *)

\* What the card holds of a session nobody deletes: every closed file, and a
\* session.json that is right as soon as there is one, but for a first file that could
\* not be made.
SessionOK(s) ==
    /\ recorded[s] \subseteq files[s]
    /\ recorded[s] = {} => last_synced[s] = 0
    /\ recorded[s] # {} => s \in dirs /\ (json[s].st # "none" \/ s \in unmade)
    /\ s \notin dirs => json[s] = NoJson /\ files[s] = {}
    /\ json[s].st = "none" => json[s] = NoJson
    /\ json[s].synced = last_synced[s]
    /\ json[s].st \in {"blank", "recording"} => json[s].files = 0
    /\ json[s].st = "done" =>
          /\ files[s] = recorded[s]
          /\ s \in lacking \/ json[s].files = Cardinality(files[s])

\* The recording under way, from place to place of the audio thread.
Creating == {"json", "blank", "made", "first"}
Filling == {"on", "between", "closing", "writing"}

FilesOf(s) ==
    /\ rec \in Creating => files[s] = {}
    /\ rec \in Filling =>
          /\ index > 0
          /\ files[s] = recorded[s] \cup (IF open = 0 THEN {} ELSE {open})
          /\ s \in lacking \/ files[s] = 1..index

JsonOf(s) ==
    /\ rec = "json" => json[s] = NoJson
    /\ rec = "blank" => json[s] = BlankJson
    /\ rec \in {"made", "first"} \cup Filling =>
          json[s].st # "done" /\ (json[s].st # "none" \/ s \in unmade)
    /\ rec = "writing" => rec_synced = json[s].synced

UnderWay(s) == sid = s => FilesOf(s) /\ JsonOf(s)

\* What the transfer thread has read is what there is.
ReadOK(s) == sync = "write" /\ sync_args.s = s => recorded[s] # {} /\ json[s] = sync_args.read

\* LIST takes away what is empty.
TargetOK(s) == at # "idle" /\ target = s => files[s] = {}

\* Every bookmark is where it was added, and behind a file if the first could be made:
\* of a session without files LIST may take them.
MarksOK(s) ==
    /\ sid = s \/ files[s] # {} \/ s \notin lacking => marks[s].entries = added[s]
    /\ s \notin lacking => /\ files[s] = {} => added[s] = 0
                           /\ mark = s => files[s] # {}

Row(s) == SessionOK(s) /\ UnderWay(s) /\ ReadOK(s) /\ TargetOK(s) /\ MarksOK(s)

RowInv == \A s \in Sessions : Kept(s) => Row(s)

\* The threads: a session is being recorded, the mutex has one owner, and so on.
RecInv ==
    /\ rec = "idle" <=> sid = None
    /\ rec # "on" => open = 0
    /\ rec \in {"idle"} \cup Creating => index = 0

LockInv ==
    /\ rec = "writing" <=> json_mutex = "audio"
    /\ sync = "write" <=> json_mutex = "transfer"
    /\ sync = "write" => sync_args.s \in Sessions

\* A session under deletion is not the one under way, unless that is its name.
AtInv ==
    at # "idle" =>
        /\ target \in Sessions
        /\ target \notin raced => target # sid /\ target \in dirs \cup deleted
        /\ target \notin raced \cup undeleted =>
              ~marks[target].there /\ (at = "files" => json[target].st = "none")
        /\ ~pruning => target \in deleted

\* A bookmark is counted before it is there.
CountInv ==
    /\ \A s \in Sessions : marks[s].entries <= marks[s].count /\ marks[s].count <= MaxMarks
    /\ mark # None /\ marks[mark].there => marks[mark].entries < marks[mark].count

\* No bookmark is pending for a session not begun.
MarkInv == mark # None => mark \in dirs \cup deleted \cup raced \cup lacking

GoneInv == gone \subseteq deleted /\ DeletedStaysDeleted

StoreInv ==
    TypeOK /\ RowInv /\ RecInv /\ LockInv /\ AtInv /\ CountInv /\ MarkInv /\ GoneInv

USE DEF cardVars, recVars, syncVars, atVars, failVars, histVars

----------------------------------------------------------------------------
(* Types. *)

\* TypeOK in parts.
CardTyped ==
    /\ dirs \subseteq Sessions
    /\ json \in [Sessions -> Jsons]
    /\ files \in [Sessions -> SUBSET (1..NFiles)]
    /\ marks \in [Sessions -> [there : BOOLEAN, count : Nat, entries : Nat]]

PlacesTyped ==
    /\ current \in ToRecord /\ json_mutex \in {"free", "audio", "transfer"}
    /\ rec \in {"idle", "json", "blank", "made", "first", "on", "between", "closing",
                "writing"}
    /\ sid \in ToRecord /\ index \in 0..NFiles /\ open \in 0..NFiles
    /\ rec_synced \in 0..NFiles
    /\ sync \in {"idle", "write"}
    /\ sync_args \in [s : ToRecord, n : 0..NFiles, read : Jsons]
    /\ mark \in ToRecord
    /\ at \in {"idle", "json", "files"}
    /\ target \in ToRecord /\ pruning \in BOOLEAN

HistTyped ==
    /\ recorded \in [Sessions -> SUBSET (1..NFiles)]
    /\ last_synced \in [Sessions -> 0..NFiles]
    /\ added \in [Sessions -> Nat]
    /\ deleted \subseteq Sessions /\ gone \subseteq Sessions /\ raced \subseteq Sessions
    /\ unmade \subseteq Sessions /\ lacking \subseteq Sessions /\ undeleted \subseteq Sessions

LEMMA TypeSplit == TypeOK <=> CardTyped /\ PlacesTyped /\ HistTyped
  BY DEF TypeOK, CardTyped, PlacesTyped, HistTyped

\* What the proofs need to know of the constants.
LEMMA StoreFacts ==
    /\ NFiles \in Nat /\ NFiles > 0 /\ MaxMarks \in Nat /\ NSessions \in Nat
    /\ NOld \in Nat /\ NOld <= NSessions
    /\ None \notin Sessions /\ Sessions \subseteq Nat
  BY SessionStoreAssumption DEF Sessions, None

LEMMA JsonTypes == NoJson \in Jsons /\ NewJson \in Jsons /\ BlankJson \in Jsons
  BY StoreFacts DEF NoJson, NewJson, BlankJson, Jsons

\* A session that is kept was kept before.
LEMMA KeptBefore ==
  ASSUME [Next]_vars, NEW s \in Sessions, Kept(s)'
  PROVE  Kept(s)
  BY DEF Kept, Next, RecNext, SyncNext, MarkNext, AtNext, CreateSession, OpenSessionJson,
         WriteSessionJson, SetCurrent, CreateFirstFile, CloseFile, CloseOpenFile,
         CreateNextFile, StopRecording, ReadJsonToClose, WriteJsonToClose, ReadJsonToSync,
         WriteJsonToSync, CountBookmark, AppendBookmark, Prune, Delete, BeginDelete, DeleteJson,
         DeleteFile, DeleteDirectory, PowerCut, vars

LEMMA CardTypeStep == TypeOK /\ CountInv /\ [Next]_vars => CardTyped'
<1> SUFFICES ASSUME TypeOK, CountInv, [Next]_vars PROVE CardTyped'
  OBVIOUS
<1>0. CardTyped /\ PlacesTyped /\ HistTyped
  BY TypeSplit
<1> USE <1>0, StoreFacts, JsonTypes DEF CardTyped, PlacesTyped, HistTyped
<1>1. ASSUME NEW s \in Sessions, CreateSession(s) PROVE CardTyped'
  <2>1. [NoMarks EXCEPT !.there = TRUE] \in [there : BOOLEAN, count : Nat, entries : Nat]
    BY DEF NoMarks
  <2>2. /\ marks' = marks \/ marks' = [marks EXCEPT ![s] = [NoMarks EXCEPT !.there = TRUE]]
        /\ dirs' = dirs \/ dirs' = dirs \cup {s}
        /\ UNCHANGED <<json, files>>
    BY <1>1 DEF CreateSession
  <2>3. marks' \in [Sessions -> [there : BOOLEAN, count : Nat, entries : Nat]]
    BY <2>1, <2>2
  <2>4. dirs' \subseteq Sessions
    BY <2>2
  <2> QED BY <2>2, <2>3, <2>4
<1>2. CASE OpenSessionJson
  BY <1>2 DEF OpenSessionJson
<1>3. CASE WriteSessionJson
  BY <1>3 DEF WriteSessionJson
<1>4. CASE SetCurrent
  BY <1>4 DEF SetCurrent
<1>5. CASE CreateFirstFile
  BY <1>5 DEF CreateFirstFile
<1>6. CASE CloseFile
  BY <1>6 DEF CloseFile, CloseOpenFile
<1>7. CASE CreateNextFile
  BY <1>7 DEF CreateNextFile
<1>8. CASE StopRecording
  BY <1>8 DEF StopRecording, CloseOpenFile
<1>9. CASE ReadJsonToClose
  BY <1>9 DEF ReadJsonToClose
<1>10. CASE WriteJsonToClose
  <2>1. [st |-> "done", files |-> index, synced |-> rec_synced] \in Jsons
    BY DEF Jsons
  <2> QED BY <1>10, <2>1 DEF WriteJsonToClose
<1>11. ASSUME NEW s \in Sessions, NEW n \in 1..NFiles, ReadJsonToSync(s, n) PROVE CardTyped'
  BY <1>11 DEF ReadJsonToSync
<1>12. CASE WriteJsonToSync
  <2>1. [sync_args.read EXCEPT !.synced = sync_args.n] \in Jsons
    <3>1. sync_args.read \in Jsons /\ sync_args.n \in 0..NFiles
      OBVIOUS
    <3> QED BY <3>1 DEF Jsons
  <2>2. \/ json' = json
        \/ json' = [json EXCEPT ![sync_args.s] = [sync_args.read EXCEPT !.synced = sync_args.n]]
    BY <1>12 DEF WriteJsonToSync
  <2>3. json' \in [Sessions -> Jsons]
    <3>1. CASE json' = json
      BY <3>1
    <3>2. CASE json' = [json EXCEPT ![sync_args.s] =
                           [sync_args.read EXCEPT !.synced = sync_args.n]]
      BY <2>1, <3>2
    <3> QED BY <2>2, <3>1, <3>2
  <2>4. UNCHANGED <<dirs, files, marks>>
    BY <1>12 DEF WriteJsonToSync
  <2> QED BY <2>3, <2>4
<1>13. CASE CountBookmark
  <2>1. marks[sid] \in [there : BOOLEAN, count : Nat, entries : Nat]
    BY <1>13 DEF CountBookmark, HasDir
  <2>2. [there |-> TRUE, count |-> marks[sid].count + 1, entries |-> marks[sid].entries]
           \in [there : BOOLEAN, count : Nat, entries : Nat]
    BY <2>1
  <2> QED BY <1>13, <2>2 DEF CountBookmark
<1>14. CASE AppendBookmark
  <2>1. CASE marks' = marks
    BY <1>14, <2>1 DEF AppendBookmark
  <2>2. CASE marks' = [marks EXCEPT ![mark].entries = @ + 1]
    <3>1. mark \in Sessions
      BY <1>14 DEF AppendBookmark, ToRecord
    <3>2. [marks[mark] EXCEPT !.entries = @ + 1]
             \in [there : BOOLEAN, count : Nat, entries : Nat]
      BY <3>1
    <3> QED BY <1>14, <2>2, <3>2 DEF AppendBookmark
  <2> QED BY <1>14, <2>1, <2>2 DEF AppendBookmark
<1>15. ASSUME NEW s \in Sessions, Prune(s) PROVE CardTyped'
  <2>1. NoMarks \in [there : BOOLEAN, count : Nat, entries : Nat]
    BY DEF NoMarks
  <2> QED BY <1>15, <2>1 DEF Prune, BeginDelete
<1>16. ASSUME NEW s \in Sessions, Delete(s) PROVE CardTyped'
  <2>1. NoMarks \in [there : BOOLEAN, count : Nat, entries : Nat]
    BY DEF NoMarks
  <2> QED BY <1>16, <2>1 DEF Delete, BeginDelete
<1>17. CASE DeleteJson
  BY <1>17 DEF DeleteJson
<1>18. CASE DeleteFile
  <2>1. PICK f \in files[target] : files' = [files EXCEPT ![target] = @ \ {f}]
    BY <1>18 DEF DeleteFile
  <2> QED BY <1>18, <2>1 DEF DeleteFile
<1>19. CASE DeleteDirectory
  BY <1>19 DEF DeleteDirectory
<1>20. CASE PowerCut
  <2>1. CASE marks' = marks
    BY <1>20, <2>1 DEF PowerCut
  <2>2. CASE /\ mark # None /\ marks[mark].there
             /\ marks' = [marks EXCEPT ![mark].count = @ - 1]
    <3>1. mark \in Sessions
      BY <2>2 DEF ToRecord
    <3>2. marks[mark].entries \in Nat /\ marks[mark].count \in Nat
          /\ marks[mark].entries < marks[mark].count
      BY <2>2, <3>1 DEF CountInv
    <3>3. [marks[mark] EXCEPT !.count = @ - 1]
             \in [there : BOOLEAN, count : Nat, entries : Nat]
      BY <3>1, <3>2
    <3> QED BY <1>20, <2>2, <3>3 DEF PowerCut
  <2> QED BY <1>20, <2>1, <2>2 DEF PowerCut
<1>21. CASE UNCHANGED vars
  BY <1>21 DEF vars
<1> QED
  BY <1>1, <1>2, <1>3, <1>4, <1>5, <1>6, <1>7, <1>8, <1>9, <1>10, <1>11, <1>12, <1>13, <1>14,
     <1>15, <1>16, <1>17, <1>18, <1>19, <1>20, <1>21
  DEF Next, RecNext, SyncNext, MarkNext, AtNext

LEMMA PlacesTypeStep == TypeOK /\ RecInv /\ [Next]_vars => PlacesTyped'
<1> SUFFICES ASSUME TypeOK, RecInv, [Next]_vars PROVE PlacesTyped'
  OBVIOUS
<1>0. CardTyped /\ PlacesTyped /\ HistTyped
  BY TypeSplit
<1> USE <1>0, StoreFacts, JsonTypes DEF CardTyped, PlacesTyped, HistTyped, ToRecord
<1>1. ASSUME NEW s \in Sessions, CreateSession(s) PROVE PlacesTyped'
  BY <1>1 DEF CreateSession
<1>2. CASE OpenSessionJson
  BY <1>2 DEF OpenSessionJson
<1>3. CASE WriteSessionJson
  BY <1>3 DEF WriteSessionJson
<1>4. CASE SetCurrent
  BY <1>4 DEF SetCurrent
<1>5. CASE CreateFirstFile
  BY <1>5 DEF CreateFirstFile
<1>6. CASE CloseFile
  BY <1>6 DEF CloseFile, CloseOpenFile
<1>7. CASE CreateNextFile
  BY <1>7 DEF CreateNextFile
<1>8. CASE StopRecording
  BY <1>8 DEF StopRecording, CloseOpenFile
<1>9. CASE ReadJsonToClose
  <2>1. json[sid].synced \in 0..NFiles
    <3>1. sid \in Sessions
      BY <1>9 DEF ReadJsonToClose, RecInv, ToRecord
    <3> QED BY <3>1 DEF Jsons
  <2> QED BY <1>9, <2>1 DEF ReadJsonToClose
<1>10. CASE WriteJsonToClose
  BY <1>10 DEF WriteJsonToClose
<1>11. ASSUME NEW s \in Sessions, NEW n \in 1..NFiles, ReadJsonToSync(s, n) PROVE PlacesTyped'
  BY <1>11 DEF ReadJsonToSync
<1>12. CASE WriteJsonToSync
  BY <1>12 DEF WriteJsonToSync
<1>13. CASE CountBookmark
  BY <1>13 DEF CountBookmark
<1>14. CASE AppendBookmark
  BY <1>14 DEF AppendBookmark
<1>15. ASSUME NEW s \in Sessions, Prune(s) PROVE PlacesTyped'
  BY <1>15 DEF Prune, BeginDelete
<1>16. ASSUME NEW s \in Sessions, Delete(s) PROVE PlacesTyped'
  BY <1>16 DEF Delete, BeginDelete
<1>17. CASE DeleteJson
  BY <1>17 DEF DeleteJson
<1>18. CASE DeleteFile
  BY <1>18 DEF DeleteFile
<1>19. CASE DeleteDirectory
  BY <1>19 DEF DeleteDirectory
<1>20. CASE PowerCut
  <2>1. [s |-> None, n |-> 0, read |-> NoJson] \in [s : ToRecord, n : 0..NFiles, read : Jsons]
    BY DEF ToRecord
  <2> QED BY <1>20, <2>1 DEF PowerCut
<1>21. CASE UNCHANGED vars
  BY <1>21 DEF vars
<1> QED
  BY <1>1, <1>2, <1>3, <1>4, <1>5, <1>6, <1>7, <1>8, <1>9, <1>10, <1>11, <1>12, <1>13, <1>14,
     <1>15, <1>16, <1>17, <1>18, <1>19, <1>20, <1>21
  DEF Next, RecNext, SyncNext, MarkNext, AtNext

LEMMA HistTypeStep == TypeOK /\ RecInv /\ AtInv /\ [Next]_vars => HistTyped'
<1> SUFFICES ASSUME TypeOK, RecInv, AtInv, [Next]_vars PROVE HistTyped'
  OBVIOUS
<1>0. CardTyped /\ PlacesTyped /\ HistTyped
  BY TypeSplit
<1> USE <1>0, StoreFacts DEF CardTyped, PlacesTyped, HistTyped, ToRecord, HasDir
<1>1. ASSUME NEW s \in Sessions, CreateSession(s) PROVE HistTyped'
  BY <1>1 DEF CreateSession
<1>2. CASE OpenSessionJson
  <2>1. sid \in Sessions
    BY <1>2 DEF OpenSessionJson, RecInv
  <2> QED BY <1>2, <2>1 DEF OpenSessionJson
<1>3. CASE WriteSessionJson
  BY <1>3 DEF WriteSessionJson
<1>4. CASE SetCurrent
  BY <1>4 DEF SetCurrent
<1>5. CASE CreateFirstFile
  <2>1. sid \in Sessions
    BY <1>5 DEF CreateFirstFile, RecInv
  <2> QED BY <1>5, <2>1 DEF CreateFirstFile
<1>6. CASE CloseFile
  <2>1. sid \in Sessions
    BY <1>6 DEF CloseFile, RecInv
  <2>2. recorded' = recorded \/ (open # 0 /\ recorded' = [recorded EXCEPT ![sid] = @ \cup {open}])
    BY <1>6 DEF CloseFile, CloseOpenFile
  <2>3. recorded' \in [Sessions -> SUBSET (1..NFiles)]
    <3>1. open # 0 => recorded[sid] \cup {open} \in SUBSET (1..NFiles)
      BY <2>1
    <3> QED BY <2>1, <2>2, <3>1
  <2> QED BY <1>6, <2>3 DEF CloseFile
<1>7. CASE CreateNextFile
  BY <1>7 DEF CreateNextFile
<1>8. CASE StopRecording
  <2>1. sid \in Sessions
    BY <1>8 DEF StopRecording, RecInv
  <2>2. recorded' = recorded \/ (open # 0 /\ recorded' = [recorded EXCEPT ![sid] = @ \cup {open}])
    BY <1>8 DEF StopRecording, CloseOpenFile
  <2>3. recorded' \in [Sessions -> SUBSET (1..NFiles)]
    <3>1. open # 0 => recorded[sid] \cup {open} \in SUBSET (1..NFiles)
      BY <2>1
    <3> QED BY <2>1, <2>2, <3>1
  <2> QED BY <1>8, <2>3 DEF StopRecording
<1>9. CASE ReadJsonToClose
  BY <1>9 DEF ReadJsonToClose
<1>10. CASE WriteJsonToClose
  BY <1>10 DEF WriteJsonToClose
<1>11. ASSUME NEW s \in Sessions, NEW n \in 1..NFiles, ReadJsonToSync(s, n) PROVE HistTyped'
  BY <1>11 DEF ReadJsonToSync
<1>12. CASE WriteJsonToSync
  <2>1. \/ last_synced' = last_synced
        \/ last_synced' = [last_synced EXCEPT ![sync_args.s] = sync_args.n]
    BY <1>12 DEF WriteJsonToSync
  <2> QED BY <1>12, <2>1 DEF WriteJsonToSync
<1>13. CASE CountBookmark
  BY <1>13 DEF CountBookmark
<1>14. CASE AppendBookmark
  BY <1>14 DEF AppendBookmark
<1>15. ASSUME NEW s \in Sessions, Prune(s) PROVE HistTyped'
  BY <1>15 DEF Prune, BeginDelete
<1>16. ASSUME NEW s \in Sessions, Delete(s) PROVE HistTyped'
  <2>1. /\ recorded' = [recorded EXCEPT ![s] = {}]
        /\ last_synced' = [last_synced EXCEPT ![s] = 0] /\ added' = [added EXCEPT ![s] = 0]
    BY <1>16 DEF Delete
  <2>2. /\ recorded' \in [Sessions -> SUBSET (1..NFiles)]
        /\ last_synced' \in [Sessions -> 0..NFiles] /\ added' \in [Sessions -> Nat]
    BY <2>1
  <2>3. /\ deleted' \subseteq Sessions /\ raced' \subseteq Sessions
        /\ undeleted' \subseteq Sessions /\ UNCHANGED <<gone, unmade, lacking>>
    BY <1>16 DEF Delete, BeginDelete
  <2> QED BY <2>2, <2>3
<1>17. CASE DeleteJson
  <2>1. target \in Sessions
    BY <1>17 DEF DeleteJson, AtInv
  <2> QED BY <1>17, <2>1 DEF DeleteJson
<1>18. CASE DeleteFile
  BY <1>18 DEF DeleteFile
<1>19. CASE DeleteDirectory
  <2>1. target \in Sessions
    BY <1>19 DEF DeleteDirectory, AtInv
  <2> QED BY <1>19, <2>1 DEF DeleteDirectory
<1>20. CASE PowerCut
  BY <1>20 DEF PowerCut
<1>21. CASE UNCHANGED vars
  BY <1>21 DEF vars
<1> QED
  BY <1>1, <1>2, <1>3, <1>4, <1>5, <1>6, <1>7, <1>8, <1>9, <1>10, <1>11, <1>12, <1>13, <1>14,
     <1>15, <1>16, <1>17, <1>18, <1>19, <1>20, <1>21
  DEF Next, RecNext, SyncNext, MarkNext, AtNext

----------------------------------------------------------------------------
(* The rows: what holds of each session nobody deletes. *)

\* A step that does not touch a session.
SameRow(r) ==
    /\ json'[r] = json[r] /\ files'[r] = files[r] /\ recorded'[r] = recorded[r]
    /\ last_synced'[r] = last_synced[r] /\ added'[r] = added[r]
    /\ marks'[r].entries = marks[r].entries
    /\ r \in dirs => r \in dirs'
    /\ (r \in lacking') = (r \in lacking) /\ (r \in unmade') = (r \in unmade)

SameThreads(r) ==
    /\ sid' = r => sid = r /\ rec' = rec /\ index' = index /\ open' = open
                   /\ rec_synced' = rec_synced
    /\ sync' = "write" /\ sync_args'.s = r => sync = "write" /\ sync_args' = sync_args
    /\ at' # "idle" /\ target' = r => at # "idle" /\ target = r
    /\ mark' = r => mark = r

LEMMA RowSame ==
  ASSUME NEW r \in Sessions, Row(r), SameRow(r), SameThreads(r)
  PROVE  Row(r)'
<1> USE DEF Row, SameRow, SameThreads
<1>1. SessionOK(r)'
  BY DEF SessionOK
<1>2. UnderWay(r)'
  <2>1. CASE sid' # r
    BY <2>1 DEF UnderWay
  <2>2. CASE sid' = r
    <3>1. FilesOf(r)'
      BY <2>2 DEF UnderWay, FilesOf
    <3>2. JsonOf(r)'
      BY <2>2 DEF UnderWay, JsonOf
    <3> QED BY <2>2, <3>1, <3>2 DEF UnderWay
  <2> QED BY <2>1, <2>2
<1>3. ReadOK(r)'
  BY DEF ReadOK
<1>4. TargetOK(r)' /\ MarksOK(r)'
  BY DEF TargetOK, MarksOK
<1> QED BY <1>1, <1>2, <1>3, <1>4

\* What the lemmas below know of a step and of a session it may touch.
Known(r) ==
    /\ r \in Sessions /\ Kept(r) /\ Row(r)
    /\ CardTyped /\ PlacesTyped /\ HistTyped
    /\ RecInv /\ LockInv /\ AtInv

LEMMA RowCreate ==
  ASSUME NEW r \in Sessions, Known(r), NEW s \in Sessions, CreateSession(s)
  PROVE  Row(r)'
<1>1. CASE r # s
  <2>1. SameRow(r) /\ SameThreads(r)
    BY <1>1 DEF CreateSession, SameRow, SameThreads, Known, CardTyped
  <2> QED BY <2>1, RowSame DEF Known
<1>2. CASE r = s
  <2>1. r \notin dirs /\ recorded[r] = {} /\ json[r] = NoJson /\ files[r] = {}
        /\ last_synced[r] = 0 /\ added[r] = 0 /\ marks[r].entries = 0 /\ r \notin lacking
    BY <1>2 DEF CreateSession, Used, Known, Row, SessionOK, MarksOK
  <2>2. /\ sid' = r /\ (rec' = "json" \/ (rec' = "first" /\ r \in unmade'))
        /\ marks'[r].entries = 0
        /\ UNCHANGED <<json, files, recorded, last_synced, added, sync, sync_args, at, target,
                       mark, lacking>>
    <3>1. marks' = marks \/ marks' = [marks EXCEPT ![r] = [NoMarks EXCEPT !.there = TRUE]]
      BY <1>2 DEF CreateSession
    <3>2. marks'[r].entries = 0
      BY <2>1, <3>1 DEF Known, CardTyped, NoMarks
    <3> QED BY <1>2, <3>2 DEF CreateSession
  <2>3. SessionOK(r)'
    BY <2>1, <2>2 DEF SessionOK, NoJson
  <2>4. UnderWay(r)'
    BY <2>1, <2>2 DEF UnderWay, FilesOf, JsonOf, Creating, Filling, NoJson
  <2>5. ReadOK(r)' /\ TargetOK(r)' /\ MarksOK(r)'
    BY <2>1, <2>2 DEF Known, Row, ReadOK, TargetOK, MarksOK
  <2> QED BY <2>3, <2>4, <2>5 DEF Row
<1> QED BY <1>1, <1>2

\* The steps of the audio thread touch its own session only.
Recorder ==
    \/ OpenSessionJson \/ WriteSessionJson \/ SetCurrent \/ CreateFirstFile \/ CloseFile
    \/ CreateNextFile \/ StopRecording \/ ReadJsonToClose \/ WriteJsonToClose

LEMMA RowOther ==
  ASSUME NEW r \in Sessions, Known(r), Recorder, r # sid
  PROVE  Row(r)'
<1>1. sid' \in {sid, None} /\ UNCHANGED <<sync, sync_args, at, target, mark, added>>
      /\ marks' = marks /\ dirs' = dirs /\ last_synced' = last_synced
      /\ (r \in lacking') = (r \in lacking) /\ (r \in unmade') = (r \in unmade)
  BY DEF Recorder, OpenSessionJson, WriteSessionJson, SetCurrent, CreateFirstFile, CloseFile,
         CreateNextFile, StopRecording, ReadJsonToClose, WriteJsonToClose
<1>2. json'[r] = json[r]
  BY DEF Recorder, OpenSessionJson, WriteSessionJson, SetCurrent, CreateFirstFile, CloseFile,
         CreateNextFile, StopRecording, ReadJsonToClose, WriteJsonToClose, Known, CardTyped
<1>3. files'[r] = files[r]
  BY DEF Recorder, OpenSessionJson, WriteSessionJson, SetCurrent, CreateFirstFile, CloseFile,
         CreateNextFile, StopRecording, ReadJsonToClose, WriteJsonToClose, Known, CardTyped
<1>4. recorded'[r] = recorded[r]
  BY DEF Recorder, OpenSessionJson, WriteSessionJson, SetCurrent, CreateFirstFile, CloseFile,
         CloseOpenFile, CreateNextFile, StopRecording, ReadJsonToClose, WriteJsonToClose,
         Known, HistTyped
<1>5. SameRow(r) /\ SameThreads(r)
  BY <1>1, <1>2, <1>3, <1>4, StoreFacts DEF SameRow, SameThreads
<1> QED BY <1>5, RowSame DEF Known

\* What every step of the audio thread leaves as it is.
SameOthers(r) ==
    /\ UNCHANGED <<sync, sync_args, at, target, mark, added, last_synced, dirs>>
    /\ marks'[r] = marks[r]

\* Behind a closed file all that was recorded is on the card.
LEMMA RowClosed ==
  ASSUME NEW r \in Sessions, SessionOK(r), ReadOK(r), MarksOK(r), SameOthers(r), TargetOK(r)',
         json' = json, files' = files, index' = index, lacking' = lacking, unmade' = unmade,
         rec' \in {"between", "closing"}, sid = r, sid' = r, open' = 0, index > 0,
         recorded[r] \subseteq files[r], recorded'[r] = files[r],
         r \in lacking \/ files[r] = 1..index,
         json[r].st # "done", json[r].st # "none" \/ r \in unmade
  PROVE  Row(r)'
<1>1. SessionOK(r)'
  BY DEF SessionOK, SameOthers
<1>2. FilesOf(r)'
  BY DEF FilesOf, Creating, Filling
<1>3. JsonOf(r)'
  BY DEF JsonOf, Filling
<1>4. UnderWay(r)'
  BY <1>2, <1>3 DEF UnderWay
<1>5. recorded[r] # {} => recorded'[r] # {}
  OBVIOUS
<1>6. ReadOK(r)' /\ MarksOK(r)'
  BY <1>5 DEF ReadOK, MarksOK, SameOthers
<1> QED BY <1>1, <1>4, <1>6 DEF Row

\* The steps of the audio thread on the session under way.
LEMMA RowSid ==
  ASSUME NEW r \in Sessions, Known(r), Recorder, r = sid
  PROVE  Row(r)'
<1>0. /\ sid # None /\ r \notin raced
      /\ FilesOf(r) /\ JsonOf(r) /\ SessionOK(r) /\ ReadOK(r) /\ MarksOK(r)
      /\ (at = "idle" \/ target # r)
  BY StoreFacts DEF Known, Row, UnderWay, AtInv, Kept
<1>1. SameOthers(r)
  BY DEF Recorder, OpenSessionJson, WriteSessionJson, SetCurrent, CreateFirstFile, CloseFile,
         CreateNextFile, StopRecording, ReadJsonToClose, WriteJsonToClose, SameOthers
<1>2. TargetOK(r)'
  BY <1>0, <1>1 DEF TargetOK, SameOthers
<1>3. CASE OpenSessionJson
  <2>1. /\ sid' = r /\ UNCHANGED <<files, recorded, lacking>>
        /\ files[r] = {} /\ recorded[r] = {} /\ json[r] = NoJson
        /\ \/ r \in dirs /\ json'[r] = BlankJson /\ rec' = "blank"
           \/ json' = json /\ rec' = "first" /\ r \in unmade'
    BY <1>0, <1>3 DEF OpenSessionJson, Known, CardTyped, FilesOf, JsonOf, Creating, SessionOK,
                      HasDir
  <2>2. SessionOK(r)'
    BY <1>0, <1>1, <2>1 DEF SessionOK, SameOthers, BlankJson, NoJson
  <2>3. FilesOf(r)'
    BY <2>1 DEF FilesOf, Creating, Filling
  <2>4. JsonOf(r)'
    BY <2>1 DEF JsonOf, Filling, NoJson
  <2>5. ReadOK(r)' /\ MarksOK(r)'
    BY <1>0, <1>1, <2>1 DEF ReadOK, MarksOK, SameOthers
  <2> QED BY <1>2, <2>2, <2>3, <2>4, <2>5 DEF Row, UnderWay
<1>4. CASE WriteSessionJson
  <2>0. json[r] = BlankJson /\ json[r].st = "blank" /\ json[r] # NoJson
    BY <1>0, <1>4 DEF WriteSessionJson, JsonOf, BlankJson, NoJson
  <2>1. /\ sid' = r /\ UNCHANGED <<files, recorded, lacking, unmade>>
        /\ files[r] = {} /\ recorded[r] = {}
        /\ \/ json'[r] = NewJson /\ rec' = "made"
           \/ json' = json /\ rec' = "first"
    BY <1>0, <1>4, <2>0 DEF WriteSessionJson, Known, CardTyped, FilesOf, Creating, SessionOK
  <2>2. r \in dirs /\ last_synced[r] = 0
    BY <1>0, <2>0, <2>1 DEF SessionOK
  <2>3. SessionOK(r)'
    BY <1>0, <1>1, <2>1, <2>2 DEF SessionOK, SameOthers, NewJson
  <2>4. FilesOf(r)'
    BY <2>1 DEF FilesOf, Creating, Filling
  <2>5. JsonOf(r)'
    BY <2>0, <2>1 DEF JsonOf, Filling, NewJson
  <2>6. ReadOK(r)' /\ MarksOK(r)'
    BY <1>0, <1>1, <2>1 DEF ReadOK, MarksOK, SameOthers
  <2> QED BY <1>2, <2>3, <2>4, <2>5, <2>6 DEF Row, UnderWay
<1>5. CASE SetCurrent
  <2>1. /\ rec = "made" /\ rec' = "first" /\ sid' = r
        /\ UNCHANGED <<json, files, recorded, lacking, unmade>>
    BY <1>5 DEF SetCurrent
  <2>2. SessionOK(r)'
    BY <1>0, <1>1, <2>1 DEF SessionOK, SameOthers
  <2>3. UnderWay(r)'
    BY <1>0, <1>1, <2>1 DEF UnderWay, FilesOf, JsonOf, Creating, Filling
  <2>4. ReadOK(r)' /\ MarksOK(r)'
    BY <1>0, <1>1, <2>1 DEF ReadOK, MarksOK, SameOthers
  <2> QED BY <1>2, <2>2, <2>3, <2>4 DEF Row
<1>6. CASE CreateFirstFile
  <2>1. /\ index' = 1 /\ rec' = "on" /\ sid' = r /\ UNCHANGED <<json, recorded, unmade>>
        /\ files[r] = {} /\ recorded[r] = {} /\ open = 0
        /\ json[r].st # "done" /\ (json[r].st # "none" \/ r \in unmade)
    BY <1>0, <1>6 DEF CreateFirstFile, Known, RecInv, FilesOf, JsonOf, Creating, SessionOK
  <2>2. \/ files'[r] = {1} /\ open' = 1 /\ lacking' = lacking /\ r \in dirs
        \/ files' = files /\ open' = open /\ r \in lacking'
    BY <1>6, <2>1 DEF CreateFirstFile, Known, CardTyped, HasDir
  <2>3. {1} = 1..1
    OBVIOUS
  <2>4. SessionOK(r)'
    BY <1>0, <1>1, <2>1, <2>2 DEF SessionOK, SameOthers
  <2>5. FilesOf(r)'
    BY <2>1, <2>2, <2>3 DEF FilesOf, Creating, Filling
  <2>6. JsonOf(r)'
    BY <2>1 DEF JsonOf, Filling
  <2>7. ReadOK(r)' /\ MarksOK(r)'
    BY <1>0, <1>1, <2>1, <2>2 DEF ReadOK, MarksOK, SameOthers
  <2> QED BY <1>2, <2>4, <2>5, <2>6, <2>7 DEF Row, UnderWay
<1>. DEFINE Same == /\ sid' = r /\ UNCHANGED <<json, files, index, lacking, unmade>>
                    /\ index > 0 /\ (r \in lacking \/ files[r] = 1..index)
                    /\ json[r].st # "done" /\ (json[r].st # "none" \/ r \in unmade)
                    /\ recorded[r] \subseteq files[r]
<1>7. CASE CloseFile \/ StopRecording
  <2>1. Same /\ rec' \in {"between", "closing"} /\ open' = 0
    BY <1>0, <1>7
    DEF CloseFile, StopRecording, CloseOpenFile, FilesOf, JsonOf, Filling, SessionOK
  <2>2. recorded'[r] = files[r]
    <3>1. files[r] = recorded[r] \cup (IF open = 0 THEN {} ELSE {open})
      BY <1>0, <1>7 DEF CloseFile, StopRecording, FilesOf, Filling
    <3>2. recorded' = IF open = 0 THEN recorded ELSE [recorded EXCEPT ![r] = @ \cup {open}]
      BY <1>7 DEF CloseFile, StopRecording, CloseOpenFile
    <3> QED BY <3>1, <3>2 DEF Known, HistTyped
  <2> QED BY <1>0, <1>1, <1>2, <2>1, <2>2, RowClosed
<1>8. CASE CreateNextFile
  <2>1. /\ rec' = "on" /\ sid' = r /\ UNCHANGED <<json, recorded, lacking, unmade>>
        /\ open = 0 /\ index > 0 /\ index \in Nat /\ files[r] = recorded[r]
        /\ (r \in lacking \/ files[r] = 1..index)
        /\ json[r].st # "done" /\ (json[r].st # "none" \/ r \in unmade)
    <3>1. rec \in Filling /\ rec' = "on" /\ sid' = r
          /\ UNCHANGED <<json, recorded, lacking, unmade>>
      BY <1>8 DEF CreateNextFile, Filling
    <3>2. open = 0 /\ index \in Nat
      BY <1>8 DEF CreateNextFile, Known, RecInv, PlacesTyped
    <3>3. index > 0 /\ files[r] = recorded[r] /\ (r \in lacking \/ files[r] = 1..index)
      BY <1>0, <3>1, <3>2 DEF FilesOf
    <3> QED BY <1>0, <3>1, <3>2, <3>3 DEF JsonOf
  <2>2. CASE files' = files /\ open' = open /\ index' = index
    <3>1. SessionOK(r)'
      BY <1>0, <1>1, <2>1, <2>2 DEF SessionOK, SameOthers
    <3>2. FilesOf(r)'
      BY <2>1, <2>2 DEF FilesOf, Creating, Filling
    <3>3. JsonOf(r)'
      BY <2>1 DEF JsonOf, Filling
    <3>4. ReadOK(r)' /\ MarksOK(r)'
      BY <1>0, <1>1, <2>1, <2>2 DEF ReadOK, MarksOK, SameOthers
    <3> QED BY <1>2, <3>1, <3>2, <3>3, <3>4 DEF Row, UnderWay
  <2>3. CASE r \in dirs /\ index' = index + 1 /\ open' = index + 1
             /\ files' = [files EXCEPT ![r] = @ \cup {index + 1}]
    <3>1. files'[r] = files[r] \cup {index + 1}
      BY <2>3 DEF Known, CardTyped
    <3>2. (r \in lacking \/ files'[r] = 1..(index + 1)) /\ files'[r] # {}
      BY <2>1, <3>1
    <3>3. SessionOK(r)'
      BY <1>0, <1>1, <2>1, <2>3, <3>1 DEF SessionOK, SameOthers
    <3>4. FilesOf(r)'
      BY <2>1, <2>3, <3>1, <3>2 DEF FilesOf, Creating, Filling
    <3>5. JsonOf(r)'
      BY <2>1 DEF JsonOf, Filling
    <3>6. ReadOK(r)' /\ MarksOK(r)'
      BY <1>0, <1>1, <2>1, <3>2 DEF ReadOK, MarksOK, SameOthers
    <3> QED BY <1>2, <3>3, <3>4, <3>5, <3>6 DEF Row, UnderWay
  <2> QED BY <1>8, <2>2, <2>3 DEF CreateNextFile, HasDir
<1>9. CASE ReadJsonToClose
  <2>1. /\ rec = "closing" /\ rec' = "writing" /\ sid' = r /\ rec_synced' = json[r].synced
        /\ UNCHANGED <<json, files, recorded, index, open, lacking, unmade>>
    BY <1>9 DEF ReadJsonToClose
  <2>2. SessionOK(r)'
    BY <1>0, <1>1, <2>1 DEF SessionOK, SameOthers
  <2>3. FilesOf(r)'
    BY <1>0, <2>1 DEF FilesOf, Creating, Filling
  <2>4. JsonOf(r)'
    BY <1>0, <2>1 DEF JsonOf, Filling
  <2>5. ReadOK(r)' /\ MarksOK(r)'
    BY <1>0, <1>1, <2>1 DEF ReadOK, MarksOK, SameOthers
  <2> QED BY <1>2, <2>2, <2>3, <2>4, <2>5 DEF Row, UnderWay
<1>10. CASE WriteJsonToClose
  <2>1. /\ rec = "writing" /\ sid' = None /\ sync # "write"
        /\ UNCHANGED <<files, recorded, lacking>>
        /\ \/ json' = json /\ unmade' = unmade
           \/ json'[r] = [st |-> "done", files |-> index, synced |-> rec_synced] /\ r \in dirs
    BY <1>10 DEF WriteJsonToClose, Known, CardTyped, LockInv, HasDir
  <2>2. /\ index > 0 /\ index \in Nat /\ files[r] = recorded[r]
        /\ (r \in lacking \/ files[r] = 1..index)
        /\ json[r].st # "done" /\ (json[r].st # "none" \/ r \in unmade)
        /\ rec_synced = json[r].synced
    <3>1. open = 0 /\ index \in Nat
      BY <2>1 DEF Known, RecInv, PlacesTyped
    <3>2. index > 0 /\ files[r] = recorded[r] /\ (r \in lacking \/ files[r] = 1..index)
      BY <1>0, <2>1, <3>1 DEF FilesOf, Filling
    <3> QED BY <1>0, <2>1, <3>1, <3>2 DEF JsonOf, Filling
  <2>3. Cardinality(1..index) = index
    <3>1. Cardinality(1..index) = (index - 1) + 1
      BY <2>2, FS_Interval
    <3> QED BY <2>2, <3>1
  <2>4. SessionOK(r)'
    BY <1>0, <1>1, <2>1, <2>2, <2>3 DEF SessionOK, SameOthers
  <2>5. UnderWay(r)'
    BY <2>1, StoreFacts DEF UnderWay
  <2>6. ReadOK(r)' /\ MarksOK(r)'
    BY <1>0, <1>1, <2>1, StoreFacts DEF ReadOK, MarksOK, SameOthers
  <2> QED BY <1>2, <2>4, <2>5, <2>6 DEF Row
<1> QED BY <1>3, <1>4, <1>5, <1>6, <1>7, <1>8, <1>9, <1>10 DEF Recorder

\* The transfer thread writes back what it has read, and only for a session
\* with closed files.
LEMMA RowSync ==
  ASSUME NEW r \in Sessions, Known(r), NEW s \in Sessions, NEW n \in 1..NFiles,
         ReadJsonToSync(s, n)
  PROVE  Row(r)'
<1>0. UNCHANGED <<dirs, json, files, marks, recVars, mark, atVars, histVars>>
      /\ sync_args' = [s |-> s, n |-> n, read |-> json[s]] /\ recorded[s] # {}
  BY DEF ReadJsonToSync
<1>1. CASE r # s
  <2>1. SameRow(r) /\ SameThreads(r)
    BY <1>0, <1>1 DEF SameRow, SameThreads
  <2> QED BY <2>1, RowSame DEF Known
<1>2. CASE r = s
  <2>1. SessionOK(r)'
    BY <1>0 DEF SessionOK, Known, Row
  <2>2. UnderWay(r)'
    <3>1. CASE sid = r
      BY <1>0, <3>1 DEF UnderWay, FilesOf, JsonOf, Known, Row
    <3>2. CASE sid # r
      BY <1>0, <3>2 DEF UnderWay
    <3> QED BY <3>1, <3>2
  <2>3. ReadOK(r)'
    BY <1>0, <1>2 DEF ReadOK
  <2>4. TargetOK(r)' /\ MarksOK(r)'
    BY <1>0 DEF TargetOK, MarksOK, Known, Row
  <2> QED BY <2>1, <2>2, <2>3, <2>4 DEF Row
<1> QED BY <1>1, <1>2

LEMMA RowSaved ==
  ASSUME NEW r \in Sessions, Known(r), WriteJsonToSync
  PROVE  Row(r)'
<1>0. /\ UNCHANGED <<dirs, files, marks, recVars, mark, atVars, recorded, added, failVars>>
      /\ sync = "write" /\ sync' = "idle"
  BY DEF WriteJsonToSync
<1>1. CASE json'[r] = json[r] /\ last_synced'[r] = last_synced[r]
  <2>1. SameRow(r) /\ SameThreads(r)
    BY <1>0, <1>1 DEF SameRow, SameThreads
  <2> QED BY <2>1, RowSame DEF Known
<1>2. CASE ~(json'[r] = json[r] /\ last_synced'[r] = last_synced[r])
  <2>1. /\ sync_args.s = r
        /\ json' = [json EXCEPT ![r] = [sync_args.read EXCEPT !.synced = sync_args.n]]
        /\ last_synced' = [last_synced EXCEPT ![r] = sync_args.n]
        /\ sync_args.read.st # "blank" /\ json[r].st # "none"
    BY <1>2 DEF WriteJsonToSync, Known, CardTyped, HistTyped
  <2>2. recorded[r] # {} /\ json[r] = sync_args.read /\ json[r] \in Jsons /\ rec # "writing"
        /\ SessionOK(r) /\ files[r] # {}
    BY <1>0, <2>1 DEF Known, Row, ReadOK, CardTyped, LockInv, SessionOK
  <2>3. /\ json'[r].st = json[r].st /\ json'[r].files = json[r].files
        /\ json'[r].synced = last_synced'[r] /\ recorded'[r] # {}
    BY <1>0, <2>1, <2>2 DEF Known, CardTyped, HistTyped, Jsons
  <2>4. SessionOK(r)'
    BY <1>0, <2>1, <2>2, <2>3 DEF SessionOK
  <2>5. UnderWay(r)'
    <3>1. CASE sid = r
      <4>1. FilesOf(r) /\ JsonOf(r)
        BY <3>1 DEF UnderWay, Known, Row
      <4>2. rec \notin Creating
        BY <2>2, <4>1 DEF FilesOf
      <4>3. FilesOf(r)'
        BY <1>0, <4>1 DEF FilesOf
      <4>4. JsonOf(r)'
        BY <1>0, <2>2, <2>3, <4>1, <4>2 DEF JsonOf, Creating
      <4> QED BY <1>0, <4>1, <4>3, <4>4 DEF UnderWay
    <3>2. CASE sid # r
      BY <1>0, <3>2 DEF UnderWay
    <3> QED BY <3>1, <3>2
  <2>6. ReadOK(r)' /\ TargetOK(r)' /\ MarksOK(r)'
    BY <1>0 DEF ReadOK, TargetOK, MarksOK, Known, Row
  <2> QED BY <2>4, <2>5, <2>6 DEF Row
<1> QED BY <1>1, <1>2

\* What a step keeps of a session if all it touches are its bookmarks.
LEMMA RowOfMarks ==
  ASSUME NEW r \in Sessions, Row(r), MarksOK(r)',
         UNCHANGED <<dirs, json, files, recVars, syncVars, atVars, recorded, last_synced,
                     failVars>>
  PROVE  Row(r)'
<1>1. SessionOK(r)' /\ ReadOK(r)' /\ TargetOK(r)'
  BY DEF SessionOK, ReadOK, TargetOK, Row
<1>2. UnderWay(r)'
  <2>1. CASE sid = r
    BY <2>1 DEF UnderWay, FilesOf, JsonOf, Row
  <2>2. CASE sid # r
    BY <2>2 DEF UnderWay
  <2> QED BY <2>1, <2>2
<1> QED BY <1>1, <1>2 DEF Row

LEMMA RowCount ==
  ASSUME NEW r \in Sessions, Known(r), CountBookmark
  PROVE  Row(r)'
<1>0. UNCHANGED <<dirs, json, files, recVars, syncVars, atVars, recorded, last_synced, added,
                   failVars>>
      /\ mark' = sid /\ MarksOK(r)
  BY DEF CountBookmark, Known, Row
<1>1. marks'[r].entries = marks[r].entries
  BY DEF CountBookmark, Known, CardTyped
<1>2. r = sid /\ r \notin lacking => files[r] # {}
  <2> SUFFICES ASSUME r = sid, r \notin lacking PROVE files[r] # {}
    OBVIOUS
  <2>1. index \in Nat /\ index > 0 /\ files[r] = 1..index
    BY StoreFacts DEF CountBookmark, Known, Row, UnderWay, FilesOf, Filling, PlacesTyped
  <2>2. 1 \in 1..index
    BY <2>1
  <2> QED BY <2>1, <2>2
<1>3. MarksOK(r)'
  BY <1>0, <1>1, <1>2 DEF MarksOK
<1> QED BY <1>0, <1>3, RowOfMarks DEF Known

LEMMA RowAppend ==
  ASSUME NEW r \in Sessions, Known(r), AppendBookmark
  PROVE  Row(r)'
<1>0. UNCHANGED <<dirs, json, files, recVars, syncVars, atVars, recorded, last_synced, failVars>>
      /\ mark' = None /\ mark # None /\ MarksOK(r) /\ r # None
  BY StoreFacts DEF AppendBookmark, Known, Row
<1>1. CASE marks'[r].entries = marks[r].entries /\ added'[r] = added[r]
  <2>1. MarksOK(r)'
    BY <1>0, <1>1 DEF MarksOK
  <2> QED BY <1>0, <2>1, RowOfMarks DEF Known
<1>2. CASE ~(marks'[r].entries = marks[r].entries /\ added'[r] = added[r])
  <2>1. /\ mark = r
        /\ marks' = [marks EXCEPT ![r].entries = @ + 1]
        /\ added' = [added EXCEPT ![r] = @ + 1]
    BY <1>2 DEF AppendBookmark, Known, CardTyped, HistTyped
  <2>2. marks'[r].entries = marks[r].entries + 1 /\ added'[r] = added[r] + 1
    BY <2>1 DEF Known, CardTyped, HistTyped
  <2>3. MarksOK(r)'
    BY <1>0, <2>1, <2>2 DEF MarksOK
  <2> QED BY <1>0, <2>3, RowOfMarks DEF Known
<1> QED BY <1>1, <1>2

\* A step of the AT server on another session.
LEMMA RowElse ==
  ASSUME NEW r \in Sessions, Known(r), SameRow(r),
         UNCHANGED <<recVars, syncVars, mark>>, at' = "idle" \/ target' # r
  PROVE  Row(r)'
<1>1. SameThreads(r)
  BY DEF SameThreads
<1> QED BY <1>1, RowSame DEF Known

\* LIST takes a session away only if it holds nothing.
LEMMA RowPrune ==
  ASSUME NEW r \in Sessions, Known(r), Kept(r)', NEW s \in Sessions, Prune(s)
  PROVE  Row(r)'
<1>0. UNCHANGED <<dirs, json, files, recVars, syncVars, mark, recorded, last_synced, added,
                   lacking, unmade>>
      /\ (marks' = marks \/ marks' = [marks EXCEPT ![s] = NoMarks])
      /\ target' = s /\ (s = sid => s \in raced')
  BY DEF Prune, BeginDelete
<1>1. CASE r # s
  <2>1. SameRow(r)
    BY <1>0, <1>1 DEF SameRow, Known, CardTyped
  <2> QED BY <1>0, <1>1, <2>1, RowElse
<1>2. CASE r = s
  <2>1. sid # r
    BY <1>0, <1>2 DEF Kept
  <2>2. files[r] = {}
    <3>1. json[r].files \in Nat /\ files[r] \in SUBSET (1..NFiles)
      BY StoreFacts DEF Known, CardTyped, Jsons
    <3>2. IsFiniteSet(files[r])
      <4>1. 1 \in Int /\ NFiles \in Int
        BY StoreFacts
      <4>2. IsFiniteSet(1..NFiles)
        BY <4>1, FS_Interval
      <4> QED BY <3>1, <4>2, FS_Subset
    <3>3. Cardinality(files[r]) = 0
      BY <1>2, <3>1 DEF Prune, GetSessionInfo
    <3> QED BY <3>2, <3>3, FS_EmptySet
  <2>3. marks'[r].entries = 0 \/ marks' = marks
    BY <1>0, <1>2 DEF NoMarks, Known, CardTyped
  <2>4. SessionOK(r)' /\ ReadOK(r)'
    BY <1>0 DEF SessionOK, ReadOK, Known, Row
  <2>5. UnderWay(r)' /\ TargetOK(r)'
    BY <1>0, <2>1, <2>2 DEF UnderWay, TargetOK
  <2>6. MarksOK(r)'
    BY <1>0, <2>1, <2>2, <2>3 DEF MarksOK, Known, Row
  <2> QED BY <2>4, <2>5, <2>6 DEF Row
<1> QED BY <1>1, <1>2

LEMMA RowDelete ==
  ASSUME NEW r \in Sessions, Known(r), Kept(r)', NEW s \in Sessions, Delete(s)
  PROVE  Row(r)'
<1>1. r # s /\ target' = s
  BY DEF Delete, BeginDelete, Kept
<1>2. SameRow(r) /\ UNCHANGED <<recVars, syncVars, mark>>
  BY <1>1 DEF Delete, BeginDelete, SameRow, Known, CardTyped, HistTyped
<1> QED BY <1>1, <1>2, RowElse

\* A session under deletion that is kept is empty.
LEMMA RowTarget ==
  ASSUME NEW r \in Sessions, Known(r), at # "idle", target = r
  PROVE  /\ files[r] = {} /\ recorded[r] = {} /\ last_synced[r] = 0
         /\ sid # r /\ ~(sync = "write" /\ sync_args.s = r)
<1>1. files[r] = {} /\ recorded[r] = {} /\ last_synced[r] = 0
  BY DEF Known, Row, TargetOK, SessionOK
<1>2. sid # r
  BY DEF Known, AtInv, Kept
<1>3. ~(sync = "write" /\ sync_args.s = r)
  BY <1>1 DEF Known, Row, ReadOK
<1> QED BY <1>1, <1>2, <1>3

LEMMA RowDeleteJson ==
  ASSUME NEW r \in Sessions, Known(r), DeleteJson
  PROVE  Row(r)'
<1>0. UNCHANGED <<dirs, files, marks, recVars, syncVars, mark, target, recorded, last_synced,
                   added, unmade, lacking>>
      /\ (json' = json \/ json' = [json EXCEPT ![target] = NoJson]) /\ at = "json"
  BY DEF DeleteJson
<1>1. CASE r # target \/ json' = json
  <2>1. SameRow(r)
    BY <1>0, <1>1 DEF SameRow, Known, CardTyped
  <2>2. SameThreads(r)
    BY <1>0 DEF SameThreads
  <2> QED BY <2>1, <2>2, RowSame DEF Known
<1>2. CASE r = target /\ json' = [json EXCEPT ![target] = NoJson]
  <2>1. json'[r] = NoJson
    BY <1>2 DEF Known, CardTyped
  <2>2. /\ files[r] = {} /\ recorded[r] = {} /\ last_synced[r] = 0
        /\ sid # r /\ ~(sync = "write" /\ sync_args.s = r)
    BY <1>0, <1>2, RowTarget
  <2>3. SessionOK(r)'
    BY <1>0, <2>1, <2>2 DEF SessionOK, NoJson
  <2>4. UnderWay(r)' /\ ReadOK(r)' /\ TargetOK(r)'
    BY <1>0, <2>2 DEF UnderWay, ReadOK, TargetOK
  <2>5. MarksOK(r)'
    BY <1>0 DEF MarksOK, Known, Row
  <2> QED BY <2>3, <2>4, <2>5 DEF Row
<1> QED BY <1>0, <1>1, <1>2

LEMMA RowDeleteFile ==
  ASSUME NEW r \in Sessions, Known(r), DeleteFile
  PROVE  Row(r)'
<1>1. r # target
  BY RowTarget DEF DeleteFile
<1>2. PICK f : files' = [files EXCEPT ![target] = @ \ {f}]
  BY DEF DeleteFile
<1>3. SameRow(r) /\ UNCHANGED <<recVars, syncVars, mark, target>>
  BY <1>1, <1>2 DEF DeleteFile, SameRow, Known, CardTyped
<1> QED BY <1>1, <1>3, RowElse

LEMMA RowDeleteDirectory ==
  ASSUME NEW r \in Sessions, Known(r), DeleteDirectory
  PROVE  Row(r)'
<1>0. UNCHANGED <<json, files, marks, recVars, syncVars, mark, recorded, last_synced, added,
                   unmade, lacking>>
      /\ at' = "idle" /\ at = "files"
      /\ (dirs' = dirs \/ (dirs' = dirs \ {target} /\ json[target].st = "none"))
  BY DEF DeleteDirectory
<1>1. CASE r # target \/ dirs' = dirs
  <2>1. SameRow(r)
    BY <1>0, <1>1 DEF SameRow
  <2> QED BY <1>0, <2>1, RowElse
<1>2. CASE r = target /\ dirs' = dirs \ {target} /\ json[target].st = "none"
  <2>1. /\ files[r] = {} /\ recorded[r] = {} /\ last_synced[r] = 0
        /\ sid # r /\ json[r] = NoJson
    BY <1>0, <1>2, RowTarget DEF Known, Row, SessionOK
  <2>2. SessionOK(r)'
    BY <1>0, <2>1 DEF SessionOK, NoJson
  <2>3. UnderWay(r)' /\ ReadOK(r)' /\ TargetOK(r)' /\ MarksOK(r)'
    BY <1>0, <2>1 DEF UnderWay, ReadOK, TargetOK, MarksOK, Known, Row
  <2> QED BY <2>2, <2>3 DEF Row
<1> QED BY <1>0, <1>1, <1>2

LEMMA RowPowerCut ==
  ASSUME NEW r \in Sessions, Known(r), PowerCut
  PROVE  Row(r)'
<1>1. marks'[r].entries = marks[r].entries
  BY DEF PowerCut, Known, CardTyped
<1>2. SameRow(r)
  BY <1>1 DEF PowerCut, SameRow
<1>3. SameThreads(r)
  BY StoreFacts DEF PowerCut, SameThreads
<1> QED BY <1>2, <1>3, RowSame DEF Known

LEMMA RowStep ==
  ASSUME StoreInv, [Next]_vars
  PROVE  RowInv'
<1> SUFFICES ASSUME NEW r \in Sessions, Kept(r)' PROVE Row(r)'
  BY DEF RowInv
<1>0. Known(r)
  BY KeptBefore, TypeSplit DEF Known, StoreInv, RowInv
<1>1. CASE RecNext
  <2>1. CASE Recorder
    BY <1>0, <2>1, RowOther, RowSid
  <2>2. CASE \E s \in Sessions : CreateSession(s)
    BY <1>0, <2>2, RowCreate
  <2> QED BY <1>1, <2>1, <2>2 DEF RecNext, Recorder
<1>2. CASE SyncNext
  BY <1>0, <1>2, RowSync, RowSaved DEF SyncNext
<1>3. CASE MarkNext
  BY <1>0, <1>3, RowCount, RowAppend DEF MarkNext
<1>4. CASE AtNext
  BY <1>0, <1>4, RowPrune, RowDelete, RowDeleteJson, RowDeleteFile, RowDeleteDirectory
  DEF AtNext
<1>5. CASE PowerCut
  BY <1>0, <1>5, RowPowerCut
<1>6. CASE UNCHANGED vars
  <2>1. SameRow(r) /\ SameThreads(r)
    BY <1>6 DEF vars, SameRow, SameThreads
  <2> QED BY <1>0, <2>1, RowSame DEF Known
<1> QED BY <1>1, <1>2, <1>3, <1>4, <1>5, <1>6 DEF Next

----------------------------------------------------------------------------
(* The other parts of the invariant. *)

LEMMA RecStep ==
  ASSUME RecInv, [Next]_vars
  PROVE  RecInv'
<1> USE StoreFacts DEF RecInv, Creating
<1>1. ASSUME NEW s \in Sessions, CreateSession(s) PROVE RecInv'
  BY <1>1 DEF CreateSession
<1>2. CASE OpenSessionJson
  BY <1>2 DEF OpenSessionJson
<1>3. CASE WriteSessionJson
  BY <1>3 DEF WriteSessionJson
<1>4. CASE SetCurrent
  BY <1>4 DEF SetCurrent
<1>5. CASE CreateFirstFile
  BY <1>5 DEF CreateFirstFile
<1>6. CASE CloseFile
  BY <1>6 DEF CloseFile, CloseOpenFile
<1>7. CASE CreateNextFile
  BY <1>7 DEF CreateNextFile
<1>8. CASE StopRecording
  BY <1>8 DEF StopRecording, CloseOpenFile
<1>9. CASE ReadJsonToClose
  BY <1>9 DEF ReadJsonToClose
<1>10. CASE WriteJsonToClose
  BY <1>10 DEF WriteJsonToClose
<1>11. ASSUME NEW s \in Sessions, NEW n \in 1..NFiles, ReadJsonToSync(s, n) PROVE RecInv'
  BY <1>11 DEF ReadJsonToSync
<1>12. CASE WriteJsonToSync
  BY <1>12 DEF WriteJsonToSync
<1>13. CASE CountBookmark
  BY <1>13 DEF CountBookmark
<1>14. CASE AppendBookmark
  BY <1>14 DEF AppendBookmark
<1>15. ASSUME NEW s \in Sessions, Prune(s) PROVE RecInv'
  BY <1>15 DEF Prune, BeginDelete
<1>16. ASSUME NEW s \in Sessions, Delete(s) PROVE RecInv'
  BY <1>16 DEF Delete, BeginDelete
<1>17. CASE DeleteJson
  BY <1>17 DEF DeleteJson
<1>18. CASE DeleteFile
  BY <1>18 DEF DeleteFile
<1>19. CASE DeleteDirectory
  BY <1>19 DEF DeleteDirectory
<1>20. CASE PowerCut
  BY <1>20 DEF PowerCut
<1>21. CASE UNCHANGED vars
  BY <1>21 DEF vars
<1> QED
  BY <1>1, <1>2, <1>3, <1>4, <1>5, <1>6, <1>7, <1>8, <1>9, <1>10, <1>11,
     <1>12, <1>13, <1>14, <1>15, <1>16, <1>17, <1>18, <1>19, <1>20, <1>21
  DEF Next, RecNext, SyncNext, MarkNext, AtNext

LEMMA LockStep ==
  ASSUME PlacesTyped, LockInv, [Next]_vars
  PROVE  LockInv'
<1> USE DEF LockInv, PlacesTyped
<1>1. ASSUME NEW s \in Sessions, CreateSession(s) PROVE LockInv'
  BY <1>1 DEF CreateSession
<1>2. CASE OpenSessionJson
  BY <1>2 DEF OpenSessionJson
<1>3. CASE WriteSessionJson
  BY <1>3 DEF WriteSessionJson
<1>4. CASE SetCurrent
  BY <1>4 DEF SetCurrent
<1>5. CASE CreateFirstFile
  BY <1>5 DEF CreateFirstFile
<1>6. CASE CloseFile
  BY <1>6 DEF CloseFile, CloseOpenFile
<1>7. CASE CreateNextFile
  BY <1>7 DEF CreateNextFile
<1>8. CASE StopRecording
  BY <1>8 DEF StopRecording, CloseOpenFile
<1>9. CASE ReadJsonToClose
  BY <1>9 DEF ReadJsonToClose
<1>10. CASE WriteJsonToClose
  BY <1>10 DEF WriteJsonToClose
<1>11. ASSUME NEW s \in Sessions, NEW n \in 1..NFiles, ReadJsonToSync(s, n) PROVE LockInv'
  BY <1>11 DEF ReadJsonToSync
<1>12. CASE WriteJsonToSync
  BY <1>12 DEF WriteJsonToSync
<1>13. CASE CountBookmark
  BY <1>13 DEF CountBookmark
<1>14. CASE AppendBookmark
  BY <1>14 DEF AppendBookmark
<1>15. ASSUME NEW s \in Sessions, Prune(s) PROVE LockInv'
  BY <1>15 DEF Prune, BeginDelete
<1>16. ASSUME NEW s \in Sessions, Delete(s) PROVE LockInv'
  BY <1>16 DEF Delete, BeginDelete
<1>17. CASE DeleteJson
  BY <1>17 DEF DeleteJson
<1>18. CASE DeleteFile
  BY <1>18 DEF DeleteFile
<1>19. CASE DeleteDirectory
  BY <1>19 DEF DeleteDirectory
<1>20. CASE PowerCut
  BY <1>20 DEF PowerCut
<1>21. CASE UNCHANGED vars
  BY <1>21 DEF vars
<1> QED
  BY <1>1, <1>2, <1>3, <1>4, <1>5, <1>6, <1>7, <1>8, <1>9, <1>10, <1>11,
     <1>12, <1>13, <1>14, <1>15, <1>16, <1>17, <1>18, <1>19, <1>20, <1>21
  DEF Next, RecNext, SyncNext, MarkNext, AtNext

LEMMA AtStep ==
  ASSUME TypeOK, RecInv, AtInv, [Next]_vars
  PROVE  AtInv'
<1>0. CardTyped /\ PlacesTyped /\ HistTyped
  BY TypeSplit
<1> USE <1>0, StoreFacts DEF AtInv, CardTyped, PlacesTyped, HistTyped
<1>1. ASSUME NEW s \in Sessions, CreateSession(s) PROVE AtInv'
  BY <1>1 DEF CreateSession, Used, NoMarks
<1>2. CASE OpenSessionJson
  <2>1. UNCHANGED <<dirs, marks, sid, at, target, pruning, deleted, raced, undeleted>>
        /\ (json' = json \/ json' = [json EXCEPT ![sid] = BlankJson])
    BY <1>2 DEF OpenSessionJson
  <2> QED BY <2>1
<1>3. CASE WriteSessionJson
  BY <1>3 DEF WriteSessionJson
<1>4. CASE SetCurrent
  BY <1>4 DEF SetCurrent
<1>5. CASE CreateFirstFile
  BY <1>5 DEF CreateFirstFile
<1>6. CASE CloseFile
  BY <1>6 DEF CloseFile, CloseOpenFile
<1>7. CASE CreateNextFile
  BY <1>7 DEF CreateNextFile
<1>8. CASE StopRecording
  BY <1>8 DEF StopRecording, CloseOpenFile
<1>9. CASE ReadJsonToClose
  BY <1>9 DEF ReadJsonToClose
<1>10. CASE WriteJsonToClose
  BY <1>10 DEF WriteJsonToClose
<1>11. ASSUME NEW s \in Sessions, NEW n \in 1..NFiles, ReadJsonToSync(s, n) PROVE AtInv'
  BY <1>11 DEF ReadJsonToSync
<1>12. CASE WriteJsonToSync
  <2>1. UNCHANGED <<dirs, marks, sid, at, target, pruning, deleted, raced, undeleted>>
    BY <1>12 DEF WriteJsonToSync
  <2>2. at # "idle" /\ json[target].st = "none" => json'[target] = json[target]
    BY <1>12 DEF WriteJsonToSync
  <2> QED BY <2>1, <2>2
<1>13. CASE CountBookmark
  <2>1. sid \in Sessions
    BY <1>13 DEF CountBookmark, HasDir
  <2> QED BY <1>13, <2>1 DEF CountBookmark
<1>14. CASE AppendBookmark
  <2>1. UNCHANGED <<dirs, json, sid, at, target, pruning, deleted, raced, undeleted>>
    BY <1>14 DEF AppendBookmark
  <2>2. \A s \in Sessions : marks'[s].there = marks[s].there
    <3>1. marks' = marks \/ marks' = [marks EXCEPT ![mark].entries = @ + 1]
      BY <1>14 DEF AppendBookmark
    <3>2. CASE marks' = marks
      BY <3>2
    <3>3. CASE marks' = [marks EXCEPT ![mark].entries = @ + 1]
      BY <3>3
    <3> QED BY <3>1, <3>2, <3>3
  <2> QED BY <2>1, <2>2
<1>15. ASSUME NEW s \in Sessions, Prune(s) PROVE AtInv'
  <2>1. /\ marks' = [marks EXCEPT ![s] = NoMarks] \/ s \in undeleted'
        /\ s \in dirs /\ s \in dirs' /\ target' = s /\ pruning' /\ at' = "json"
        /\ sid' = sid /\ (s = sid => s \in raced')
    BY <1>15 DEF Prune, BeginDelete, Listed
  <2> QED BY <2>1 DEF NoMarks
<1>16. ASSUME NEW s \in Sessions, Delete(s) PROVE AtInv'
  <2>1. /\ marks' = [marks EXCEPT ![s] = NoMarks] \/ s \in undeleted'
        /\ s \in deleted' /\ target' = s /\ at' = "json"
        /\ sid' = sid /\ (s = sid => s \in raced')
    BY <1>16 DEF Delete, BeginDelete
  <2> QED BY <2>1 DEF NoMarks
<1>17. CASE DeleteJson
  <2>1. /\ json' = [json EXCEPT ![target] = NoJson] \/ target \in undeleted'
        /\ undeleted \subseteq undeleted' /\ at = "json" /\ at' = "files"
        /\ UNCHANGED <<dirs, marks, sid, target, pruning, deleted, raced>>
    BY <1>17 DEF DeleteJson
  <2>2. target \in Sessions
    BY <2>1
  <2>3. json'[target].st = "none" \/ target \in undeleted'
    BY <2>1, <2>2 DEF NoJson
  <2> QED BY <2>1, <2>3
<1>18. CASE DeleteFile
  BY <1>18 DEF DeleteFile
<1>19. CASE DeleteDirectory
  BY <1>19 DEF DeleteDirectory
<1>20. CASE PowerCut
  BY <1>20 DEF PowerCut
<1>21. CASE UNCHANGED vars
  BY <1>21 DEF vars
<1> QED
  BY <1>1, <1>2, <1>3, <1>4, <1>5, <1>6, <1>7, <1>8, <1>9, <1>10, <1>11,
     <1>12, <1>13, <1>14, <1>15, <1>16, <1>17, <1>18, <1>19, <1>20, <1>21
  DEF Next, RecNext, SyncNext, MarkNext, AtNext

LEMMA CountStep ==
  ASSUME TypeOK, RecInv, CountInv, MarkInv, [Next]_vars
  PROVE  CountInv'
<1>0. CardTyped /\ PlacesTyped /\ HistTyped
  BY TypeSplit
<1> USE <1>0, StoreFacts DEF CountInv, CardTyped, PlacesTyped, ToRecord
<1>1. ASSUME NEW s \in Sessions, CreateSession(s) PROVE CountInv'
  <2>1. mark # s /\ mark' = mark
    BY <1>1 DEF CreateSession, MarkInv, Used
  <2>2. CASE marks' = [marks EXCEPT ![s] = [NoMarks EXCEPT !.there = TRUE]]
    <3>1. marks'[s].entries = 0 /\ marks'[s].count = 0
      BY <2>2 DEF NoMarks
    <3>2. \A x \in Sessions \ {s} : marks'[x] = marks[x]
      BY <2>2
    <3> QED BY <2>1, <2>2, <3>1, <3>2
  <2>3. CASE marks' = marks
    BY <2>1, <2>3
  <2> QED BY <1>1, <2>2, <2>3 DEF CreateSession
<1>2. CASE OpenSessionJson
  BY <1>2 DEF OpenSessionJson
<1>3. CASE WriteSessionJson
  BY <1>3 DEF WriteSessionJson
<1>4. CASE SetCurrent
  BY <1>4 DEF SetCurrent
<1>5. CASE CreateFirstFile
  BY <1>5 DEF CreateFirstFile
<1>6. CASE CloseFile
  BY <1>6 DEF CloseFile, CloseOpenFile
<1>7. CASE CreateNextFile
  BY <1>7 DEF CreateNextFile
<1>8. CASE StopRecording
  BY <1>8 DEF StopRecording, CloseOpenFile
<1>9. CASE ReadJsonToClose
  BY <1>9 DEF ReadJsonToClose
<1>10. CASE WriteJsonToClose
  BY <1>10 DEF WriteJsonToClose
<1>11. ASSUME NEW s \in Sessions, NEW n \in 1..NFiles, ReadJsonToSync(s, n) PROVE CountInv'
  BY <1>11 DEF ReadJsonToSync
<1>12. CASE WriteJsonToSync
  BY <1>12 DEF WriteJsonToSync
<1>13. CASE CountBookmark
  <2>1. sid \in Sessions /\ sid # None /\ marks[sid].count < MaxMarks /\ mark' = sid
    BY <1>13 DEF CountBookmark, HasDir
  <2>2. marks[sid].count \in Nat /\ marks[sid].entries \in Nat
    BY <2>1
  <2>3. marks'[sid].entries = marks[sid].entries /\ marks'[sid].count = marks[sid].count + 1
    BY <1>13, <2>1 DEF CountBookmark
  <2>4. \A x \in Sessions \ {sid} : marks'[x] = marks[x]
    BY <1>13 DEF CountBookmark
  <2>5. marks'[sid].entries < marks'[sid].count /\ marks'[sid].count <= MaxMarks
    <3>1. marks[sid].entries <= marks[sid].count /\ MaxMarks \in Nat
      BY <2>1
    <3> QED BY <2>1, <2>2, <2>3, <3>1
  <2>6. \A x \in Sessions : /\ marks'[x].entries <= marks'[x].count
                           /\ marks'[x].count <= MaxMarks
    <3> SUFFICES ASSUME NEW x \in Sessions
                 PROVE  marks'[x].entries <= marks'[x].count /\ marks'[x].count <= MaxMarks
      OBVIOUS
    <3>1. CASE x = sid
      BY <3>1, <2>2, <2>3, <2>5
    <3>2. CASE x # sid
      BY <3>2, <2>4
    <3> QED BY <3>1, <3>2
  <2> QED BY <2>1, <2>5, <2>6
<1>14. CASE AppendBookmark
  <2>1. CASE marks' = marks
    BY <1>14, <2>1 DEF AppendBookmark
  <2>2. CASE marks[mark].there /\ marks' = [marks EXCEPT ![mark].entries = @ + 1]
    <3>1. mark \in Sessions /\ mark' = None
      BY <1>14 DEF AppendBookmark
    <3>2. marks[mark].count \in Nat /\ marks[mark].entries \in Nat
      BY <3>1
    <3>3. marks'[mark].entries = marks[mark].entries + 1
          /\ marks'[mark].count = marks[mark].count
      BY <2>2, <3>1
    <3>4. \A x \in Sessions \ {mark} : marks'[x] = marks[x]
      BY <2>2
    <3> QED BY <1>14, <2>2, <3>1, <3>2, <3>3, <3>4 DEF AppendBookmark
  <2> QED BY <1>14, <2>1, <2>2 DEF AppendBookmark
<1>15. ASSUME NEW s \in Sessions, Prune(s) PROVE CountInv'
  <2>1. mark' = mark /\ (marks' = marks \/ marks' = [marks EXCEPT ![s] = NoMarks])
    BY <1>15 DEF Prune, BeginDelete
  <2>2. CASE marks' = [marks EXCEPT ![s] = NoMarks]
    <3>1. marks'[s].entries = 0 /\ marks'[s].count = 0 /\ ~marks'[s].there
      BY <2>2 DEF NoMarks
    <3>2. \A x \in Sessions \ {s} : marks'[x] = marks[x]
      BY <2>2
    <3> QED BY <2>1, <3>1, <3>2
  <2> QED BY <2>1, <2>2
<1>16. ASSUME NEW s \in Sessions, Delete(s) PROVE CountInv'
  <2>1. mark' = mark /\ (marks' = marks \/ marks' = [marks EXCEPT ![s] = NoMarks])
    BY <1>16 DEF Delete, BeginDelete
  <2>2. CASE marks' = [marks EXCEPT ![s] = NoMarks]
    <3>1. marks'[s].entries = 0 /\ marks'[s].count = 0 /\ ~marks'[s].there
      BY <2>2 DEF NoMarks
    <3>2. \A x \in Sessions \ {s} : marks'[x] = marks[x]
      BY <2>2
    <3> QED BY <2>1, <3>1, <3>2
  <2> QED BY <2>1, <2>2
<1>17. CASE DeleteJson
  BY <1>17 DEF DeleteJson
<1>18. CASE DeleteFile
  BY <1>18 DEF DeleteFile
<1>19. CASE DeleteDirectory
  BY <1>19 DEF DeleteDirectory
<1>20. CASE PowerCut
  <2>0. mark' = None
    BY <1>20 DEF PowerCut
  <2>1. CASE marks' = marks
    BY <2>0, <2>1
  <2>2. CASE mark # None /\ marks[mark].there /\ marks' = [marks EXCEPT ![mark].count = @ - 1]
    <3>1. mark \in Sessions
      BY <2>2
    <3>2. marks[mark].count \in Nat /\ marks[mark].entries \in Nat
      BY <3>1
    <3>3. marks'[mark].entries = marks[mark].entries
          /\ marks'[mark].count = marks[mark].count - 1
      BY <2>2, <3>1
    <3>4. \A x \in Sessions \ {mark} : marks'[x] = marks[x]
      BY <2>2
    <3> QED BY <2>0, <2>2, <3>1, <3>2, <3>3, <3>4
  <2> QED BY <1>20, <2>1, <2>2 DEF PowerCut
<1>21. CASE UNCHANGED vars
  BY <1>21 DEF vars
<1> QED
  BY <1>1, <1>2, <1>3, <1>4, <1>5, <1>6, <1>7, <1>8, <1>9, <1>10, <1>11,
     <1>12, <1>13, <1>14, <1>15, <1>16, <1>17, <1>18, <1>19, <1>20, <1>21
  DEF Next, RecNext, SyncNext, MarkNext, AtNext

LEMMA MarkStep ==
  ASSUME StoreInv, [Next]_vars
  PROVE  MarkInv'
<1>0. MarkInv
  BY DEF StoreInv
<1> USE <1>0, StoreFacts DEF MarkInv
<1>1. ASSUME NEW s \in Sessions, CreateSession(s) PROVE MarkInv'
  BY <1>1 DEF CreateSession, StoreInv
<1>2. CASE OpenSessionJson
  BY <1>2 DEF OpenSessionJson
<1>3. CASE WriteSessionJson
  BY <1>3 DEF WriteSessionJson
<1>4. CASE SetCurrent
  BY <1>4 DEF SetCurrent
<1>5. CASE CreateFirstFile
  BY <1>5 DEF CreateFirstFile
<1>6. CASE CloseFile
  BY <1>6 DEF CloseFile, CloseOpenFile
<1>7. CASE CreateNextFile
  BY <1>7 DEF CreateNextFile
<1>8. CASE StopRecording
  BY <1>8 DEF StopRecording, CloseOpenFile
<1>9. CASE ReadJsonToClose
  BY <1>9 DEF ReadJsonToClose
<1>10. CASE WriteJsonToClose
  BY <1>10 DEF WriteJsonToClose
<1>11. ASSUME NEW s \in Sessions, NEW n \in 1..NFiles, ReadJsonToSync(s, n) PROVE MarkInv'
  BY <1>11 DEF ReadJsonToSync
<1>12. CASE WriteJsonToSync
  BY <1>12 DEF WriteJsonToSync
<1>13. CASE CountBookmark
  BY <1>13 DEF CountBookmark, HasDir
<1>14. CASE AppendBookmark
  BY <1>14 DEF AppendBookmark
<1>15. ASSUME NEW s \in Sessions, Prune(s) PROVE MarkInv'
  BY <1>15 DEF Prune, BeginDelete
<1>16. ASSUME NEW s \in Sessions, Delete(s) PROVE MarkInv'
  BY <1>16 DEF Delete, BeginDelete
<1>17. CASE DeleteJson
  BY <1>17 DEF DeleteJson
<1>18. CASE DeleteFile
  BY <1>18 DEF DeleteFile
<1>19. CASE DeleteDirectory
  <2>0. /\ UNCHANGED <<mark, deleted, raced, lacking>> /\ at # "idle"
        /\ \A s \in dirs : s # target => s \in dirs'
    BY <1>19 DEF DeleteDirectory
  <2>1. mark # None /\ mark = target => mark \in deleted \cup raced \cup lacking
    <3> SUFFICES ASSUME mark # None, mark = target, mark \notin deleted \cup raced \cup lacking
                 PROVE  FALSE
      OBVIOUS
    <3>1. mark \in Sessions /\ Kept(mark)
      BY TypeSplit DEF StoreInv, PlacesTyped, ToRecord, Kept
    <3>2. TargetOK(mark) /\ MarksOK(mark)
      BY <3>1 DEF StoreInv, RowInv, Row
    <3> QED BY <2>0, <3>2 DEF TargetOK, MarksOK
  <2> QED BY <2>0, <2>1 DEF StoreInv
<1>20. CASE PowerCut
  BY <1>20 DEF PowerCut
<1>21. CASE UNCHANGED vars
  BY <1>21 DEF vars
<1> QED
  BY <1>1, <1>2, <1>3, <1>4, <1>5, <1>6, <1>7, <1>8, <1>9, <1>10, <1>11,
     <1>12, <1>13, <1>14, <1>15, <1>16, <1>17, <1>18, <1>19, <1>20, <1>21
  DEF Next, RecNext, SyncNext, MarkNext, AtNext

LEMMA GoneStep ==
  ASSUME StoreInv, [Next]_vars
  PROVE  GoneInv'
<1>0. CardTyped /\ PlacesTyped /\ HistTyped /\ GoneInv
  BY TypeSplit DEF StoreInv
<1> USE <1>0, StoreFacts DEF GoneInv, DeletedStaysDeleted, HasDir
<1>1. ASSUME NEW s \in Sessions, CreateSession(s) PROVE GoneInv'
  BY <1>1 DEF CreateSession, Used
<1>2. CASE OpenSessionJson
  <2>1. /\ UNCHANGED <<gone, raced, deleted, dirs, undeleted>>
        /\ json' = json \/ (sid \in dirs /\ json' = [json EXCEPT ![sid] = BlankJson])
    BY <1>2 DEF OpenSessionJson
  <2>2. \A s \in Sessions \ dirs : json'[s] = json[s]
    BY <2>1 DEF CardTyped
  <2> QED BY <2>1, <2>2 DEF HistTyped
<1>3. CASE WriteSessionJson
  <2>1. /\ UNCHANGED <<gone, raced, deleted, dirs, undeleted>>
        /\ \A s \in Sessions : json[s].st # "blank" => json'[s] = json[s]
    BY <1>3 DEF WriteSessionJson, CardTyped
  <2> QED BY <2>1 DEF HistTyped
<1>4. CASE SetCurrent
  BY <1>4 DEF SetCurrent
<1>5. CASE CreateFirstFile
  BY <1>5 DEF CreateFirstFile
<1>6. CASE CloseFile
  BY <1>6 DEF CloseFile, CloseOpenFile
<1>7. CASE CreateNextFile
  BY <1>7 DEF CreateNextFile
<1>8. CASE StopRecording
  BY <1>8 DEF StopRecording, CloseOpenFile
<1>9. CASE ReadJsonToClose
  BY <1>9 DEF ReadJsonToClose
<1>10. CASE WriteJsonToClose
  <2>1. UNCHANGED <<gone, raced, deleted, dirs, undeleted>>
        /\ \A s \in Sessions \ dirs : json'[s] = json[s]
    BY <1>10 DEF WriteJsonToClose, CardTyped
  <2> QED BY <2>1 DEF HistTyped
<1>11. ASSUME NEW s \in Sessions, NEW n \in 1..NFiles, ReadJsonToSync(s, n) PROVE GoneInv'
  BY <1>11 DEF ReadJsonToSync
<1>12. CASE WriteJsonToSync
  <2>1. UNCHANGED <<gone, raced, deleted, dirs, undeleted>>
        /\ \A s \in Sessions : json[s].st = "none" => json'[s] = json[s]
    BY <1>12 DEF WriteJsonToSync, CardTyped
  <2> QED BY <2>1 DEF HistTyped
<1>13. CASE CountBookmark
  BY <1>13 DEF CountBookmark
<1>14. CASE AppendBookmark
  BY <1>14 DEF AppendBookmark
<1>15. ASSUME NEW s \in Sessions, Prune(s) PROVE GoneInv'
  BY <1>15 DEF Prune, BeginDelete
<1>16. ASSUME NEW s \in Sessions, Delete(s) PROVE GoneInv'
  BY <1>16 DEF Delete, BeginDelete
<1>17. CASE DeleteJson
  <2>1. UNCHANGED <<gone, raced, deleted, dirs>> /\ undeleted \subseteq undeleted'
        /\ (json' = json \/ json' = [json EXCEPT ![target] = NoJson])
    BY <1>17 DEF DeleteJson
  <2> QED BY <2>1 DEF CardTyped, HistTyped, NoJson
<1>18. CASE DeleteFile
  BY <1>18 DEF DeleteFile
<1>19. CASE DeleteDirectory
  <2>1. /\ raced' = raced /\ deleted' = deleted /\ json' = json /\ dirs' \subseteq dirs
        /\ at = "files" /\ gone' \subseteq gone \cup {target}
        /\ ~pruning \/ gone' = gone
        /\ \A s \in Sessions : s \notin undeleted' => s \notin undeleted \/ s = target
    BY <1>19 DEF DeleteDirectory
  <2>2. \/ target \in undeleted'
        \/ json[target].st = "none" /\ target \notin dirs'
        \/ undeleted' = undeleted /\ (json[target].st # "none" \/ marks[target].there)
    BY <1>19 DEF DeleteDirectory
  <2>3. ~pruning => target \in deleted
    BY <2>1 DEF StoreInv, AtInv
  <2>4. target \in gone' \ (raced' \cup undeleted') =>
           target \notin dirs' /\ json[target].st = "none"
    BY <2>1, <2>2 DEF StoreInv, AtInv
  <2>5. ASSUME NEW s \in gone' \ (raced' \cup undeleted'), s # target
        PROVE  s \notin dirs' /\ json[s].st = "none"
    <3>1. s \in gone /\ s \in Sessions
      BY <2>1, <2>5 DEF HistTyped
    <3> QED BY <2>1, <2>5, <3>1
  <2> QED BY <2>1, <2>3, <2>4, <2>5
<1>20. CASE PowerCut
  BY <1>20 DEF PowerCut
<1>21. CASE UNCHANGED vars
  BY <1>21 DEF vars
<1> QED
  BY <1>1, <1>2, <1>3, <1>4, <1>5, <1>6, <1>7, <1>8, <1>9, <1>10, <1>11,
     <1>12, <1>13, <1>14, <1>15, <1>16, <1>17, <1>18, <1>19, <1>20, <1>21
  DEF Next, RecNext, SyncNext, MarkNext, AtNext

LEMMA StoreInit == Init => StoreInv
<1> SUFFICES ASSUME Init PROVE StoreInv
  OBVIOUS
<1>1. OldJson \in Jsons
  BY StoreFacts DEF OldJson, Jsons
<1>2. ASSUME NEW s \in Sessions
      PROVE  /\ marks[s] \in [there : BOOLEAN, count : Nat, entries : Nat]
             /\ marks[s].count = 0 /\ marks[s].entries = 0
  <2>1. (s \in dirs) \in BOOLEAN
    OBVIOUS
  <2>2. PICK b \in BOOLEAN : b = (s \in dirs)
    BY <2>1, Zenon
  <2>3. marks[s] = [NoMarks EXCEPT !.there = b]
    BY <2>2, Zenon DEF Init
  <2>4. marks[s] = [there |-> b, count |-> 0, entries |-> 0]
    BY <2>3 DEF NoMarks
  <2> QED BY <2>4
<1>3. CardTyped
  <2>1. dirs \subseteq Sessions
    BY StoreFacts DEF Init, Sessions
  <2>2. json \in [Sessions -> Jsons]
    BY <1>1, JsonTypes DEF Init
  <2>3. files \in [Sessions -> SUBSET (1..NFiles)]
    BY StoreFacts DEF Init
  <2>4. marks \in [Sessions -> [there : BOOLEAN, count : Nat, entries : Nat]]
    BY <1>2 DEF Init
  <2> QED BY <2>1, <2>2, <2>3, <2>4 DEF CardTyped
<1>4. PlacesTyped
  <2>1. [s |-> None, n |-> 0, read |-> NoJson] \in [s : ToRecord, n : 0..NFiles, read : Jsons]
    BY JsonTypes, StoreFacts DEF ToRecord
  <2> QED BY <2>1, StoreFacts DEF Init, PlacesTyped, ToRecord
<1>5. HistTyped
  BY <1>3, StoreFacts DEF Init, CardTyped, HistTyped
<1>6. ASSUME NEW r \in Sessions PROVE Row(r)
  <2>1. CASE r \in dirs
    <3>1. json[r] = OldJson /\ files[r] = {1} /\ recorded[r] = {1} /\ last_synced[r] = 0
      BY <2>1 DEF Init
    <3>2. Cardinality({1}) = 1
      BY FS_Singleton
    <3>3. SessionOK(r)
      BY <2>1, <3>1, <3>2 DEF SessionOK, OldJson
    <3>4. marks[r].entries = 0 /\ added[r] = 0
      BY DEF Init, NoMarks
    <3> QED BY <3>3, <3>4, StoreFacts
        DEF Init, Row, UnderWay, ReadOK, TargetOK, MarksOK
  <2>2. CASE r \notin dirs
    <3>1. json[r] = NoJson /\ files[r] = {} /\ recorded[r] = {} /\ last_synced[r] = 0
      BY <2>2 DEF Init
    <3>2. SessionOK(r)
      BY <2>2, <3>1 DEF SessionOK, NoJson
    <3>3. marks[r].entries = 0 /\ added[r] = 0
      BY DEF Init, NoMarks
    <3> QED BY <3>2, <3>3, StoreFacts
        DEF Init, Row, UnderWay, ReadOK, TargetOK, MarksOK
  <2> QED BY <2>1, <2>2
<1>7. CountInv
  BY <1>2, StoreFacts DEF Init, CountInv
<1>8. RecInv /\ LockInv /\ AtInv /\ MarkInv /\ GoneInv
  BY DEF Init, RecInv, LockInv, AtInv, MarkInv, GoneInv, DeletedStaysDeleted
<1> QED BY <1>3, <1>4, <1>5, <1>6, <1>7, <1>8, TypeSplit DEF StoreInv, RowInv

LEMMA StoreStep == StoreInv /\ [Next]_vars => StoreInv'
<1> SUFFICES ASSUME StoreInv, [Next]_vars PROVE StoreInv'
  OBVIOUS
<1>1. TypeOK /\ RowInv /\ RecInv /\ LockInv /\ AtInv /\ CountInv /\ MarkInv /\ GoneInv
      /\ PlacesTyped
  BY TypeSplit DEF StoreInv
<1>2. CardTyped' /\ PlacesTyped' /\ HistTyped'
  BY <1>1, CardTypeStep, PlacesTypeStep, HistTypeStep
<1>3. TypeOK'
  BY <1>2 DEF TypeOK, CardTyped, PlacesTyped, HistTyped
<1>4. RowInv' /\ RecInv' /\ LockInv' /\ AtInv' /\ CountInv' /\ MarkInv' /\ GoneInv'
  BY <1>1, RowStep, RecStep, LockStep, AtStep, CountStep, MarkStep, GoneStep
<1> QED BY <1>3, <1>4 DEF StoreInv

LEMMA StoreInvariant == Spec => []StoreInv
<1>1. Init => StoreInv
  BY StoreInit
<1>2. StoreInv /\ [Next]_vars => StoreInv'
  BY StoreStep
<1> QED BY <1>1, <1>2, PTL DEF Spec

----------------------------------------------------------------------------
(* The theorems. *)

\* Every variable keeps to its type.
THEOREM StoreTypeCorrect == Spec => []TypeOK
<1>1. StoreInv => TypeOK
  BY DEF StoreInv
<1> QED BY <1>1, StoreInvariant, PTL

\* A recording of which a file was closed stays on the card until the client deletes it:
\* in whatever order the threads run, wherever the power is cut, whatever else fails.  It
\* is found by its name (storage.c:1332), in a list unless its session.json could not be
\* made, and with all its files unless the first could not.
THEOREM RecordingsAlwaysListed == Spec => []RecordingsListed
<1>1. StoreInv => RecordingsListed
  <2> SUFFICES ASSUME StoreInv, NEW s \in Sessions, recorded[s] # {}, Kept(s)
               PROVE  /\ recorded[s] \subseteq files[s]
                      /\ GetSessionInfo(s).found
                      /\ GetSessionInfo(s).files = Cardinality(files[s]) \/ s \in lacking
                      /\ s \in Listed \/ s \in unmade
    BY DEF RecordingsListed
  <2>1. SessionOK(s) /\ json[s] \in Jsons /\ json[s].files \in 0..NFiles
    BY TypeSplit DEF StoreInv, RowInv, Row, CardTyped, Jsons
  <2>2. json[s].st \in {"none", "blank", "recording", "done"}
    BY <2>1 DEF Jsons
  <2>3. recorded[s] \subseteq files[s] /\ s \in dirs /\ (s \in Listed \/ s \in unmade)
    BY <2>1 DEF SessionOK, Listed
  <2>4. json[s].files > 0 => json[s].files = Cardinality(files[s]) \/ s \in lacking
    BY <2>1, <2>2 DEF SessionOK, NoJson
  <2> QED BY <2>3, <2>4 DEF GetSessionInfo, HasDir
<1> QED BY <1>1, StoreInvariant, PTL

\* The threads that rewrite session.json do not undo each other (session_json_mutex), and
\* the files are counted right unless the first could not be made.
THEOREM NeverLostUpdate == Spec => []NoLostUpdate
<1>1. StoreInv => NoLostUpdate
  BY DEF StoreInv, RowInv, Row, SessionOK, NoLostUpdate
<1> QED BY <1>1, StoreInvariant, PTL

\* What DELETE was answered for does not come back (transfer.c:608), unless the card
\* refused an unlink.
THEOREM DeletedAlwaysStaysDeleted == Spec => []DeletedStaysDeleted
<1>1. StoreInv => DeletedStaysDeleted
  BY DEF StoreInv, GoneInv
<1> QED BY <1>1, StoreInvariant, PTL

\* The pages of AT+MARKS return every bookmark that was added, and nothing else,
\* whatever failed or was cut between a count and its bookmark, unless no file of the
\* session could be made.
THEOREM BookmarksAlwaysReturned == Spec => []BookmarksReturned
<1>1. StoreInv => BookmarksReturned
  <2> SUFFICES ASSUME StoreInv, NEW s \in Sessions, Kept(s), s \in lacking => files[s] # {}
               PROVE  UNION { BookmarkPage(s, page, 1) : page \in 1..MaxMarks } = 1..added[s]
    BY DEF BookmarksReturned
  <2>1. /\ marks[s].entries = added[s] /\ added[s] \in Nat /\ marks[s].count \in Nat
        /\ marks[s].entries <= marks[s].count /\ marks[s].count <= MaxMarks /\ MaxMarks \in Nat
    BY TypeSplit, StoreFacts
    DEF StoreInv, RowInv, Row, MarksOK, CountInv, CardTyped, HistTyped
  <2>2. ASSUME NEW page \in 1..MaxMarks, NEW i \in BookmarkPage(s, page, 1)
        PROVE  i \in 1..added[s]
    BY <2>1 DEF BookmarkPage
  <2>3. ASSUME NEW i \in 1..added[s]
        PROVE  i \in 1..MaxMarks /\ i \in BookmarkPage(s, i, 1)
    BY <2>1 DEF BookmarkPage
  <2> QED BY <2>2, <2>3
<1> QED BY <1>1, StoreInvariant, PTL

=============================================================================
