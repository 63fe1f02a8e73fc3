------------------------------- MODULE Transfer -------------------------------
(***************************************************************************)
(* The transfer engine of the Clip firmware (transfer.c): the transfer     *)
(* thread, the AT server thread that starts, resumes and cancels           *)
(* (at_commands.c), and the cancels of the other threads (ble.c, wifi.c,   *)
(* clip_event.c).  One session is on the card; it is an old one, or the    *)
(* latest one, whose recording may still be under way.                     *)
(*                                                                         *)
(* The AT server (priority 7) is preempted by the transfer thread          *)
(* (priority 5), so its steps are small.  The other cancellers run in the  *)
(* cooperative work queue and in the main thread (priority 0): neither is  *)
(* preempted by the transfer thread, so their cancel is one step.          *)
(* The exchange of one file's frames is module UdpFile's subject: here it  *)
(* ends with the file acknowledged, or not.                                *)
(***************************************************************************)
EXTENDS Integers, FiniteSets

CONSTANTS
    NFiles,         \* the files a session may come to have
    MaxErrors,      \* consecutive_file_errors tolerated (10 in the code)
    MissingLimit,   \* files tried past an unknown total (10 in the code)
    BoostFloor,     \* bound of the model: no DOWNLOAD once the count is this low
    Faults          \* the failures a run allows

FaultNames == {"card", "stat", "rereadOld", "rereadLatest", "flap", "gap", "empty"}

ASSUME TransferAssumption ==
    /\ NFiles \in Nat \ {0} /\ MaxErrors \in Nat /\ MissingLimit \in Nat
    /\ BoostFloor \in Int
    /\ Faults \subseteq FaultNames

VARIABLES
    t,                  \* where the transfer thread is
    at,                 \* where the AT server is
    transfer_idle_sem, transfer_trigger_sem,
    state,              \* current_transfer.state
    session,            \* current_transfer.session_id is set
    file_index, synced_files, current_file, total_files, continuous,
    transfer_file_open,
    cancel_requested, complete_sent,
    errors,             \* consecutive_file_errors
    boost,              \* what the transfers add to g_boost_refcnt
    connected,          \* transport_is_connected()
    latest, recording,  \* the session is the latest recorded one; it still is
    card,               \* file number -> what the card holds
    saved,              \* "synced" in session.json
    delivered,          \* the files a client has acknowledged
    dones,              \* TRANSFER_DONE frames since the last DOWNLOAD
    asked,              \* the file the DOWNLOAD under way asked to start from
    left,               \* files in "synced" that no client has asked for nor got
    unseen              \* files taken as missing as their fs_stat failed, not sent since

semVars  == <<transfer_idle_sem, transfer_trigger_sem>>
fileVars == <<file_index, current_file, transfer_file_open>>
jobVars  == <<session, total_files, continuous>>
flagVars == <<cancel_requested, complete_sent>>
cardVars == <<latest, recording, card>>
histVars == <<saved, delivered, dones, asked, left, unseen>>
vars == <<t, at, semVars, state, fileVars, jobVars, synced_files, flagVars, errors,
          boost, connected, cardVars, histVars>>

\* PAUSED is never entered: nothing in the firmware assigns it.
States == {"IDLE", "TRANSMITTING", "COMPLETED", "ERROR"}
Contents == {"absent", "writing", "closed", "empty"}

transfer_is_active == state = "TRANSMITTING"

OnCard(f) == IF f \in 1..NFiles THEN card[f] ELSE "absent"

\* An old session has all its files, but for those lost or left empty; the
\* latest one is being recorded.
InitialCard ==
    \/ /\ latest = FALSE /\ recording = FALSE
       /\ card \in [1..NFiles -> {"closed"}
                        \cup (IF "gap" \in Faults THEN {"absent"} ELSE {})
                        \cup (IF "empty" \in Faults THEN {"empty"} ELSE {})]
    \/ /\ latest = TRUE /\ recording = TRUE
       /\ card = [f \in 1..NFiles |-> IF f = 1 THEN "writing" ELSE "absent"]

\* After transfer_init: the thread waits for its trigger and the idle signal
\* it gave has been handed back.
Init ==
    /\ t = "parked" /\ at = "idle"
    /\ transfer_idle_sem = 1 /\ transfer_trigger_sem = 0
    /\ state = "IDLE" /\ session = FALSE
    /\ file_index = 0 /\ synced_files = 0 /\ current_file = 0 /\ total_files = 0
    /\ continuous = FALSE /\ transfer_file_open = FALSE
    /\ cancel_requested = FALSE /\ complete_sent = FALSE
    /\ errors = 0 /\ boost = 0 /\ connected = TRUE
    /\ InitialCard
    /\ saved = 0 /\ delivered = {} /\ dones = 0
    /\ asked = 1 /\ left = {} /\ unseen = {}

----------------------------------------------------------------------------
(* The AT server: DOWNLOAD and CANCEL. *)

\* The CPU boost is taken first, and given back when a file is being sent
\* (EBUSY: the net effect is none, no step here).
Download ==
    /\ at = "idle" /\ boost >= BoostFloor
    /\ ~(transfer_is_active /\ transfer_file_open)
    /\ boost' = boost + 1
    /\ at' = "wait"
    /\ UNCHANGED <<t, semVars, state, fileVars, jobVars, synced_files, flagVars, errors,
                   connected, cardVars, histVars>>

\* Mutant: the start does not wait for the thread to be idle.
TakeIdle_NoWait ==
    /\ at = "wait"
    /\ transfer_idle_sem' = 0
    /\ at' = "locked"
    /\ UNCHANGED <<t, transfer_trigger_sem, state, fileVars, jobVars, synced_files,
                   flagVars, errors, boost, connected, cardVars, histVars>>

TakeIdle ==
    /\ at = "wait" /\ transfer_idle_sem = 1
    /\ transfer_idle_sem' = 0
    /\ at' = "locked"
    /\ UNCHANGED <<t, transfer_trigger_sem, state, fileVars, jobVars, synced_files,
                   flagVars, errors, boost, connected, cardVars, histVars>>

IdleTimeout ==
    /\ at = "wait" /\ transfer_idle_sem = 0
    /\ boost' = boost - 1
    /\ at' = "idle"
    /\ UNCHANGED <<t, semVars, state, fileVars, jobVars, synced_files, flagVars, errors,
                   connected, cardVars, histVars>>

\* fail: the boost is given back and the thread is woken, to park again.
Fail ==
    /\ boost' = boost - 1
    /\ transfer_trigger_sem' = 1
    /\ at' = "idle"
    /\ UNCHANGED <<t, transfer_idle_sem, fileVars, jobVars, synced_files, flagVars, errors,
                   connected, cardVars, histVars>>

FileCount == Cardinality({ f \in 1..NFiles : card[f] # "absent" })
RecordedCount == IF latest THEN FileCount ELSE NFiles

\* Not mounted, session not found, or without files.
StartRefused ==
    /\ at = "locked"
    /\ "card" \in Faults \/ RecordedCount = 0
    /\ Fail
    /\ UNCHANGED state

\* The state is TRANSMITTING before the session is read a second time.
Prepare ==
    /\ at = "locked" /\ RecordedCount > 0
    /\ complete_sent' = FALSE /\ cancel_requested' = FALSE
    /\ transfer_file_open' = FALSE
    /\ file_index' = 0 /\ synced_files' = 0 /\ current_file' = 0
    /\ total_files' = 0 /\ continuous' = FALSE
    /\ errors' = 0
    /\ state' = "TRANSMITTING" /\ session' = TRUE
    /\ dones' = 0 /\ asked' = 1
    /\ at' = "filled"
    /\ UNCHANGED <<t, semVars, boost, connected, cardVars, saved, delivered, left, unseen>>

\* The state is not taken back: the woken thread sends the whole session, in
\* normal mode and with an unknown total, although the DOWNLOAD was refused.
SecondReadFails ==
    /\ at = "filled"
    /\ IF latest THEN "rereadLatest" \in Faults ELSE "rereadOld" \in Faults
    /\ Fail
    /\ UNCHANGED state

\* transfer_start takes the whole session, transfer_resume_from what there is from
\* the file the client names (docs/protocol.md tells it to name the one after
\* "synced", but any is taken); a file past the end is replaced by the last one.
Launch ==
    /\ at = "filled"
    /\ continuous' = latest
    /\ \/ /\ file_index' = 0 /\ asked' = 1
          /\ total_files' = IF latest THEN 0 ELSE RecordedCount
       \/ \E start_num \in 1..(NFiles + 1) :
            /\ asked' = start_num
            /\ file_index' = IF start_num <= RecordedCount THEN start_num - 1
                                                          ELSE RecordedCount - 1
            /\ total_files' = RecordedCount
    /\ transfer_trigger_sem' = 1
    /\ at' = "idle"
    /\ UNCHANGED <<t, transfer_idle_sem, state, current_file, transfer_file_open, session,
                   synced_files, flagVars, errors, boost, connected, cardVars,
                   saved, delivered, dones, left, unseen>>

\* AT+CANCEL: is there a transfer; request the cancel; mark it inactive.
AtCancel ==
    /\ at = "idle" /\ transfer_is_active
    /\ at' = "cancel"
    /\ UNCHANGED <<t, semVars, state, fileVars, jobVars, synced_files, flagVars, errors,
                   boost, connected, cardVars, histVars>>

AtCancelFlag ==
    /\ at = "cancel"
    /\ cancel_requested' = TRUE
    /\ at' = "cancelFlag"
    /\ UNCHANGED <<t, semVars, state, fileVars, jobVars, synced_files, complete_sent, errors,
                   boost, connected, cardVars, histVars>>

AtCancelState ==
    /\ at = "cancelFlag"
    /\ state' = "ERROR"
    /\ at' = "idle"
    /\ UNCHANGED <<t, semVars, fileVars, jobVars, synced_files, flagVars, errors, boost,
                   connected, cardVars, histVars>>

----------------------------------------------------------------------------
(* The rest of the system. *)

\* transfer_cancel_work (BLE gone), wifi_transfer_cancel_work (station gone)
\* and POWER_OFF_EXEC.
transfer_cancel ==
    /\ transfer_is_active
    /\ cancel_requested' = TRUE
    /\ state' = "ERROR"
    /\ UNCHANGED <<t, at, semVars, fileVars, jobVars, synced_files, complete_sent, errors,
                   boost, connected, cardVars, histVars>>

Disconnect ==
    /\ connected
    /\ connected' = FALSE
    /\ UNCHANGED <<t, at, semVars, state, fileVars, jobVars, synced_files, flagVars, errors,
                   boost, cardVars, histVars>>

\* With "flap" the link may come back before the thread has noticed.
Reconnect ==
    /\ ~connected /\ (t = "parked" \/ "flap" \in Faults)
    /\ connected' = TRUE
    /\ UNCHANGED <<t, at, semVars, state, fileVars, jobVars, synced_files, flagVars, errors,
                   boost, cardVars, histVars>>

CardStep ==
    UNCHANGED <<t, at, semVars, state, fileVars, jobVars, synced_files, flagVars, errors,
                boost, connected, latest, histVars>>

SegmentClosed ==
    /\ \E f \in 1..NFiles : card[f] = "writing" /\ card' = [card EXCEPT ![f] = "closed"]
    /\ CardStep /\ UNCHANGED recording

SegmentCreated ==
    /\ recording /\ \A f \in 1..NFiles : card[f] # "writing"
    /\ \E f \in 1..NFiles :
        /\ card[f] = "absent" /\ \A g \in 1..(f - 1) : card[g] # "absent"
        /\ card' = [card EXCEPT ![f] = "writing"]
    /\ CardStep /\ UNCHANGED recording

\* recording_active is cleared before the last file is closed.
RecordingStopped ==
    /\ recording
    /\ recording' = FALSE
    /\ CardStep /\ UNCHANGED card

----------------------------------------------------------------------------
(* The transfer thread. *)

\* What the thread never writes.
otherVars == <<at, connected, latest, recording>>

Goto(where) ==
    /\ t' = where
    /\ UNCHANGED <<otherVars, semVars, state, fileVars, jobVars, synced_files, flagVars, errors, boost,
                   card, histVars>>

\* transfer_thread_wait_idle.
Park ==
    /\ t = "park"
    /\ transfer_idle_sem' = 1
    /\ t' = "parked"
    /\ UNCHANGED <<otherVars, transfer_trigger_sem, state, fileVars, jobVars, synced_files, flagVars,
                   errors, boost, card, histVars>>

Wake ==
    /\ t = "parked" /\ transfer_trigger_sem = 1
    /\ transfer_trigger_sem' = 0
    /\ t' = "top"
    /\ UNCHANGED <<otherVars, transfer_idle_sem, state, fileVars, jobVars, synced_files, flagVars,
                   errors, boost, card, histVars>>

\* process_next_file: the state is COMPLETED or ERROR but no cancel is requested;
\* the thread sleeps and looks again.
LookAgain ==
    /\ t = "top" /\ ~cancel_requested /\ state \in {"COMPLETED", "ERROR"}
    /\ UNCHANGED vars

SeeCancel ==
    /\ t = "top" /\ cancel_requested
    /\ transfer_file_open' = FALSE
    /\ t' = "done"
    /\ UNCHANGED <<otherVars, semVars, state, file_index, current_file, jobVars, synced_files,
                   flagVars, errors, boost, card, histVars>>

SeeIdle == t = "top" /\ ~cancel_requested /\ state = "IDLE" /\ Goto("park")

Working == t = "top" /\ ~cancel_requested /\ transfer_is_active

\* No TRANSFER_DONE: nobody is there to read it.
SeeDisconnected == Working /\ ~connected /\ Goto("cleanup")

SeeWork ==
    /\ Working /\ connected
    /\ Goto(IF transfer_file_open THEN "send" ELSE "open")

NextFile == IF current_file # 0 THEN current_file ELSE file_index + 1

\* Opened: the index moves on before anything is sent.  Mutant: it does not.
OpenFile_KeepsIndex ==
    /\ transfer_file_open' = TRUE
    /\ current_file' = NextFile
    /\ errors' = 0
    /\ t' = "send"
    /\ UNCHANGED <<state, card, file_index, unseen>>

OpenFile ==
    /\ file_index' = file_index + 1
    /\ transfer_file_open' = TRUE
    /\ current_file' = NextFile
    /\ errors' = 0
    /\ t' = "send"
    /\ UNCHANGED <<state, card, unseen>>

NoMoreFiles ==
    /\ state' = "COMPLETED"
    /\ current_file' = 0
    /\ t' = "done"
    /\ UNCHANGED <<card, file_index, transfer_file_open, errors>>

\* An empty file is deleted (or stays, if that fails), and ends the transfer like
\* the end of the session.
DropEmptyFile ==
    /\ \/ card' = [card EXCEPT ![NextFile] = "absent"]
       \/ "card" \in Faults /\ UNCHANGED card
    /\ state' = "COMPLETED"
    /\ current_file' = 0
    /\ t' = "done"
    /\ UNCHANGED <<file_index, transfer_file_open, errors, unseen>>

SkipMissing ==
    /\ file_index' = NextFile
    /\ current_file' = 0
    /\ errors' = 0
    /\ t' = "top"
    /\ UNCHANGED <<state, card, transfer_file_open>>

\* Without a known total, too many files are missing: the index has moved on.
TooManyMissing ==
    /\ file_index' = NextFile
    /\ state' = "COMPLETED"
    /\ current_file' = 0
    /\ t' = "done"
    /\ UNCHANGED <<card, transfer_file_open, errors>>

\* An error other than "no more files": tried again, MaxErrors times.
OpenError(named) ==
    /\ errors' = errors + 1
    /\ current_file' = named
    /\ IF errors' > MaxErrors THEN state' = "ERROR" /\ t' = "done"
                              ELSE UNCHANGED state /\ t' = "top"
    /\ UNCHANGED <<card, file_index, transfer_file_open, unseen>>

\* fs_stat finds the file, or does not: a failure of the card looks the same as a
\* missing file.
StatFinds(f) == OnCard(f) # "absent"
StatFails(f) == OnCard(f) = "absent" \/ "stat" \in Faults

\* The next file is taken as missing.
NotFound ==
    /\ StatFails(NextFile)
    /\ unseen' = IF StatFinds(NextFile) THEN unseen \cup {NextFile} ELSE unseen

\* open_file: it looks for the file once more.
open_file ==
    \/ NotFound /\ NoMoreFiles
    \/ StatFinds(NextFile) /\ OnCard(NextFile) # "empty" /\ OpenFile
    \/ OnCard(NextFile) = "empty" /\ DropEmptyFile
    \/ StatFinds(NextFile) /\ "card" \in Faults /\ OpenError(0)

\* A file named before, when the link broke, is opened without more checks.
OpenNamed == current_file # 0 /\ open_file

\* Normal mode: the session is complete.
PastTheEnd == total_files > 0 /\ NextFile > total_files

OpenNormal ==
    /\ current_file = 0 /\ ~continuous
    /\ \/ StatFinds(NextFile) /\ ~PastTheEnd /\ open_file
       \/ StatFinds(NextFile) /\ PastTheEnd /\ NoMoreFiles /\ UNCHANGED unseen
       \/ /\ NotFound
          /\ \/ PastTheEnd /\ NoMoreFiles
             \/ total_files = 0 /\ NextFile > MissingLimit /\ TooManyMissing
             \/ ~PastTheEnd /\ ~(total_files = 0 /\ NextFile > MissingLimit) /\ SkipMissing

\* Mutants: the file being written is not waited for; the end of the recording
\* ends the transfer, whatever is still on the card.
OpenContinuous_NoWait ==
    /\ current_file = 0 /\ continuous
    /\ open_file

OpenContinuous_StopsEarly ==
    /\ current_file = 0 /\ continuous
    /\ \/ recording /\ OnCard(NextFile) \in {"closed", "empty"} /\ open_file
       \/ ~recording /\ NoMoreFiles /\ UNCHANGED unseen

\* Continuous mode, the latest session: wait for the file to appear, then to be
\* closed.  The first wait ends with the recording or after 5 minutes; both end
\* with the link or the transfer.
OpenContinuous ==
    /\ current_file = 0 /\ continuous
    /\ \/ OnCard(NextFile) \in {"closed", "empty"} /\ open_file
       \/ NotFound /\ StatFails(NextFile + 1) /\ NoMoreFiles
       \/ NotFound /\ StatFinds(NextFile + 1) /\ ~recording /\ SkipMissing
       \/ StatFails(NextFile) /\ (~connected \/ ~transfer_is_active) /\ OpenError(NextFile)
       \/ /\ OnCard(NextFile) = "writing" /\ (~connected \/ cancel_requested)
          /\ OpenError(IF connected THEN NextFile ELSE 0)

Open ==
    /\ t = "open"
    /\ OpenNamed \/ OpenNormal \/ OpenContinuous
    /\ UNCHANGED <<otherVars, semVars, jobVars, synced_files, flagVars, boost,
                   saved, delivered, dones, asked, left>>

Sending == transfer_is_active /\ ~cancel_requested

\* The chunks, up to the end of the file.
SendFile == t = "send" /\ Sending /\ connected /\ Goto("end")

SendStopped == t = "send" /\ ~Sending /\ Goto("top")

LinkLost ==
    /\ t = "send" /\ Sending /\ ~connected
    /\ transfer_file_open' = FALSE
    /\ t' = "top"
    /\ UNCHANGED <<otherVars, semVars, state, file_index, current_file, jobVars, synced_files, flagVars,
                   errors, boost, card, histVars>>

\* A read or send error, or no acknowledgement after all retransmissions.
SendFails ==
    /\ t \in {"send", "end"}
    /\ t = "send" => Sending
    /\ transfer_file_open' = FALSE
    /\ state' = "ERROR"
    /\ t' = "doneTop"
    /\ UNCHANGED <<otherVars, semVars, file_index, current_file, jobVars, synced_files, flagVars,
                   errors, boost, card, histVars>>

FileAcked ==
    /\ t = "end"
    /\ synced_files' = file_index
    /\ delivered' = delivered \cup {current_file}
    /\ left' = left \ {current_file} /\ unseen' = unseen \ {current_file}
    /\ current_file' = 0
    /\ transfer_file_open' = FALSE
    /\ t' = "top"
    /\ UNCHANGED <<otherVars, semVars, state, file_index, jobVars, flagVars, errors, boost, card,
                   saved, dones, asked>>

\* What the client of this DOWNLOAD has not asked for, nor any client before it.
LeftOut == { f \in 1..(asked - 1) : f \notin delivered /\ (f > saved \/ f \in left) }

\* send_transfer_complete_once.  After a file failed, the thread goes through
\* the top of its loop before it parks; in all other cases it parks at once.
Cleanup(where) == IF where = "doneTop" THEN "cleanupTop" ELSE "cleanup"

\* Mutant: the files that were started are counted, not those acknowledged.
SendDone_CountsStarted ==
    /\ t \in {"done", "doneTop"}
    /\ IF session /\ ~complete_sent
       THEN /\ IF file_index > 0 THEN saved' = file_index /\ left' = LeftOut
                               ELSE UNCHANGED <<saved, left>>
            /\ dones' = dones + 1
            /\ complete_sent' = TRUE
       ELSE UNCHANGED <<saved, left, dones, complete_sent>>
    /\ t' = Cleanup(t)
    /\ UNCHANGED <<otherVars, semVars, state, fileVars, jobVars, synced_files,
                   cancel_requested, errors, boost, card, delivered, asked, unseen>>

SendDone ==
    /\ t \in {"done", "doneTop"}
    /\ IF session /\ ~complete_sent
       THEN /\ IF synced_files > 0 THEN saved' = synced_files /\ left' = LeftOut
                               ELSE UNCHANGED <<saved, left>>
            /\ dones' = dones + 1
            /\ complete_sent' = TRUE
       ELSE UNCHANGED <<saved, left, dones, complete_sent>>
    /\ t' = Cleanup(t)
    /\ UNCHANGED <<otherVars, semVars, state, fileVars, jobVars, synced_files, cancel_requested, errors,
                   boost, card, delivered, asked, unseen>>

transfer_cleanup ==
    /\ t \in {"cleanup", "cleanupTop"}
    /\ boost' = boost - 1
    /\ transfer_file_open' = FALSE
    /\ state' = "IDLE" /\ session' = FALSE
    /\ current_file' = 0 /\ file_index' = 0 /\ total_files' = 0 /\ synced_files' = 0
    /\ cancel_requested' = FALSE /\ complete_sent' = FALSE
    /\ t' = IF t = "cleanup" THEN "park" ELSE "top"
    /\ asked' = 1
    /\ UNCHANGED <<otherVars, semVars, continuous, errors, card,
                   saved, delivered, dones, left, unseen>>

----------------------------------------------------------------------------
AtServer ==
    \/ TakeIdle \/ IdleTimeout \/ StartRefused \/ Prepare \/ SecondReadFails \/ Launch
    \/ AtCancelFlag \/ AtCancelState

TransferThread ==
    \/ Park \/ Wake \/ LookAgain \/ SeeCancel \/ SeeIdle \/ SeeDisconnected \/ SeeWork \/ Open
    \/ SendFile \/ SendStopped \/ LinkLost \/ SendFails \/ FileAcked \/ SendDone
    \/ transfer_cleanup

Next ==
    \/ Download \/ AtCancel \/ AtServer
    \/ transfer_cancel \/ Disconnect \/ Reconnect
    \/ SegmentClosed \/ SegmentCreated \/ RecordingStopped
    \/ TransferThread

\* The threads keep running, and a segment that is being written is closed some
\* time (the audio thread rotates segments while a transfer runs).  Commands,
\* cancels and changes of the link may or may not come.
Fairness == WF_vars(AtServer) /\ WF_vars(TransferThread) /\ WF_vars(SegmentClosed)

Spec == Init /\ [][Next]_vars
FairSpec == Spec /\ Fairness

----------------------------------------------------------------------------
(* Properties. *)

ThreadPCs == {"parked", "park", "top", "open", "send", "end", "done", "doneTop",
              "cleanup", "cleanupTop"}
AtPCs == {"idle", "wait", "locked", "filled", "cancel", "cancelFlag"}

\* The variables keep their types; the index of the next file never leaves the
\* natural numbers.
TypeOK ==
    /\ t \in ThreadPCs /\ at \in AtPCs
    /\ transfer_idle_sem \in {0, 1} /\ transfer_trigger_sem \in {0, 1}
    /\ state \in States /\ session \in BOOLEAN
    /\ file_index \in Nat /\ synced_files \in Nat
    /\ current_file \in Nat /\ total_files \in Nat
    /\ continuous \in BOOLEAN /\ transfer_file_open \in BOOLEAN
    /\ cancel_requested \in BOOLEAN /\ complete_sent \in BOOLEAN
    /\ errors \in Nat /\ boost \in Int /\ connected \in BOOLEAN
    /\ latest \in BOOLEAN /\ recording \in BOOLEAN
    /\ card \in [1..NFiles -> Contents]
    /\ saved \in Nat /\ delivered \subseteq Nat /\ dones \in Nat
    /\ asked \in Nat /\ left \subseteq Nat /\ unseen \subseteq Nat

\* The idle signal, the trigger, the AT server between the two and the running
\* thread: the right to write current_transfer is in exactly one of these
\* places, so a DOWNLOAD never fills it while the thread works on it
\* (transfer_idle_sem and transfer_trigger_sem, transfer.c).
Holders == { h \in {"idle", "trigger", "at", "thread"} :
    \/ h = "idle"    /\ transfer_idle_sem = 1
    \/ h = "trigger" /\ transfer_trigger_sem = 1
    \/ h = "at"      /\ at \in {"locked", "filled"}
    \/ h = "thread"  /\ t # "parked" }

OneHolder == \E h \in {"idle", "trigger", "at", "thread"} : Holders = {h}

\* A DOWNLOAD is announced done at most once, however its end, a cancel and a
\* refused DOWNLOAD interleave (send_transfer_complete_once).
DoneOnce == dones <= 1

\* Nothing that is still being recorded is sent (storage_file_is_writing).
OnlyClosedFilesSent == transfer_file_open => OnCard(current_file) = "closed"

\* A file counted in session.json's "synced" has been acknowledged, unless it is
\* not on the card (or the card would not show it), or the clients themselves have
\* left it out, by asking for a start behind it when it was not counted yet.  A
\* client that resumes after "synced" (docs/protocol.md) leaves out nothing, so it
\* may delete what is synced.
SyncedDelivered ==
    \A f \in 1..saved : \/ f \in delivered \cup left \cup unseen
                        \/ OnCard(f) \in {"absent", "empty"}

\* When no command is under way the transfers hold no CPU boost.
BoostGivenBack ==
    t = "parked" /\ transfer_trigger_sem = 0 /\ at = "idle" => boost <= 0

\* A transfer that completes (not one that fails or is cancelled) has sent every
\* closed file of the session that its client did not leave out, or has met an
\* empty file.  What the card does not show is left out too: a file taken as
\* missing, and, as that may end the transfer, those after it.
CompletedMeansDelivered ==
    [][state # "COMPLETED" /\ state' = "COMPLETED" =>
          \/ \A f \in 1..NFiles : card[f] = "closed" =>
                \/ f \in delivered \cup LeftOut
                \/ \E g \in unseen' : g <= f
          \/ OnCard(NextFile) = "empty"]_vars

\* A transfer that is running is announced done, or the link is lost.
TransferAnnounced == transfer_is_active ~> (dones = 1 \/ ~connected)

\* A cancelled transfer comes to an end and the thread is ready for the next
\* one (docs/architecture.md section 3.7: cancel is thread-safe, the transfer is
\* fully inactive before the next start).
CancelEnds == at = "cancelFlag" ~> t = "parked"
=============================================================================
