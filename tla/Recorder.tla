------------------------------- MODULE Recorder -------------------------------
(***************************************************************************)
(* The recording core of the Clip firmware: the event dispatcher that runs *)
(* in the main thread (clip_event.c, main.c), the audio recording thread   *)
(* (audio.c), and the threads that drive them: the AT server, the button   *)
(* callback and the reboot work (at_commands.c, button.c).                 *)
(*                                                                         *)
(* Every step is one stretch of code between two points where another      *)
(* thread can observe or change shared state: a queue or semaphore         *)
(* operation, a mutex section, a write of a shared flag, a blocking call.  *)
(* UI, haptic, log and notification calls are left out; hardware and card  *)
(* errors are choices that the constant Faults switches on.                *)
(***************************************************************************)
EXTENDS Naturals, Sequences, FiniteSets

CONSTANTS
    Main,           \* the main thread, which runs the dispatcher
    Worker,         \* the system work queue, which runs reboot_work
    Clients,        \* the threads that post events and wait for the result
    AtServers,      \* the clients whose STOP has cmd_stop_handler's fallback
    NoClient,       \* the poster of an item nobody waits for
    ClientEvents,   \* client -> the events it posts with clip_post_event_sync
    AsyncEvents,    \* the events posted with clip_post_event
    Faults,         \* the failures and commands a run allows
    QueueSize,      \* EVENT_QUEUE_SIZE
    Sids,           \* session identifiers
    NoSid           \* no session was ever started: current_session_id[0] == 0

Procs == Clients \cup {Main, Worker}

FaultNames == {"card", "mic", "create", "close", "write", "dmic", "resume", "slowStop",
               "wifi", "pmic", "usb", "reboot"}

Events == {"START", "STOP", "PAUSE", "RESUME", "MARK", "WIFI_ON", "WIFI_OFF",
           "POWER_OFF_SHOW", "POWER_OFF_EXEC", "STATUS_SHOW"}

ASSUME ProcsAssumption ==
    /\ Main # Worker
    /\ Main \notin Clients /\ Worker \notin Clients
    /\ NoClient \notin Clients \cup {Main, Worker}
    /\ AtServers \subseteq Clients
ASSUME EventsAssumption ==
    /\ ClientEvents \in [Clients -> SUBSET Events]
    /\ AsyncEvents \subseteq Events
    /\ Faults \subseteq FaultNames
ASSUME SizesAssumption ==
    /\ QueueSize \in Nat \ {0}
    /\ NoSid \notin Sids /\ Sids # {}

VARIABLES
    g_state,            \* the device state the dispatcher keeps
    clip_ev_msgq,       \* the event queue
    event_notify_sem,   \* wakes the main loop
    item,               \* the item the dispatcher has in hand
    result,             \* the result it will report for that item
    pc,                 \* where each process is
    audio,              \* where the audio thread is
    recording_active, is_paused, stop_requested, pause_requested,
    audio_start_sem, stop_done_sem,
    current_session_id,
    open_sessions,      \* sessions created on the card and not yet closed
    refused,            \* history: those the card refused to create or to close
    file_open,          \* current_storage_file.is_open
    g_boost_refcnt

dispVars == <<g_state, clip_ev_msgq, event_notify_sem, item, result>>
flagVars == <<recording_active, is_paused, stop_requested, pause_requested>>
semVars  == <<audio_start_sem, stop_done_sem>>
cardVars == <<open_sessions, refused, file_open, g_boost_refcnt>>
vars == <<dispVars, pc, audio, flagVars, semVars, current_session_id, cardVars>>

(***************************************************************************)
(* The transition table.  TRANS_SAME is a row that keeps its state; a pair *)
(* with no row is TRANS_INVALID.  The rows of UNINITIALIZED, TRANSMITTING, *)
(* ERROR and OTA are left out: no row leads to them and g_state starts in  *)
(* IDLE, so the device is never in them (TypeOK proves it for this table). *)
(***************************************************************************)
States == {"IDLE", "RECORDING", "WIFI_SYNC", "PAUSED"}

transition_table ==
    { <<"IDLE", "START", "RECORDING">>,       <<"IDLE", "WIFI_ON", "WIFI_SYNC">>,
      <<"IDLE", "STATUS_SHOW", "IDLE">>,
      <<"RECORDING", "STOP", "IDLE">>,        <<"RECORDING", "PAUSE", "PAUSED">>,
      <<"RECORDING", "MARK", "RECORDING">>,
      <<"WIFI_SYNC", "WIFI_ON", "WIFI_SYNC">>, <<"WIFI_SYNC", "WIFI_OFF", "IDLE">>,
      <<"WIFI_SYNC", "STATUS_SHOW", "WIFI_SYNC">>,
      <<"PAUSED", "STOP", "IDLE">>,           <<"PAUSED", "RESUME", "RECORDING">>,
      <<"PAUSED", "MARK", "PAUSED">>,         <<"PAUSED", "WIFI_ON", "WIFI_SYNC">> }
    \cup { <<s, e, s>> : s \in States, e \in {"POWER_OFF_SHOW", "POWER_OFF_EXEC"} }

Targets(s, e) == { t \in States : <<s, e, t>> \in transition_table }

Results == {"OK", "INVALID", "BUSY", "ERROR"}
Items   == [event : Events, client : Clients \cup {NoClient}]
NoItem  == [event |-> "POWER_OFF_SHOW", client |-> NoClient]

Init ==
    /\ g_state = "IDLE"
    /\ clip_ev_msgq = <<>> /\ event_notify_sem = 0
    /\ item = NoItem /\ result = "OK"
    /\ pc = [p \in Procs |-> "idle"]
    /\ audio = "wait"
    /\ recording_active = FALSE /\ is_paused = FALSE
    /\ stop_requested = FALSE /\ pause_requested = FALSE
    /\ audio_start_sem = 0 /\ stop_done_sem = 0
    /\ current_session_id = NoSid
    /\ open_sessions = {} /\ refused = {} /\ file_open = FALSE /\ g_boost_refcnt = 0

----------------------------------------------------------------------------
(* Posting an event. *)

Enqueue(e, c) ==
    /\ Len(clip_ev_msgq) < QueueSize
    /\ clip_ev_msgq' = Append(clip_ev_msgq, [event |-> e, client |-> c])
    /\ event_notify_sem' = 1
    /\ UNCHANGED <<g_state, item, result, audio, flagVars, semVars,
                   current_session_id, cardVars>>

\* Mutant: the poster gives up waiting, its item stays in the queue.
clip_post_event_sync_GivesUp(c) ==
    \/ /\ pc[c] = "idle"
       /\ \E e \in ClientEvents[c] : Enqueue(e, c)
       /\ pc' = [pc EXCEPT ![c] = "waiting"]
    \/ /\ pc[c] = "waiting"
       /\ pc' = [pc EXCEPT ![c] = "idle"]
       /\ UNCHANGED <<dispVars, audio, flagVars, semVars, current_session_id, cardVars>>

\* A full queue answers BUSY at once (the client keeps running: no step);
\* otherwise the client blocks, for ever, on a semaphore on its own stack.
clip_post_event_sync(c) ==
    /\ pc[c] = "idle"
    /\ \E e \in ClientEvents[c] : Enqueue(e, c)
    /\ pc' = [pc EXCEPT ![c] = "waiting"]

\* A full queue drops the event: no step.
clip_post_event ==
    /\ \E e \in AsyncEvents : Enqueue(e, NoClient)
    /\ UNCHANGED pc

----------------------------------------------------------------------------
(* audio_stop_recording, called by the dispatcher, by the AT fallback and  *)
(* by the reboot work.                                                     *)

\* Mutant: the stop is requested but not waited for.
audio_stop_recording_NoWait(p) ==
    /\ pc[p] = "stopCall"
    /\ stop_requested' = TRUE
    /\ pc' = [pc EXCEPT ![p] = "stopOk"]
    /\ UNCHANGED <<dispVars, audio, recording_active, is_paused, pause_requested,
                   semVars, current_session_id, cardVars>>

audio_stop_recording(p) ==
    /\ pc[p] = "stopCall"
    /\ stop_requested' = TRUE
    /\ pc' = [pc EXCEPT ![p] = IF recording_active THEN "stopWait" ELSE "stopOk"]
    /\ UNCHANGED <<dispVars, audio, recording_active, is_paused, pause_requested,
                   semVars, current_session_id, cardVars>>

StopTaken(p) ==
    /\ pc[p] = "stopWait" /\ stop_done_sem = 1
    /\ stop_done_sem' = 0
    /\ pc' = [pc EXCEPT ![p] = "stopOk"]
    /\ UNCHANGED <<dispVars, audio, flagVars, audio_start_sem,
                   current_session_id, cardVars>>

Stopping == audio \in {"ending", "closeFile", "closeSession", "signal"}

\* Mutants: a wait shorter than the cleanup, and a wait without a limit.
StopTimeout_Short(p) ==
    /\ pc[p] = "stopWait" /\ stop_done_sem = 0
    /\ pc' = [pc EXCEPT ![p] = "stopErr"]
    /\ UNCHANGED <<dispVars, audio, flagVars, semVars, current_session_id, cardVars>>

StopTimeout_Forever(p) == FALSE

\* The 5 s wait expires: always when no signal is on its way, and with a slow
\* card also while the audio thread is still closing.
StopTimeout(p) ==
    /\ pc[p] = "stopWait" /\ stop_done_sem = 0
    /\ "slowStop" \in Faults \/ audio = "wait" \/ (~Stopping /\ ~stop_requested)
    /\ pc' = [pc EXCEPT ![p] = "stopErr"]
    /\ UNCHANGED <<dispVars, audio, flagVars, semVars, current_session_id, cardVars>>

\* k_sem_give: a waiting thread takes the signal, otherwise it is kept (at
\* most one).  k_sem_reset: the count is cleared and waiters return an error.
StopWaiters == { p \in Procs : pc[p] = "stopWait" }

GiveStopDone ==
    \/ /\ StopWaiters = {} /\ stop_done_sem' = 1 /\ UNCHANGED pc
    \/ /\ \E p \in StopWaiters : pc' = [pc EXCEPT ![p] = "stopOk"]
       /\ UNCHANGED stop_done_sem

----------------------------------------------------------------------------
(* The dispatcher. *)

clip_event_wait ==
    /\ pc[Main] = "idle" /\ event_notify_sem = 1
    /\ event_notify_sem' = 0
    /\ pc' = [pc EXCEPT ![Main] = "get"]
    /\ UNCHANGED <<g_state, clip_ev_msgq, item, result, audio, flagVars, semVars,
                   current_session_id, cardVars>>

QueueDrained ==
    /\ pc[Main] = "get" /\ clip_ev_msgq = <<>>
    /\ pc' = [pc EXCEPT ![Main] = "idle"]
    /\ UNCHANGED <<dispVars, audio, flagVars, semVars, current_session_id, cardVars>>

\* START is refused in WIFI_SYNC by the table and by the check before it, and
\* while the USB card reader is enabled ("usb", another component's state).
Refused(e) ==
    \/ Targets(g_state, e) = {}
    \/ e = "START" /\ "usb" \in Faults

Admitted(e) == Targets(g_state, e) # {}

\* Mutant: a refused event is skipped without releasing its poster.
GetEvent_SkipsNotify ==
    /\ pc[Main] = "get" /\ clip_ev_msgq # <<>>
    /\ clip_ev_msgq' = Tail(clip_ev_msgq)
    /\ \/ /\ Refused(Head(clip_ev_msgq).event)
          /\ UNCHANGED <<item, pc>>
       \/ /\ Admitted(Head(clip_ev_msgq).event)
          /\ item' = Head(clip_ev_msgq)
          /\ pc' = [pc EXCEPT ![Main] = "exec"]
    /\ UNCHANGED <<g_state, event_notify_sem, result, audio, flagVars, semVars,
                   current_session_id, cardVars>>

GetEvent ==
    /\ pc[Main] = "get" /\ clip_ev_msgq # <<>>
    /\ item' = Head(clip_ev_msgq)
    /\ clip_ev_msgq' = Tail(clip_ev_msgq)
    /\ \/ /\ Refused(item'.event)
          /\ result' = "INVALID"
          /\ pc' = [pc EXCEPT ![Main] = "notify"]
       \/ /\ Admitted(item'.event)
          /\ result' = "OK"
          /\ pc' = [pc EXCEPT ![Main] = "exec"]
    /\ UNCHANGED <<g_state, event_notify_sem, audio, flagVars, semVars,
                   current_session_id, cardVars>>

Executing(e) == pc[Main] = "exec" /\ item.event = e

Finish(r) ==
    /\ result' = r
    /\ pc' = [pc EXCEPT ![Main] = "notify"]
    /\ UNCHANGED <<g_state, clip_ev_msgq, event_notify_sem, item>>

GoOn(where) ==
    /\ pc' = [pc EXCEPT ![Main] = where]
    /\ UNCHANGED dispVars

\* Mutant: the wrong semaphore is reset, after the start was given.
ExecStart_ResetsStartSem ==
    /\ Executing("START")
    /\ ~recording_active
    /\ current_session_id' \in Sids
    /\ stop_requested' = FALSE
    /\ audio_start_sem' = 0
    /\ Finish("OK")
    /\ UNCHANGED <<stop_done_sem, audio, recording_active, is_paused, pause_requested,
                   cardVars>>

\* Mount and capacity checks, then audio_start_recording.  The session id is
\* the time in seconds, so two recordings may get the same one.
ExecStart ==
    /\ Executing("START")
    /\ \/ /\ "card" \in Faults
          /\ Finish("ERROR")
          /\ UNCHANGED <<stop_requested, semVars, current_session_id>>
       \/ /\ recording_active
          /\ Finish("BUSY")
          /\ UNCHANGED <<stop_requested, semVars, current_session_id>>
       \/ /\ ~recording_active
          /\ current_session_id' \in Sids
          /\ stop_requested' = FALSE
          /\ stop_done_sem' = 0
          /\ audio_start_sem' = 1
          /\ result' = "OK"
          /\ pc' = [p \in Procs |-> IF p = Main THEN "notify"
                                    ELSE IF pc[p] = "stopWait" THEN "stopErr"
                                    ELSE pc[p]]
          /\ UNCHANGED <<g_state, clip_ev_msgq, event_notify_sem, item>>
    /\ UNCHANGED <<audio, recording_active, is_paused, pause_requested, cardVars>>

ExecStop ==
    /\ Executing("STOP")
    /\ \/ ~recording_active /\ Finish("INVALID")
       \/ recording_active /\ GoOn("stopCall")
    /\ UNCHANGED <<audio, flagVars, semVars, current_session_id, cardVars>>

\* audio_is_recording and audio_pause_recording are two mutex sections: the
\* recording may end between them, and the pause then reports success.
ExecPause ==
    /\ Executing("PAUSE")
    /\ \/ ~recording_active /\ Finish("INVALID")
       \/ recording_active /\ GoOn("pauseCall")
    /\ UNCHANGED <<audio, flagVars, semVars, current_session_id, cardVars>>

audio_pause_recording ==
    /\ pc[Main] = "pauseCall"
    /\ pause_requested' = (pause_requested \/ (recording_active /\ ~is_paused))
    /\ Finish("OK")
    /\ UNCHANGED <<audio, recording_active, is_paused, stop_requested, semVars,
                   current_session_id, cardVars>>

\* Not recording, or not paused yet, is reported as success as well.
audio_resume_recording ==
    /\ Executing("RESUME")
    /\ is_paused' = (is_paused /\ ~recording_active)
    /\ Finish("OK")
    /\ UNCHANGED <<audio, recording_active, stop_requested, pause_requested,
                   semVars, current_session_id, cardVars>>

\* The bookmark goes to storage, which may fail; its second audio_is_recording
\* check fails when the recording ended after the first.
ExecMark ==
    /\ Executing("MARK")
    /\ \/ recording_active /\ Finish("OK")
       \/ ~recording_active /\ Finish("INVALID")
       \/ (~recording_active \/ "card" \in Faults) /\ Finish("ERROR")
    /\ UNCHANGED <<audio, flagVars, semVars, current_session_id, cardVars>>

ExecWifi ==
    /\ Executing("WIFI_ON") \/ Executing("WIFI_OFF")
    /\ Finish("OK") \/ ("wifi" \in Faults /\ Finish("ERROR"))
    /\ UNCHANGED <<audio, flagVars, semVars, current_session_id, cardVars>>

ExecShow ==
    /\ Executing("POWER_OFF_SHOW") \/ Executing("STATUS_SHOW")
    /\ Finish("OK")
    /\ UNCHANGED <<audio, flagVars, semVars, current_session_id, cardVars>>

\* The transfer that POWER_OFF_EXEC cancels first is in module Transfer.
ExecPowerOff ==
    /\ Executing("POWER_OFF_EXEC")
    /\ GoOn(IF recording_active THEN "stopCall" ELSE "powerCut")
    /\ UNCHANGED <<audio, flagVars, semVars, current_session_id, cardVars>>

StopReturned ==
    /\ pc[Main] \in {"stopOk", "stopErr"}
    /\ IF item.event = "STOP"
       THEN Finish(IF pc[Main] = "stopOk" THEN "OK" ELSE "ERROR")
       ELSE GoOn("powerCut")
    /\ UNCHANGED <<audio, flagVars, semVars, current_session_id, cardVars>>

PowerOffFails ==
    /\ pc[Main] = "powerCut" /\ "pmic" \in Faults
    /\ Finish("ERROR")
    /\ UNCHANGED <<audio, flagVars, semVars, current_session_id, cardVars>>

\* The new state is stored, then the client that waits is released.  An AT
\* client whose STOP was INVALID goes on to look at the audio module itself.
Notify ==
    LET c == item.client
        released == IF c \in AtServers /\ item.event = "STOP" /\ result = "INVALID"
                    THEN "fallback" ELSE "idle"
    IN  /\ pc[Main] = "notify"
        /\ IF result = "OK" THEN g_state' \in Targets(g_state, item.event)
                            ELSE UNCHANGED g_state
        /\ pc' = [p \in Procs |-> IF p = Main THEN "get"
                                  ELSE IF p = c THEN released ELSE pc[p]]
        /\ item' = NoItem /\ result' = "OK"
        /\ UNCHANGED <<clip_ev_msgq, event_notify_sem, audio, flagVars, semVars,
                       current_session_id, cardVars>>

----------------------------------------------------------------------------
(* The AT server after an INVALID STOP, and the reboot work. *)

StopFallback(c) ==
    /\ pc[c] = "fallback"
    /\ pc' = [pc EXCEPT ![c] = IF recording_active THEN "stopCall" ELSE "idle"]
    /\ UNCHANGED <<dispVars, audio, flagVars, semVars, current_session_id, cardVars>>

FallbackDone(c) ==
    /\ pc[c] \in {"stopOk", "stopErr"}
    /\ pc' = [pc EXCEPT ![c] = "idle"]
    /\ UNCHANGED <<dispVars, audio, flagVars, semVars, current_session_id, cardVars>>

RebootWork ==
    /\ pc[Worker] = "idle" /\ "reboot" \in Faults
    /\ pc' = [pc EXCEPT ![Worker] = IF recording_active THEN "stopCall" ELSE "powerCut"]
    /\ UNCHANGED <<dispVars, audio, flagVars, semVars, current_session_id, cardVars>>

RebootGoesOn ==
    /\ pc[Worker] \in {"stopOk", "stopErr"}
    /\ pc' = [pc EXCEPT ![Worker] = "powerCut"]
    /\ UNCHANGED <<dispVars, audio, flagVars, semVars, current_session_id, cardVars>>

\* Ship mode and sys_reboot both end in a cold boot: all of RAM is lost.  A
\* session left open on the card stays as it is and is nobody's any more.
Restart(p) ==
    /\ pc[p] = "powerCut"
    /\ g_state' = "IDLE"
    /\ clip_ev_msgq' = <<>> /\ event_notify_sem' = 0
    /\ item' = NoItem /\ result' = "OK"
    /\ pc' = [q \in Procs |-> "idle"]
    /\ audio' = "wait"
    /\ recording_active' = FALSE /\ is_paused' = FALSE
    /\ stop_requested' = FALSE /\ pause_requested' = FALSE
    /\ audio_start_sem' = 0 /\ stop_done_sem' = 0
    /\ current_session_id' = NoSid
    /\ open_sessions' = {} /\ refused' = {} /\ file_open' = FALSE /\ g_boost_refcnt' = 0

----------------------------------------------------------------------------
(* The audio recording thread. *)

TakeStart ==
    /\ audio = "wait" /\ audio_start_sem = 1
    /\ audio_start_sem' = 0
    /\ \/ /\ stop_requested /\ stop_requested' = FALSE
          /\ UNCHANGED <<audio, g_boost_refcnt>>
       \/ /\ ~stop_requested
          /\ audio' = "init"
          /\ g_boost_refcnt' = g_boost_refcnt + 1
          /\ UNCHANGED stop_requested
    /\ UNCHANGED <<dispVars, pc, recording_active, is_paused, pause_requested,
                   stop_done_sem, current_session_id, open_sessions, refused, file_open>>

\* Mutant: the boost is kept on the failure path.
StartFails_KeepsBoost ==
    /\ audio = "init" /\ "mic" \in Faults
    /\ audio' = "wait"
    /\ UNCHANGED <<dispVars, pc, flagVars, semVars, current_session_id, cardVars>>

\* Microphone, encoder or DMIC cannot be started: nobody is told.
StartFails ==
    /\ audio = "init" /\ "mic" \in Faults
    /\ audio' = "wait"
    /\ g_boost_refcnt' = g_boost_refcnt - 1
    /\ UNCHANGED <<dispVars, pc, flagVars, semVars, current_session_id,
                   open_sessions, refused, file_open>>

\* A file that cannot be created is only logged: recording goes on without.
CreateFile ==
    file_open' \in {TRUE} \cup (IF "create" \in Faults THEN {FALSE} ELSE {})

\* So is a session: its recording goes on, in files that no list shows.
CreateSession ==
    /\ audio = "init"
    /\ audio' = "activate"
    /\ \/ /\ open_sessions' = open_sessions \cup {current_session_id}
          /\ refused' = refused \ {current_session_id}
       \/ /\ "create" \in Faults
          /\ refused' = refused \cup {current_session_id}
          /\ UNCHANGED open_sessions
    /\ CreateFile
    /\ UNCHANGED <<dispVars, pc, flagVars, semVars, current_session_id, g_boost_refcnt>>

Activate ==
    /\ audio = "activate"
    /\ audio' = "loop"
    /\ recording_active' = TRUE /\ is_paused' = FALSE
    /\ UNCHANGED <<dispVars, pc, stop_requested, pause_requested, semVars,
                   current_session_id, cardVars>>

Continuing == audio = "loop" /\ ~stop_requested

SeeStop ==
    /\ audio \in {"loop", "paused"} /\ stop_requested
    /\ audio' = "ending"
    /\ UNCHANGED <<dispVars, pc, flagVars, semVars, current_session_id, cardVars>>

SeePause ==
    /\ Continuing /\ pause_requested
    /\ pause_requested' = FALSE
    /\ file_open' = FALSE
    /\ audio' = "pausing"
    /\ UNCHANGED <<dispVars, pc, recording_active, is_paused, stop_requested, semVars,
                   current_session_id, open_sessions, refused, g_boost_refcnt>>

EnterPause ==
    /\ audio = "pausing"
    /\ is_paused' = TRUE
    /\ audio' = "paused"
    /\ UNCHANGED <<dispVars, pc, recording_active, stop_requested, pause_requested,
                   semVars, current_session_id, cardVars>>

LeavePause ==
    /\ audio = "paused" /\ ~is_paused /\ ~stop_requested
    /\ audio' = "resuming"
    /\ UNCHANGED <<dispVars, pc, flagVars, semVars, current_session_id, cardVars>>

\* The next file cannot be created, or it is and the DMIC does not restart.
Resumed ==
    /\ audio = "resuming"
    /\ \/ audio' = "loop" /\ file_open' = TRUE
       \/ audio' = "ending" /\ "resume" \in Faults /\ file_open' \in BOOLEAN
    /\ UNCHANGED <<dispVars, pc, flagVars, semVars, current_session_id,
                   open_sessions, refused, g_boost_refcnt>>

ReadFails ==
    /\ Continuing /\ ~pause_requested /\ "dmic" \in Faults
    /\ audio' = "ending"
    /\ UNCHANGED <<dispVars, pc, flagVars, semVars, current_session_id, cardVars>>

WriteFails ==
    /\ audio = "loop" /\ file_open /\ "write" \in Faults
    /\ file_open' = FALSE
    /\ stop_requested' = TRUE
    /\ UNCHANGED <<dispVars, pc, audio, recording_active, is_paused, pause_requested,
                   semVars, current_session_id, open_sessions, refused, g_boost_refcnt>>

\* The segment is full: close the file, open the next.  The frame that is in
\* work when a stop is requested is still finished, so no guard on the flags.
NextSegment ==
    /\ audio = "loop"
    /\ CreateFile
    /\ UNCHANGED <<dispVars, pc, audio, flagVars, semVars, current_session_id,
                   open_sessions, refused, g_boost_refcnt>>

\* Mutant: a recording that ends while paused skips the close of its session.
EndRecording_PausedShortcut ==
    /\ audio = "ending"
    /\ recording_active' = FALSE /\ is_paused' = FALSE
    /\ audio' = IF is_paused THEN "signal" ELSE "closeFile"
    /\ UNCHANGED <<dispVars, pc, stop_requested, pause_requested, semVars,
                   current_session_id, cardVars>>

EndRecording ==
    /\ audio = "ending"
    /\ recording_active' = FALSE /\ is_paused' = FALSE
    /\ audio' = "closeFile"
    /\ UNCHANGED <<dispVars, pc, stop_requested, pause_requested, semVars,
                   current_session_id, cardVars>>

\* Mutant: the file is left to be closed by the next storage_create_file.
CloseFile_Lazy ==
    /\ audio = "closeFile"
    /\ audio' = "closeSession"
    /\ UNCHANGED <<dispVars, pc, flagVars, semVars, current_session_id, cardVars>>

\* The file is closed also when its last frames cannot be flushed or synced, and
\* the close returns 0: whether they are on the card is not in the model.
CloseFile ==
    /\ audio = "closeFile"
    /\ file_open' = FALSE
    /\ audio' = "closeSession"
    /\ UNCHANGED <<dispVars, pc, flagVars, semVars, current_session_id,
                   open_sessions, refused, g_boost_refcnt>>

\* The session closed is the one current_session_id names NOW.  That its
\* session.json could not be rewritten, or does not exist, is reported to nobody.
CloseSession ==
    /\ audio = "closeSession"
    /\ \/ /\ open_sessions' = open_sessions \ {current_session_id}
          /\ UNCHANGED refused
       \/ /\ "close" \in Faults
          /\ refused' = refused \cup {current_session_id}
          /\ UNCHANGED open_sessions
    /\ g_boost_refcnt' = g_boost_refcnt - 1
    /\ audio' = "signal"
    /\ UNCHANGED <<dispVars, pc, flagVars, semVars, current_session_id, file_open>>

SignalDone ==
    /\ audio = "signal"
    /\ stop_requested' = FALSE /\ pause_requested' = FALSE
    /\ GiveStopDone
    /\ audio' = "wait"
    /\ UNCHANGED <<dispVars, recording_active, is_paused, audio_start_sem,
                   current_session_id, cardVars>>

----------------------------------------------------------------------------
Dispatch ==
    \/ clip_event_wait \/ QueueDrained \/ GetEvent \/ ExecStart \/ ExecStop
    \/ ExecPause \/ audio_pause_recording \/ audio_resume_recording \/ ExecMark
    \/ ExecWifi \/ ExecShow \/ ExecPowerOff \/ StopReturned \/ PowerOffFails
    \/ Notify

StopSteps(p) == audio_stop_recording(p) \/ StopTaken(p) \/ StopTimeout(p) \/ Restart(p)

AudioThread ==
    \/ TakeStart \/ StartFails \/ CreateSession \/ Activate \/ SeeStop \/ SeePause
    \/ EnterPause \/ LeavePause \/ Resumed \/ EndRecording \/ CloseFile
    \/ CloseSession \/ SignalDone

Next ==
    \/ clip_post_event
    \/ \E c \in Clients : clip_post_event_sync(c) \/ StopFallback(c) \/ FallbackDone(c)
    \/ RebootWork \/ RebootGoesOn
    \/ \E p \in Procs : StopSteps(p)
    \/ Dispatch
    \/ AudioThread
    \/ ReadFails \/ WriteFails \/ NextSegment

\* The threads are scheduled: each keeps taking the steps its code is ready to
\* take.  Nothing forces a user to post, a fault to happen or a segment to end.
Fairness ==
    /\ WF_vars(Dispatch)
    /\ WF_vars(AudioThread)
    /\ \A p \in Procs : WF_vars(StopSteps(p))
    /\ \A c \in Clients : WF_vars(StopFallback(c) \/ FallbackDone(c))
    /\ WF_vars(RebootGoesOn)

Spec == Init /\ [][Next]_vars
FairSpec == Spec /\ Fairness

----------------------------------------------------------------------------
(* Properties. *)

MainPCs == {"idle", "get", "exec", "pauseCall", "stopCall", "stopWait", "stopOk",
            "stopErr", "powerCut", "notify"}
ClientPCs == {"idle", "waiting", "fallback", "stopCall", "stopWait", "stopOk", "stopErr"}
WorkerPCs == {"idle", "stopCall", "stopWait", "stopOk", "stopErr", "powerCut"}
AudioPCs == {"wait", "init", "activate", "loop", "pausing", "paused", "resuming",
             "ending", "closeFile", "closeSession", "signal"}

\* The variables stay in their types; in particular g_state never takes one of
\* the states whose rows of the table are left out.
TypeOK ==
    /\ g_state \in States
    /\ clip_ev_msgq \in Seq(Items) /\ Len(clip_ev_msgq) <= QueueSize
    /\ event_notify_sem \in {0, 1}
    /\ item \in Items /\ result \in Results
    /\ pc \in [Procs -> MainPCs \cup ClientPCs]
    /\ pc[Main] \in MainPCs /\ pc[Worker] \in WorkerPCs
    /\ \A c \in Clients : pc[c] \in ClientPCs
    /\ audio \in AudioPCs
    /\ recording_active \in BOOLEAN /\ is_paused \in BOOLEAN
    /\ stop_requested \in BOOLEAN /\ pause_requested \in BOOLEAN
    /\ audio_start_sem \in {0, 1} /\ stop_done_sem \in {0, 1}
    /\ current_session_id \in Sids \cup {NoSid}
    /\ open_sessions \subseteq Sids /\ refused \subseteq Sids /\ file_open \in BOOLEAN
    /\ g_boost_refcnt \in Nat

Slots(c) == { i \in 1..Len(clip_ev_msgq) : clip_ev_msgq[i].client = c }

\* A queued item points at a semaphore and a result on its poster's stack
\* (clip_post_event_sync).  Exactly the clients that are blocked in that
\* function have an item, in the queue or in the dispatcher's hand, and each
\* has one: no item outlives its stack frame, no client waits for nothing.
WaiterHasItem ==
    \A c \in Clients :
        /\ pc[c] = "waiting" <=> (Slots(c) # {} \/ item.client = c)
        /\ item.client = c => Slots(c) = {}
        /\ \A i, j \in Slots(c) : i = j

\* recording_active and the CPU boost follow the audio thread through every
\* way a recording starts, fails to start, pauses and ends: the boost is held
\* from the start of the initialisation to the end of the cleanup, once.
ResourcesBalanced ==
    /\ g_boost_refcnt = (IF audio \in {"wait", "signal"} THEN 0 ELSE 1)
    /\ recording_active
          <=> audio \in {"loop", "pausing", "paused", "resuming", "ending"}

\* No file stays open while the recording is paused, nor when it is over.
FileOpenOnlyWhileRecording ==
    file_open => audio \in {"activate", "loop", "ending", "closeFile"}

\* The state the dispatcher shows between two events is the state of the audio
\* thread: RECORDING and PAUSED have one recording under way (or just asked
\* for), IDLE and WIFI_SYNC have none.
UnderWay == audio_start_sem = 1 \/ audio # "wait"

StateAgreesWithAudio ==
    pc[Main] \in {"idle", "get"} =>
        (g_state \in {"RECORDING", "PAUSED"} <=> UnderWay)

\* When the dispatcher reports OK for a STOP, the file is closed, the thread is
\* ready for the next START, and no session is open that the card let be closed.
\* It does not say that all is saved: what the card refuses is not reported.
StopOkMeansClosed ==
    pc[Main] = "notify" /\ item.event = "STOP" /\ result = "OK"
        => audio = "wait" /\ ~file_open /\ open_sessions \subseteq refused

\* A signal of stop_done_sem is never left behind for a later STOP to take.
NoStaleSignal ==
    stop_done_sem = 1 => \E p \in Procs : pc[p] = "stopWait"

\* Only the recording that is under way has an open session, but for those that
\* the card refused to close: no session is closed in the place of another.
SessionsClosed ==
    /\ open_sessions \subseteq {current_session_id} \cup refused
    /\ audio = "wait" => open_sessions \subseteq refused

\* The recorder implements RecordingService: the state a caller is shown is
\* the one the dispatcher is about to store; a request lasts from the START to
\* the creation of the session, whether the card takes it or not, and the
\* recording is open from there to the close.
shownState ==
    IF pc[Main] = "notify" /\ result = "OK"
    THEN CHOOSE t \in States : t \in Targets(g_state, item.event)
    ELSE g_state

recordingStage ==
    IF audio_start_sem = 1 \/ audio = "init" THEN "requested"
    ELSE IF audio \notin {"wait", "signal"} THEN "open"
    ELSE IF shownState = "IDLE" THEN "none" ELSE "closed"

Service == INSTANCE RecordingService WITH
    state <- shownState, recording <- recordingStage, file <- file_open

\* What the caller of START and STOP relies on (clip_event.c, audio.c): one
\* session per START, closed with its file before the device shows IDLE again.
ImplementsService == Service!Spec

\* A client blocked in clip_post_event_sync, which waits K_FOREVER, is always
\* answered.
SyncPostsAnswered ==
    \A c \in Clients : pc[c] = "waiting" ~> pc[c] # "waiting"

\* Nobody stays in audio_stop_recording.
StopReturns ==
    \A p \in Procs : pc[p] \in {"stopCall", "stopWait"}
                        ~> pc[p] \notin {"stopCall", "stopWait"}

\* A START that was answered OK leads to a recording.
StartTakesEffect ==
    pc[Main] = "notify" /\ item.event = "START" /\ result = "OK" ~> recording_active

\* A device that shows PAUSED comes to have its microphone off and its file
\* closed, unless it leaves PAUSED first.
PauseTakesEffect ==
    g_state = "PAUSED" ~> (is_paused /\ ~file_open) \/ g_state # "PAUSED"

\* A device that shows RECORDING comes to record (doc: docs/protocol.md,
\* "Resumes DMIC capture"), unless it leaves RECORDING first.
ResumeTakesEffect ==
    g_state = "RECORDING" ~> (recording_active /\ ~is_paused) \/ g_state # "RECORDING"

\* A device that shows RECORDING between two events has a recording: the
\* documented reaction to a write error is to go on without storage.
RecordingGoesOn ==
    pc[Main] \in {"idle", "get"} /\ g_state = "RECORDING" => UnderWay
=============================================================================
