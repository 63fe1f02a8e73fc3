-------------------------- MODULE RecordingService --------------------------
(***************************************************************************)
(* What the recorder promises to whoever starts and stops it: a recording  *)
(* is requested by a START, opens one session on the card, and is closed,  *)
(* with its file, before the device is idle again.  It says nothing of     *)
(* threads, queues, flags or semaphores, nor whether the card takes what   *)
(* is written to it; module Recorder implements it.                        *)
(***************************************************************************)
VARIABLES
    state,      \* what the device shows: IDLE, RECORDING or PAUSED
    recording,  \* none -> requested -> open -> closed -> none
    file        \* a file of the session is open

vars == <<state, recording, file>>

Init == state = "IDLE" /\ recording = "none" /\ file = FALSE

Start ==
    /\ state = "IDLE" /\ recording = "none"
    /\ state' = "RECORDING" /\ recording' = "requested"
    /\ UNCHANGED file

\* The session is created, or refused by the card, with a first file or without.
Open ==
    /\ recording = "requested"
    /\ recording' = "open" /\ file' \in BOOLEAN
    /\ UNCHANGED state

Pause  == state = "RECORDING" /\ state' = "PAUSED" /\ UNCHANGED <<recording, file>>
Resume == state = "PAUSED" /\ state' = "RECORDING" /\ UNCHANGED <<recording, file>>

\* Files come and go within the session.
ChangeFile ==
    /\ recording = "open"
    /\ file' = ~file
    /\ UNCHANGED <<state, recording>>

Close ==
    /\ recording = "open" /\ ~file
    /\ recording' = "closed"
    /\ UNCHANGED <<state, file>>

Stop ==
    /\ state \in {"RECORDING", "PAUSED"} /\ recording = "closed"
    /\ state' = "IDLE" /\ recording' = "none"
    /\ UNCHANGED file

Next == Start \/ Open \/ Pause \/ Resume \/ ChangeFile \/ Close \/ Stop

\* A request is carried out, and a closed recording is reported.
Spec == Init /\ [][Next]_vars /\ WF_vars(Open) /\ WF_vars(Stop)
=============================================================================
