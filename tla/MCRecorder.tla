----------------------------- MODULE MCRecorder -----------------------------
(* Instances of Recorder for TLC. *)
EXTENDS Recorder, TLC

CONSTANTS at, button    \* the AT server thread and the button callback

\* What the AT server posts and waits for (at_commands.c).
AtEvents == [c \in Clients |->
    {"START", "STOP", "PAUSE", "RESUME", "WIFI_ON", "WIFI_OFF", "POWER_OFF_EXEC"}]

\* The split of the source (at_commands.c, button.c), without AT+STOP, whose
\* fallback reaches around the dispatcher.
DeviceEvents == at :> {"START", "PAUSE", "RESUME"} @@ button :> {"STOP"}

=============================================================================
