-------------------------------- MODULE Button --------------------------------
(***************************************************************************)
(* The one button of the Clip: the GPIO driver that turns edges and levels *)
(* into clicks and long presses (drivers/input/gpio_button.c), the         *)
(* application's callback (button.c), and as much of the dispatcher as the *)
(* callback sees: the event queue and the device state.                    *)
(*                                                                         *)
(* The driver's thread is woken by a counting semaphore, given at every    *)
(* edge, and then polls the pin until the gesture is over; one tick is one *)
(* polling period (30 ms).  The thread is cooperative: between two sleeps  *)
(* it is one step, unless its callback waits for the dispatcher.  The pin  *)
(* may change any number of times between two polls.  The debounce time is *)
(* one period, so no release is seen before it: that check never holds.    *)
(***************************************************************************)
EXTENDS Naturals, Sequences

CONSTANTS
    LongTicks,      \* long_press_ms[0] (1000 ms)
    MaxTicks,       \* long_press_ms[1], the last level of this board (3000 ms)
    DoubleTicks,    \* double_click_ms (200 ms)
    QueueSize,      \* EVENT_QUEUE_SIZE
    EdgeBound       \* bound of the model: edges counted by gpio_sem

ASSUME ButtonAssumption ==
    /\ LongTicks \in Nat \ {0} /\ MaxTicks \in Nat /\ LongTicks < MaxTicks
    /\ DoubleTicks \in Nat /\ QueueSize \in Nat \ {0} /\ EdgeBound \in Nat \ {0}

VARIABLES
    pin, gpio_sem,
    thread,                 \* where the driver's thread is
    press_count,
    press_age,              \* now - press_time, in ticks, at most MaxTicks
    release_age,            \* release_time - last_release_time, at most DoubleTicks + 1
    waiting_for_release, long_press_triggered, level0_auto_fired,
    poweroff_screen_active, recording_stopped,
    g_state, clip_ev_msgq,
    battery_charging,
    powered,
    stopped_in_press,       \* the press under way has stopped a recording
    release_lost            \* a press began while a RELEASE was owed

pressVars  == <<press_count, press_age, release_age, waiting_for_release,
                long_press_triggered, level0_auto_fired>>
appVars    == <<poweroff_screen_active, recording_stopped>>
deviceVars == <<g_state, battery_charging, powered>>
histVars   == <<stopped_in_press, release_lost>>
vars == <<pin, gpio_sem, thread, pressVars, appVars, clip_ev_msgq, deviceVars, histVars>>

States == {"IDLE", "RECORDING", "PAUSED", "WIFI_SYNC"}

\* "STOP_WAIT" is the STOP of clip_post_event_sync, whose poster is blocked.
Events == {"START", "STOP", "STOP_WAIT", "MARK", "STATUS_SHOW",
           "POWER_OFF_SHOW", "POWER_OFF_EXEC"}

\* The rows of the dispatcher's table that change the state.
transition_table ==
    { <<"IDLE", "START", "RECORDING">>,    <<"RECORDING", "STOP", "IDLE">>,
      <<"RECORDING", "PAUSE", "PAUSED">>,  <<"PAUSED", "RESUME", "RECORDING">>,
      <<"PAUSED", "STOP", "IDLE">>,        <<"IDLE", "WIFI_ON", "WIFI_SYNC">>,
      <<"PAUSED", "WIFI_ON", "WIFI_SYNC">>, <<"WIFI_SYNC", "WIFI_OFF", "IDLE">> }

Targets(e) == { s \in States : <<g_state, e, s>> \in transition_table }

Init ==
    /\ pin = FALSE /\ gpio_sem = 0 /\ thread = "wait"
    /\ press_count = 0 /\ press_age = 0 /\ release_age = 0
    /\ waiting_for_release = FALSE /\ long_press_triggered = FALSE
    /\ level0_auto_fired = FALSE
    /\ poweroff_screen_active = 0 /\ recording_stopped = 0
    /\ g_state = "IDLE" /\ clip_ev_msgq = <<>>
    /\ battery_charging = FALSE /\ powered = TRUE
    /\ stopped_in_press = FALSE /\ release_lost = FALSE

----------------------------------------------------------------------------
(* The user, the charger and the other clients of the dispatcher. *)

\* Both edges give the semaphore.
Edge ==
    /\ powered
    /\ pin' = ~pin
    /\ gpio_sem' = IF gpio_sem < EdgeBound THEN gpio_sem + 1 ELSE gpio_sem
    /\ UNCHANGED <<thread, pressVars, appVars, clip_ev_msgq, deviceVars, histVars>>

Charger ==
    /\ battery_charging' = ~battery_charging
    /\ UNCHANGED <<pin, gpio_sem, thread, pressVars, appVars, clip_ev_msgq, g_state, powered,
                   histVars>>

\* A command of the AT server, handled between two events of the button.
OtherClient ==
    /\ powered
    /\ \E e \in {"START", "STOP", "PAUSE", "RESUME", "WIFI_ON", "WIFI_OFF"} :
         g_state' \in Targets(e)
    /\ UNCHANGED <<pin, gpio_sem, thread, pressVars, appVars, clip_ev_msgq, battery_charging,
                   powered, histVars>>

----------------------------------------------------------------------------
(* The application's callback. *)

\* clip_post_event: dropped when the queue is full.
Posted(e) == IF Len(clip_ev_msgq) < QueueSize THEN Append(clip_ev_msgq, e) ELSE clip_ev_msgq

OnSingleClick ==
    /\ clip_ev_msgq' = Posted(IF g_state \in {"RECORDING", "PAUSED"}
                              THEN "MARK" ELSE "STATUS_SHOW")
    /\ UNCHANGED <<appVars, histVars>>

\* While recording: STOP, and wait for it (a full queue answers BUSY at once).
\* Otherwise the haptic motor confirms the threshold.  The thread then goes on
\* at "where".
OnLongPress(where) ==
    \/ /\ g_state # "RECORDING"
       /\ thread' = where
       /\ UNCHANGED <<clip_ev_msgq, appVars, histVars>>
    \/ /\ g_state = "RECORDING" /\ Len(clip_ev_msgq) < QueueSize
       /\ clip_ev_msgq' = Append(clip_ev_msgq, "STOP_WAIT")
       /\ thread' = IF where = "sleep" THEN "stopping" ELSE "stoppingLate"
       /\ UNCHANGED <<appVars, histVars>>
    \/ /\ g_state = "RECORDING" /\ Len(clip_ev_msgq) = QueueSize
       /\ recording_stopped' = 1 /\ stopped_in_press' = TRUE
       /\ thread' = where
       /\ UNCHANGED <<clip_ev_msgq, poweroff_screen_active, release_lost>>

OnMaxLevel ==
    IF battery_charging
    THEN UNCHANGED <<clip_ev_msgq, appVars>>
    ELSE /\ clip_ev_msgq' = Posted("POWER_OFF_SHOW")
         /\ poweroff_screen_active' = 1
         /\ UNCHANGED recording_stopped

\* What the press was held for; in PAUSED nothing.
DeferredAction ==
    \/ g_state = "RECORDING" /\ clip_ev_msgq' = Posted("STOP")
    \/ g_state \in {"IDLE", "WIFI_SYNC"} /\ clip_ev_msgq' = Posted("START")
    \/ g_state = "PAUSED" /\ UNCHANGED clip_ev_msgq

\* Mutant: the flag of a stopped recording is not looked at.
OnRelease_IgnoresStopped ==
    \/ /\ poweroff_screen_active = 1
       /\ poweroff_screen_active' = 0
       /\ clip_ev_msgq' = Posted("POWER_OFF_EXEC")
       /\ UNCHANGED recording_stopped
    \/ /\ poweroff_screen_active = 0
       /\ DeferredAction
       /\ recording_stopped' = 0
       /\ UNCHANGED poweroff_screen_active

\* Power off, or nothing after a press that stopped a recording, or the
\* deferred action.
OnRelease ==
    \/ /\ poweroff_screen_active = 1
       /\ poweroff_screen_active' = 0
       /\ clip_ev_msgq' = Posted("POWER_OFF_EXEC")
       /\ UNCHANGED recording_stopped
    \/ /\ poweroff_screen_active = 0 /\ recording_stopped = 1
       /\ recording_stopped' = 0
       /\ UNCHANGED <<clip_ev_msgq, poweroff_screen_active>>
    \/ /\ poweroff_screen_active = 0 /\ recording_stopped = 0
       /\ DeferredAction
       /\ UNCHANGED appVars

----------------------------------------------------------------------------
(* The driver's thread. *)

\* The edges that were counted while the thread polled wake it again.
WakeUp ==
    /\ powered /\ thread = "wait" /\ gpio_sem > 0
    /\ gpio_sem' = gpio_sem - 1
    /\ thread' = "poll"
    /\ UNCHANGED <<pin, pressVars, appVars, clip_ev_msgq, deviceVars, histVars>>

Older(age, most) == IF age < most THEN age + 1 ELSE age

Tick ==
    /\ powered /\ thread = "sleep"
    /\ thread' = "poll"
    /\ press_age' = Older(press_age, MaxTicks)
    /\ release_age' = Older(release_age, DoubleTicks + 1)
    /\ UNCHANGED <<pin, gpio_sem, press_count, waiting_for_release, long_press_triggered,
                   level0_auto_fired, appVars, clip_ev_msgq, deviceVars, histVars>>

Pressed == powered /\ thread = "poll" /\ pin /\ UNCHANGED <<pin, gpio_sem, deviceVars>>
Up      == powered /\ thread = "poll" /\ ~pin /\ UNCHANGED <<pin, gpio_sem, deviceVars>>

PressBegins ==
    /\ Pressed /\ ~waiting_for_release
    /\ press_age' = 0 /\ press_count' = press_count + 1
    /\ waiting_for_release' = TRUE /\ long_press_triggered' = FALSE
    /\ thread' = "sleep"
    /\ stopped_in_press' = FALSE
    /\ release_lost' = (release_lost \/ long_press_triggered)
    /\ UNCHANGED <<release_age, level0_auto_fired, appVars, clip_ev_msgq>>

LongReached == ~level0_auto_fired /\ press_age >= LongTicks
MaxReached  == level0_auto_fired /\ press_age >= MaxTicks

\* Level 0 fires while the button is still held.
HeldLong ==
    /\ Pressed /\ waiting_for_release /\ LongReached
    /\ level0_auto_fired' = TRUE
    /\ OnLongPress("sleep")
    /\ UNCHANGED <<press_count, press_age, release_age, waiting_for_release,
                   long_press_triggered>>

\* The last level fires as well, and the polling ends with the button still down.
\* Mutant: it forgets that a release has to follow.
HeldMax_NoTrigger ==
    /\ Pressed /\ waiting_for_release /\ MaxReached
    /\ level0_auto_fired' = FALSE
    /\ press_count' = 0 /\ waiting_for_release' = FALSE
    /\ OnMaxLevel
    /\ thread' = "wait"
    /\ UNCHANGED <<press_age, release_age, long_press_triggered, histVars>>

HeldMax ==
    /\ Pressed /\ waiting_for_release /\ MaxReached
    /\ long_press_triggered' = TRUE /\ level0_auto_fired' = FALSE
    /\ press_count' = 0 /\ waiting_for_release' = FALSE
    /\ OnMaxLevel
    /\ thread' = "wait"
    /\ UNCHANGED <<press_age, release_age, histVars>>

StillHeld ==
    /\ Pressed /\ waiting_for_release /\ ~LongReached /\ ~MaxReached
    /\ thread' = "sleep"
    /\ UNCHANGED <<pressVars, appVars, clip_ev_msgq, histVars>>

\* No press is under way; a RELEASE is owed after the last level.
NoPress ==
    /\ Up /\ press_count = 0
    /\ long_press_triggered' = FALSE
    /\ IF long_press_triggered THEN OnRelease ELSE UNCHANGED <<clip_ev_msgq, appVars>>
    /\ thread' = "wait"
    /\ UNCHANGED <<press_count, press_age, release_age, waiting_for_release,
                   level0_auto_fired, histVars>>

\* last_release_time is the time of this release.
Released(where) ==
    /\ Up /\ press_count > 0 /\ waiting_for_release
    /\ waiting_for_release' = FALSE
    /\ release_age' = 0
    /\ thread' = where
    /\ UNCHANGED <<press_age, long_press_triggered>>

ReleasedLong ==
    /\ Released("wait") /\ level0_auto_fired
    /\ level0_auto_fired' = FALSE /\ press_count' = 0
    /\ OnRelease
    /\ UNCHANGED histVars

\* The threshold fell between the last poll of the held button and this one: a
\* LONG_PRESS is reported now, and no RELEASE follows it.
ReleasedLate ==
    /\ Up /\ press_count > 0 /\ waiting_for_release /\ LongReached
    /\ waiting_for_release' = FALSE /\ release_age' = 0
    /\ press_count' = 0
    /\ OnLongPress("wait")
    /\ UNCHANGED <<press_age, long_press_triggered, level0_auto_fired>>

\* The first click: a second one may follow.
ReleasedShort ==
    /\ Released("sleep") /\ press_count = 1
    /\ ~level0_auto_fired /\ ~LongReached
    /\ UNCHANGED <<press_count, level0_auto_fired, appVars, clip_ev_msgq, histVars>>

\* The second click; BUTTON_DOUBLE_CLICK has no effect.  No sleep: the next poll.
DoubleClick ==
    /\ Released("poll") /\ press_count = 2
    /\ ~level0_auto_fired /\ ~LongReached
    /\ press_count' = 0
    /\ UNCHANGED <<level0_auto_fired, appVars, clip_ev_msgq, histVars>>

\* A second press may still come.
SecondClickWait ==
    /\ Up /\ press_count > 0 /\ ~waiting_for_release /\ release_age <= DoubleTicks
    /\ thread' = "sleep"
    /\ UNCHANGED <<pressVars, appVars, clip_ev_msgq, histVars>>

SingleClick ==
    /\ Up /\ press_count > 0 /\ ~waiting_for_release /\ release_age > DoubleTicks
    /\ press_count' = 0
    /\ OnSingleClick
    /\ thread' = "sleep"
    /\ UNCHANGED <<press_age, release_age, waiting_for_release, long_press_triggered,
                   level0_auto_fired>>

----------------------------------------------------------------------------
(* The dispatcher: it handles the oldest event; what it refuses, or what fails, *)
(* leaves the state.                                                            *)

Handle(e, answered) ==
    /\ clip_ev_msgq # <<>> /\ Head(clip_ev_msgq) = e /\ powered
    /\ clip_ev_msgq' = Tail(clip_ev_msgq)
    /\ g_state' \in Targets(answered) \cup {g_state}
    /\ UNCHANGED <<pin, gpio_sem, battery_charging, press_count, release_age,
                   waiting_for_release, long_press_triggered, level0_auto_fired>>

HandleEvent ==
    /\ \E e \in Events \ {"STOP_WAIT", "POWER_OFF_EXEC"} : Handle(e, e)
    /\ UNCHANGED <<thread, press_age, appVars, powered, histVars>>

\* The callback goes on.  The press has become older in the meantime.
HandleStopWait ==
    /\ Handle("STOP_WAIT", "STOP") /\ thread \in {"stopping", "stoppingLate"}
    /\ recording_stopped' = 1 /\ stopped_in_press' = TRUE
    /\ thread' = IF thread = "stopping" THEN "sleep" ELSE "wait"
    /\ press_age' \in press_age..MaxTicks
    /\ UNCHANGED <<poweroff_screen_active, powered, release_lost>>

\* The ship mode is entered, unless the regulator refuses.
HandlePowerOff ==
    /\ Handle("POWER_OFF_EXEC", "POWER_OFF_EXEC")
    /\ powered' \in BOOLEAN
    /\ UNCHANGED <<thread, press_age, appVars, histVars>>

\* A press wakes the device: a cold boot.
PowerOn ==
    /\ ~powered
    /\ powered' = TRUE
    /\ pin' = FALSE /\ gpio_sem' = 0 /\ thread' = "wait"
    /\ press_count' = 0 /\ press_age' = 0 /\ release_age' = 0
    /\ waiting_for_release' = FALSE /\ long_press_triggered' = FALSE
    /\ level0_auto_fired' = FALSE
    /\ poweroff_screen_active' = 0 /\ recording_stopped' = 0
    /\ g_state' = "IDLE" /\ clip_ev_msgq' = <<>>
    /\ stopped_in_press' = FALSE /\ release_lost' = FALSE
    /\ UNCHANGED battery_charging

----------------------------------------------------------------------------
Poll ==
    \/ PressBegins \/ HeldLong \/ HeldMax \/ StillHeld \/ NoPress \/ ReleasedLong
    \/ ReleasedLate \/ ReleasedShort \/ DoubleClick \/ SecondClickWait \/ SingleClick

DriverThread == WakeUp \/ Tick \/ Poll
Dispatch == HandleEvent \/ HandleStopWait \/ HandlePowerOff

Next ==
    \/ Edge \/ Charger \/ OtherClient
    \/ DriverThread \/ Dispatch \/ PowerOn

\* The threads run; nothing is asked of the user.
Fairness == WF_vars(DriverThread) /\ WF_vars(Dispatch)

Spec == Init /\ [][Next]_vars
FairSpec == Spec /\ Fairness

----------------------------------------------------------------------------
(* Properties. *)

Threads == {"wait", "poll", "sleep", "stopping", "stoppingLate"}

\* The variables keep their types; never more than two presses are counted.
TypeOK ==
    /\ pin \in BOOLEAN /\ gpio_sem \in 0..EdgeBound /\ thread \in Threads
    /\ press_count \in 0..2
    /\ press_age \in 0..MaxTicks /\ release_age \in 0..(DoubleTicks + 1)
    /\ waiting_for_release \in BOOLEAN /\ long_press_triggered \in BOOLEAN
    /\ level0_auto_fired \in BOOLEAN
    /\ poweroff_screen_active \in {0, 1} /\ recording_stopped \in {0, 1}
    /\ g_state \in States
    /\ clip_ev_msgq \in Seq(Events) /\ Len(clip_ev_msgq) <= QueueSize
    /\ battery_charging \in BOOLEAN /\ powered \in BOOLEAN
    /\ stopped_in_press \in BOOLEAN /\ release_lost \in BOOLEAN

AtRest == powered /\ thread = "wait" /\ gpio_sem = 0 /\ ~pin

\* However fast the pin changes and however the gestures follow each other, a
\* driver that is at rest with the button up is as it was at the start: no press
\* is half counted and no RELEASE is owed (gpio_button.c).
RestIsClean ==
    AtRest => /\ press_count = 0 /\ ~waiting_for_release
              /\ ~level0_auto_fired /\ ~long_press_triggered

\* A press that stopped a recording does not start the next one when it ends
\* (recording_stopped, button.c).
StoppingPressDoesNotStart ==
    [][stopped_in_press => clip_ev_msgq' # Append(clip_ev_msgq, "START")]_vars

\* The power-off screen never outlives the press that brought it, unless the
\* driver took another press for a new one before the RELEASE.
ScreenEndsWithPress == AtRest /\ ~release_lost => poweroff_screen_active = 0

\* Every press is reported and forgotten: a gesture comes to an end.
GestureEnds == press_count > 0 ~> press_count = 0 \/ ~powered

\* After the power-off screen the release powers the device off: nothing is left
\* pending when the button is up again (docs/protocol.md E.4: "User releases
\* button -> Device enters ship mode").
ReleasePowersOff == AtRest => poweroff_screen_active = 0
=============================================================================
