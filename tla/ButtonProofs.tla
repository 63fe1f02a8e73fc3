----------------------------- MODULE ButtonProofs -----------------------------
(***************************************************************************)
(* Safety of Button for every choice of the time limits, every size of the *)
(* event queue and every bound on the edges.                               *)
(***************************************************************************)
EXTENDS Button, TLAPS

USE DEF pressVars, appVars, deviceVars, histVars, Pressed, Up, Released

\* What the driver knows of a press, between two of its steps.  A RELEASE that
\* is owed while the thread waits will be asked for by an edge to come or one
\* that is already counted.
DriverInv ==
    /\ waiting_for_release => press_count > 0 /\ ~long_press_triggered
    /\ level0_auto_fired => waiting_for_release
    /\ press_count = 2 => waiting_for_release
    /\ thread \in {"wait", "stoppingLate"} => press_count = 0
    /\ long_press_triggered => press_count = 0 /\ thread \in {"wait", "poll"}
    /\ thread = "wait" /\ long_press_triggered => pin \/ gpio_sem > 0

\* The screen waits for the RELEASE that the driver owes.
ScreenInv == poweroff_screen_active = 1 /\ ~release_lost => long_press_triggered

\* Until the RELEASE of the press that stopped a recording, the flag is set.
StopInv ==
    stopped_in_press /\ (level0_auto_fired \/ long_press_triggered)
        => recording_stopped = 1

\* It is not set before the press has become a long one.
LongInv ==
    /\ waiting_for_release /\ ~level0_auto_fired => ~stopped_in_press
    /\ thread = "stopping" => level0_auto_fired

IInv == TypeOK /\ DriverInv /\ ScreenInv /\ StopInv /\ LongInv

\* TypeOK in parts.
FlagsTyped ==
    /\ pin \in BOOLEAN /\ waiting_for_release \in BOOLEAN
    /\ long_press_triggered \in BOOLEAN /\ level0_auto_fired \in BOOLEAN
    /\ battery_charging \in BOOLEAN /\ powered \in BOOLEAN

HistTyped ==
    /\ stopped_in_press \in BOOLEAN /\ release_lost \in BOOLEAN
    /\ poweroff_screen_active \in {0, 1} /\ recording_stopped \in {0, 1}

NumbersTyped ==
    /\ gpio_sem \in 0..EdgeBound /\ press_count \in 0..2
    /\ press_age \in 0..MaxTicks /\ release_age \in 0..(DoubleTicks + 1)

PlacesTyped == thread \in Threads /\ g_state \in States

QueueTyped == clip_ev_msgq \in Seq(Events) /\ Len(clip_ev_msgq) <= QueueSize

LEMMA TypeSplit ==
    TypeOK <=> FlagsTyped /\ HistTyped /\ NumbersTyped /\ PlacesTyped /\ QueueTyped
  BY DEF TypeOK, FlagsTyped, HistTyped, NumbersTyped, PlacesTyped, QueueTyped

LEMMA IInvInit == Init => IInv
<1> USE ButtonAssumption
<1> SUFFICES ASSUME Init PROVE IInv
  OBVIOUS
<1>1. FlagsTyped /\ HistTyped
  BY DEF Init, FlagsTyped, HistTyped
<1>2. NumbersTyped
  BY DEF Init, NumbersTyped
<1>3. PlacesTyped /\ QueueTyped
  BY DEF Init, PlacesTyped, QueueTyped, Threads, States
<1>4. DriverInv /\ ScreenInv /\ StopInv /\ LongInv
  BY DEF Init, DriverInv, ScreenInv, StopInv, LongInv
<1> QED
  BY <1>1, <1>2, <1>3, <1>4, TypeSplit DEF IInv

----------------------------------------------------------------------------
\* Posting an event keeps the queue one of events, and within its size.
LEMMA PostedTyped ==
  ASSUME TypeOK, NEW e \in Events
  PROVE  Posted(e) \in Seq(Events) /\ Len(Posted(e)) <= QueueSize
  BY ButtonAssumption DEF Posted, TypeOK

\* What the three callbacks leave behind.
LEMMA OnReleaseTyped ==
  ASSUME TypeOK, OnRelease
  PROVE  /\ QueueTyped'
         /\ poweroff_screen_active' \in {0, 1} /\ recording_stopped' \in {0, 1}
         /\ poweroff_screen_active' = 0
<1>1. /\ Posted("POWER_OFF_EXEC") \in Seq(Events) /\ Len(Posted("POWER_OFF_EXEC")) <= QueueSize
      /\ Posted("STOP") \in Seq(Events) /\ Len(Posted("STOP")) <= QueueSize
      /\ Posted("START") \in Seq(Events) /\ Len(Posted("START")) <= QueueSize
  BY PostedTyped DEF Events
<1> QED
  BY <1>1 DEF OnRelease, DeferredAction, TypeOK, QueueTyped

LEMMA OnMaxLevelTyped ==
  ASSUME TypeOK, OnMaxLevel
  PROVE  /\ QueueTyped'
         /\ poweroff_screen_active' \in {0, 1} /\ recording_stopped' = recording_stopped
<1>1. Posted("POWER_OFF_SHOW") \in Seq(Events) /\ Len(Posted("POWER_OFF_SHOW")) <= QueueSize
  BY PostedTyped DEF Events
<1> QED
  BY <1>1 DEF OnMaxLevel, TypeOK, QueueTyped

LEMMA OnSingleClickTyped ==
  ASSUME TypeOK, OnSingleClick
  PROVE  QueueTyped'
<1>1. /\ Posted("MARK") \in Seq(Events) /\ Len(Posted("MARK")) <= QueueSize
      /\ Posted("STATUS_SHOW") \in Seq(Events) /\ Len(Posted("STATUS_SHOW")) <= QueueSize
  BY PostedTyped DEF Events
<1> QED
  BY <1>1 DEF OnSingleClick, QueueTyped

LEMMA OnLongPressTyped ==
  ASSUME TypeOK, NEW where \in {"sleep", "wait"}, OnLongPress(where)
  PROVE  /\ QueueTyped'
         /\ recording_stopped' \in {0, 1} /\ stopped_in_press' \in BOOLEAN
         /\ poweroff_screen_active' = poweroff_screen_active
         /\ release_lost' = release_lost
         /\ \/ recording_stopped' = 1
            \/ stopped_in_press' = stopped_in_press /\ recording_stopped' = recording_stopped
         /\ thread' \in (IF where = "sleep" THEN {"sleep", "stopping"}
                                            ELSE {"wait", "stoppingLate"})
<1>1. CASE g_state = "RECORDING" /\ Len(clip_ev_msgq) < QueueSize
  <2>1. /\ Append(clip_ev_msgq, "STOP_WAIT") \in Seq(Events)
        /\ Len(Append(clip_ev_msgq, "STOP_WAIT")) <= QueueSize
    BY <1>1, ButtonAssumption DEF TypeOK, Events
  <2> QED
    BY <1>1, <2>1 DEF OnLongPress, TypeOK, QueueTyped
<1>2. CASE ~(g_state = "RECORDING" /\ Len(clip_ev_msgq) < QueueSize)
  BY <1>2 DEF OnLongPress, TypeOK, QueueTyped
<1> QED
  BY <1>1, <1>2

----------------------------------------------------------------------------
\* The steps of the driver's thread, for the parts of the invariant.
LEMMA PollFlags == IInv /\ Poll => FlagsTyped' /\ PlacesTyped'
<1> SUFFICES ASSUME IInv, Poll PROVE FlagsTyped' /\ PlacesTyped'
  OBVIOUS
<1> FlagsTyped /\ PlacesTyped
  BY TypeSplit DEF IInv
<1>1. CASE PressBegins \/ StillHeld \/ ReleasedShort \/ DoubleClick \/ SecondClickWait
  BY <1>1 DEF FlagsTyped, PlacesTyped, Threads, PressBegins, StillHeld, ReleasedShort,
              DoubleClick, SecondClickWait
<1>2. CASE HeldMax \/ NoPress \/ ReleasedLong \/ SingleClick
  BY <1>2 DEF FlagsTyped, PlacesTyped, Threads, HeldMax, NoPress, ReleasedLong, SingleClick
<1>3. CASE HeldLong \/ ReleasedLate
  BY <1>3 DEF FlagsTyped, PlacesTyped, Threads, HeldLong, ReleasedLate, OnLongPress
<1> QED
  BY <1>1, <1>2, <1>3 DEF Poll

LEMMA PollNumbers == IInv /\ Poll => NumbersTyped'
<1> SUFFICES ASSUME IInv, Poll PROVE NumbersTyped'
  OBVIOUS
<1> NumbersTyped
  BY TypeSplit DEF IInv
<1> USE ButtonAssumption
<1>1. CASE PressBegins
  <2>1. press_count + 1 \in 0..2
    BY <1>1 DEF PressBegins, IInv, DriverInv, NumbersTyped
  <2> QED
    BY <1>1, <2>1 DEF PressBegins, NumbersTyped
<1>2. CASE ~PressBegins
  <2>1. /\ gpio_sem' = gpio_sem /\ press_age' = press_age
        /\ press_count' = press_count \/ press_count' = 0
        /\ release_age' = release_age \/ release_age' = 0
    BY <1>2 DEF Poll, StillHeld, ReleasedShort, DoubleClick, SecondClickWait, HeldMax, NoPress,
                ReleasedLong, SingleClick, HeldLong, ReleasedLate
  <2> QED
    BY <2>1 DEF NumbersTyped
<1> QED
  BY <1>1, <1>2

LEMMA PollQueue == IInv /\ Poll => QueueTyped' /\ HistTyped'
<1> SUFFICES ASSUME IInv, Poll PROVE QueueTyped' /\ HistTyped'
  OBVIOUS
<1> TypeOK /\ QueueTyped /\ HistTyped /\ FlagsTyped
  BY TypeSplit DEF IInv
<1>1. CASE PressBegins \/ StillHeld \/ ReleasedShort \/ DoubleClick \/ SecondClickWait
  BY <1>1 DEF QueueTyped, HistTyped, FlagsTyped, PressBegins, StillHeld, ReleasedShort,
              DoubleClick, SecondClickWait
<1>2. CASE HeldMax
  BY <1>2, OnMaxLevelTyped DEF HistTyped, HeldMax
<1>3. CASE NoPress
  BY <1>3, OnReleaseTyped DEF QueueTyped, HistTyped, NoPress
<1>4. CASE ReleasedLong
  BY <1>4, OnReleaseTyped DEF HistTyped, ReleasedLong
<1>5. CASE SingleClick
  BY <1>5, OnSingleClickTyped DEF HistTyped, SingleClick, OnSingleClick
<1>6. CASE HeldLong
  <2>1. OnLongPress("sleep")
    BY <1>6 DEF HeldLong
  <2> QED
    BY <2>1, OnLongPressTyped DEF HistTyped
<1>7. CASE ReleasedLate
  <2>1. OnLongPress("wait")
    BY <1>7 DEF ReleasedLate
  <2> QED
    BY <2>1, OnLongPressTyped DEF HistTyped
<1> QED
  BY <1>1, <1>2, <1>3, <1>4, <1>5, <1>6, <1>7 DEF Poll

LEMMA PollDriver == IInv /\ Poll => DriverInv' /\ ScreenInv' /\ StopInv' /\ LongInv'
<1> SUFFICES ASSUME IInv, Poll PROVE DriverInv' /\ ScreenInv' /\ StopInv' /\ LongInv'
  OBVIOUS
<1> TypeOK /\ NumbersTyped /\ HistTyped
  BY TypeSplit DEF IInv
<1> USE DEF IInv, DriverInv, ScreenInv, StopInv, LongInv
<1>1. CASE PressBegins
  <2>1. press_count + 1 > 0
    BY DEF NumbersTyped
  <2> QED
    BY <1>1, <2>1 DEF PressBegins
<1>2. CASE StillHeld \/ ReleasedShort \/ SecondClickWait
  BY <1>2 DEF StillHeld, ReleasedShort, SecondClickWait, NumbersTyped
<1>3. CASE DoubleClick
  BY <1>3 DEF DoubleClick
<1>4. CASE HeldMax
  BY <1>4, OnMaxLevelTyped DEF HeldMax
<1>5. CASE NoPress
  BY <1>5, OnReleaseTyped DEF NoPress
<1>6. CASE ReleasedLong
  BY <1>6, OnReleaseTyped DEF ReleasedLong
<1>7. CASE SingleClick
  BY <1>7 DEF SingleClick, OnSingleClick
<1>8. CASE HeldLong
  <2>1. OnLongPress("sleep")
    BY <1>8 DEF HeldLong
  <2>2. /\ poweroff_screen_active' = poweroff_screen_active
        /\ release_lost' = release_lost
        /\ \/ recording_stopped' = 1
           \/ stopped_in_press' = stopped_in_press /\ recording_stopped' = recording_stopped
        /\ thread' \in {"sleep", "stopping"}
    BY <2>1, OnLongPressTyped
  <2>3. ~stopped_in_press \/ recording_stopped' = 1 \/ ~stopped_in_press'
    BY <1>8 DEF HeldLong, LongReached
  <2> QED
    BY <1>8, <2>2, <2>3 DEF HeldLong
<1>9. CASE ReleasedLate
  <2>1. OnLongPress("wait")
    BY <1>9 DEF ReleasedLate
  <2>2. /\ poweroff_screen_active' = poweroff_screen_active
        /\ release_lost' = release_lost
        /\ thread' \in {"wait", "stoppingLate"}
    BY <2>1, OnLongPressTyped
  <2> QED
    BY <1>9, <2>2 DEF ReleasedLate, LongReached
<1> QED
  BY <1>1, <1>2, <1>3, <1>4, <1>5, <1>6, <1>7, <1>8, <1>9 DEF Poll

LEMMA PollStep == IInv /\ Poll => IInv'
<1> SUFFICES ASSUME IInv, Poll PROVE IInv'
  OBVIOUS
<1>1. TypeOK'
  BY PollFlags, PollNumbers, PollQueue, TypeSplit
     DEF TypeOK, FlagsTyped, HistTyped, NumbersTyped, PlacesTyped, QueueTyped
<1> QED
  BY <1>1, PollDriver DEF IInv

\* The steps of everybody else.
LEMMA OtherStep == IInv /\ [Next]_vars /\ ~Poll => IInv'
<1> SUFFICES ASSUME IInv, [Next]_vars, ~Poll PROVE IInv'
  OBVIOUS
<1> USE ButtonAssumption DEF IInv, DriverInv, ScreenInv, StopInv, LongInv, Threads
<1>1. CASE UNCHANGED vars
  BY <1>1 DEF vars, TypeOK
<1>2. CASE Edge
  BY <1>2 DEF Edge, TypeOK
<1>3. CASE Charger
  BY <1>3 DEF Charger, TypeOK
<1>4. CASE OtherClient
  BY <1>4 DEF OtherClient, TypeOK, Targets
<1>5. CASE WakeUp
  BY <1>5 DEF WakeUp, TypeOK
<1>6. CASE Tick
  BY <1>6 DEF Tick, TypeOK, Older
<1>7. ASSUME NEW e \in Events, NEW a, Handle(e, a)
      PROVE  /\ clip_ev_msgq' \in Seq(Events) /\ Len(clip_ev_msgq') <= QueueSize
             /\ g_state' \in States
  BY <1>7 DEF Handle, TypeOK, Targets
<1>8. CASE HandleEvent
  <2>1. PICK e \in Events : Handle(e, e)
    BY <1>8 DEF HandleEvent
  <2> QED
    BY <1>7, <1>8, <2>1 DEF HandleEvent, Handle, TypeOK
<1>9. CASE HandleStopWait
  <2>1. Handle("STOP_WAIT", "STOP") /\ "STOP_WAIT" \in Events
    BY <1>9 DEF HandleStopWait, Events
  <2>2. press_age' \in 0..MaxTicks
    BY <1>9 DEF HandleStopWait, TypeOK
  <2>3. TypeOK'
    BY <1>7, <1>9, <2>1, <2>2 DEF HandleStopWait, Handle, TypeOK
  <2> QED
    BY <1>7, <1>9, <2>1, <2>2, <2>3 DEF HandleStopWait, Handle
<1>10. CASE HandlePowerOff
  <2>1. Handle("POWER_OFF_EXEC", "POWER_OFF_EXEC") /\ "POWER_OFF_EXEC" \in Events
    BY <1>10 DEF HandlePowerOff, Events
  <2> QED
    BY <1>7, <1>10, <2>1 DEF HandlePowerOff, Handle, TypeOK
<1>11. CASE PowerOn
  <2>1. FlagsTyped' /\ HistTyped'
    BY <1>11, TypeSplit DEF PowerOn, FlagsTyped, HistTyped
  <2>2. NumbersTyped' /\ PlacesTyped' /\ QueueTyped'
    BY <1>11 DEF PowerOn, NumbersTyped, PlacesTyped, QueueTyped, States
  <2>3. TypeOK'
    BY <2>1, <2>2 DEF TypeOK, FlagsTyped, HistTyped, NumbersTyped, PlacesTyped, QueueTyped
  <2> QED
    BY <1>11, <2>3 DEF PowerOn
<1> QED
  BY <1>1, <1>2, <1>3, <1>4, <1>5, <1>6, <1>8, <1>9, <1>10, <1>11
  DEF Next, DriverThread, Dispatch

LEMMA IInvAlways == Spec => []IInv
<1>1. IInv /\ [Next]_vars => IInv'
  BY PollStep, OtherStep
<1> QED
  BY <1>1, IInvInit, PTL DEF Spec

----------------------------------------------------------------------------
\* The variables keep their types.
THEOREM ButtonTypeCorrect == Spec => []TypeOK
<1>1. IInv => TypeOK
  BY DEF IInv
<1> QED
  BY <1>1, IInvAlways, PTL

\* A driver at rest with the button up is as it was at the start.
THEOREM RestIsAlwaysClean == Spec => []RestIsClean
<1>1. IInv => RestIsClean
  BY DEF IInv, DriverInv, RestIsClean, AtRest
<1> QED
  BY <1>1, IInvAlways, PTL

\* The power-off screen does not outlive its press, unless a press was taken
\* for a new one before the RELEASE.
THEOREM ScreenAlwaysEnds == Spec => []ScreenEndsWithPress
<1>1. IInv => ScreenEndsWithPress
  BY DEF IInv, TypeOK, DriverInv, ScreenInv, ScreenEndsWithPress, AtRest
<1> QED
  BY <1>1, IInvAlways, PTL

\* Sequences that differ in their last element, or in their length, differ.
LEMMA AppendDiffers ==
  ASSUME NEW q \in Seq(Events), NEW a \in Events, NEW b \in Events
  PROVE  /\ a # b => Append(q, a) # Append(q, b)
         /\ q # Append(q, b)
         /\ q # <<>> => Tail(q) # Append(q, b)
<1>1. Append(q, a)[Len(q) + 1] = a /\ Append(q, b)[Len(q) + 1] = b
  OBVIOUS
<1>2. Len(Append(q, b)) = Len(q) + 1
  OBVIOUS
<1>3. q # <<>> => Len(Tail(q)) = Len(q) - 1
  OBVIOUS
<1> QED
  BY <1>1, <1>2, <1>3

\* A press that stopped a recording does not start the next one.
THEOREM StoppingPressNeverStarts == Spec => StoppingPressDoesNotStart
<1>1. ASSUME IInv, [Next]_vars, stopped_in_press
      PROVE  clip_ev_msgq' # Append(clip_ev_msgq, "START")
  <2> USE DEF IInv
  <2>1. clip_ev_msgq \in Seq(Events) /\ Events # {} /\ "START" \in Events
    BY <1>1 DEF TypeOK, Events
  <2>2. CASE clip_ev_msgq' = clip_ev_msgq
    BY <2>1, <2>2, AppendDiffers
  <2>3. CASE clip_ev_msgq # <<>> /\ clip_ev_msgq' = Tail(clip_ev_msgq)
    BY <2>1, <2>3, AppendDiffers
  <2>4. ASSUME NEW e \in Events, e # "START", clip_ev_msgq' = Append(clip_ev_msgq, e)
        PROVE  clip_ev_msgq' # Append(clip_ev_msgq, "START")
    BY <2>1, <2>4, AppendDiffers
  <2>5. CASE PowerOn
    <3>1. clip_ev_msgq' = <<>> /\ Len(Append(clip_ev_msgq, "START")) = Len(clip_ev_msgq) + 1
      BY <2>1, <2>5 DEF PowerOn
    <3> QED
      BY <2>1, <3>1
  <2>6. ASSUME OnRelease, level0_auto_fired \/ long_press_triggered
        PROVE  \/ clip_ev_msgq' = clip_ev_msgq
               \/ clip_ev_msgq' = Append(clip_ev_msgq, "POWER_OFF_EXEC")
    BY <1>1, <2>6 DEF OnRelease, StopInv, Posted
  <2>7. CASE NoPress \/ ReleasedLong
    BY <1>1, <2>2, <2>4, <2>6, <2>7 DEF NoPress, ReleasedLong, Events
  <2>8. CASE HeldLong \/ ReleasedLate
    BY <2>2, <2>4, <2>8 DEF HeldLong, ReleasedLate, OnLongPress, Events
  <2>9. CASE HeldMax \/ SingleClick
    BY <2>2, <2>4, <2>9 DEF HeldMax, OnMaxLevel, SingleClick, OnSingleClick, Posted, Events
  <2>10. CASE Dispatch
    BY <2>3, <2>10 DEF Dispatch, HandleEvent, HandleStopWait, HandlePowerOff, Handle
  <2>11. CASE UNCHANGED vars \/ Edge \/ Charger \/ OtherClient \/ WakeUp \/ Tick
    BY <2>2, <2>11 DEF vars, Edge, Charger, OtherClient, WakeUp, Tick
  <2>12. CASE PressBegins \/ StillHeld \/ ReleasedShort \/ DoubleClick \/ SecondClickWait
    BY <2>2, <2>12 DEF PressBegins, StillHeld, ReleasedShort, DoubleClick, SecondClickWait
  <2> QED
    BY <1>1, <2>5, <2>7, <2>8, <2>9, <2>10, <2>11, <2>12 DEF Next, DriverThread, Poll
<1>2. IInv /\ [Next]_vars => [stopped_in_press => clip_ev_msgq' # Append(clip_ev_msgq, "START")]_vars
  BY <1>1
<1> QED
  BY <1>2, IInvAlways, PTL DEF Spec, StoppingPressDoesNotStart
=============================================================================
