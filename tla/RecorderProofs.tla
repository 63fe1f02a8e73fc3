---------------------------- MODULE RecorderProofs ----------------------------
(***************************************************************************)
(* Safety of Recorder for every set of clients, every split of the events, *)
(* every set of faults and every queue size.                               *)
(***************************************************************************)
EXTENDS Recorder, TLAPS

\* A step of the dispatcher, of the audio thread, or of another process that is
\* about to stop a recording: the three groups the proofs go through.
PostStep == clip_post_event \/ \E c \in Clients : clip_post_event_sync(c)
ClientStep == \/ \E c \in Clients : StopFallback(c) \/ FallbackDone(c)
              \/ RebootWork \/ RebootGoesOn
AudioStep == AudioThread \/ ReadFails \/ WriteFails \/ NextSegment

\* Next, regrouped.
LEMMA NextSplit ==
    Next <=> \/ PostStep \/ ClientStep \/ Dispatch \/ AudioStep
             \/ \E p \in Procs : StopSteps(p)
  BY DEF Next, PostStep, ClientStep, AudioStep

\* Every target in the table is one of the states the device can be in.
LEMMA TargetsAreStates == \A s, e : Targets(s, e) \subseteq States
  BY DEF Targets

----------------------------------------------------------------------------
(* Type correctness. *)

\* A recording that was asked for has a session id: what TypeOK needs of the
\* step that creates the session.
SessionNamed == audio_start_sem = 1 \/ audio # "wait" => current_session_id \in Sids

LEMMA NoItemIsItem == NoItem \in Items
  BY DEF NoItem, Items, Events

LEMMA TypePost ==
  ASSUME TypeOK, PostStep
  PROVE  TypeOK'
<1> USE ProcsAssumption, EventsAssumption, SizesAssumption
<1>1. ASSUME NEW e \in Events, NEW c \in Clients \cup {NoClient}, Enqueue(e, c)
      PROVE  /\ clip_ev_msgq' \in Seq(Items) /\ Len(clip_ev_msgq') <= QueueSize
             /\ event_notify_sem' \in {0, 1}
  <2>1. [event |-> e, client |-> c] \in Items
    BY DEF Items
  <2> QED
    BY <1>1, <2>1 DEF TypeOK, Enqueue
<1>2. CASE clip_post_event
  <2>1. PICK e \in AsyncEvents : Enqueue(e, NoClient)
    BY <1>2 DEF clip_post_event
  <2>2. e \in Events
    OBVIOUS
  <2> QED
    BY <1>1, <1>2, <2>1, <2>2 DEF clip_post_event, TypeOK, Enqueue, flagVars, semVars, cardVars
<1>3. ASSUME NEW c \in Clients, clip_post_event_sync(c)
      PROVE  TypeOK'
  <2>1. PICK e \in ClientEvents[c] : Enqueue(e, c)
    BY <1>3 DEF clip_post_event_sync
  <2>2. e \in Events
    OBVIOUS
  <2>3. pc' = [pc EXCEPT ![c] = "waiting"]
    BY <1>3 DEF clip_post_event_sync
  <2>4. c \in Procs /\ c # Main /\ c # Worker
    BY DEF Procs
  <2>5. /\ pc' \in [Procs -> MainPCs \cup ClientPCs]
        /\ pc'[Main] \in MainPCs /\ pc'[Worker] \in WorkerPCs
        /\ \A d \in Clients : pc'[d] \in ClientPCs
    BY <2>3, <2>4 DEF TypeOK, Procs, ClientPCs
  <2> QED
    BY <1>1, <2>1, <2>2, <2>5 DEF TypeOK, Enqueue, flagVars, semVars, cardVars
<1> QED
  BY <1>2, <1>3 DEF PostStep

LEMMA TypeDispatch ==
  ASSUME TypeOK, Dispatch
  PROVE  TypeOK'
<1> USE ProcsAssumption, EventsAssumption, SizesAssumption
<1> USE DEF MainPCs, WorkerPCs, ClientPCs, Results
<1>1. CASE clip_event_wait
  BY <1>1 DEF clip_event_wait, TypeOK, Procs, flagVars, semVars, cardVars
<1>2. CASE QueueDrained
  BY <1>2 DEF QueueDrained, TypeOK, Procs, flagVars, semVars, cardVars, dispVars
<1>3. CASE ExecStop
  BY <1>3 DEF ExecStop, TypeOK, Procs, flagVars, semVars, cardVars, dispVars, Executing,
     Finish, GoOn
<1>4. CASE ExecPause
  BY <1>4 DEF ExecPause, TypeOK, Procs, flagVars, semVars, cardVars, dispVars, Executing,
     Finish, GoOn
<1>5. CASE audio_pause_recording
  BY <1>5 DEF audio_pause_recording, TypeOK, Procs, flagVars, semVars, cardVars,
     Executing, Finish, GoOn
<1>6. CASE audio_resume_recording
  BY <1>6 DEF audio_resume_recording, TypeOK, Procs, flagVars, semVars, cardVars,
     Executing, Finish, GoOn
<1>7. CASE ExecMark
  BY <1>7 DEF ExecMark, TypeOK, Procs, flagVars, semVars, cardVars, Executing, Finish, GoOn
<1>8. CASE ExecWifi
  BY <1>8 DEF ExecWifi, TypeOK, Procs, flagVars, semVars, cardVars, Executing, Finish, GoOn
<1>9. CASE ExecShow
  BY <1>9 DEF ExecShow, TypeOK, Procs, flagVars, semVars, cardVars, Executing, Finish, GoOn
<1>10. CASE ExecPowerOff
  BY <1>10 DEF ExecPowerOff, TypeOK, Procs, flagVars, semVars, cardVars, dispVars,
     Executing, Finish, GoOn
<1>11. CASE StopReturned
  BY <1>11 DEF StopReturned, TypeOK, Procs, flagVars, semVars, cardVars, dispVars, Finish, GoOn
<1>12. CASE PowerOffFails
  BY <1>12 DEF PowerOffFails, TypeOK, Procs, flagVars, semVars, cardVars, Finish, GoOn
<1>13. CASE GetEvent
  <2>1. Head(clip_ev_msgq) \in Items /\ Tail(clip_ev_msgq) \in Seq(Items)
    BY <1>13 DEF GetEvent, TypeOK
  <2>2. Len(Tail(clip_ev_msgq)) <= QueueSize
    BY <1>13 DEF GetEvent, TypeOK
  <2> QED
    BY <1>13, <2>1, <2>2 DEF GetEvent, TypeOK, Procs, flagVars, semVars, cardVars
<1>14. CASE ExecStart
  <2>1. /\ pc' \in [Procs -> MainPCs \cup ClientPCs]
        /\ pc'[Main] \in MainPCs /\ pc'[Worker] \in WorkerPCs
        /\ \A c \in Clients : pc'[c] \in ClientPCs
    BY <1>14 DEF ExecStart, Executing, Finish, TypeOK, Procs
  <2>2. result' \in Results /\ current_session_id' \in Sids \cup {NoSid}
    BY <1>14 DEF ExecStart, Finish, TypeOK
  <2>3. /\ stop_requested' \in BOOLEAN
        /\ audio_start_sem' \in {0, 1} /\ stop_done_sem' \in {0, 1}
    BY <1>14 DEF ExecStart, TypeOK, semVars
  <2>4. UNCHANGED <<g_state, clip_ev_msgq, event_notify_sem, item, audio,
                    recording_active, is_paused, pause_requested, cardVars>>
    BY <1>14 DEF ExecStart, Finish
  <2> QED
    BY <2>1, <2>2, <2>3, <2>4 DEF TypeOK, cardVars
<1>15. CASE Notify
  BY <1>15, NoItemIsItem, TargetsAreStates DEF Notify, TypeOK, Procs, flagVars, semVars,
     cardVars
<1> QED
  BY <1>1, <1>2, <1>3, <1>4, <1>5, <1>6, <1>7, <1>8, <1>9, <1>10, <1>11, <1>12, <1>13,
     <1>14, <1>15 DEF Dispatch

LEMMA TypeAudio ==
  ASSUME TypeOK, ResourcesBalanced, SessionNamed, AudioStep
  PROVE  TypeOK'
<1> USE ProcsAssumption, EventsAssumption, SizesAssumption
<1> USE DEF AudioPCs, TypeOK, dispVars, flagVars, semVars, cardVars
<1>1. CASE TakeStart
  <2>1. audio' \in AudioPCs /\ g_boost_refcnt' \in Nat
    BY <1>1 DEF TakeStart
  <2>2. stop_requested' \in BOOLEAN
    BY <1>1 DEF TakeStart
  <2> QED
    BY <1>1, <2>1, <2>2 DEF TakeStart
<1>2. CASE StartFails
  BY <1>2 DEF StartFails, ResourcesBalanced
<1>3. CASE CreateSession
  BY <1>3 DEF CreateSession, CreateFile, SessionNamed
<1>4. CASE Activate
  BY <1>4 DEF Activate
<1>5. CASE SeeStop
  BY <1>5 DEF SeeStop
<1>6. CASE SeePause
  BY <1>6 DEF SeePause
<1>7. CASE EnterPause
  BY <1>7 DEF EnterPause
<1>8. CASE LeavePause
  BY <1>8 DEF LeavePause
<1>9. CASE Resumed
  BY <1>9 DEF Resumed
<1>10. CASE EndRecording
  BY <1>10 DEF EndRecording
<1>11. CASE CloseFile
  BY <1>11 DEF CloseFile
<1>12. CASE CloseSession
  <2>1. current_session_id \in Sids /\ g_boost_refcnt' \in Nat
    BY <1>12 DEF CloseSession, ResourcesBalanced, SessionNamed
  <2>2. open_sessions' \in SUBSET Sids /\ refused' \in SUBSET Sids
    BY <1>12, <2>1 DEF CloseSession
  <2>3. audio' \in AudioPCs /\ file_open' \in BOOLEAN
    BY <1>12 DEF CloseSession
  <2>4. UNCHANGED <<dispVars, pc, flagVars, semVars, current_session_id>>
    BY <1>12 DEF CloseSession
  <2> QED
    BY <2>1, <2>2, <2>3, <2>4
<1>13. CASE SignalDone
  BY <1>13 DEF SignalDone, GiveStopDone, StopWaiters, Procs, MainPCs, WorkerPCs, ClientPCs
<1>14. CASE ReadFails
  BY <1>14 DEF ReadFails
<1>15. CASE WriteFails
  BY <1>15 DEF WriteFails
<1>16. CASE NextSegment
  BY <1>16 DEF NextSegment, CreateFile
<1> QED
  BY <1>1, <1>2, <1>3, <1>4, <1>5, <1>6, <1>7, <1>8, <1>9, <1>10, <1>11, <1>12, <1>13,
     <1>14, <1>15, <1>16 DEF AudioStep, AudioThread

LEMMA TypeClient ==
  ASSUME TypeOK, ClientStep
  PROVE  TypeOK'
<1> USE ProcsAssumption
<1> USE DEF TypeOK, Procs, MainPCs, WorkerPCs, ClientPCs, dispVars, flagVars, semVars, cardVars
<1>1. ASSUME NEW c \in Clients, StopFallback(c) \/ FallbackDone(c)
      PROVE  TypeOK'
  BY <1>1 DEF StopFallback, FallbackDone
<1>2. CASE RebootWork
  BY <1>2 DEF RebootWork
<1>3. CASE RebootGoesOn
  BY <1>3 DEF RebootGoesOn
<1> QED
  BY <1>1, <1>2, <1>3 DEF ClientStep

LEMMA TypeStop ==
  ASSUME TypeOK, NEW p \in Procs, StopSteps(p)
  PROVE  TypeOK'
<1> USE ProcsAssumption, SizesAssumption
<1> USE DEF TypeOK, Procs, MainPCs, WorkerPCs, ClientPCs, dispVars, flagVars, semVars, cardVars
<1>1. CASE audio_stop_recording(p)
  BY <1>1 DEF audio_stop_recording
<1>2. CASE StopTaken(p)
  BY <1>2 DEF StopTaken
<1>3. CASE StopTimeout(p)
  BY <1>3 DEF StopTimeout
<1>4. CASE Restart(p)
  <2>1. clip_ev_msgq' \in Seq(Items) /\ Len(clip_ev_msgq') <= QueueSize
    BY <1>4 DEF Restart
  <2> QED
    BY <1>4, <2>1, NoItemIsItem DEF Restart, States, Results, AudioPCs
<1> QED
  BY <1>1, <1>2, <1>3, <1>4 DEF StopSteps

----------------------------------------------------------------------------
(* The audio thread's resources. *)

AudioInv == ResourcesBalanced /\ FileOpenOnlyWhileRecording /\ SessionNamed

\* Steps of the other threads leave the audio thread and its resources alone.
Untouched == UNCHANGED <<audio, recording_active, file_open, g_boost_refcnt>>

LEMMA AudioInvFrame ==
  ASSUME AudioInv, Untouched,
         \/ UNCHANGED <<audio_start_sem, current_session_id>>
         \/ current_session_id' \in Sids
  PROVE  AudioInv'
  BY DEF AudioInv, Untouched, ResourcesBalanced, FileOpenOnlyWhileRecording, SessionNamed

LEMMA AudioInvOthers ==
  ASSUME TypeOK, AudioInv,
         PostStep \/ ClientStep \/ Dispatch \/ \E p \in Procs : StopSteps(p)
  PROVE  AudioInv'
<1> USE DEF dispVars, flagVars, semVars, cardVars
<1>1. CASE PostStep
  <2>1. Untouched /\ UNCHANGED <<audio_start_sem, current_session_id>>
    BY <1>1 DEF PostStep, clip_post_event, clip_post_event_sync, Enqueue, Untouched
  <2> QED
    BY <2>1, AudioInvFrame
<1>2. CASE ClientStep
  <2>1. Untouched /\ UNCHANGED <<audio_start_sem, current_session_id>>
    BY <1>2 DEF ClientStep, StopFallback, FallbackDone, RebootWork, RebootGoesOn, Untouched
  <2> QED
    BY <2>1, AudioInvFrame
<1>3. CASE ExecStart
  <2>1. Untouched /\ (UNCHANGED <<audio_start_sem, current_session_id>>
                      \/ current_session_id' \in Sids)
    BY <1>3 DEF ExecStart, Finish, Untouched
  <2> QED
    BY <2>1, AudioInvFrame
<1>4. CASE Dispatch /\ ~ExecStart
  <2>1. Untouched /\ UNCHANGED <<audio_start_sem, current_session_id>>
    BY <1>4 DEF Dispatch, Untouched, clip_event_wait, QueueDrained, GetEvent, ExecStop,
       ExecPause, audio_pause_recording, audio_resume_recording, ExecMark, ExecWifi,
       ExecShow, ExecPowerOff, StopReturned, PowerOffFails, Notify
  <2> QED
    BY <2>1, AudioInvFrame
<1>5. ASSUME NEW p \in Procs, StopSteps(p)
      PROVE  AudioInv'
  <2>1. CASE Restart(p)
    BY <2>1 DEF Restart, AudioInv, ResourcesBalanced, FileOpenOnlyWhileRecording, SessionNamed
  <2>2. CASE audio_stop_recording(p) \/ StopTaken(p) \/ StopTimeout(p)
    <3>1. Untouched /\ UNCHANGED <<audio_start_sem, current_session_id>>
      BY <2>2 DEF audio_stop_recording, StopTaken, StopTimeout, Untouched
    <3> QED
      BY <3>1, AudioInvFrame
  <2> QED
    BY <1>5, <2>1, <2>2 DEF StopSteps
<1> QED
  BY <1>1, <1>2, <1>3, <1>4, <1>5

LEMMA AudioInvAudio ==
  ASSUME TypeOK, AudioInv, AudioStep
  PROVE  AudioInv'
<1> USE DEF AudioInv, ResourcesBalanced, FileOpenOnlyWhileRecording, SessionNamed,
            TypeOK, AudioPCs, dispVars, flagVars, semVars, cardVars
<1>1. CASE TakeStart
  BY <1>1 DEF TakeStart
<1>2. CASE StartFails
  BY <1>2 DEF StartFails
<1>3. CASE CreateSession
  BY <1>3 DEF CreateSession, CreateFile
<1>4. CASE Activate
  BY <1>4 DEF Activate
<1>5. CASE SeeStop
  BY <1>5 DEF SeeStop
<1>6. CASE SeePause
  BY <1>6 DEF SeePause, Continuing
<1>7. CASE EnterPause
  BY <1>7 DEF EnterPause
<1>8. CASE LeavePause
  BY <1>8 DEF LeavePause
<1>9. CASE Resumed
  BY <1>9 DEF Resumed
<1>10. CASE EndRecording
  BY <1>10 DEF EndRecording
<1>11. CASE CloseFile
  BY <1>11 DEF CloseFile
<1>12. CASE CloseSession
  BY <1>12 DEF CloseSession
<1>13. CASE SignalDone
  BY <1>13 DEF SignalDone, GiveStopDone
<1>14. CASE ReadFails
  BY <1>14 DEF ReadFails, Continuing
<1>15. CASE WriteFails
  BY <1>15 DEF WriteFails
<1>16. CASE NextSegment
  BY <1>16 DEF NextSegment, CreateFile
<1> QED
  BY <1>1, <1>2, <1>3, <1>4, <1>5, <1>6, <1>7, <1>8, <1>9, <1>10, <1>11, <1>12, <1>13,
     <1>14, <1>15, <1>16 DEF AudioStep, AudioThread

LEMMA TypeAndAudioInv == Spec => [](TypeOK /\ AudioInv)
<1>1. Init => TypeOK /\ AudioInv
  <2> SUFFICES ASSUME Init
               PROVE  TypeOK /\ AudioInv
    OBVIOUS
  <2>1. clip_ev_msgq \in Seq(Items) /\ Len(clip_ev_msgq) <= QueueSize
    BY SizesAssumption DEF Init
  <2>2. /\ pc \in [Procs -> MainPCs \cup ClientPCs]
        /\ pc[Main] \in MainPCs /\ pc[Worker] \in WorkerPCs
        /\ \A c \in Clients : pc[c] \in ClientPCs
    BY DEF Init, Procs, MainPCs, WorkerPCs, ClientPCs
  <2>3. TypeOK
    BY <2>1, <2>2, NoItemIsItem DEF Init, TypeOK, States, Results, AudioPCs
  <2>4. /\ audio = "wait" /\ recording_active = FALSE /\ file_open = FALSE
        /\ g_boost_refcnt = 0 /\ audio_start_sem = 0
    BY DEF Init
  <2> QED
    BY <2>3, <2>4 DEF AudioInv, ResourcesBalanced, FileOpenOnlyWhileRecording, SessionNamed
<1>2. TypeOK /\ AudioInv /\ [Next]_vars => (TypeOK /\ AudioInv)'
  <2> SUFFICES ASSUME TypeOK, AudioInv, [Next]_vars
               PROVE  (TypeOK /\ AudioInv)'
    OBVIOUS
  <2>1. CASE AudioStep
    BY <2>1, TypeAudio, AudioInvAudio DEF AudioInv
  <2>2. CASE PostStep
    BY <2>2, TypePost, AudioInvOthers
  <2>3. CASE ClientStep
    BY <2>3, TypeClient, AudioInvOthers
  <2>4. CASE Dispatch
    BY <2>4, TypeDispatch, AudioInvOthers
  <2>5. CASE \E p \in Procs : StopSteps(p)
    BY <2>5, TypeStop, AudioInvOthers
  <2>6. CASE UNCHANGED vars
    BY <2>6 DEF vars, dispVars, flagVars, semVars, cardVars, TypeOK, AudioInv,
                ResourcesBalanced, FileOpenOnlyWhileRecording, SessionNamed
  <2> QED
    BY <2>1, <2>2, <2>3, <2>4, <2>5, <2>6, NextSplit
<1> QED
  BY <1>1, <1>2, PTL DEF Spec

\* The variables keep their types, for every instance: in particular the device
\* is only ever in one of the four states whose rows of the table are kept.
THEOREM TypeCorrect == Spec => []TypeOK
  BY TypeAndAudioInv, PTL

\* Whatever fails and whoever stops or restarts it, the audio thread releases
\* the CPU boost exactly when it is done, and recording_active tells where it is.
THEOREM BoostAndFlagBalanced == Spec => []ResourcesBalanced
  BY TypeAndAudioInv, PTL DEF AudioInv

\* No way through the audio thread leaves a file open over a pause or an end.
THEOREM NoFileLeftOpen == Spec => []FileOpenOnlyWhileRecording
  BY TypeAndAudioInv, PTL DEF AudioInv

----------------------------------------------------------------------------
(* The items of blocked clients. *)

\* Between two events the dispatcher has nobody's item in hand.
HandEmpty == pc[Main] \in {"idle", "get"} => item.client = NoClient

PostInv == WaiterHasItem /\ HandEmpty

\* Which clients wait, and whether the dispatcher is between two events, are all
\* that PostInv reads of pc.
SameWaiters ==
    /\ \A c \in Clients : pc'[c] = "waiting" <=> pc[c] = "waiting"
    /\ pc'[Main] \in {"idle", "get"} => pc[Main] \in {"idle", "get"}

LEMMA PostInvFrame ==
  ASSUME PostInv, SameWaiters, UNCHANGED <<clip_ev_msgq, item>>
  PROVE  PostInv'
  BY DEF PostInv, WaiterHasItem, HandEmpty, SameWaiters, Slots

\* Appending adds the new index to its client's slots.
LEMMA SlotsAppend ==
  ASSUME TypeOK, NEW e \in Events, NEW c \in Clients \cup {NoClient}, Enqueue(e, c),
         NEW d \in Clients
  PROVE  Slots(d)' = Slots(d) \cup (IF d = c THEN {Len(clip_ev_msgq) + 1} ELSE {})
<1> DEFINE n == Len(clip_ev_msgq)
<1>1. [event |-> e, client |-> c] \in Items
  BY DEF Items
<1>2. /\ Len(clip_ev_msgq') = n + 1
      /\ \A i \in 1..n : clip_ev_msgq'[i] = clip_ev_msgq[i]
      /\ clip_ev_msgq'[n + 1] = [event |-> e, client |-> c]
  BY <1>1 DEF Enqueue, TypeOK
<1>3. 1..(n + 1) = (1..n) \cup {n + 1}
  BY DEF TypeOK
<1> QED
  BY <1>2, <1>3 DEF Slots, TypeOK

\* Taking the head shifts every other slot down by one.
LEMMA SlotsTail ==
  ASSUME TypeOK, clip_ev_msgq # <<>>, clip_ev_msgq' = Tail(clip_ev_msgq), NEW d \in Clients
  PROVE  /\ \A i \in Slots(d)' : i \in Nat /\ i + 1 \in Slots(d)
         /\ \A i \in Slots(d) : i = 1 \/ i - 1 \in Slots(d)'
         /\ 1 \in Slots(d) <=> Head(clip_ev_msgq).client = d
<1> DEFINE n == Len(clip_ev_msgq)
<1>1. n \in Nat /\ n >= 1
  BY DEF TypeOK
<1>2. /\ Len(clip_ev_msgq') = n - 1
      /\ \A i \in 1..(n - 1) : clip_ev_msgq'[i] = clip_ev_msgq[i + 1]
  BY DEF TypeOK
<1>3. Head(clip_ev_msgq) = clip_ev_msgq[1]
  BY DEF TypeOK
<1> QED
  BY <1>1, <1>2, <1>3 DEF Slots

LEMMA PostInvPost ==
  ASSUME TypeOK, PostInv, PostStep
  PROVE  PostInv'
<1> USE ProcsAssumption, EventsAssumption
<1>1. CASE clip_post_event
  <2>1. PICK e \in AsyncEvents : Enqueue(e, NoClient)
    BY <1>1 DEF clip_post_event
  <2>2. \A d \in Clients : Slots(d)' = Slots(d)
    BY <2>1, SlotsAppend
  <2>3. UNCHANGED <<pc, item>>
    BY <1>1, <2>1 DEF clip_post_event, Enqueue
  <2> QED
    BY <2>2, <2>3 DEF PostInv, WaiterHasItem, HandEmpty
<1>2. ASSUME NEW c \in Clients, clip_post_event_sync(c)
      PROVE  PostInv'
  <2>1. PICK e \in ClientEvents[c] : Enqueue(e, c)
    BY <1>2 DEF clip_post_event_sync
  <2>2. e \in Events
    OBVIOUS
  <2>3. /\ UNCHANGED item /\ pc[c] = "idle"
        /\ pc' = [pc EXCEPT ![c] = "waiting"]
    BY <1>2, <2>1 DEF clip_post_event_sync, Enqueue
  <2>4. Slots(c) = {} /\ item.client # c
    BY <2>3 DEF PostInv, WaiterHasItem
  <2>5. Slots(c)' = {Len(clip_ev_msgq) + 1}
    BY <2>1, <2>2, <2>4, SlotsAppend
  <2>6. ASSUME NEW d \in Clients, d # c
        PROVE  Slots(d)' = Slots(d)
    <3>1. Slots(d)' = Slots(d) \cup {}
      BY <2>1, <2>2, <2>6, SlotsAppend
    <3> QED
      BY <3>1
  <2>7. /\ pc'[c] = "waiting" /\ pc'[Main] = pc[Main]
        /\ \A d \in Clients \ {c} : pc'[d] = pc[d]
    BY <2>3 DEF TypeOK, Procs
  <2>8. ASSUME NEW d \in Clients
        PROVE  /\ pc'[d] = "waiting" <=> (Slots(d)' # {} \/ item'.client = d)
               /\ item'.client = d => Slots(d)' = {}
               /\ \A i, j \in Slots(d)' : i = j
    <3>1. CASE d = c
      BY <3>1, <2>3, <2>4, <2>5, <2>7
    <3>2. CASE d # c
      BY <3>2, <2>3, <2>6, <2>7 DEF PostInv, WaiterHasItem
    <3> QED
      BY <3>1, <3>2
  <2> QED
    BY <2>3, <2>7, <2>8 DEF PostInv, WaiterHasItem, HandEmpty
<1> QED
  BY <1>1, <1>2 DEF PostStep

LEMMA PostInvGet ==
  ASSUME TypeOK, PostInv, GetEvent
  PROVE  PostInv'
<1> USE ProcsAssumption
<1>1. /\ clip_ev_msgq # <<>> /\ clip_ev_msgq' = Tail(clip_ev_msgq)
      /\ item' = Head(clip_ev_msgq) /\ pc[Main] = "get"
  BY DEF GetEvent
<1>2. \A c \in Clients : pc'[c] = pc[c]
  BY DEF GetEvent, TypeOK, Procs
<1>3. pc'[Main] \notin {"idle", "get"}
  BY DEF GetEvent, TypeOK, Procs
<1>4. item.client \notin Clients
  BY <1>1 DEF PostInv, HandEmpty
<1>5. ASSUME NEW c \in Clients
      PROVE  /\ pc'[c] = "waiting" <=> (Slots(c)' # {} \/ item'.client = c)
             /\ item'.client = c => Slots(c)' = {}
             /\ \A i, j \in Slots(c)' : i = j
  <2>1. /\ pc[c] = "waiting" <=> Slots(c) # {}
        /\ \A i, j \in Slots(c) : i = j
    BY <1>4 DEF PostInv, WaiterHasItem
  <2>2. /\ \A i \in Slots(c)' : i \in Nat /\ i + 1 \in Slots(c)
        /\ \A i \in Slots(c) : i = 1 \/ i - 1 \in Slots(c)'
        /\ 1 \in Slots(c) <=> item'.client = c
    BY <1>1, SlotsTail
  <2>3. \A i \in Slots(c)' : i >= 1
    BY DEF Slots
  <2> QED
    BY <1>2, <2>1, <2>2, <2>3
<1> QED
  BY <1>3, <1>5 DEF PostInv, WaiterHasItem, HandEmpty

LEMMA PostInvNotify ==
  ASSUME TypeOK, PostInv, Notify
  PROVE  PostInv'
<1> USE ProcsAssumption
<1>1. /\ UNCHANGED clip_ev_msgq /\ item'.client = NoClient
      /\ pc'[Main] = "get"
  BY DEF Notify, NoItem, TypeOK, Procs
<1>2. \A d \in Clients : pc'[d] = "waiting" <=> (pc[d] = "waiting" /\ d # item.client)
  BY DEF Notify, TypeOK, Procs
<1>3. \A d \in Clients : Slots(d)' = Slots(d)
  BY <1>1 DEF Slots
<1> QED
  BY <1>1, <1>2, <1>3 DEF PostInv, WaiterHasItem, HandEmpty

LEMMA PostInvDispatch ==
  ASSUME TypeOK, PostInv, Dispatch
  PROVE  PostInv'
<1> USE ProcsAssumption
<1>1. CASE ExecStart
  <2>1. SameWaiters /\ UNCHANGED <<clip_ev_msgq, item>>
    BY <1>1 DEF ExecStart, Finish, SameWaiters, TypeOK, Procs
  <2> QED
    BY <2>1, PostInvFrame
<1>2. CASE Dispatch /\ ~ExecStart /\ ~GetEvent /\ ~Notify
  <2>1. pc' = [pc EXCEPT ![Main] = pc'[Main]] /\ UNCHANGED <<clip_ev_msgq, item>>
    BY <1>2 DEF Dispatch, dispVars, Finish, GoOn, TypeOK, Procs,
         clip_event_wait, QueueDrained, ExecStop, ExecPause, audio_pause_recording,
         audio_resume_recording,
         ExecMark, ExecWifi, ExecShow, ExecPowerOff, StopReturned, PowerOffFails
  <2>2. pc'[Main] \in {"idle", "get"} => pc[Main] \in {"idle", "get"}
    BY <1>2 DEF Dispatch, dispVars, Finish, GoOn, TypeOK, Procs,
         clip_event_wait, QueueDrained, ExecStop, ExecPause, audio_pause_recording,
         audio_resume_recording,
         ExecMark, ExecWifi, ExecShow, ExecPowerOff, StopReturned, PowerOffFails
  <2>3. SameWaiters
    BY <2>1, <2>2 DEF SameWaiters, TypeOK, Procs
  <2> QED
    BY <2>1, <2>3, PostInvFrame
<1> QED
  BY <1>1, <1>2, PostInvGet, PostInvNotify

LEMMA PostInvOthers ==
  ASSUME TypeOK, PostInv, ClientStep \/ AudioStep \/ \E p \in Procs : StopSteps(p)
  PROVE  PostInv'
<1> USE ProcsAssumption
<1>1. CASE ClientStep
  <2>1. SameWaiters /\ UNCHANGED <<clip_ev_msgq, item>>
    BY <1>1 DEF ClientStep, StopFallback, FallbackDone, RebootWork, RebootGoesOn,
         SameWaiters, dispVars, TypeOK, Procs
  <2> QED
    BY <2>1, PostInvFrame
<1>2. CASE SignalDone
  <2>1. SameWaiters /\ UNCHANGED <<clip_ev_msgq, item>>
    BY <1>2 DEF SignalDone, GiveStopDone, StopWaiters, SameWaiters, dispVars, TypeOK, Procs
  <2> QED
    BY <2>1, PostInvFrame
<1>3. CASE AudioStep /\ ~SignalDone
  <2>1. UNCHANGED <<pc, clip_ev_msgq, item>>
    BY <1>3 DEF AudioStep, AudioThread, dispVars, TakeStart, StartFails, CreateSession,
         Activate, SeeStop, SeePause, EnterPause, LeavePause, Resumed, EndRecording,
         CloseFile, CloseSession, ReadFails, WriteFails, NextSegment
  <2> QED
    BY <2>1, PostInvFrame DEF SameWaiters
<1>4. ASSUME NEW p \in Procs, StopSteps(p)
      PROVE  PostInv'
  <2>1. CASE Restart(p)
    <3>1. /\ clip_ev_msgq' = <<>> /\ item'.client = NoClient
          /\ \A c \in Clients : pc'[c] = "idle"
      BY <2>1 DEF Restart, NoItem, Procs
    <3>2. \A c \in Clients : Slots(c)' = {}
      BY <3>1 DEF Slots
    <3> QED
      BY <3>1, <3>2 DEF PostInv, WaiterHasItem, HandEmpty
  <2>2. CASE audio_stop_recording(p) \/ StopTaken(p) \/ StopTimeout(p)
    <3>1. SameWaiters /\ UNCHANGED <<clip_ev_msgq, item>>
      BY <2>2 DEF audio_stop_recording, StopTaken, StopTimeout, SameWaiters, dispVars,
                  TypeOK, Procs
    <3> QED
      BY <3>1, PostInvFrame
  <2> QED
    BY <1>4, <2>1, <2>2 DEF StopSteps
<1> QED
  BY <1>1, <1>2, <1>3, <1>4

\* A client blocked in clip_post_event_sync has exactly one item, and an item in
\* the queue or in the dispatcher's hand never points at the stack of a client
\* that is not blocked there: whatever is posted, dropped, refused or restarted.
THEOREM NoItemOutlivesItsPoster == Spec => []WaiterHasItem
<1>1. Init => PostInv
  <2> SUFFICES ASSUME Init
               PROVE  PostInv
    OBVIOUS
  <2>1. /\ clip_ev_msgq = <<>> /\ item.client = NoClient
        /\ \A c \in Clients : pc[c] = "idle"
    BY DEF Init, NoItem, Procs
  <2>2. \A c \in Clients : Slots(c) = {}
    BY <2>1 DEF Slots
  <2> QED
    BY <2>1, <2>2, ProcsAssumption DEF PostInv, WaiterHasItem, HandEmpty
<1>2. TypeOK /\ PostInv /\ [Next]_vars => PostInv'
  <2> SUFFICES ASSUME TypeOK, PostInv, [Next]_vars
               PROVE  PostInv'
    OBVIOUS
  <2>1. CASE UNCHANGED vars
    BY <2>1, PostInvFrame DEF vars, dispVars, SameWaiters
  <2>2. CASE Next
    BY <2>2, NextSplit, PostInvPost, PostInvDispatch, PostInvOthers
  <2> QED
    BY <2>1, <2>2
<1>3. PostInv => WaiterHasItem
  BY DEF PostInv
<1> QED
  BY <1>1, <1>2, <1>3, TypeCorrect, PTL DEF Spec

----------------------------------------------------------------------------
(* The events in the queue and in the hand are events that somebody posts. *)

PostedEvents == AsyncEvents \cup UNION { ClientEvents[c] : c \in Clients }

PostedItem(it) ==
    it = NoItem \/ it.event \in IF it.client = NoClient THEN AsyncEvents
                                                        ELSE ClientEvents[it.client]

ItemsPosted ==
    /\ \A i \in 1..Len(clip_ev_msgq) : PostedItem(clip_ev_msgq[i])
    /\ PostedItem(item)

LEMMA ItemsPostedPost ==
  ASSUME TypeOK, ItemsPosted, PostStep
  PROVE  ItemsPosted'
<1> USE ProcsAssumption, EventsAssumption
<1>1. PICK e \in Events, c \in Clients \cup {NoClient} :
          Enqueue(e, c) /\ e \in IF c = NoClient THEN AsyncEvents ELSE ClientEvents[c]
  BY DEF PostStep, clip_post_event, clip_post_event_sync
<1> DEFINE n == Len(clip_ev_msgq)
<1>2. [event |-> e, client |-> c] \in Items
  BY DEF Items
<1>3. /\ Len(clip_ev_msgq') = n + 1 /\ n \in Nat
      /\ \A i \in 1..n : clip_ev_msgq'[i] = clip_ev_msgq[i]
      /\ clip_ev_msgq'[n + 1] = [event |-> e, client |-> c]
  BY <1>1, <1>2 DEF Enqueue, TypeOK
<1>4. PostedItem(clip_ev_msgq'[n + 1])
  BY <1>1, <1>3 DEF PostedItem
<1>5. UNCHANGED item
  BY <1>1 DEF Enqueue
<1>6. \A i \in 1..(n + 1) : i \in 1..n \/ i = n + 1
  BY <1>3
<1> QED
  BY <1>3, <1>4, <1>5, <1>6 DEF ItemsPosted

LEMMA ItemsPostedNext ==
  ASSUME TypeOK, ItemsPosted, [Next]_vars
  PROVE  ItemsPosted'
<1>1. CASE PostStep
  BY <1>1, ItemsPostedPost
<1>2. CASE GetEvent
  <2> DEFINE n == Len(clip_ev_msgq)
  <2>1. /\ n \in Nat /\ n >= 1
        /\ Len(clip_ev_msgq') = n - 1
        /\ \A i \in 1..(n - 1) : clip_ev_msgq'[i] = clip_ev_msgq[i + 1]
        /\ item' = clip_ev_msgq[1]
    BY <1>2 DEF GetEvent, TypeOK
  <2> QED
    BY <2>1 DEF ItemsPosted
<1>3. CASE Notify \/ \E p \in Procs : Restart(p)
  <2>1. item' = NoItem /\ clip_ev_msgq' \in {clip_ev_msgq, <<>>}
    BY <1>3 DEF Notify, Restart
  <2> QED
    BY <2>1 DEF ItemsPosted, PostedItem
<1>4. ASSUME UNCHANGED <<clip_ev_msgq, item>>
      PROVE  ItemsPosted'
  BY <1>4 DEF ItemsPosted
<1>5. CASE Dispatch /\ ~GetEvent /\ ~Notify
  BY <1>4, <1>5 DEF Dispatch, clip_event_wait, QueueDrained, ExecStart, ExecStop, ExecPause,
     audio_pause_recording, audio_resume_recording, ExecMark, ExecWifi, ExecShow,
     ExecPowerOff, StopReturned, PowerOffFails, Finish, GoOn, dispVars
<1>6. CASE ClientStep \/ \E p \in Procs : StopSteps(p) /\ ~Restart(p)
  BY <1>4, <1>6 DEF ClientStep, StopFallback, FallbackDone, RebootWork, RebootGoesOn,
     StopSteps, audio_stop_recording, StopTaken, StopTimeout, dispVars
<1>7. CASE AudioStep
  BY <1>4, <1>7 DEF AudioStep, AudioThread, dispVars, TakeStart, StartFails, CreateSession,
     Activate, SeeStop, SeePause, EnterPause, LeavePause, Resumed, EndRecording, CloseFile,
     CloseSession, SignalDone, ReadFails, WriteFails, NextSegment
<1> QED
  BY <1>1, <1>2, <1>3, <1>4, <1>5, <1>6, <1>7, NextSplit DEF vars, dispVars

LEMMA ItemsPostedInit == Init => ItemsPosted
  BY DEF Init, ItemsPosted, PostedItem

\* The event in the hand, or the place-holder of an empty one.
LEMMA HandPosted ==
  ASSUME TypeOK, ItemsPosted
  PROVE  /\ item.event \in PostedEvents \cup {"POWER_OFF_SHOW"}
         /\ \A c \in Clients :
                item.client = c => item = NoItem \/ item.event \in ClientEvents[c]
  BY ProcsAssumption DEF TypeOK, Items, ItemsPosted, PostedItem, PostedEvents, NoItem

----------------------------------------------------------------------------
(***************************************************************************)
(* What a STOP leaves behind, when recordings end because the dispatcher   *)
(* asked for it, or never began: for every mix of the events, with a card  *)
(* that refuses to create or to close sessions and files, and whatever the *)
(* microphone, WiFi and the power management do.                           *)
(***************************************************************************)
\* No fault that ends a recording that is under way, or makes a stop time out, no
\* reboot, and no AT+STOP, whose fallback stops the audio thread directly.  TLC
\* shows that none of these can be left out.
Orderly ==
    /\ Faults \cap {"write", "dmic", "resume", "slowStop", "reboot"} = {}
    /\ \A c \in AtServers : "STOP" \notin ClientEvents[c]

\* Only the dispatcher stops recordings; the one it is about to stop or to
\* pause does not end before, and what it carries out is admitted.
MainAlone ==
    /\ pc[Worker] = "idle"
    /\ \A c \in Clients : pc[c] \in {"idle", "waiting"}
    /\ pc[Main] # "stopErr"
    /\ pc[Main] = "exec" => Targets(g_state, item.event) # {}
    /\ pc[Main] = "pauseCall" => item.event = "PAUSE"
    /\ pc[Main] \in {"stopCall", "pauseCall"} => recording_active

\* The audio thread has nothing to do; it records, or is about to; it was told
\* to stop and has not signalled yet.
Quiet ==
    /\ audio = "wait" /\ audio_start_sem = 0 /\ stop_done_sem = 0
    /\ stop_requested = FALSE /\ open_sessions \subseteq refused

Running ==
    /\ stop_requested = FALSE /\ stop_done_sem = 0
    /\ audio \in {"wait", "init", "activate", "loop", "pausing", "paused", "resuming"}
    /\ audio = "wait" <=> audio_start_sem = 1
    /\ open_sessions \subseteq
         refused \cup (IF audio \in {"wait", "init"} THEN {} ELSE {current_session_id})

BeingStopped ==
    /\ stop_requested = TRUE /\ stop_done_sem = 0 /\ audio_start_sem = 0
    /\ audio \in {"loop", "pausing", "paused", "resuming", "ending", "closeFile",
                  "closeSession", "signal"}
    /\ open_sessions \subseteq
         refused \cup (IF audio = "signal" THEN {} ELSE {current_session_id})

Accepted(e) == pc[Main] = "notify" /\ result = "OK" /\ item.event = e

Stage ==
    /\ pc[Main] = "stopWait" => BeingStopped
    /\ pc[Main] = "stopOk" => Quiet
    /\ pc[Main] \notin {"stopWait", "stopOk"} => Quiet \/ Running
    /\ Accepted("STOP") => Quiet

\* While a recording begins, the device shows it, or is about to: no START is
\* admitted that would take its session id from it.
Starting == audio_start_sem = 1 \/ audio \in {"init", "activate"}
StartShown ==
    Starting => \/ Accepted("START")
                \/ g_state = "RECORDING" /\ ~Accepted("STOP") /\ ~Accepted("PAUSE")

OrderlyInv == MainAlone /\ Stage /\ StartShown

LEMMA OrderlyPost ==
  ASSUME TypeOK, Orderly, OrderlyInv, PostStep
  PROVE  OrderlyInv'
<1>1. UNCHANGED <<g_state, item, result, audio, stop_requested, audio_start_sem,
                  stop_done_sem, current_session_id, open_sessions, refused, recording_active>>
  BY DEF PostStep, clip_post_event, clip_post_event_sync, Enqueue, flagVars, semVars, cardVars
<1>2. /\ pc'[Main] = pc[Main] /\ pc'[Worker] = pc[Worker]
      /\ \A c \in Clients : pc'[c] \in {"idle", "waiting"}
  BY ProcsAssumption DEF PostStep, clip_post_event, clip_post_event_sync,
     TypeOK, Procs, OrderlyInv, MainAlone
<1>3. MainAlone' /\ Stage' /\ StartShown'
  BY <1>1, <1>2 DEF OrderlyInv, MainAlone, Stage, Quiet, Running, BeingStopped, StartShown,
     Starting, Accepted
<1> QED
  BY <1>3 DEF OrderlyInv

LEMMA OrderlyNoClientStep ==
  ASSUME Orderly, OrderlyInv
  PROVE  ~ClientStep
  BY DEF Orderly, OrderlyInv, MainAlone, ClientStep, StopFallback, FallbackDone, RebootWork,
         RebootGoesOn

\* A recording that can be stopped is running, and has begun.
LEMMA ActiveRuns ==
  ASSUME TypeOK, AudioInv, Stage, recording_active, pc[Main] \notin {"stopWait", "stopOk"}
  PROVE  Running /\ ~Starting
  BY DEF AudioInv, ResourcesBalanced, Stage, Quiet, Running, Starting, TypeOK

LEMMA OrderlyStopSteps ==
  ASSUME TypeOK, AudioInv, Orderly, OrderlyInv, NEW p \in Procs, StopSteps(p)
  PROVE  OrderlyInv'
<1> USE ProcsAssumption
<1>1. pc[p] \in {"stopCall", "stopWait", "powerCut"}
  BY DEF StopSteps, audio_stop_recording, StopTaken, StopTimeout, Restart
<1>2. p = Main
  BY <1>1 DEF OrderlyInv, MainAlone, Procs
<1>3. ~StopTaken(p) /\ ~StopTimeout(p)
  BY <1>2 DEF StopTaken, StopTimeout, Orderly, OrderlyInv, Stage, BeingStopped, Stopping
<1>4. CASE audio_stop_recording(p)
  <2>1. /\ pc[Main] = "stopCall" /\ stop_requested' = TRUE
        /\ pc' = [pc EXCEPT ![Main] = IF recording_active THEN "stopWait" ELSE "stopOk"]
        /\ UNCHANGED <<g_state, item, result, audio, audio_start_sem, stop_done_sem,
                       recording_active, current_session_id, open_sessions, refused>>
    BY <1>2, <1>4 DEF audio_stop_recording, dispVars, semVars, cardVars
  <2>2. recording_active
    BY <2>1 DEF OrderlyInv, MainAlone
  <2>3. Running /\ ~Starting
    BY <2>1, <2>2, ActiveRuns DEF OrderlyInv
  <2>4. pc'[Main] = "stopWait" /\ \A q \in Procs \ {Main} : pc'[q] = pc[q]
    BY <2>1, <2>2 DEF TypeOK, Procs
  <2>5. BeingStopped'
    BY <2>1, <2>2, <2>3 DEF Running, Starting, BeingStopped, TypeOK
  <2>6. MainAlone' /\ Stage' /\ StartShown'
    BY <2>1, <2>3, <2>4, <2>5 DEF OrderlyInv, MainAlone, Stage, StartShown, Starting,
       Accepted, Procs
  <2> QED
    BY <2>6 DEF OrderlyInv
<1>5. CASE Restart(p)
  <2>1. /\ clip_ev_msgq' = <<>> /\ item' = NoItem /\ pc' = [q \in Procs |-> "idle"]
        /\ Quiet' /\ audio' = "wait" /\ audio_start_sem' = 0
    BY <1>5 DEF Restart, Quiet
  <2>2. /\ pc'[Main] = "idle" /\ pc'[Worker] = "idle"
        /\ \A c \in Clients : pc'[c] = "idle"
    BY <2>1 DEF Procs
  <2> QED
    BY <2>1, <2>2 DEF OrderlyInv, MainAlone, Stage, StartShown, Starting, Accepted
<1> QED
  BY <1>3, <1>4, <1>5 DEF StopSteps

\* What a dispatcher step leaves alone unless it starts a recording.
AudioAlone == UNCHANGED <<audio, recording_active, stop_requested, audio_start_sem,
                          stop_done_sem, current_session_id, open_sessions, refused>>

\* A dispatcher step moves only its own program counter.
OwnStep(where) == pc' = [pc EXCEPT ![Main] = where]

LEMMA OrderlyExec ==
  ASSUME TypeOK, AudioInv, Orderly, OrderlyInv,
         \/ clip_event_wait \/ QueueDrained \/ ExecStop \/ ExecPause
         \/ audio_pause_recording \/ audio_resume_recording \/ ExecMark \/ ExecWifi
         \/ ExecShow \/ ExecPowerOff \/ StopReturned \/ PowerOffFails
  PROVE  OrderlyInv'
<1> USE ProcsAssumption
<1> DEFINE Same == UNCHANGED <<g_state, clip_ev_msgq, item>> /\ AudioAlone
<1>1. Same /\ OwnStep(pc'[Main])
  BY DEF AudioAlone, OwnStep, clip_event_wait, QueueDrained, ExecStop, ExecPause,
     audio_pause_recording, audio_resume_recording, ExecMark, ExecWifi, ExecShow,
     ExecPowerOff, StopReturned, PowerOffFails, Finish, GoOn, dispVars, flagVars,
     semVars, cardVars, TypeOK, Procs
<1>2. /\ pc'[Worker] = "idle"
      /\ \A c \in Clients : pc'[c] \in {"idle", "waiting"}
      /\ Quiet' = Quiet /\ Running' = Running /\ Starting' = Starting
  BY <1>1 DEF OrderlyInv, MainAlone, OwnStep, AudioAlone, Quiet, Running,
     Starting, TypeOK, Procs
<1>3. /\ pc'[Main] \in {"idle", "get", "notify", "pauseCall", "stopCall", "powerCut"}
      /\ pc[Main] # "stopWait" /\ pc[Main] # "notify"
      /\ pc'[Main] = "pauseCall" => item.event = "PAUSE" /\ recording_active
      /\ pc'[Main] = "stopCall" => recording_active
      /\ pc'[Main] = "notify" /\ result' = "OK" /\ item.event = "STOP" => Quiet
      /\ pc'[Main] = "notify" /\ result' = "OK" /\ item.event = "PAUSE" => recording_active
  BY DEF OrderlyInv, MainAlone, Stage, Executing, clip_event_wait, QueueDrained, ExecStop,
     ExecPause, audio_pause_recording, audio_resume_recording, ExecMark, ExecWifi, ExecShow,
     ExecPowerOff, StopReturned, PowerOffFails, Finish, GoOn, TypeOK, Procs
<1>4. Quiet \/ Running
  BY <1>3 DEF OrderlyInv, Stage
<1>5. MainAlone' /\ Stage'
  BY <1>1, <1>2, <1>3, <1>4 DEF MainAlone, Stage, Accepted, AudioAlone
<1>6. StartShown'
  <2> SUFFICES ASSUME Starting
               PROVE  g_state = "RECORDING" /\ ~Accepted("STOP")' /\ ~Accepted("PAUSE")'
    BY <1>1, <1>2 DEF StartShown
  <2>1. g_state = "RECORDING"
    BY <1>3 DEF OrderlyInv, StartShown, Accepted
  <2>2. ~Quiet
    BY DEF Quiet, Starting
  <2>3. ~recording_active
    BY <1>3, <2>2, ActiveRuns DEF OrderlyInv, Stage
  <2> QED
    BY <1>1, <1>3, <2>1, <2>2, <2>3 DEF Accepted
<1> QED
  BY <1>2, <1>5, <1>6 DEF OrderlyInv

LEMMA OrderlyGet ==
  ASSUME TypeOK, Orderly, OrderlyInv, GetEvent
  PROVE  OrderlyInv'
<1> USE ProcsAssumption
<1>1. /\ pc[Main] = "get" /\ AudioAlone /\ UNCHANGED g_state
      /\ OwnStep(pc'[Main])
      /\ \/ pc'[Main] = "notify" /\ result' = "INVALID"
         \/ pc'[Main] = "exec" /\ Targets(g_state, item'.event) # {}
  BY DEF GetEvent, Admitted, AudioAlone, OwnStep, flagVars, semVars, cardVars, TypeOK, Procs
<1>2. MainAlone'
  BY <1>1 DEF OwnStep, OrderlyInv, MainAlone, TypeOK, Procs
<1>3. Quiet' = Quiet /\ Running' = Running /\ Starting' = Starting
  BY <1>1 DEF AudioAlone, Quiet, Running, Starting
<1>4. Stage' /\ StartShown'
  BY <1>1, <1>3 DEF OrderlyInv, Stage, StartShown, Accepted
<1> QED
  BY <1>2, <1>4 DEF OrderlyInv

\* A START is admitted in IDLE only, and is refused while a recording is active:
\* what it begins is the only one.
LEMMA OrderlyStart ==
  ASSUME TypeOK, AudioInv, Orderly, OrderlyInv, ExecStart
  PROVE  OrderlyInv'
<1> USE ProcsAssumption
<1>1. /\ pc[Main] = "exec" /\ item.event = "START"
      /\ UNCHANGED <<g_state, clip_ev_msgq, item, audio, recording_active, open_sessions,
                     refused>>
  BY DEF ExecStart, Executing, Finish, cardVars
<1>2. /\ pc'[Main] = "notify" /\ pc'[Worker] = "idle"
      /\ \A c \in Clients : pc'[c] \in {"idle", "waiting"}
  BY DEF ExecStart, Finish, OrderlyInv, MainAlone, TypeOK, Procs
<1>3. g_state = "IDLE"
  BY <1>1 DEF OrderlyInv, MainAlone, Targets, transition_table
<1>4. ~Starting
  BY <1>1, <1>3 DEF OrderlyInv, StartShown, Accepted
<1>5. MainAlone'
  BY <1>1, <1>2 DEF OrderlyInv, MainAlone
<1>6. CASE UNCHANGED <<stop_requested, semVars, current_session_id>>
  <2>1. Quiet' = Quiet /\ Running' = Running /\ Starting' = Starting
    BY <1>1, <1>6 DEF Quiet, Running, Starting, semVars
  <2> QED
    BY <1>1, <1>2, <1>4, <1>5, <2>1 DEF OrderlyInv, Stage, StartShown, Accepted
<1>7. CASE /\ ~recording_active /\ result' = "OK" /\ stop_requested' = FALSE
           /\ stop_done_sem' = 0 /\ audio_start_sem' = 1
  <2>1. Quiet
    BY <1>1, <1>4, <1>7 DEF OrderlyInv, Stage, Running, Starting, AudioInv,
       ResourcesBalanced, TypeOK
  <2>2. Running'
    BY <1>1, <1>7, <2>1 DEF Quiet, Running
  <2> QED
    BY <1>1, <1>2, <1>5, <1>7, <2>2 DEF OrderlyInv, Stage, StartShown, Accepted
<1> QED
  BY <1>6, <1>7 DEF ExecStart

LEMMA OrderlyNotify ==
  ASSUME TypeOK, AudioInv, ItemsPosted, Orderly, OrderlyInv, Notify
  PROVE  OrderlyInv'
<1> USE ProcsAssumption
<1>1. /\ pc[Main] = "notify" /\ pc'[Main] = "get" /\ pc'[Worker] = pc[Worker]
      /\ UNCHANGED clip_ev_msgq /\ item' = NoItem
  BY DEF Notify, TypeOK, Procs, Items
<1>2. item.client \in AtServers => item.event # "STOP"
  BY HandPosted DEF Orderly, NoItem
<1>3. \A c \in Clients : pc'[c] \in {"idle", "waiting"}
  BY <1>2 DEF Notify, TypeOK, Procs, OrderlyInv, MainAlone
<1>4. /\ result = "OK" => g_state' \in Targets(g_state, item.event)
      /\ result # "OK" => g_state' = g_state
      /\ AudioAlone
  BY DEF Notify, AudioAlone, flagVars, semVars, cardVars
<1>5. Quiet' = Quiet /\ Running' = Running /\ Starting' = Starting
  BY <1>4 DEF AudioAlone, Quiet, Running, Starting
<1>6. MainAlone' /\ Stage'
  BY <1>1, <1>3, <1>5 DEF OrderlyInv, MainAlone, Stage, Accepted
<1>7. StartShown'
  <2> SUFFICES ASSUME Starting PROVE g_state' = "RECORDING"
    BY <1>1, <1>5 DEF StartShown, Accepted
  <2>1. CASE result = "OK"
    <3>1. item.event \in Events /\ g_state' \in Targets(g_state, item.event)
      BY <1>4, <2>1 DEF TypeOK, Items
    <3>2. CASE item.event = "START"
      BY <3>1, <3>2 DEF Targets, transition_table, States
    <3>3. CASE g_state = "RECORDING" /\ item.event \notin {"START", "STOP", "PAUSE"}
      BY <3>1, <3>3 DEF Targets, transition_table, States, Events
    <3> QED
      BY <1>1, <2>1, <3>2, <3>3 DEF OrderlyInv, StartShown, Accepted
  <2>2. CASE result # "OK"
    BY <1>4, <2>2 DEF OrderlyInv, StartShown, Accepted
  <2> QED
    BY <2>1, <2>2
<1> QED
  BY <1>6, <1>7 DEF OrderlyInv

LEMMA OrderlyDispatch ==
  ASSUME TypeOK, AudioInv, ItemsPosted, Orderly, OrderlyInv, Dispatch
  PROVE  OrderlyInv'
  BY OrderlyExec, OrderlyGet, OrderlyStart, OrderlyNotify DEF Dispatch

\* The recording under way goes on, or fails to begin (StartFails).
LEMMA RunningGoesOn ==
  ASSUME TypeOK, AudioInv, Orderly, Running, AudioStep
  PROVE  /\ Running' \/ (Quiet' /\ Starting /\ "mic" \in Faults)
         /\ recording_active => Running' /\ recording_active'
         /\ Starting' => Starting
<1>1. UNCHANGED <<stop_done_sem, current_session_id>> /\ ~ReadFails /\ ~WriteFails /\ ~SeeStop
      /\ ~EndRecording /\ ~CloseFile /\ ~CloseSession /\ ~SignalDone
  BY DEF AudioStep, AudioThread, Running, Orderly, semVars, TakeStart, StartFails,
     CreateSession, Activate, SeeStop, SeePause, EnterPause, LeavePause, Resumed,
     EndRecording, CloseFile, CloseSession, SignalDone, ReadFails, WriteFails, NextSegment
<1>2. UNCHANGED stop_requested /\ stop_requested = FALSE
  BY <1>1 DEF Running, AudioStep, AudioThread, flagVars, TakeStart, StartFails, CreateSession,
     Activate, SeePause, EnterPause, LeavePause, Resumed, NextSegment
<1>3. CASE TakeStart
  BY <1>1, <1>2, <1>3 DEF TakeStart, Running, Starting, AudioInv, ResourcesBalanced
<1>4. CASE StartFails
  BY <1>1, <1>2, <1>4 DEF StartFails, Running, Quiet, Starting, semVars, flagVars, AudioInv,
     ResourcesBalanced, TypeOK
<1>5. CASE CreateSession
  BY <1>1, <1>2, <1>5 DEF CreateSession, Running, Starting, semVars, flagVars, AudioInv,
     ResourcesBalanced
<1>6. CASE Activate
  BY <1>1, <1>2, <1>6 DEF Activate, Running, Starting, semVars, cardVars
<1>7. CASE SeePause \/ EnterPause \/ LeavePause \/ Resumed \/ NextSegment
  BY <1>1, <1>2, <1>7 DEF SeePause, EnterPause, LeavePause, Resumed, NextSegment,
     Continuing, Orderly, Running, Starting, semVars, cardVars, flagVars
<1> QED
  BY <1>1, <1>3, <1>4, <1>5, <1>6, <1>7 DEF AudioStep, AudioThread

LEMMA StoppedGoesOn ==
  ASSUME Orderly, BeingStopped, AudioStep, ~SignalDone
  PROVE  BeingStopped'
<1>1. ~TakeStart /\ ~StartFails /\ ~CreateSession /\ ~Activate /\ ~SeePause /\ ~LeavePause
      /\ ~ReadFails /\ ~WriteFails
  BY DEF BeingStopped, TakeStart, StartFails, CreateSession, Activate, SeePause, LeavePause,
     Continuing, Orderly, ReadFails, WriteFails
<1>2. CASE SeeStop \/ EnterPause \/ Resumed \/ EndRecording \/ CloseFile \/ NextSegment
  BY <1>2 DEF SeeStop, EnterPause, Resumed, EndRecording, CloseFile, NextSegment, Orderly,
     BeingStopped, semVars, cardVars, flagVars
<1>3. CASE CloseSession
  BY <1>3 DEF CloseSession, BeingStopped, semVars, flagVars
<1> QED
  BY <1>1, <1>2, <1>3 DEF AudioStep, AudioThread

LEMMA OrderlyAudio ==
  ASSUME TypeOK, AudioInv, Orderly, OrderlyInv, AudioStep, ~SignalDone
  PROVE  OrderlyInv'
<1>1. UNCHANGED <<dispVars, pc>>
  BY DEF AudioStep, AudioThread, TakeStart, StartFails, CreateSession, Activate, SeeStop,
     SeePause, EnterPause, LeavePause, Resumed, EndRecording, CloseFile, CloseSession,
     ReadFails, WriteFails, NextSegment
<1>2. ~Quiet
  BY DEF Quiet, AudioStep, AudioThread, TakeStart, StartFails, CreateSession, Activate,
     SeeStop, SeePause, EnterPause, LeavePause, Resumed, EndRecording, CloseFile,
     CloseSession, ReadFails, WriteFails, NextSegment, Continuing
<1>3. CASE pc[Main] = "stopWait"
  <2>1. BeingStopped'
    BY <1>3, StoppedGoesOn DEF OrderlyInv, Stage
  <2> QED
    BY <1>1, <1>3, <2>1 DEF OrderlyInv, MainAlone, Stage, StartShown, Starting,
       Accepted, BeingStopped, dispVars
<1>4. CASE pc[Main] # "stopWait"
  <2>1. Running /\ pc[Main] # "stopOk"
    BY <1>2, <1>4 DEF OrderlyInv, Stage
  <2>2. /\ Running' \/ Quiet'
        /\ recording_active => recording_active'
        /\ Starting' => Starting
    BY <2>1, RunningGoesOn
  <2>3. \A e : Accepted(e)' = Accepted(e)
    BY <1>1 DEF Accepted, dispVars
  <2>4. ~Accepted("STOP")
    BY <1>2 DEF OrderlyInv, Stage
  <2>5. Stage' /\ StartShown'
    BY <1>1, <1>4, <2>1, <2>2, <2>3, <2>4 DEF OrderlyInv, Stage, StartShown, dispVars
  <2>6. MainAlone'
    BY <1>1, <2>2 DEF OrderlyInv, MainAlone, dispVars
  <2> QED
    BY <2>5, <2>6 DEF OrderlyInv
<1> QED
  BY <1>3, <1>4

\* The only process that waits for the signal is the dispatcher.
LEMMA SignalWakesMain ==
  ASSUME TypeOK, OrderlyInv, SignalDone
  PROVE  /\ pc[Main] = "stopWait" /\ pc'[Main] = "stopOk"
         /\ \A q \in Procs \ {Main} : pc'[q] = pc[q]
         /\ UNCHANGED <<dispVars, recording_active, audio_start_sem>>
         /\ Quiet'
<1> USE ProcsAssumption
<1>1. audio = "signal" /\ audio' = "wait" /\ stop_requested' = FALSE
  BY DEF SignalDone
<1>2. UNCHANGED <<dispVars, recording_active, audio_start_sem, current_session_id,
                  open_sessions, refused>>
  BY DEF SignalDone, cardVars
<1>3. pc[Main] = "stopWait" /\ BeingStopped
  BY <1>1 DEF OrderlyInv, Stage, Quiet, Running
<1>4. StopWaiters = {Main}
  BY <1>3 DEF StopWaiters, OrderlyInv, MainAlone, Procs
<1>5. pc' = [pc EXCEPT ![Main] = "stopOk"] /\ UNCHANGED stop_done_sem
  BY <1>4 DEF SignalDone, GiveStopDone
<1>6. pc'[Main] = "stopOk" /\ \A q \in Procs \ {Main} : pc'[q] = pc[q]
  BY <1>5 DEF TypeOK, Procs
<1>7. Quiet'
  BY <1>1, <1>2, <1>3, <1>5 DEF BeingStopped, Quiet
<1> QED
  BY <1>2, <1>3, <1>6, <1>7

LEMMA OrderlySignal ==
  ASSUME TypeOK, Orderly, OrderlyInv, SignalDone
  PROVE  OrderlyInv'
<1>1. Stage' /\ StartShown'
  BY SignalWakesMain DEF Stage, StartShown, Starting, Accepted, Quiet
<1>2. MainAlone'
  BY SignalWakesMain, ProcsAssumption DEF OrderlyInv, MainAlone, dispVars, Procs
<1> QED
  BY <1>1, <1>2 DEF OrderlyInv

LEMMA OrderlyInvariant ==
  ASSUME Orderly
  PROVE  Spec => [](TypeOK /\ AudioInv /\ ItemsPosted /\ OrderlyInv)
<1>1. Init => OrderlyInv
  <2> SUFFICES ASSUME Init
               PROVE  OrderlyInv
    OBVIOUS
  <2>1. /\ pc[Main] = "idle" /\ pc[Worker] = "idle"
        /\ \A c \in Clients : pc[c] = "idle"
    BY DEF Init, Procs
  <2>2. Quiet /\ ~Starting
    BY DEF Init, Quiet, Starting
  <2> QED
    BY <2>1, <2>2 DEF OrderlyInv, MainAlone, Stage, StartShown, Accepted
<1>2. TypeOK /\ AudioInv /\ ItemsPosted /\ OrderlyInv /\ [Next]_vars => OrderlyInv'
  <2> SUFFICES ASSUME TypeOK, AudioInv, ItemsPosted, OrderlyInv, [Next]_vars
               PROVE  OrderlyInv'
    OBVIOUS
  <2>1. CASE UNCHANGED vars
    BY <2>1 DEF vars, dispVars, flagVars, semVars, cardVars, OrderlyInv, MainAlone,
       Stage, StartShown, Starting, Accepted, Quiet, Running, BeingStopped
  <2>2. CASE Next
    BY <2>2, Orderly, NextSplit, OrderlyPost, OrderlyNoClientStep, OrderlyStopSteps,
       OrderlyDispatch, OrderlyAudio, OrderlySignal
  <2> QED
    BY <2>1, <2>2
<1>3. TypeOK /\ ItemsPosted /\ [Next]_vars => ItemsPosted'
  BY ItemsPostedNext
<1> QED
  BY <1>1, <1>2, <1>3, ItemsPostedInit, TypeAndAudioInv, PTL DEF Spec

\* A STOP answered OK has its file closed, and its session unless the card refused
\* it, and the audio thread is back at its semaphore.
THEOREM StoppedIsClosed ==
  ASSUME Orderly
  PROVE  Spec => []StopOkMeansClosed
<1>1. AudioInv /\ OrderlyInv => StopOkMeansClosed
  BY DEF AudioInv, FileOpenOnlyWhileRecording, OrderlyInv, Stage, Accepted, Quiet,
         StopOkMeansClosed
<1> QED
  BY <1>1, OrderlyInvariant, PTL

\* No signal of an earlier recording is left for a later STOP to take.
THEOREM NoSignalLeft ==
  ASSUME Orderly
  PROVE  Spec => []NoStaleSignal
<1>1. OrderlyInv => NoStaleSignal
  BY DEF OrderlyInv, Stage, Quiet, Running, BeingStopped, NoStaleSignal
<1> QED
  BY <1>1, OrderlyInvariant, PTL

\* The open session is the one under way, and none is open when the thread waits,
\* but for those the card refused to close.
THEOREM NoSessionLeftOpen ==
  ASSUME Orderly
  PROVE  Spec => []SessionsClosed
<1>1. OrderlyInv => SessionsClosed
  BY DEF OrderlyInv, Stage, Quiet, Running, BeingStopped, SessionsClosed
<1> QED
  BY <1>1, OrderlyInvariant, PTL

----------------------------------------------------------------------------
(***************************************************************************)
(* The agreement between the device state and the audio thread, when a     *)
(* recording begins when it was asked to, and ends when the dispatcher     *)
(* asked it to or the power is cut.                                        *)
(***************************************************************************)
\* No fault that makes the audio thread give up, no event that leaves PAUSED for
\* WiFi, and no power-off that stops the recording and then does not cut the power.
Undisturbed ==
    /\ Orderly
    /\ "mic" \notin Faults
    /\ {"WIFI_ON", "WIFI_OFF"} \cap PostedEvents = {}
    /\ "pmic" \notin Faults \/ "POWER_OFF_EXEC" \notin PostedEvents

Answered == pc[Main] = "notify" /\ result = "OK"

\* The event in the hand fits the dispatcher's place and the device state.
AnswersFit ==
    /\ g_state # "WIFI_SYNC"
    /\ pc[Main] \in {"stopCall", "stopWait", "stopOk"}
         => item.event \in {"STOP", "POWER_OFF_EXEC"}
    /\ pc[Main] = "powerCut" => item.event = "POWER_OFF_EXEC"
    /\ pc[Main] \in {"exec", "pauseCall", "stopCall", "stopWait", "stopOk"} \/ Answered
         => Targets(g_state, item.event) # {}
    /\ Answered => item.event # "POWER_OFF_EXEC"

\* The state the device shows, or will show once the event in hand is answered,
\* is not a recording one.
ShownIdle ==
    IF Answered /\ item.event \in {"START", "STOP"} THEN item.event = "STOP"
                                                    ELSE g_state = "IDLE"

Phase ==
    pc[Main] \notin {"stopWait", "stopOk", "powerCut"} => IF ShownIdle THEN Quiet ELSE Running

DeviceInv == AnswersFit /\ Phase

\* What the steps below start from.
UndisturbedInv == TypeOK /\ AudioInv /\ ItemsPosted /\ OrderlyInv /\ DeviceInv

\* The table, read row by row for the events that do not turn WiFi on or off.
LEMMA TableRows ==
  ASSUME NEW s, s # "WIFI_SYNC"
  PROVE  /\ Targets(s, "START") # {} => s = "IDLE"
         /\ Targets(s, "START") \subseteq {"RECORDING"}
         /\ Targets(s, "STOP") # {} => s \in {"RECORDING", "PAUSED"}
         /\ Targets(s, "STOP") \subseteq {"IDLE"}
         /\ Targets(s, "PAUSE") # {} => s = "RECORDING"
         /\ Targets(s, "PAUSE") \subseteq {"PAUSED"}
         /\ Targets(s, "RESUME") # {} => s = "PAUSED"
         /\ Targets(s, "RESUME") \subseteq {"RECORDING"}
         /\ \A e \in {"MARK", "POWER_OFF_SHOW", "POWER_OFF_EXEC", "STATUS_SHOW"} :
                Targets(s, e) \subseteq {s}
  BY DEF Targets, transition_table, States

\* A step that leaves alone what the agreement speaks of.
LEMMA DeviceFrame ==
  ASSUME DeviceInv, pc'[Main] = pc[Main],
         UNCHANGED <<g_state, item, result, audio, stop_requested, audio_start_sem,
                     stop_done_sem, current_session_id, open_sessions, refused>>
  PROVE  DeviceInv'
  BY DEF DeviceInv, AnswersFit, Answered, Phase, ShownIdle, Quiet, Running

LEMMA DevicePost ==
  ASSUME UndisturbedInv, PostStep
  PROVE  DeviceInv'
<1>1. UNCHANGED <<g_state, item, result, audio, stop_requested, audio_start_sem,
                  stop_done_sem, current_session_id, open_sessions, refused>>
  BY DEF PostStep, clip_post_event, clip_post_event_sync, Enqueue, flagVars, semVars, cardVars
<1>2. pc'[Main] = pc[Main]
  BY ProcsAssumption DEF PostStep, clip_post_event, clip_post_event_sync, UndisturbedInv,
     TypeOK, Procs
<1> QED
  BY <1>1, <1>2, DeviceFrame DEF UndisturbedInv

\* The process that stops the recording, or cuts the power, is the dispatcher.
LEMMA DeviceStop ==
  ASSUME Undisturbed, UndisturbedInv, NEW p \in Procs, StopSteps(p)
  PROVE  DeviceInv'
<1> USE ProcsAssumption
<1>1. pc[p] \in {"stopCall", "stopWait", "powerCut"}
  BY DEF StopSteps, audio_stop_recording, StopTaken, StopTimeout, Restart
<1>2. p = Main
  BY <1>1 DEF UndisturbedInv, OrderlyInv, MainAlone, Procs
<1>3. CASE Restart(p)
  <2>1. g_state' = "IDLE" /\ pc'[Main] = "idle" /\ Quiet'
    BY <1>3 DEF Restart, Quiet, Procs
  <2> QED
    BY <2>1 DEF DeviceInv, AnswersFit, Answered, Phase, ShownIdle
<1>4. CASE ~Restart(p)
  <2>1. /\ pc[Main] \in {"stopCall", "stopWait"}
        /\ pc'[Main] \in {"stopWait", "stopOk", "stopErr"}
        /\ UNCHANGED <<g_state, item>>
    BY <1>2, <1>4 DEF StopSteps, audio_stop_recording, StopTaken, StopTimeout, dispVars,
       UndisturbedInv, TypeOK, Procs
  <2>2. pc'[Main] # "stopErr"
    BY <1>2, <1>4, OrderlyStopSteps DEF Undisturbed, UndisturbedInv, OrderlyInv, MainAlone
  <2> QED
    BY <2>1, <2>2 DEF UndisturbedInv, DeviceInv, AnswersFit, Answered, Phase
<1> QED
  BY <1>3, <1>4

LEMMA DeviceExec ==
  ASSUME Undisturbed, UndisturbedInv,
         \/ clip_event_wait \/ QueueDrained \/ ExecStop \/ ExecPause
         \/ audio_pause_recording \/ audio_resume_recording \/ ExecMark \/ ExecWifi
         \/ ExecShow \/ ExecPowerOff \/ StopReturned \/ PowerOffFails
  PROVE  DeviceInv'
<1> USE ProcsAssumption DEF UndisturbedInv, DeviceInv, AnswersFit
<1>1. /\ UNCHANGED <<g_state, item>> /\ AudioAlone
      /\ pc[Main] # "notify"
  BY DEF AudioAlone, clip_event_wait, QueueDrained, ExecStop, ExecPause,
     audio_pause_recording, audio_resume_recording, ExecMark, ExecWifi, ExecShow,
     ExecPowerOff, StopReturned, PowerOffFails, Executing, Finish, GoOn, dispVars, flagVars,
     semVars, cardVars
<1>2. Quiet' = Quiet /\ Running' = Running
  BY <1>1 DEF AudioAlone, Quiet, Running
<1>3. item.event \notin {"WIFI_ON", "WIFI_OFF"}
  BY HandPosted DEF Undisturbed
<1>4. ~ExecWifi /\ ~PowerOffFails
  BY <1>3, HandPosted DEF Undisturbed, ExecWifi, PowerOffFails, Executing
<1>5. CASE clip_event_wait \/ QueueDrained
  <2>1. pc[Main] \in {"idle", "get"} /\ pc'[Main] \in {"idle", "get"}
    BY <1>5 DEF clip_event_wait, QueueDrained, TypeOK, Procs
  <2> QED
    BY <1>1, <1>2, <2>1 DEF Phase, ShownIdle, Answered
<1>6. CASE audio_pause_recording \/ audio_resume_recording \/ ExecMark \/ ExecShow
  <2>1. /\ pc[Main] \in {"exec", "pauseCall"} /\ pc'[Main] = "notify"
        /\ item.event \in {"PAUSE", "RESUME", "MARK", "POWER_OFF_SHOW", "STATUS_SHOW"}
    BY <1>6 DEF audio_pause_recording, audio_resume_recording, ExecMark, ExecShow, Executing,
       Finish, OrderlyInv, MainAlone, TypeOK, Procs
  <2> QED
    BY <1>1, <1>2, <2>1 DEF Phase, ShownIdle, Answered
<1>7. CASE ExecStop \/ ExecPause
  <2>1. /\ pc[Main] = "exec" /\ item.event \in {"STOP", "PAUSE"}
        /\ \/ pc'[Main] = "notify" /\ result' = "INVALID"
           \/ pc'[Main] = "stopCall" /\ item.event = "STOP"
           \/ pc'[Main] = "pauseCall"
    BY <1>7 DEF ExecStop, ExecPause, Executing, Finish, GoOn, TypeOK, Procs
  <2> QED
    BY <1>1, <1>2, <2>1 DEF Phase, ShownIdle, Answered
<1>8. CASE ExecPowerOff
  <2>1. /\ pc[Main] = "exec" /\ item.event = "POWER_OFF_EXEC"
        /\ pc'[Main] \in {"stopCall", "powerCut"}
    BY <1>8 DEF ExecPowerOff, Executing, GoOn, TypeOK, Procs
  <2> QED
    BY <1>1, <1>2, <2>1 DEF Phase, ShownIdle, Answered
<1>9. CASE StopReturned
  <2>1. /\ pc[Main] = "stopOk" /\ Quiet
        /\ IF item.event = "STOP" THEN pc'[Main] = "notify" ELSE pc'[Main] = "powerCut"
        /\ item.event = "STOP" => result' = "OK"
    BY <1>9 DEF StopReturned, Finish, GoOn, OrderlyInv, MainAlone, Stage, TypeOK, Procs
  <2> QED
    BY <1>1, <1>2, <2>1 DEF Phase, ShownIdle, Answered
<1> QED
  BY <1>4, <1>5, <1>6, <1>7, <1>8, <1>9

LEMMA DeviceGet ==
  ASSUME UndisturbedInv, GetEvent
  PROVE  DeviceInv'
<1>1. /\ pc[Main] = "get" /\ AudioAlone /\ UNCHANGED g_state
      /\ \/ pc'[Main] = "notify" /\ result' = "INVALID"
         \/ pc'[Main] = "exec" /\ Targets(g_state, item'.event) # {}
  BY ProcsAssumption DEF GetEvent, Admitted, AudioAlone, flagVars, semVars, cardVars,
     UndisturbedInv, TypeOK, Procs
<1>2. Quiet' = Quiet /\ Running' = Running
  BY <1>1 DEF AudioAlone, Quiet, Running
<1> QED
  BY <1>1, <1>2 DEF UndisturbedInv, DeviceInv, AnswersFit, Answered, Phase, ShownIdle

LEMMA DeviceStart ==
  ASSUME UndisturbedInv, ExecStart
  PROVE  DeviceInv'
<1>1. /\ pc[Main] = "exec" /\ item.event = "START" /\ pc'[Main] = "notify"
      /\ UNCHANGED <<g_state, item, audio, open_sessions, refused>>
  BY ProcsAssumption DEF ExecStart, Executing, Finish, cardVars, UndisturbedInv, TypeOK, Procs
<1>2. Targets(g_state, "START") # {} /\ g_state = "IDLE"
  BY <1>1, TableRows DEF UndisturbedInv, DeviceInv, AnswersFit
<1>3. Quiet
  BY <1>1, <1>2 DEF UndisturbedInv, DeviceInv, Phase, ShownIdle, Answered
<1>4. AnswersFit'
  BY <1>1, <1>2 DEF AnswersFit, Answered
<1>5. CASE result' # "OK" /\ UNCHANGED <<stop_requested, semVars, current_session_id>>
  <2>1. Quiet'
    BY <1>1, <1>3, <1>5 DEF Quiet, semVars
  <2> QED
    BY <1>1, <1>2, <1>4, <1>5, <2>1 DEF DeviceInv, Phase, ShownIdle, Answered
<1>6. CASE /\ result' = "OK" /\ stop_requested' = FALSE /\ stop_done_sem' = 0
           /\ audio_start_sem' = 1
  <2>1. Running'
    BY <1>1, <1>3, <1>6 DEF Quiet, Running
  <2> QED
    BY <1>1, <1>4, <1>6, <2>1 DEF DeviceInv, Phase, ShownIdle, Answered
<1> QED
  BY <1>5, <1>6 DEF ExecStart, Finish

LEMMA DeviceNotify ==
  ASSUME Undisturbed, UndisturbedInv, Notify
  PROVE  DeviceInv'
<1>1. pc[Main] = "notify" /\ pc'[Main] = "get"
  BY DEF Notify, Procs
<1>2. /\ Answered => g_state' \in Targets(g_state, item.event)
      /\ ~Answered => g_state' = g_state
      /\ AudioAlone
  BY DEF Notify, Answered, AudioAlone, flagVars, semVars, cardVars
<1>3. item.event \in {"START", "STOP", "PAUSE", "RESUME", "MARK", "POWER_OFF_SHOW",
                      "POWER_OFF_EXEC", "STATUS_SHOW"}
  BY HandPosted DEF Undisturbed, UndisturbedInv, TypeOK, Items, Events
<1>4. g_state # "WIFI_SYNC" /\ (IF ShownIdle THEN Quiet ELSE Running)
  BY <1>1 DEF UndisturbedInv, DeviceInv, AnswersFit, Phase
<1>5. g_state' # "WIFI_SYNC" /\ (g_state' = "IDLE" <=> ShownIdle)
  BY <1>2, <1>3, <1>4, TableRows DEF ShownIdle
<1>6. Quiet' = Quiet /\ Running' = Running
  BY <1>2 DEF AudioAlone, Quiet, Running
<1> QED
  BY <1>1, <1>4, <1>5, <1>6 DEF DeviceInv, AnswersFit, Phase, ShownIdle, Answered

\* Before it signals, the audio thread leaves what the dispatcher looks at alone,
\* and the recording under way goes on.
LEMMA DeviceAudio ==
  ASSUME Undisturbed, UndisturbedInv, AudioStep, ~SignalDone
  PROVE  DeviceInv'
<1>1. UNCHANGED <<dispVars, pc>>
  BY DEF AudioStep, AudioThread, TakeStart, StartFails, CreateSession, Activate, SeeStop,
     SeePause, EnterPause, LeavePause, Resumed, EndRecording, CloseFile, CloseSession,
     ReadFails, WriteFails, NextSegment
<1>2. ~Quiet
  BY DEF Quiet, AudioStep, AudioThread, TakeStart, StartFails, CreateSession, Activate,
     SeeStop, SeePause, EnterPause, LeavePause, Resumed, EndRecording, CloseFile,
     CloseSession, ReadFails, WriteFails, NextSegment, Continuing
<1>3. Running => Running'
  BY RunningGoesOn DEF Undisturbed, UndisturbedInv
<1>4. ShownIdle' = ShownIdle
  BY <1>1 DEF ShownIdle, Answered, dispVars
<1> QED
  BY <1>1, <1>2, <1>3, <1>4 DEF UndisturbedInv, DeviceInv, AnswersFit, Answered, Phase, dispVars

LEMMA DeviceSignal ==
  ASSUME UndisturbedInv, SignalDone
  PROVE  DeviceInv'
  BY SignalWakesMain DEF UndisturbedInv, DeviceInv, AnswersFit, Answered, Phase, dispVars

LEMMA DeviceInvariant ==
  ASSUME Undisturbed
  PROVE  Spec => []UndisturbedInv
<1>1. Init => DeviceInv
  <2> SUFFICES ASSUME Init
               PROVE  DeviceInv
    OBVIOUS
  <2>1. pc[Main] = "idle" /\ Quiet /\ g_state = "IDLE"
    BY DEF Init, Procs, Quiet
  <2> QED
    BY <2>1 DEF DeviceInv, AnswersFit, Answered, Phase, ShownIdle
<1>2. UndisturbedInv /\ [Next]_vars => DeviceInv'
  <2> SUFFICES ASSUME UndisturbedInv, [Next]_vars
               PROVE  DeviceInv'
    OBVIOUS
  <2>1. CASE UNCHANGED vars
    BY <2>1, DeviceFrame DEF vars, dispVars, flagVars, semVars, cardVars, UndisturbedInv
  <2>2. ~ClientStep
    BY OrderlyNoClientStep DEF Undisturbed, UndisturbedInv
  <2>3. CASE Next
    BY <2>2, <2>3, Undisturbed, NextSplit, DevicePost, DeviceStop, DeviceExec, DeviceGet,
       DeviceStart, DeviceNotify, DeviceAudio, DeviceSignal DEF Dispatch
  <2> QED
    BY <2>1, <2>3
<1>3. Orderly
  BY DEF Undisturbed
<1> QED
  BY <1>1, <1>2, <1>3, OrderlyInvariant, PTL DEF Spec, UndisturbedInv

\* Between two events the device shows RECORDING or PAUSED exactly when a
\* recording is under way or just asked for: also over a power-off and the
\* restart after it, a START that the card refuses, a file that is not created.
THEOREM StateAndAudioAgree ==
  ASSUME Undisturbed
  PROVE  Spec => []StateAgreesWithAudio
<1>1. UndisturbedInv => StateAgreesWithAudio
  BY DEF UndisturbedInv, TypeOK, DeviceInv, AnswersFit, Answered, Phase, ShownIdle, Quiet,
         Running, StateAgreesWithAudio, UnderWay, States
<1> QED
  BY <1>1, DeviceInvariant, PTL

----------------------------------------------------------------------------
(***************************************************************************)
(* Recorder implements RecordingService, step by step.                     *)
(***************************************************************************)

\* What the service leaves out besides: a power-off, which ends a recording without
\* a STOP.
OrdinaryEvents == Events \ {"WIFI_ON", "WIFI_OFF", "POWER_OFF_EXEC"}

Ordinary == Orderly /\ "mic" \notin Faults /\ PostedEvents \subseteq OrdinaryEvents

OrdinaryInv == UndisturbedInv /\ item.event \in OrdinaryEvents

LEMMA OrdinaryInvariant ==
  ASSUME Ordinary
  PROVE  Spec => []OrdinaryInv
<1>1. Undisturbed
  BY DEF Ordinary, Undisturbed, OrdinaryEvents
<1>2. UndisturbedInv => OrdinaryInv
  BY HandPosted DEF UndisturbedInv, OrdinaryInv, Ordinary, OrdinaryEvents, Events
<1> QED
  BY <1>1, <1>2, DeviceInvariant, PTL

\* Where a STOP is under way, it is a STOP that the table admits.
LEMMA StopUnderWay ==
  ASSUME OrdinaryInv
  PROVE  /\ pc[Main] # "powerCut"
         /\ pc[Main] \in {"stopCall", "stopWait", "stopOk"}
              => item.event = "STOP" /\ g_state \in {"RECORDING", "PAUSED"}
  BY TableRows DEF OrdinaryInv, UndisturbedInv, DeviceInv, AnswersFit, OrdinaryEvents

\* The one row of the table for a state and an ordinary event it admits.
Successor(s, e) ==
    CASE e = "START" -> "RECORDING" [] e = "STOP" -> "IDLE"
      [] e = "PAUSE" -> "PAUSED" [] e = "RESUME" -> "RECORDING"
      [] OTHER -> s

LEMMA OneTarget ==
  ASSUME NEW s, s # "WIFI_SYNC", NEW e \in OrdinaryEvents, Targets(s, e) # {}
  PROVE  Targets(s, e) = {Successor(s, e)}
<1>1. e \in {"START", "STOP", "PAUSE", "RESUME", "MARK", "POWER_OFF_SHOW", "STATUS_SHOW"}
  BY DEF OrdinaryEvents, Events
<1>2. Targets(s, e) \subseteq {Successor(s, e)}
  BY <1>1, TableRows DEF Successor
<1> QED BY <1>2

LEMMA ChosenTarget ==
  ASSUME NEW s, s # "WIFI_SYNC", NEW e \in OrdinaryEvents, Targets(s, e) # {}
  PROVE  (CHOOSE t \in States : t \in Targets(s, e)) = Successor(s, e)
<1>1. Targets(s, e) = {Successor(s, e)}
  BY OneTarget
<1>2. Successor(s, e) \in States
  BY <1>1, TargetsAreStates
<1> QED BY <1>1, <1>2

\* What RecordingService is told of the device's state.
LEMMA ShownNow ==
  ASSUME OrdinaryInv
  PROVE  shownState = IF Answered THEN Successor(g_state, item.event) ELSE g_state
<1>1. CASE Answered
  BY <1>1, ChosenTarget DEF Answered, shownState, OrdinaryInv, UndisturbedInv, DeviceInv,
     AnswersFit
<1>2. CASE ~Answered
  BY <1>2 DEF Answered, shownState
<1> QED BY <1>1, <1>2

LEMMA ShownNext ==
  ASSUME OrdinaryInv'
  PROVE  shownState' = IF Answered' THEN Successor(g_state', item'.event) ELSE g_state'
<1>1. CASE Answered'
  BY <1>1, ChosenTarget DEF Answered, shownState, OrdinaryInv, UndisturbedInv, DeviceInv,
     AnswersFit
<1>2. CASE ~Answered'
  BY <1>2 DEF Answered, shownState
<1> QED BY <1>1, <1>2

LEMMA ServiceInit == Init => Service!Init
<1> SUFFICES ASSUME Init PROVE Service!Init
  OBVIOUS
<1>1. shownState = "IDLE"
  BY DEF Init, shownState, Procs
<1> QED BY <1>1 DEF Init, Service!Init, recordingStage

\* A step that leaves the audio thread, the card and the shown state alone.
LEMMA ServiceStutter ==
  ASSUME shownState' = shownState,
         UNCHANGED <<audio, audio_start_sem, file_open>>
  PROVE  UNCHANGED Service!vars
  BY DEF Service!vars, recordingStage

LEMMA ServicePost ==
  ASSUME TypeOK, OrdinaryInv, OrdinaryInv', PostStep
  PROVE  UNCHANGED Service!vars
<1>1. /\ UNCHANGED <<g_state, item, result, audio, audio_start_sem, file_open>>
      /\ pc'[Main] = pc[Main]
  BY ProcsAssumption DEF PostStep, clip_post_event, clip_post_event_sync, Enqueue, semVars,
     cardVars, TypeOK, Procs
<1>2. shownState' = shownState
  BY <1>1, ShownNow, ShownNext DEF Answered
<1> QED BY <1>1, <1>2, ServiceStutter

LEMMA ServiceStopStep ==
  ASSUME TypeOK, OrdinaryInv, OrdinaryInv', NEW p \in Procs, StopSteps(p)
  PROVE  UNCHANGED Service!vars
<1>1. pc[p] \in {"stopCall", "stopWait", "powerCut"}
  BY DEF StopSteps, audio_stop_recording, StopTaken, StopTimeout, Restart
<1>2. p = Main /\ pc[Main] # "powerCut"
  BY <1>1, StopUnderWay DEF OrdinaryInv, UndisturbedInv, OrderlyInv, MainAlone, Procs
<1>3. /\ UNCHANGED <<g_state, item, result, audio, audio_start_sem, file_open>>
      /\ pc'[Main] \in {"stopWait", "stopOk", "stopErr"}
  BY <1>2 DEF StopSteps, audio_stop_recording, StopTaken, StopTimeout, Restart, dispVars,
     semVars, cardVars, TypeOK, Procs
<1>4. shownState' = shownState
  BY <1>1, <1>2, <1>3, ShownNow, ShownNext DEF Answered
<1> QED BY <1>3, <1>4, ServiceStutter

LEMMA ServiceDispatch ==
  ASSUME TypeOK, OrdinaryInv, OrdinaryInv', Dispatch
  PROVE  Service!Next \/ UNCHANGED Service!vars
<1> USE ProcsAssumption
<1>a. item.event \in OrdinaryEvents /\ g_state \in States /\ g_state # "WIFI_SYNC"
  BY DEF OrdinaryInv, UndisturbedInv, DeviceInv, AnswersFit, TypeOK
<1>1. CASE clip_event_wait \/ QueueDrained \/ GetEvent \/ ExecStop \/ ExecPause
  <2>1. /\ UNCHANGED <<g_state, audio, audio_start_sem, file_open>>
        /\ ~Answered /\ ~Answered'
    BY <1>1 DEF clip_event_wait, QueueDrained, GetEvent, ExecStop, ExecPause, Executing,
       Finish, GoOn, dispVars, semVars, cardVars, Answered, TypeOK, Procs
  <2>2. shownState' = shownState
    BY <2>1, ShownNow, ShownNext
  <2> QED BY <2>1, <2>2, ServiceStutter
<1>2. CASE ExecMark \/ ExecShow
  <2>1. /\ UNCHANGED <<g_state, item, audio, audio_start_sem, file_open>>
        /\ ~Answered /\ item.event \notin {"START", "STOP", "PAUSE", "RESUME"}
    BY <1>2 DEF ExecMark, ExecShow, Executing, Finish, semVars, cardVars, Answered
  <2>2. shownState' = shownState
    BY <2>1, ShownNow, ShownNext DEF Successor
  <2> QED BY <2>1, <2>2, ServiceStutter
<1>3. CASE Notify
  <2>1. UNCHANGED <<audio, audio_start_sem, file_open>> /\ ~Answered'
    BY <1>3 DEF Notify, semVars, cardVars, Answered, TypeOK, Procs
  <2>2. pc[Main] = "notify" /\ (IF Answered THEN g_state' \in Targets(g_state, item.event)
                                              ELSE g_state' = g_state)
    BY <1>3 DEF Notify, Answered
  <2>3. Answered => Targets(g_state, item.event) = {Successor(g_state, item.event)}
    BY <1>a, OneTarget DEF OrdinaryInv, UndisturbedInv, DeviceInv, AnswersFit
  <2>4. shownState' = shownState
    BY <2>1, <2>2, <2>3, ShownNow, ShownNext
  <2> QED BY <2>1, <2>4, ServiceStutter
<1>4. CASE ExecStart
  <2>1. /\ pc[Main] = "exec" /\ item.event = "START" /\ pc'[Main] = "notify" /\ ~Answered
        /\ UNCHANGED <<g_state, item, audio, file_open>>
    BY <1>4 DEF ExecStart, Executing, Finish, cardVars, Answered, TypeOK, Procs
  <2>2. g_state = "IDLE" /\ Quiet
    BY <2>1, TableRows DEF OrdinaryInv, UndisturbedInv, DeviceInv, AnswersFit, Phase, ShownIdle
  <2>3. shownState = "IDLE" /\ recordingStage = "none"
    BY <2>1, <2>2, ShownNow DEF recordingStage, Quiet
  <2>4. CASE result' # "OK" /\ UNCHANGED audio_start_sem
    <3>1. shownState' = shownState
      BY <2>1, <2>2, <2>3, <2>4, ShownNext DEF Answered
    <3> QED BY <2>1, <2>4, <3>1, ServiceStutter
  <2>5. CASE result' = "OK" /\ audio_start_sem' = 1
    <3>1. shownState' = "RECORDING" /\ recordingStage' = "requested"
      BY <2>1, <2>5, ShownNext DEF Answered, Successor, recordingStage
    <3>2. Service!Start
      BY <2>1, <2>3, <3>1 DEF Service!Start
    <3> QED BY <3>2 DEF Service!Next
  <2> QED BY <1>4, <2>4, <2>5 DEF ExecStart, Finish, semVars
<1>5. CASE audio_pause_recording \/ audio_resume_recording
  <2>1. /\ pc[Main] \in {"exec", "pauseCall"} /\ ~Answered /\ Answered'
        /\ UNCHANGED <<g_state, item, audio, audio_start_sem, file_open>>
    BY <1>5 DEF audio_pause_recording, audio_resume_recording, Executing, Finish, semVars,
       cardVars, Answered, TypeOK, Procs
  <2>2. item.event = IF audio_pause_recording THEN "PAUSE" ELSE "RESUME"
    BY <1>5 DEF audio_pause_recording, audio_resume_recording, Executing, OrdinaryInv,
       UndisturbedInv, OrderlyInv, MainAlone
  <2>3. g_state = IF audio_pause_recording THEN "RECORDING" ELSE "PAUSED"
    BY <2>1, <2>2, TableRows DEF OrdinaryInv, UndisturbedInv, DeviceInv, AnswersFit
  <2>4. /\ shownState = IF audio_pause_recording THEN "RECORDING" ELSE "PAUSED"
        /\ shownState' = IF audio_pause_recording THEN "PAUSED" ELSE "RECORDING"
    BY <2>1, <2>2, <2>3, ShownNow, ShownNext DEF Successor
  <2>5. UNCHANGED <<recordingStage, file_open>>
    BY <2>1, <2>4 DEF recordingStage
  <2>6. Service!Pause \/ Service!Resume
    BY <2>4, <2>5 DEF Service!Pause, Service!Resume
  <2> QED BY <2>6 DEF Service!Next
<1>6. CASE StopReturned
  <2>1. /\ pc[Main] = "stopOk" /\ item.event = "STOP" /\ ~Answered /\ Answered'
        /\ UNCHANGED <<g_state, item, audio, audio_start_sem, file_open>>
    BY <1>6, StopUnderWay DEF StopReturned, Finish, semVars, cardVars, Answered, OrdinaryInv,
       UndisturbedInv, OrderlyInv, MainAlone, TypeOK, Procs
  <2>2. g_state \in {"RECORDING", "PAUSED"} /\ Quiet
    BY <2>1, StopUnderWay DEF OrdinaryInv, UndisturbedInv, OrderlyInv, Stage
  <2>3. shownState = g_state /\ recordingStage = "closed"
    BY <2>1, <2>2, ShownNow DEF recordingStage, Quiet
  <2>4. shownState' = "IDLE" /\ recordingStage' = "none"
    BY <2>1, <2>2, ShownNext DEF Successor, recordingStage, Quiet
  <2>5. Service!Stop
    BY <2>1, <2>2, <2>3, <2>4 DEF Service!Stop
  <2> QED BY <2>5 DEF Service!Next
<1>7. ~ExecWifi /\ ~ExecPowerOff /\ ~PowerOffFails
  BY <1>a, StopUnderWay DEF ExecWifi, ExecPowerOff, PowerOffFails, Executing, OrdinaryEvents
<1> QED
  BY <1>1, <1>2, <1>3, <1>4, <1>5, <1>6, <1>7 DEF Dispatch

LEMMA ServiceAudio ==
  ASSUME TypeOK, Ordinary, OrdinaryInv, OrdinaryInv', AudioStep
  PROVE  Service!Next \/ UNCHANGED Service!vars
<1>1. UNCHANGED dispVars /\ (SignalDone \/ UNCHANGED pc)
  BY DEF AudioStep, AudioThread, TakeStart, StartFails, CreateSession, Activate, SeeStop,
     SeePause, EnterPause, LeavePause, Resumed, EndRecording, CloseFile, CloseSession,
     ReadFails, WriteFails, NextSegment, SignalDone
<1>2. ~StartFails /\ ~ReadFails /\ ~WriteFails
  BY DEF Ordinary, Orderly, StartFails, ReadFails, WriteFails
<1>3. Running \/ (BeingStopped /\ pc[Main] = "stopWait")
  <2>1. ~Quiet
    BY <1>2 DEF Quiet, AudioStep, AudioThread, TakeStart, CreateSession, Activate, SeeStop,
       SeePause, EnterPause, LeavePause, Resumed, EndRecording, CloseFile, CloseSession,
       NextSegment, SignalDone, Continuing
  <2> QED BY <2>1 DEF OrdinaryInv, UndisturbedInv, OrderlyInv, Stage
<1>4. shownState' = shownState
  <2>1. CASE SignalDone
    <3>1. pc[Main] = "stopWait"
      BY <1>3, <2>1 DEF SignalDone, Running
    <3>2. pc'[Main] \in {"stopWait", "stopOk"}
      BY <2>1, <3>1 DEF SignalDone, GiveStopDone, TypeOK, Procs
    <3> QED BY <1>1, <3>1, <3>2, ShownNow, ShownNext DEF Answered, dispVars
  <2>2. CASE UNCHANGED pc
    BY <1>1, <2>2 DEF shownState, dispVars
  <2> QED BY <1>1, <2>1, <2>2
<1>5. ASSUME audio' # "wait", audio' # "init", audio_start_sem' # 1,
             audio # "wait", audio # "init", audio_start_sem # 1,
             audio' # "signal", audio # "signal", file_open' \in BOOLEAN
      PROVE  Service!Next \/ UNCHANGED Service!vars
  <2>1. recordingStage = "open" /\ recordingStage' = "open"
    BY <1>5 DEF recordingStage
  <2>2. CASE file_open' = file_open
    BY <1>4, <2>1, <2>2 DEF Service!vars
  <2>3. CASE file_open' = ~file_open
    <3>1. Service!ChangeFile
      BY <1>4, <2>1, <2>3 DEF Service!ChangeFile
    <3> QED BY <3>1 DEF Service!Next
  <2> QED BY <1>5, <2>2, <2>3 DEF TypeOK
<1>6. CASE SeePause \/ EnterPause \/ LeavePause \/ Resumed \/ NextSegment \/ Activate \/ SeeStop
           \/ EndRecording \/ CloseFile
  <2>1. /\ audio' \notin {"wait", "init", "signal"} /\ audio \notin {"wait", "init", "signal"}
        /\ UNCHANGED audio_start_sem /\ file_open' \in BOOLEAN
    BY <1>6 DEF SeePause, EnterPause, LeavePause, Resumed, NextSegment, Activate, SeeStop,
       EndRecording, CloseFile, Continuing, CreateFile, semVars, cardVars, TypeOK
  <2>2. audio_start_sem # 1
    BY <1>3, <2>1 DEF Running, BeingStopped
  <2> QED BY <1>5, <2>1, <2>2
<1>7. CASE TakeStart
  <2>1. /\ recordingStage = "requested" /\ recordingStage' = "requested"
        /\ UNCHANGED file_open
    BY <1>3, <1>7 DEF TakeStart, Running, BeingStopped, recordingStage
  <2> QED BY <1>4, <2>1 DEF Service!vars
<1>8. CASE CreateSession
  <2>1. audio_start_sem # 1
    BY <1>3, <1>8 DEF CreateSession, Running, BeingStopped
  <2>2. recordingStage = "requested" /\ recordingStage' = "open" /\ file_open' \in BOOLEAN
    BY <1>8, <2>1 DEF CreateSession, CreateFile, recordingStage, semVars
  <2>3. Service!Open
    BY <1>4, <2>2 DEF Service!Open
  <2> QED BY <2>3 DEF Service!Next
<1>9. CASE CloseSession
  <2>1. BeingStopped /\ pc[Main] = "stopWait" /\ audio = "closeSession"
    BY <1>3, <1>9 DEF CloseSession, Running
  <2>2. /\ audio' = "signal"
        /\ audio_start_sem = 0 /\ audio_start_sem' = 0 /\ UNCHANGED file_open
    BY <1>9, <2>1 DEF CloseSession, BeingStopped, semVars
  <2>3. ~file_open
    BY <2>1 DEF OrdinaryInv, UndisturbedInv, AudioInv, FileOpenOnlyWhileRecording
  <2>4. shownState # "IDLE"
    BY <2>1, ShownNow, StopUnderWay DEF Answered
  <2>5. recordingStage = "open" /\ recordingStage' = "closed"
    BY <1>4, <2>1, <2>2, <2>4 DEF recordingStage
  <2>6. Service!Close
    BY <1>4, <2>2, <2>3, <2>5 DEF Service!Close
  <2> QED BY <2>6 DEF Service!Next
<1>10. CASE SignalDone
  <2>1. BeingStopped /\ audio = "signal" /\ audio' = "wait"
    BY <1>3, <1>10 DEF SignalDone, Running
  <2>2. UNCHANGED <<recordingStage, file_open>>
    BY <1>4, <1>10, <2>1 DEF SignalDone, BeingStopped, recordingStage, cardVars
  <2> QED BY <1>4, <2>2 DEF Service!vars
<1> QED
  BY <1>2, <1>6, <1>7, <1>8, <1>9, <1>10 DEF AudioStep, AudioThread

\* With ordinary events and faults, the recorder does what RecordingService
\* promises: one session for each START, closed with its file before the device
\* shows IDLE again (ImplementsService, without its fairness).
THEOREM RecorderImplementsService ==
  ASSUME Ordinary
  PROVE  Spec => Service!Init /\ [][Service!Next]_(Service!vars)
<1>1. OrdinaryInv /\ OrdinaryInv' /\ [Next]_vars => [Service!Next]_(Service!vars)
  <2> SUFFICES ASSUME OrdinaryInv, OrdinaryInv', [Next]_vars
               PROVE  Service!Next \/ UNCHANGED Service!vars
    OBVIOUS
  <2>1. TypeOK /\ ~ClientStep
    BY OrderlyNoClientStep DEF Ordinary, OrdinaryInv, UndisturbedInv
  <2>2. CASE UNCHANGED vars
    BY <2>2 DEF vars, dispVars, semVars, cardVars, Service!vars, recordingStage, shownState
  <2>3. CASE Next
    BY <2>1, <2>3, Ordinary, NextSplit, ServicePost, ServiceStopStep, ServiceDispatch,
       ServiceAudio
  <2> QED BY <2>2, <2>3
<1> QED
  BY <1>1, ServiceInit, OrdinaryInvariant, PTL DEF Spec
=============================================================================
