----------------------------- MODULE SdCardProofs -----------------------------
(***************************************************************************)
(* Safety of SdCard for every set of faults and every bound on LDO2.       *)
(***************************************************************************)
EXTENDS SdCard, TLAPS

USE DEF cardVars, userVars, histVars, At, GoTo, OnTo, Finish, Begin

\* The mutex: storage_resume and the idle power-off hold it while they work, and
\* the power-off works on a card that has its power.
Down == {"unmount", "unflag", "cut"}

HolderInv ==
    /\ \A t \in Threads : pc[t] = "resuming" => sd_lifecycle_mutex = t
    /\ pc["work"] \in Down =>
          sd_lifecycle_mutex = "work" /\ sd_powered /\ op["work"] = "idle"
    /\ pc["work"] = "lock" => op["work"] = "idle"
    /\ pc["work"] \notin {"usbd", "mkfs", "mount"}

\* Without a race only one thread changes the mount.
AloneInv ==
    ~raced => \A t, u \in Threads : Changing(t) /\ Changing(u) => t = u

\* Without a race and a leaked reference the mount point is in use only while the
\* flags say so, and it is free once a thread has unmounted it.
Unmounted == {"resuming", "unflag", "cut", "usbd", "mkfs", "mount"}

MountInv ==
    ~raced /\ leaked = 0 =>
        /\ fs => sd_mounted /\ sd_powered
        /\ \A t \in Threads : pc[t] \in Unmounted => ~fs

\* A recording that is about to begin shows in the state.
PendingInv == rec = "pending" => g_state = "RECORDING"

\* The idle power-off under way has the card alone.
KeptInv ==
    pc["work"] \in Down /\ ~missed /\ ~raced =>
        /\ rec = "none" /\ ~transfer_active /\ ~usb_active
        /\ \A t \in Threads : pc[t] \notin {"rearm", "using"}

IInv ==
    /\ TypeOK /\ RailBalanced /\ HolderInv
    /\ AloneInv /\ MountInv /\ PendingInv /\ KeptInv

\* TypeOK in parts.
PlacesTyped == pc \in [Threads -> Places] /\ op \in [Threads -> Ops]

FlagsTyped ==
    /\ sd_powered \in BOOLEAN /\ sd_mounted \in BOOLEAN /\ fs \in BOOLEAN
    /\ usb_active \in BOOLEAN /\ transfer_active \in BOOLEAN
    /\ missed \in BOOLEAN /\ raced \in BOOLEAN

StatesTyped ==
    /\ sd_lifecycle_mutex \in Threads \cup {"none"}
    /\ g_state \in {"IDLE", "RECORDING", "WIFI_SYNC"}
    /\ rec \in {"none", "pending", "writing", "paused"}

RailTyped == rail \in Nat /\ leaked \in Nat

LEMMA TypeSplit == TypeOK <=> PlacesTyped /\ FlagsTyped /\ StatesTyped /\ RailTyped
  BY DEF TypeOK, PlacesTyped, FlagsTyped, StatesTyped, RailTyped

LEMMA IInvInit == Init => IInv
<1> SUFFICES ASSUME Init PROVE IInv
  OBVIOUS
<1>1. sd_powered \in BOOLEAN
  BY DEF Init
<1>2. PlacesTyped
  BY DEF Init, PlacesTyped, Places, Ops
<1>3. FlagsTyped /\ StatesTyped
  BY <1>1 DEF Init, FlagsTyped, StatesTyped
<1>4. RailTyped /\ RailBalanced
  BY <1>1, SMT DEF Init, RailTyped, RailBalanced, Min1
<1>5. HolderInv /\ AloneInv /\ MountInv
  BY DEF Init, HolderInv, AloneInv, MountInv, Changing, Down, Unmounted, Threads
<1>6. PendingInv /\ KeptInv
  BY DEF Init, PendingInv, KeptInv, Down, Threads
<1> QED
  BY <1>2, <1>3, <1>4, <1>5, <1>6, TypeSplit DEF IInv

----------------------------------------------------------------------------
\* The actions of the model, one by one.
Steps ==
    \/ CardCommand \/ UsbOn \/ UsbOffCommand \/ VbusRemoved \/ UsbTimeout \/ StartEvent
    \/ StopEvent \/ WifiEvent \/ RecorderOpens \/ RecorderCloses \/ TransferEnds
    \/ CardUsed \/ DownloadStarts \/ TransferStarts \/ FormatChecks \/ Mkfs
    \/ UsbdEnable \/ MountAgain \/ Tick \/ IdleStays \/ IdlePowerOff \/ Cut
    \/ StartEnds
    \/ \E t \in Threads :
          \/ AlreadyUp(t) \/ ResumeBegins(t) \/ ResumeEnds(t) \/ ResumeFails(t)
          \/ Rearm(t) \/ Unmount(t) \/ NotMounted(t) \/ Unflag(t)

LEMMA NextSteps == Next => Steps
  BY DEF Next, Requests, Thread, AtServer, IdleWork, Ensure, TakeDown, Steps, Threads

\* Threads stay where the code has a place.
LEMMA PlacesStep ==
  ASSUME TypeOK, Next
  PROVE  PlacesTyped'
<1>1. CASE CardCommand \/ UsbOn
  BY <1>1 DEF CardCommand, UsbOn, Races, PlacesTyped, TypeOK, Places, Ops
<1>2. CASE UsbOffCommand \/ VbusRemoved \/ UsbTimeout
  BY <1>2 DEF UsbOffCommand, UsbOff, VbusRemoved, UsbTimeout, PlacesTyped, TypeOK,
         Places, Ops
<1>3. CASE StartEvent
  BY <1>3 DEF StartEvent, PlacesTyped, TypeOK, Places, Ops
<1>4. CASE StopEvent \/ WifiEvent \/ RecorderOpens \/ RecorderCloses \/ TransferEnds
  BY <1>4 DEF StopEvent, WifiEvent, RecorderOpens, RecorderCloses, TransferEnds,
         PlacesTyped, TypeOK
<1>5. CASE CardUsed \/ DownloadStarts
  BY <1>5 DEF CardUsed, DownloadStarts, PlacesTyped, TypeOK, Places, Ops
<1>6. CASE TransferStarts
  BY <1>6 DEF TransferStarts, PlacesTyped, TypeOK, Places, Ops
<1>7. CASE FormatChecks
  BY <1>7 DEF FormatChecks, Races, PlacesTyped, TypeOK, Places, Ops
<1>8. CASE Mkfs
  BY <1>8 DEF Mkfs, PlacesTyped, TypeOK, Places, Ops
<1>9. CASE UsbdEnable \/ MountAgain
  BY <1>9 DEF UsbdEnable, MountAgain, PlacesTyped, TypeOK, Places, Ops
<1>10. CASE Tick \/ IdleStays
  BY <1>10 DEF Tick, IdleStays, PlacesTyped, TypeOK, Places, Ops
<1>11. CASE IdlePowerOff
  BY <1>11 DEF IdlePowerOff, Races, PlacesTyped, TypeOK, Places
<1>12. CASE Cut \/ StartEnds
  BY <1>12 DEF Cut, StartEnds, PlacesTyped, TypeOK, Places, Ops
<1>13. ASSUME NEW t \in Threads, AlreadyUp(t)
      PROVE  PlacesTyped'
  BY <1>13 DEF AlreadyUp, LockFree, PlacesTyped, TypeOK, Places
<1>14. ASSUME NEW t \in Threads, ResumeBegins(t)
      PROVE  PlacesTyped'
  BY <1>14 DEF ResumeBegins, Races, LockFree, PlacesTyped, TypeOK, Places
<1>15. ASSUME NEW t \in Threads, ResumeEnds(t) \/ ResumeFails(t)
      PROVE  PlacesTyped'
  BY <1>15 DEF ResumeEnds, ResumeFails, PlacesTyped, TypeOK, Places, Ops
<1>16. ASSUME NEW t \in Threads, Rearm(t)
      PROVE  PlacesTyped'
  BY <1>16 DEF Rearm, PlacesTyped, TypeOK, Places, Ops
<1>17. ASSUME NEW t \in Threads, Unmount(t)
      PROVE  PlacesTyped'
  BY <1>17 DEF Unmount, PlacesTyped, TypeOK, Places
<1>18. ASSUME NEW t \in Threads, NotMounted(t) \/ Unflag(t)
      PROVE  PlacesTyped'
  BY <1>18 DEF NotMounted, AfterUnmount, Unflag, PlacesTyped, TypeOK, Places
<1> QED
  BY <1>1, <1>2, <1>3, <1>4, <1>5, <1>6, <1>7, <1>8, <1>9, <1>10, <1>11, <1>12,
         <1>13, <1>14, <1>15, <1>16, <1>17, <1>18, NextSteps DEF Steps

\* Flags stay flags.
LEMMA FlagsStep ==
  ASSUME TypeOK, Next
  PROVE  FlagsTyped'
<1>1. CASE CardCommand \/ UsbOn \/ UsbOffCommand \/ VbusRemoved \/ UsbTimeout
           \/ StartEvent
  BY <1>1 DEF CardCommand, UsbOn, Races, UsbOffCommand, UsbOff, VbusRemoved,
         UsbTimeout, StartEvent, FlagsTyped, TypeOK
<1>2. CASE StopEvent \/ WifiEvent \/ RecorderOpens \/ RecorderCloses \/ TransferEnds
  BY <1>2 DEF StopEvent, WifiEvent, RecorderOpens, RecorderCloses, TransferEnds,
         FlagsTyped, TypeOK
<1>3. CASE CardUsed \/ DownloadStarts \/ TransferStarts \/ FormatChecks \/ Mkfs
           \/ UsbdEnable \/ MountAgain
  BY <1>3 DEF CardUsed, DownloadStarts, TransferStarts, FormatChecks, Races, Mkfs,
         UsbdEnable, MountAgain, FlagsTyped, TypeOK
<1>4. CASE Tick \/ IdleStays \/ IdlePowerOff \/ Cut \/ StartEnds
  BY <1>4 DEF Tick, IdleStays, IdlePowerOff, Races, Cut, StartEnds, FlagsTyped,
         TypeOK
<1>5. ASSUME NEW t \in Threads, AlreadyUp(t) \/ ResumeBegins(t) \/ ResumeEnds(t)
            \/ ResumeFails(t) \/ Rearm(t)
      PROVE  FlagsTyped'
  BY <1>5 DEF AlreadyUp, LockFree, ResumeBegins, Races, ResumeEnds, ResumeFails,
         Rearm, FlagsTyped, TypeOK
<1>6. ASSUME NEW t \in Threads, Unmount(t) \/ NotMounted(t) \/ Unflag(t)
      PROVE  FlagsTyped'
  BY <1>6 DEF Unmount, NotMounted, AfterUnmount, Unflag, FlagsTyped, TypeOK
<1> QED
  BY <1>1, <1>2, <1>3, <1>4, <1>5, <1>6, NextSteps DEF Steps

\* The mutex has one holder, the state and the recording their values.
LEMMA StatesStep ==
  ASSUME TypeOK, Next
  PROVE  StatesTyped'
<1>1. CASE CardCommand \/ UsbOn \/ UsbOffCommand \/ VbusRemoved \/ UsbTimeout
           \/ StartEvent
  BY <1>1 DEF CardCommand, UsbOn, Races, UsbOffCommand, UsbOff, VbusRemoved,
         UsbTimeout, StartEvent, StatesTyped, TypeOK
<1>2. CASE StopEvent \/ WifiEvent \/ RecorderOpens \/ RecorderCloses \/ TransferEnds
  BY <1>2 DEF StopEvent, WifiEvent, RecorderOpens, RecorderCloses, TransferEnds,
         StatesTyped, TypeOK
<1>3. CASE CardUsed \/ DownloadStarts \/ TransferStarts \/ FormatChecks \/ Mkfs
           \/ UsbdEnable \/ MountAgain
  BY <1>3 DEF CardUsed, DownloadStarts, TransferStarts, FormatChecks, Races, Mkfs,
         UsbdEnable, MountAgain, StatesTyped, TypeOK
<1>4. CASE Tick \/ IdleStays \/ IdlePowerOff \/ Cut \/ StartEnds
  BY <1>4 DEF Tick, IdleStays, IdlePowerOff, Races, Cut, StartEnds, StatesTyped,
         TypeOK, Threads
<1>5. ASSUME NEW t \in Threads, AlreadyUp(t) \/ ResumeBegins(t) \/ ResumeEnds(t)
            \/ ResumeFails(t) \/ Rearm(t)
      PROVE  StatesTyped'
  BY <1>5 DEF AlreadyUp, LockFree, ResumeBegins, Races, ResumeEnds, ResumeFails,
         Rearm, StatesTyped, TypeOK
<1>6. ASSUME NEW t \in Threads, Unmount(t) \/ NotMounted(t) \/ Unflag(t)
      PROVE  StatesTyped'
  BY <1>6 DEF Unmount, NotMounted, AfterUnmount, Unflag, StatesTyped, TypeOK
<1> QED
  BY <1>1, <1>2, <1>3, <1>4, <1>5, <1>6, NextSteps DEF Steps

\* LDO2's count and the flag change together.
LEMMA RailStep ==
  ASSUME TypeOK, RailBalanced, HolderInv, Next
  PROVE  RailTyped' /\ RailBalanced'
<1>1. CASE CardCommand \/ UsbOn \/ UsbOffCommand \/ VbusRemoved \/ UsbTimeout
           \/ StartEvent
  BY <1>1 DEF CardCommand, UsbOn, Races, UsbOffCommand, UsbOff, VbusRemoved,
         UsbTimeout, StartEvent, RailTyped, RailBalanced, TypeOK
<1>2. CASE StopEvent \/ WifiEvent \/ RecorderOpens \/ RecorderCloses \/ TransferEnds
  BY <1>2 DEF StopEvent, WifiEvent, RecorderOpens, RecorderCloses, TransferEnds,
         RailTyped, RailBalanced, TypeOK
<1>3. CASE CardUsed \/ DownloadStarts
  BY <1>3 DEF CardUsed, DownloadStarts, RailTyped, RailBalanced, TypeOK
<1>4. CASE TransferStarts
  BY <1>4 DEF TransferStarts, RailTyped, RailBalanced, TypeOK
<1>5. CASE FormatChecks \/ Mkfs
  BY <1>5 DEF FormatChecks, Races, Mkfs, RailTyped, RailBalanced, TypeOK
<1>6. CASE UsbdEnable \/ MountAgain
  BY <1>6 DEF UsbdEnable, MountAgain, RailTyped, RailBalanced, TypeOK
<1>7. CASE Tick \/ IdleStays
  BY <1>7 DEF Tick, IdleStays, RailTyped, RailBalanced, TypeOK
<1>8. CASE IdlePowerOff
  BY <1>8 DEF IdlePowerOff, Races, RailTyped, RailBalanced, TypeOK
<1>9. CASE StartEnds
  BY <1>9 DEF StartEnds, RailTyped, RailBalanced, TypeOK
<1>10. CASE Cut
  BY <1>10 DEF Cut, RailTyped, RailBalanced, HolderInv, Down, TypeOK, Min1
<1>11. ASSUME NEW t \in Threads, AlreadyUp(t) \/ Rearm(t) \/ Unmount(t)
      PROVE  (RailTyped /\ RailBalanced)'
  BY <1>11 DEF AlreadyUp, LockFree, Rearm, Unmount, RailTyped, RailBalanced, TypeOK
<1>12. ASSUME NEW t \in Threads, NotMounted(t) \/ Unflag(t)
      PROVE  (RailTyped /\ RailBalanced)'
  BY <1>12 DEF NotMounted, AfterUnmount, Unflag, RailTyped, RailBalanced, TypeOK
<1>13. ASSUME NEW t \in Threads, ResumeBegins(t)
      PROVE  (RailTyped /\ RailBalanced)'
  BY <1>13 DEF ResumeBegins, Races, LockFree, RailTyped, RailBalanced, HolderInv,
         TypeOK, Min1, Threads
<1>14. ASSUME NEW t \in Threads, ResumeEnds(t)
      PROVE  (RailTyped /\ RailBalanced)'
  BY <1>14 DEF ResumeEnds, RailTyped, RailBalanced, TypeOK
<1>15. ASSUME NEW t \in Threads, ResumeFails(t)
      PROVE  (RailTyped /\ RailBalanced)'
  BY <1>15 DEF ResumeFails, RailTyped, RailBalanced, HolderInv, TypeOK, Min1
<1> QED
  BY <1>1, <1>2, <1>3, <1>4, <1>5, <1>6, <1>7, <1>8, <1>9, <1>10, <1>11, <1>12,
         <1>13, <1>14, <1>15, NextSteps DEF Steps

\* Who resumes or powers down has the mutex.
LEMMA HolderStep ==
  ASSUME TypeOK, HolderInv, Next
  PROVE  HolderInv'
<1>1. CASE CardCommand \/ UsbOn
  BY <1>1 DEF CardCommand, UsbOn, Races, HolderInv, TypeOK, Threads
<1>2. CASE UsbOffCommand \/ VbusRemoved \/ UsbTimeout
  BY <1>2 DEF UsbOffCommand, UsbOff, VbusRemoved, UsbTimeout, HolderInv, Down,
         TypeOK, Threads
<1>3. CASE StartEvent
  BY <1>3 DEF StartEvent, HolderInv
<1>4. CASE StopEvent \/ WifiEvent \/ RecorderOpens \/ RecorderCloses \/ TransferEnds
  BY <1>4 DEF StopEvent, WifiEvent, RecorderOpens, RecorderCloses, TransferEnds,
         HolderInv
<1>5. CASE CardUsed \/ DownloadStarts
  BY <1>5 DEF CardUsed, DownloadStarts, HolderInv, TypeOK, Threads
<1>6. CASE TransferStarts
  BY <1>6 DEF TransferStarts, HolderInv
<1>7. CASE FormatChecks
  BY <1>7 DEF FormatChecks, Races, HolderInv, TypeOK, Threads
<1>8. CASE Mkfs
  BY <1>8 DEF Mkfs, HolderInv, TypeOK, Threads
<1>9. CASE UsbdEnable \/ MountAgain
  BY <1>9 DEF UsbdEnable, MountAgain, HolderInv, TypeOK, Threads
<1>10. CASE Tick \/ IdleStays
  BY <1>10 DEF Tick, IdleStays, HolderInv, Down, TypeOK
<1>11. CASE IdlePowerOff
  BY <1>11 DEF IdlePowerOff, Races, HolderInv, Threads
<1>12. CASE Cut \/ StartEnds
  BY <1>12 DEF Cut, StartEnds, HolderInv, Down, TypeOK, Threads
<1>13. ASSUME NEW t \in Threads, AlreadyUp(t)
      PROVE  HolderInv'
  BY <1>13 DEF AlreadyUp, LockFree, HolderInv, Down
<1>14. ASSUME NEW t \in Threads, ResumeBegins(t)
      PROVE  HolderInv'
  BY <1>14 DEF ResumeBegins, Races, LockFree, HolderInv, Down, Threads
<1>15. ASSUME NEW t \in Threads, ResumeEnds(t) \/ ResumeFails(t)
      PROVE  HolderInv'
  BY <1>15 DEF ResumeEnds, ResumeFails, HolderInv, Down, TypeOK, Threads
<1>16. ASSUME NEW t \in Threads, Rearm(t)
      PROVE  HolderInv'
  BY <1>16 DEF Rearm, HolderInv, Down, TypeOK, Threads
<1>17. ASSUME NEW t \in Threads, Unmount(t)
      PROVE  HolderInv'
  BY <1>17 DEF Unmount, HolderInv, Down
<1>18. ASSUME NEW t \in Threads, NotMounted(t) \/ Unflag(t)
      PROVE  HolderInv'
  BY <1>18 DEF NotMounted, AfterUnmount, Unflag, HolderInv, Down, TypeOK, Threads
<1> QED
  BY <1>1, <1>2, <1>3, <1>4, <1>5, <1>6, <1>7, <1>8, <1>9, <1>10, <1>11, <1>12,
         <1>13, <1>14, <1>15, <1>16, <1>17, <1>18, NextSteps DEF Steps

\* A second thread that changes the mount is a race.
LEMMA AloneStep ==
  ASSUME TypeOK, AloneInv, Next
  PROVE  AloneInv'
<1>1. CASE CardCommand \/ UsbOn
  <2>1. CASE CardCommand
    BY <2>1 DEF CardCommand, Races, AloneInv, Changing, TypeOK, Threads
  <2>2. CASE UsbOn
    BY <2>2 DEF UsbOn, Races, AloneInv, Changing, TypeOK, Threads
  <2> QED BY <1>1, <2>1, <2>2
<1>2. CASE UsbOffCommand \/ VbusRemoved \/ UsbTimeout
  BY <1>2 DEF UsbOffCommand, UsbOff, VbusRemoved, UsbTimeout, AloneInv, Changing,
         TypeOK
<1>3. CASE StartEvent
  BY <1>3 DEF StartEvent, AloneInv, Changing
<1>4. CASE StopEvent \/ WifiEvent \/ RecorderOpens \/ RecorderCloses \/ TransferEnds
  BY <1>4 DEF StopEvent, WifiEvent, RecorderOpens, RecorderCloses, TransferEnds,
         AloneInv, Changing
<1>5. CASE CardUsed \/ DownloadStarts
  BY <1>5 DEF CardUsed, DownloadStarts, AloneInv, Changing, TypeOK
<1>6. CASE TransferStarts
  BY <1>6 DEF TransferStarts, AloneInv, Changing
<1>7. CASE FormatChecks
  BY <1>7 DEF FormatChecks, Races, AloneInv, Changing, TypeOK
<1>8. CASE Mkfs
  BY <1>8 DEF Mkfs, AloneInv, Changing, TypeOK
<1>9. CASE UsbdEnable \/ MountAgain
  BY <1>9 DEF UsbdEnable, MountAgain, AloneInv, Changing, TypeOK
<1>10. CASE Tick \/ IdleStays
  BY <1>10 DEF Tick, IdleStays, AloneInv, Changing, TypeOK
<1>11. CASE IdlePowerOff
  BY <1>11 DEF IdlePowerOff, Races, AloneInv, Changing, TypeOK
<1>12. CASE Cut \/ StartEnds
  BY <1>12 DEF Cut, StartEnds, AloneInv, Changing, TypeOK
<1>13. ASSUME NEW t \in Threads, AlreadyUp(t)
      PROVE  AloneInv'
  BY <1>13 DEF AlreadyUp, LockFree, AloneInv, Changing
<1>14. ASSUME NEW t \in Threads, ResumeBegins(t)
      PROVE  AloneInv'
  BY <1>14 DEF ResumeBegins, Races, LockFree, AloneInv, Changing, TypeOK
<1>15. ASSUME NEW t \in Threads, ResumeEnds(t) \/ ResumeFails(t)
      PROVE  AloneInv'
  BY <1>15 DEF ResumeEnds, ResumeFails, AloneInv, Changing, TypeOK
<1>16. ASSUME NEW t \in Threads, Rearm(t)
      PROVE  AloneInv'
  BY <1>16 DEF Rearm, AloneInv, Changing, TypeOK
<1>17. ASSUME NEW t \in Threads, Unmount(t)
      PROVE  AloneInv'
  BY <1>17 DEF Unmount, AloneInv, Changing
<1>18. ASSUME NEW t \in Threads, NotMounted(t) \/ Unflag(t)
      PROVE  AloneInv'
  BY <1>18 DEF NotMounted, AfterUnmount, Unflag, AloneInv, Changing, TypeOK
<1> QED
  BY <1>1, <1>2, <1>3, <1>4, <1>5, <1>6, <1>7, <1>8, <1>9, <1>10, <1>11, <1>12,
         <1>13, <1>14, <1>15, <1>16, <1>17, <1>18, NextSteps DEF Steps

\* The mount point follows its flag.
LEMMA MountStep ==
  ASSUME IInv, Next
  PROVE  MountInv'
<1>1. CASE CardCommand \/ UsbOn
  BY <1>1 DEF CardCommand, UsbOn, Races, MountInv, Unmounted, IInv, TypeOK
<1>2. CASE UsbOffCommand \/ VbusRemoved \/ UsbTimeout
  BY <1>2 DEF UsbOffCommand, UsbOff, VbusRemoved, UsbTimeout, MountInv, Unmounted,
         IInv, TypeOK
<1>3. CASE StartEvent
  BY <1>3 DEF StartEvent, MountInv, Unmounted, IInv
<1>4. CASE StopEvent \/ WifiEvent \/ RecorderOpens \/ RecorderCloses \/ TransferEnds
  BY <1>4 DEF StopEvent, WifiEvent, RecorderOpens, RecorderCloses, TransferEnds,
         MountInv, IInv
<1>5. CASE CardUsed \/ DownloadStarts
  BY <1>5 DEF CardUsed, DownloadStarts, MountInv, Unmounted, IInv, TypeOK
<1>6. CASE TransferStarts
  BY <1>6 DEF TransferStarts, MountInv, Unmounted, IInv
<1>7. CASE FormatChecks
  BY <1>7 DEF FormatChecks, Races, MountInv, Unmounted, IInv, TypeOK
<1>8. CASE Mkfs
  BY <1>8 DEF Mkfs, MountInv, Unmounted, IInv, TypeOK
<1>9. CASE UsbdEnable \/ MountAgain
  BY <1>9 DEF UsbdEnable, MountAgain, MountInv, Unmounted, AloneInv, Changing,
         RailBalanced, Min1, IInv, TypeOK, Threads
<1>10. CASE Tick \/ IdleStays
  BY <1>10 DEF Tick, IdleStays, MountInv, Unmounted, IInv, TypeOK
<1>11. CASE IdlePowerOff
  BY <1>11 DEF IdlePowerOff, Races, MountInv, Unmounted, IInv, TypeOK
<1>12. CASE Cut \/ StartEnds
  BY <1>12 DEF Cut, StartEnds, MountInv, Unmounted, IInv, TypeOK, Threads
<1>13. ASSUME NEW t \in Threads, AlreadyUp(t)
      PROVE  MountInv'
  BY <1>13 DEF AlreadyUp, LockFree, MountInv, Unmounted, IInv
<1>14. ASSUME NEW t \in Threads, ResumeBegins(t)
      PROVE  MountInv'
  BY <1>14 DEF ResumeBegins, Races, LockFree, MountInv, Min1, IInv, TypeOK
<1>15. ASSUME NEW t \in Threads, ResumeEnds(t) \/ ResumeFails(t)
      PROVE  MountInv'
  BY <1>15 DEF ResumeEnds, ResumeFails, MountInv, Unmounted, AloneInv, Changing,
         Min1, IInv, TypeOK
<1>16. ASSUME NEW t \in Threads, Rearm(t)
      PROVE  MountInv'
  BY <1>16 DEF Rearm, MountInv, Unmounted, IInv, TypeOK
<1>17. ASSUME NEW t \in Threads, Unmount(t)
      PROVE  MountInv'
  BY <1>17 DEF Unmount, MountInv
<1>18. ASSUME NEW t \in Threads, NotMounted(t) \/ Unflag(t)
      PROVE  MountInv'
  BY <1>18 DEF NotMounted, AfterUnmount, Unflag, MountInv, Unmounted, IInv
<1> QED
  BY <1>1, <1>2, <1>3, <1>4, <1>5, <1>6, <1>7, <1>8, <1>9, <1>10, <1>11, <1>12,
         <1>13, <1>14, <1>15, <1>16, <1>17, <1>18, NextSteps DEF Steps

\* A recording begins and ends with its state.
LEMMA PendingStep ==
  ASSUME TypeOK, PendingInv, Next
  PROVE  PendingInv'
<1>1. CASE CardCommand \/ UsbOn \/ UsbOffCommand \/ VbusRemoved \/ UsbTimeout
           \/ StartEvent
  BY <1>1 DEF CardCommand, UsbOn, Races, UsbOffCommand, UsbOff, VbusRemoved,
         UsbTimeout, StartEvent, PendingInv
<1>2. CASE StopEvent \/ WifiEvent \/ RecorderOpens \/ RecorderCloses \/ TransferEnds
  BY <1>2 DEF StopEvent, WifiEvent, RecorderOpens, RecorderCloses, TransferEnds,
         recording_active, PendingInv
<1>3. CASE CardUsed \/ DownloadStarts \/ TransferStarts \/ FormatChecks \/ Mkfs
           \/ UsbdEnable \/ MountAgain
  BY <1>3 DEF CardUsed, DownloadStarts, TransferStarts, FormatChecks, Races, Mkfs,
         UsbdEnable, MountAgain, PendingInv
<1>4. CASE Tick \/ IdleStays \/ IdlePowerOff \/ Cut \/ StartEnds
  BY <1>4 DEF Tick, IdleStays, IdlePowerOff, Races, Cut, StartEnds, PendingInv
<1>5. ASSUME NEW t \in Threads, AlreadyUp(t) \/ ResumeBegins(t) \/ ResumeEnds(t)
            \/ ResumeFails(t) \/ Rearm(t)
      PROVE  PendingInv'
  BY <1>5 DEF AlreadyUp, LockFree, ResumeBegins, Races, ResumeEnds, ResumeFails,
         Rearm, PendingInv
<1>6. ASSUME NEW t \in Threads, Unmount(t) \/ NotMounted(t) \/ Unflag(t)
      PROVE  PendingInv'
  BY <1>6 DEF Unmount, NotMounted, AfterUnmount, Unflag, PendingInv
<1> QED
  BY <1>1, <1>2, <1>3, <1>4, <1>5, <1>6, NextSteps DEF Steps

\* Nobody gets the card while it is being powered down.
LEMMA KeptStep ==
  ASSUME IInv, Next
  PROVE  KeptInv'
<1>1. CASE CardCommand \/ UsbOn
  BY <1>1 DEF CardCommand, UsbOn, Races, KeptInv, IInv, TypeOK, Threads
<1>2. CASE UsbOffCommand \/ VbusRemoved \/ UsbTimeout
  BY <1>2 DEF UsbOffCommand, UsbOff, VbusRemoved, UsbTimeout, KeptInv, Down, IInv,
         TypeOK, Threads
<1>3. CASE StartEvent
  BY <1>3 DEF StartEvent, KeptInv, IInv
<1>4. CASE StopEvent \/ WifiEvent \/ RecorderOpens \/ RecorderCloses \/ TransferEnds
  BY <1>4 DEF StopEvent, WifiEvent, RecorderOpens, RecorderCloses, TransferEnds,
         KeptInv, IInv
<1>5. CASE CardUsed \/ DownloadStarts
  BY <1>5 DEF CardUsed, DownloadStarts, KeptInv, IInv, TypeOK, Threads
<1>6. CASE TransferStarts
  BY <1>6 DEF TransferStarts, KeptInv, IInv, Threads
<1>7. CASE FormatChecks
  BY <1>7 DEF FormatChecks, Races, KeptInv, IInv, TypeOK, Threads
<1>8. CASE Mkfs
  BY <1>8 DEF Mkfs, KeptInv, IInv, TypeOK, Threads
<1>9. CASE UsbdEnable \/ MountAgain
  BY <1>9 DEF UsbdEnable, MountAgain, KeptInv, Down, IInv, AloneInv, Changing,
         TypeOK, Threads
<1>10. CASE Tick \/ IdleStays
  BY <1>10 DEF Tick, IdleStays, KeptInv, Down, IInv, TypeOK
<1>11. CASE IdlePowerOff
  BY <1>11 DEF IdlePowerOff, Races, clip_sd_busy, recording_active, KeptInv, IInv,
         PendingInv, TypeOK
<1>12. CASE Cut \/ StartEnds
  BY <1>12 DEF Cut, StartEnds, KeptInv, Down, IInv, TypeOK, Threads
<1>13. ASSUME NEW t \in Threads, AlreadyUp(t)
      PROVE  KeptInv'
  BY <1>13 DEF AlreadyUp, LockFree, KeptInv, Down, IInv, HolderInv
<1>14. ASSUME NEW t \in Threads, ResumeBegins(t)
      PROVE  KeptInv'
  BY <1>14 DEF ResumeBegins, Races, LockFree, KeptInv, Down, IInv, HolderInv
<1>15. ASSUME NEW t \in Threads, ResumeEnds(t) \/ ResumeFails(t)
      PROVE  KeptInv'
  BY <1>15 DEF ResumeEnds, ResumeFails, KeptInv, Down, IInv, HolderInv, TypeOK,
         Threads
<1>16. ASSUME NEW t \in Threads, Rearm(t)
      PROVE  KeptInv'
  BY <1>16 DEF Rearm, KeptInv, Down, IInv, TypeOK, Threads
<1>17. ASSUME NEW t \in Threads, Unmount(t)
      PROVE  KeptInv'
  BY <1>17 DEF Unmount, KeptInv, Down, IInv
<1>18. ASSUME NEW t \in Threads, NotMounted(t) \/ Unflag(t)
      PROVE  KeptInv'
  BY <1>18 DEF NotMounted, AfterUnmount, Unflag, KeptInv, Down, IInv, TypeOK,
         Threads
<1> QED
  BY <1>1, <1>2, <1>3, <1>4, <1>5, <1>6, <1>7, <1>8, <1>9, <1>10, <1>11, <1>12,
         <1>13, <1>14, <1>15, <1>16, <1>17, <1>18, NextSteps DEF Steps

----------------------------------------------------------------------------
LEMMA IInvInductive == IInv /\ [Next]_vars => IInv'
<1> SUFFICES ASSUME IInv, [Next]_vars PROVE IInv'
  OBVIOUS
<1>1. CASE Next
  <2>1. TypeOK' /\ RailBalanced'
    BY <1>1, PlacesStep, FlagsStep, StatesStep, RailStep, TypeSplit, PTL DEF IInv
  <2> QED
    BY <1>1, <2>1, HolderStep, AloneStep, MountStep, PendingStep, KeptStep DEF IInv
<1>2. CASE UNCHANGED vars
  <2>1. TypeOK' /\ RailBalanced'
    BY <1>2 DEF vars, IInv, TypeOK, RailBalanced
  <2>2. HolderInv' /\ AloneInv' /\ MountInv'
    BY <1>2 DEF vars, IInv, HolderInv, AloneInv, MountInv, Changing
  <2>3. PendingInv' /\ KeptInv'
    BY <1>2 DEF vars, IInv, PendingInv, KeptInv
  <2> QED
    BY <2>1, <2>2, <2>3 DEF IInv
<1> QED
  BY <1>1, <1>2

LEMMA IInvAlways == Spec => []IInv
  BY IInvInit, IInvInductive, PTL DEF Spec

\* Whatever fails and whoever comes in between, the variables keep their types:
\* LDO2 is never given back more often than it was taken (storage.c).
THEOREM SdCardTypeCorrect == Spec => []TypeOK
<1>1. IInv => TypeOK
  BY DEF IInv
<1> QED
  BY <1>1, IInvAlways, PTL

\* sd_powered stands for one reference to LDO2, and every other one was leaked by
\* storage_resume.
THEOREM RailAlwaysBalanced == Spec => []RailBalanced
<1>1. IInv => RailBalanced
  BY DEF IInv
<1> QED
  BY <1>1, IInvAlways, PTL

\* Without a race and a leaked reference no operation leaves the mount point in
\* use behind flags that deny it (storage_resume, storage_remount,
\* storage_format_card).
THEOREM NeverWedged == Spec => []NotWedged
<1>1. IInv => NotWedged
  BY DEF IInv, MountInv, NotWedged
<1> QED
  BY <1>1, IInvAlways, PTL

\* The idle power-off takes the card away from nobody its check could see, unless
\* an operation without the mutex came in between (storage_idle_poweroff).
THEOREM CardAlwaysKept == Spec => CardKept
<1>1. IInv /\ [Next]_vars => [sd_powered /\ ~sd_powered' /\ InUse => missed \/ raced]_vars
  <2> SUFFICES ASSUME IInv, Next, sd_powered, ~sd_powered', InUse
               PROVE  missed \/ raced
    BY DEF vars
  <2>1. Cut
    <3>1. ASSUME NEW t \in Threads, AlreadyUp(t) \/ ResumeBegins(t) \/ ResumeEnds(t)
                 \/ ResumeFails(t) \/ Rearm(t)
          PROVE  FALSE
      BY <3>1 DEF AlreadyUp, ResumeBegins, ResumeEnds, ResumeFails, Rearm
    <3>2. ASSUME NEW t \in Threads, Unmount(t) \/ NotMounted(t) \/ Unflag(t)
          PROVE  FALSE
      BY <3>2 DEF Unmount, NotMounted, Unflag
    <3>3. ~(CardCommand \/ UsbOn \/ UsbOffCommand \/ VbusRemoved \/ UsbTimeout
            \/ StartEvent \/ StopEvent \/ WifiEvent \/ RecorderOpens \/ RecorderCloses
            \/ TransferEnds)
      BY DEF CardCommand, UsbOn, Races, UsbOffCommand, UsbOff, VbusRemoved,
             UsbTimeout, StartEvent, StopEvent, WifiEvent, RecorderOpens,
             RecorderCloses, TransferEnds
    <3>4. ~(CardUsed \/ DownloadStarts \/ TransferStarts \/ FormatChecks \/ Mkfs
            \/ UsbdEnable \/ MountAgain)
      BY DEF CardUsed, DownloadStarts, TransferStarts, FormatChecks, Races, Mkfs,
             UsbdEnable, MountAgain
    <3>5. ~(Tick \/ IdleStays \/ IdlePowerOff \/ StartEnds)
      BY DEF Tick, IdleStays, IdlePowerOff, Races, StartEnds
    <3> QED
      BY <3>1, <3>2, <3>3, <3>4, <3>5, NextSteps DEF Steps
  <2> QED
    BY <2>1 DEF Cut, IInv, KeptInv, Down, InUse
<1> QED
  BY <1>1, IInvAlways, PTL DEF Spec, CardKept
=============================================================================
