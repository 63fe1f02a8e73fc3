-------------------------------- MODULE SdCard --------------------------------
(***************************************************************************)
(* Who has the SD card: its power rail, its file system, the idle          *)
(* power-off, the USB mass storage that lends it to a host, and the AT     *)
(* commands, the recorder and the transfers that use it (storage.c,        *)
(* usb_cdc.c, clip_event.c, at_commands.c).                                *)
(*                                                                         *)
(* Four threads bring the card up or down.  sd_lifecycle_mutex keeps the   *)
(* idle power-off and storage_resume apart; storage_cleanup, storage_remount*)
(* and storage_format_card do not take it.  What takes bus time, or may be *)
(* preempted, is a step of its own: the unmount, the flag that follows it, *)
(* the format, the rail.                                                   *)
(*                                                                         *)
(* The recorder and the transfer engine have modules of their own; here    *)
(* they are what the card sees of them.  The idle delay (45 s) is taken to *)
(* be longer than a command that has re-armed it, and the log backend off. *)
(***************************************************************************)
EXTENDS Naturals

CONSTANTS
    Faults,     \* what may fail: subset of {"card", "usbd", "mkfs"}
    RailBound   \* bound of the model: no command begins with more references to LDO2

ASSUME SdCardAssumption ==
    Faults \subseteq {"card", "usbd", "mkfs"} /\ RailBound \in Nat

VARIABLES
    rail,                       \* references to LDO2, the regulator counts them
    sd_powered, sd_mounted,     \* the flags of storage.c
    fs,                         \* the mount point is in use
    sd_lifecycle_mutex,         \* its holder, or "none"
    pc, op,                     \* where a thread is, and what for
    usb_active,
    g_state, rec, transfer_active,
    leaked,                     \* references nobody will give back
    missed,                     \* the idle check under way missed a client that had the card
    raced                       \* two threads were changing the mount at once

cardVars  == <<rail, sd_powered, sd_mounted, fs, sd_lifecycle_mutex>>
userVars  == <<g_state, rec, transfer_active>>
histVars  == <<leaked, missed, raced>>
vars == <<cardVars, pc, op, usb_active, userVars, histVars>>

\* The AT server, the main loop, the system work queue and the USB stack.
Threads == {"at", "main", "work", "usbd"}

Ops == {"none", "use", "download", "transfer", "format", "usbOn", "usbOff", "start", "idle"}

Min1(b) == IF b THEN 1 ELSE 0

\* storage_init: a card that fails leaves LDO2 enabled.
Init ==
    /\ rail = 1
    /\ sd_powered \in BOOLEAN /\ (~sd_powered => "card" \in Faults)
    /\ sd_mounted = sd_powered /\ fs = sd_powered
    /\ sd_lifecycle_mutex = "none"
    /\ pc = [t \in Threads |-> "none"] /\ op = [t \in Threads |-> "none"]
    /\ usb_active = FALSE
    /\ g_state = "IDLE" /\ rec = "none" /\ transfer_active = FALSE
    /\ leaked = Min1(~sd_powered) /\ missed = FALSE /\ raced = FALSE

At(t, where) == pc[t] = where
GoTo(t, where) == pc' = [pc EXCEPT ![t] = where]
OnTo(t, where) == GoTo(t, where) /\ UNCHANGED op
Finish(t) == GoTo(t, "none") /\ op' = [op EXCEPT ![t] = "none"]
Begin(t, o, where) ==
    /\ At(t, "none") /\ rail < RailBound
    /\ op' = [op EXCEPT ![t] = o]
    /\ GoTo(t, where)

\* A thread that is changing the mount.
Changing(t) == pc[t] \in {"resuming", "unmount", "unflag", "cut", "usbd", "mkfs", "mount"}
Races == raced' = (raced \/ \E t \in Threads : Changing(t))

recording_active == rec \in {"writing", "paused"}

----------------------------------------------------------------------------
(* storage_ensure_mounted. *)

\* The mutex is handed to the work queue first, if that waits for it.
LockFree == sd_lifecycle_mutex = "none" /\ ~At("work", "lock")

\* Mutant: the flags are looked at before the mutex is taken.
AlreadyUp_Unlocked(t) ==
    /\ At(t, "ensure") /\ sd_mounted /\ sd_powered
    /\ GoTo(t, "rearm")
    /\ UNCHANGED <<cardVars, op, usb_active, userVars, histVars>>

AlreadyUp(t) ==
    /\ At(t, "ensure") /\ LockFree /\ sd_mounted /\ sd_powered
    /\ GoTo(t, "rearm")
    /\ UNCHANGED <<cardVars, op, usb_active, userVars, histVars>>

\* regulator_enable, whether or not the card had its power.
ResumeBegins(t) ==
    /\ At(t, "ensure") /\ LockFree /\ ~(sd_mounted /\ sd_powered)
    /\ sd_lifecycle_mutex' = t
    /\ rail' = rail + 1
    /\ leaked' = leaked + Min1(sd_powered)
    /\ Races
    /\ GoTo(t, "resuming")
    /\ UNCHANGED <<sd_powered, sd_mounted, fs, op, usb_active, userVars, missed>>

ResumeEnds(t) ==
    /\ At(t, "resuming") /\ ~fs
    /\ fs' = TRUE /\ sd_mounted' = TRUE /\ sd_powered' = TRUE
    /\ sd_lifecycle_mutex' = "none"
    /\ GoTo(t, "rearm")
    /\ UNCHANGED <<rail, op, usb_active, userVars, histVars>>

\* The disk does not answer, or the mount point is in use; LDO2 stays enabled.
ResumeFails(t) ==
    /\ At(t, "resuming") /\ (fs \/ "card" \in Faults)
    /\ sd_lifecycle_mutex' = "none"
    /\ leaked' = leaked + Min1(~sd_powered)
    /\ Finish(t)
    /\ UNCHANGED <<rail, sd_powered, sd_mounted, fs, usb_active, userVars, missed, raced>>

\* sd_activity_cb.
Rearm(t) ==
    /\ At(t, "rearm")
    /\ IF op[t] = "usbOff" THEN Finish(t) ELSE OnTo(t, "using")
    /\ UNCHANGED <<cardVars, usb_active, userVars, histVars>>

----------------------------------------------------------------------------
(* Unmounting, mounting again. *)

AfterUnmount(t) ==
    IF op[t] = "usbOn" THEN "usbd" ELSE IF op[t] = "format" THEN "mkfs" ELSE "cut"

Unmount(t) ==
    /\ At(t, "unmount") /\ (sd_mounted \/ op[t] = "format")
    /\ fs' = FALSE
    /\ GoTo(t, "unflag")
    /\ UNCHANGED <<rail, sd_powered, sd_mounted, sd_lifecycle_mutex, op, usb_active, userVars,
                   histVars>>

NotMounted(t) ==
    /\ At(t, "unmount") /\ ~sd_mounted /\ op[t] # "format"
    /\ GoTo(t, AfterUnmount(t))
    /\ UNCHANGED <<cardVars, op, usb_active, userVars, histVars>>

Unflag(t) ==
    /\ At(t, "unflag")
    /\ sd_mounted' = FALSE
    /\ GoTo(t, AfterUnmount(t))
    /\ UNCHANGED <<rail, sd_powered, fs, sd_lifecycle_mutex, op, usb_active, userVars, histVars>>

\* Mutant: the flag is forgotten.
MountAgain_NoFlag ==
    /\ At("at", "mount")
    /\ \/ op["at"] # "format" /\ sd_mounted /\ UNCHANGED <<fs, sd_mounted>>
       \/ ~fs /\ rail > 0 /\ fs' = TRUE /\ UNCHANGED sd_mounted
       \/ (fs \/ rail = 0 \/ "card" \in Faults) /\ UNCHANGED <<fs, sd_mounted>>
    /\ Finish("at")
    /\ UNCHANGED <<rail, sd_powered, sd_lifecycle_mutex, usb_active, userVars, histVars>>

\* storage_remount, which does nothing if the card is mounted, and the end of
\* storage_format_card.  A card without power does not answer.
MountAgain ==
    /\ At("at", "mount")
    /\ \/ op["at"] # "format" /\ sd_mounted /\ UNCHANGED <<fs, sd_mounted>>
       \/ /\ op["at"] = "format" \/ ~sd_mounted
          /\ ~fs /\ rail > 0
          /\ fs' = TRUE /\ sd_mounted' = TRUE
       \/ /\ op["at"] = "format" \/ ~sd_mounted
          /\ fs \/ rail = 0 \/ "card" \in Faults
          /\ UNCHANGED <<fs, sd_mounted>>
    /\ Finish("at")
    /\ UNCHANGED <<rail, sd_powered, sd_lifecycle_mutex, usb_active, userVars, histVars>>

----------------------------------------------------------------------------
(* The AT server. *)

\* LIST, MARKS, DELETE, LOG; DOWNLOAD; FORMAT.
CardCommand ==
    /\ \E o \in {"use", "download", "format"} : Begin("at", o, "ensure")
    /\ UNCHANGED <<cardVars, usb_active, userVars, histVars>>

CardUsed ==
    /\ At("at", "using") /\ op["at"] = "use"
    /\ Finish("at")
    /\ UNCHANGED <<cardVars, usb_active, userVars, histVars>>

\* transfer_start makes sure of the card again.
DownloadStarts ==
    /\ At("at", "using") /\ op["at"] = "download"
    /\ op' = [op EXCEPT !["at"] = "transfer"]
    /\ GoTo("at", "ensure")
    /\ UNCHANGED <<cardVars, usb_active, userVars, histVars>>

\* It may still fail: no such session, no transport.
TransferStarts ==
    /\ At("at", "using") /\ op["at"] = "transfer"
    /\ transfer_active' \in {TRUE, transfer_active}
    /\ Finish("at")
    /\ UNCHANGED <<cardVars, usb_active, g_state, rec, histVars>>

FormatChecks ==
    /\ At("at", "using") /\ op["at"] = "format"
    /\ \/ /\ recording_active \/ ~sd_mounted
          /\ Finish("at")
          /\ UNCHANGED raced
       \/ /\ ~recording_active /\ sd_mounted
          /\ OnTo("at", "unmount")
          /\ Races
    /\ UNCHANGED <<cardVars, usb_active, userVars, leaked, missed>>

Mkfs ==
    /\ At("at", "mkfs")
    /\ \/ rail > 0 /\ OnTo("at", "mount")
       \/ (rail = 0 \/ "mkfs" \in Faults) /\ Finish("at")
    /\ UNCHANGED <<cardVars, usb_active, userVars, histVars>>

\* usb_cdc_enable: refused while a recording or a transfer is active.
UsbOn ==
    /\ ~usb_active /\ ~recording_active /\ ~transfer_active
    /\ Begin("at", "usbOn", "unmount")
    /\ Races
    /\ UNCHANGED <<cardVars, usb_active, userVars, leaked, missed>>

UsbdEnable ==
    /\ At("at", "usbd")
    /\ \/ usb_active' = TRUE /\ Finish("at")
       \/ "usbd" \in Faults /\ OnTo("at", "mount") /\ UNCHANGED usb_active
    /\ UNCHANGED <<cardVars, userVars, histVars>>

\* usb_cdc_disable
UsbOff(t) ==
    /\ usb_active /\ usb_active' = FALSE
    /\ Begin(t, "usbOff", "ensure")
    /\ UNCHANGED <<cardVars, userVars, histVars>>

UsbOffCommand == UsbOff("at")

AtServer ==
    \/ CardUsed \/ DownloadStarts \/ TransferStarts \/ FormatChecks
    \/ Mkfs \/ UsbdEnable \/ MountAgain

----------------------------------------------------------------------------
(* The USB stack and the work queue. *)

\* The cable is pulled; or ten minutes have passed without one.
VbusRemoved == UsbOff("usbd")
UsbTimeout  == UsbOff("work")

\* Not within the idle delay of a client that has re-armed it.
Tick ==
    /\ At("work", "none")
    /\ \A t \in Threads :
         pc[t] # "using" /\ ~(op[t] = "format" /\ pc[t] \in {"unmount", "unflag", "mkfs", "mount"})
    /\ op' = [op EXCEPT !["work"] = "idle"]
    /\ GoTo("work", "lock")
    /\ UNCHANGED <<cardVars, usb_active, userVars, histVars>>

clip_sd_busy == g_state # "IDLE" \/ transfer_active \/ recording_active \/ usb_active

IdleStays ==
    /\ At("work", "lock") /\ sd_lifecycle_mutex = "none"
    /\ ~sd_powered \/ rec = "writing" \/ clip_sd_busy
    /\ Finish("work")
    /\ UNCHANGED <<cardVars, usb_active, userVars, histVars>>

IdlePowerOff ==
    /\ At("work", "lock") /\ sd_lifecycle_mutex = "none"
    /\ sd_powered /\ rec # "writing" /\ ~clip_sd_busy
    /\ sd_lifecycle_mutex' = "work"
    /\ missed' = (\E t \in Threads : pc[t] \in {"rearm", "using"})
    /\ Races
    /\ GoTo("work", "unmount")
    /\ UNCHANGED <<rail, sd_powered, sd_mounted, fs, op, usb_active, userVars, leaked>>

\* Mutant: the regulator is left alone.
Cut_KeepsRail ==
    /\ At("work", "cut")
    /\ sd_powered' = FALSE
    /\ sd_lifecycle_mutex' = "none"
    /\ missed' = FALSE
    /\ Finish("work")
    /\ UNCHANGED <<rail, sd_mounted, fs, usb_active, userVars, leaked, raced>>

\* One reference to LDO2 is given back.
Cut ==
    /\ At("work", "cut")
    /\ rail' = rail - 1
    /\ sd_powered' = FALSE
    /\ sd_lifecycle_mutex' = "none"
    /\ missed' = FALSE
    /\ Finish("work")
    /\ UNCHANGED <<sd_mounted, fs, usb_active, userVars, leaked, raced>>

IdleWork == Tick \/ IdleStays \/ IdlePowerOff \/ Cut

----------------------------------------------------------------------------
(* The main loop, the recorder and the transfers, as the card sees them.  PAUSED is *)
(* RECORDING with no file open.                                                     *)

StartEvent ==
    /\ g_state = "IDLE" /\ ~usb_active
    /\ Begin("main", "start", "ensure")
    /\ UNCHANGED <<cardVars, usb_active, userVars, histVars>>

\* The card is full, or the audio module busy; or the recording begins.
StartEnds ==
    /\ At("main", "using")
    /\ \/ rec = "none" /\ rec' = "pending" /\ g_state' = "RECORDING"
       \/ UNCHANGED <<rec, g_state>>
    /\ Finish("main")
    /\ UNCHANGED <<cardVars, usb_active, transfer_active, histVars>>

RecorderOpens ==
    /\ rec \in {"pending", "paused"}
    /\ \/ fs /\ rec' = "writing"
       \/ rec' = "none"
    /\ UNCHANGED <<cardVars, pc, op, usb_active, g_state, transfer_active, histVars>>

\* A pause, or a write error.
RecorderCloses ==
    /\ rec = "writing" /\ rec' \in {"paused", "none"}
    /\ UNCHANGED <<cardVars, pc, op, usb_active, g_state, transfer_active, histVars>>

StopEvent ==
    /\ At("main", "none") /\ g_state = "RECORDING" /\ recording_active
    /\ rec' = "none" /\ g_state' = "IDLE"
    /\ UNCHANGED <<cardVars, pc, op, usb_active, transfer_active, histVars>>

WifiEvent ==
    /\ At("main", "none")
    /\ \/ g_state = "IDLE" /\ g_state' = "WIFI_SYNC"
       \/ g_state = "RECORDING" /\ rec = "paused" /\ g_state' = "WIFI_SYNC"
       \/ g_state = "WIFI_SYNC" /\ g_state' = "IDLE"
    /\ UNCHANGED <<cardVars, pc, op, usb_active, rec, transfer_active, histVars>>

TransferEnds ==
    /\ transfer_active /\ transfer_active' = FALSE
    /\ UNCHANGED <<cardVars, pc, op, usb_active, g_state, rec, histVars>>

----------------------------------------------------------------------------
Ensure(t) == AlreadyUp(t) \/ ResumeBegins(t) \/ ResumeEnds(t) \/ ResumeFails(t) \/ Rearm(t)
TakeDown(t) == Unmount(t) \/ NotMounted(t) \/ Unflag(t)

Requests ==
    \/ CardCommand \/ UsbOn \/ UsbOffCommand \/ VbusRemoved \/ UsbTimeout
    \/ StartEvent \/ StopEvent \/ WifiEvent
    \/ RecorderOpens \/ RecorderCloses \/ TransferEnds

\* What a thread does once it has something to do.
Thread(t) ==
    \/ Ensure(t) \/ TakeDown(t)
    \/ t = "at" /\ AtServer
    \/ t = "work" /\ IdleWork
    \/ t = "main" /\ StartEnds

Next == Requests \/ \E t \in Threads : Thread(t)

\* The threads run, and the mutex is handed to a thread that waits for it, so the
\* AT server gets it at last.
Fairness == (\A t \in Threads : WF_vars(Thread(t))) /\ SF_vars(Ensure("at"))

Spec == Init /\ [][Next]_vars
FairSpec == Spec /\ Fairness

----------------------------------------------------------------------------
(* Properties. *)

Places == {"none", "ensure", "resuming", "rearm", "using", "unmount", "unflag", "cut",
           "usbd", "mkfs", "mount", "lock"}

\* The variables keep their types; LDO2 is never given back once too often.
TypeOK ==
    /\ rail \in Nat /\ leaked \in Nat
    /\ sd_powered \in BOOLEAN /\ sd_mounted \in BOOLEAN /\ fs \in BOOLEAN
    /\ sd_lifecycle_mutex \in Threads \cup {"none"}
    /\ pc \in [Threads -> Places] /\ op \in [Threads -> Ops]
    /\ usb_active \in BOOLEAN
    /\ g_state \in {"IDLE", "RECORDING", "WIFI_SYNC"}
    /\ rec \in {"none", "pending", "writing", "paused"} /\ transfer_active \in BOOLEAN
    /\ missed \in BOOLEAN /\ raced \in BOOLEAN

\* sd_powered stands for exactly one reference to LDO2.  What keeps the rail up
\* while the flag says it is down are the references that storage_resume took
\* for a card that already had power, or that did not answer.
RailBalanced ==
    rail = leaked + Min1(sd_powered \/ \E t \in Threads : At(t, "resuming"))

InUse ==
    \/ rec = "writing" \/ transfer_active \/ usb_active
    \/ \E t \in Threads : pc[t] \in {"rearm", "using"}

\* The idle power-off does not take the card away from a client that has it, a
\* file being written or sent, or the host; except from a client that the check
\* could not see, or when an operation without the mutex came in between
\* (storage_idle_poweroff).
CardKept == [][sd_powered /\ ~sd_powered' /\ InUse => missed \/ raced]_vars

\* Unless two threads changed the mount at once, or a reference to LDO2 was
\* leaked, the flags are right whenever nobody changes the mount: a mount point
\* in use with one of the flags down would make every later storage_resume fail.
NotWedged ==
    (\A t \in Threads : ~Changing(t)) /\ ~raced /\ leaked = 0
        => (fs => sd_mounted /\ sd_powered)

Idle ==
    /\ g_state = "IDLE" /\ rec = "none" /\ ~transfer_active /\ ~usb_active
    /\ \A t \in Threads \ {"work"} : At(t, "none")

\* A device that stays idle powers the card down (sd_idle_poweroff_work).
IdlePowersOff == <>[]Idle => <>~sd_powered

\* Every command that needs the card is answered, whatever fails.
CommandsEnd == ~At("at", "none") ~> At("at", "none")

\* The host has the card alone (usb_cdc.c: "Unmount SD card so host has exclusive
\* access").
HostAlone == usb_active => ~fs
=============================================================================
