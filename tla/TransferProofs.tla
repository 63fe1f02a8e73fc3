---------------------------- MODULE TransferProofs ----------------------------
(***************************************************************************)
(* Safety of Transfer for sessions of every size, every limit and every    *)
(* set of faults the theorems do not exclude.                              *)
(***************************************************************************)
EXTENDS Transfer, FiniteSetTheorems, TLAPS

\* Next, in the groups the proofs go through.
CardChange == SegmentClosed \/ SegmentCreated \/ RecordingStopped
LinkStep == transfer_cancel \/ Disconnect \/ Reconnect
AtStart == Download \/ TakeIdle \/ IdleTimeout \/ StartRefused \/ Prepare
           \/ SecondReadFails \/ Launch
AtCancelling == AtCancel \/ AtCancelFlag \/ AtCancelState
ThreadLook == Park \/ Wake \/ LookAgain \/ SeeCancel \/ SeeIdle \/ SeeDisconnected \/ SeeWork
ThreadSend == SendFile \/ SendStopped \/ LinkLost \/ SendFails \/ FileAcked \/ SendDone
              \/ transfer_cleanup

LEMMA NextSplit ==
    Next <=> \/ CardChange \/ LinkStep \/ AtStart \/ AtCancelling
             \/ ThreadLook \/ Open \/ ThreadSend
  BY DEF Next, AtServer, TransferThread, CardChange, LinkStep, AtStart, AtCancelling,
         ThreadLook, ThreadSend

\* The groups of variables, and the expressions that only choose a value of t.
USE DEF semVars, fileVars, jobVars, flagVars, cardVars, histVars, otherVars, Goto, Fail,
        CardStep, Cleanup

----------------------------------------------------------------------------
(* The baton: who may write current_transfer. *)

Idle == transfer_idle_sem = 1
Triggered == transfer_trigger_sem = 1
Starting == at \in {"locked", "filled"}
Running == t # "parked"

\* OneHolder, without the set.
Baton ==
    \/ Idle /\ ~Triggered /\ ~Starting /\ ~Running
    \/ ~Idle /\ Triggered /\ ~Starting /\ ~Running
    \/ ~Idle /\ ~Triggered /\ Starting /\ ~Running
    \/ ~Idle /\ ~Triggered /\ ~Starting /\ Running

LEMMA BatonIsOneHolder == Baton <=> OneHolder
<1> DEFINE H == {"idle", "trigger", "at", "thread"}
<1>1. /\ "idle" \in Holders <=> Idle
      /\ "trigger" \in Holders <=> Triggered
      /\ "at" \in Holders <=> Starting
      /\ "thread" \in Holders <=> Running
      /\ Holders \subseteq H
  BY DEF Holders, Idle, Triggered, Starting, Running
<1>2. ASSUME Baton PROVE OneHolder
  <2>1. CASE Idle /\ ~Triggered /\ ~Starting /\ ~Running
    <3>1. Holders = {"idle"}
      BY <1>1, <2>1
    <3> QED
      BY <3>1 DEF OneHolder
  <2>2. CASE ~Idle /\ Triggered /\ ~Starting /\ ~Running
    <3>1. Holders = {"trigger"}
      BY <1>1, <2>2
    <3> QED
      BY <3>1 DEF OneHolder
  <2>3. CASE ~Idle /\ ~Triggered /\ Starting /\ ~Running
    <3>1. Holders = {"at"}
      BY <1>1, <2>3
    <3> QED
      BY <3>1 DEF OneHolder
  <2>4. CASE ~Idle /\ ~Triggered /\ ~Starting /\ Running
    <3>1. Holders = {"thread"}
      BY <1>1, <2>4
    <3> QED
      BY <3>1 DEF OneHolder
  <2> QED
    BY <1>2, <2>1, <2>2, <2>3, <2>4 DEF Baton
<1>3. ASSUME OneHolder PROVE Baton
  <2>1. PICK h \in H : Holders = {h}
    BY <1>3 DEF OneHolder
  <2> QED
    BY <1>1, <2>1 DEF Baton
<1> QED
  BY <1>2, <1>3

LEMMA BatonInit == Init => Baton
  BY DEF Init, Baton, Idle, Triggered, Starting, Running

LEMMA BatonStep == Baton /\ [Next]_vars => Baton'
<1> SUFFICES ASSUME Baton, [Next]_vars PROVE Baton'
  OBVIOUS
<1> USE DEF Baton, Idle, Triggered, Starting, Running
<1>1. CASE CardChange
  BY <1>1 DEF CardChange, SegmentClosed, SegmentCreated, RecordingStopped
<1>2. CASE LinkStep
  BY <1>2 DEF LinkStep, transfer_cancel, Disconnect, Reconnect
<1>3. CASE AtStart
  BY <1>3 DEF AtStart, Download, TakeIdle, IdleTimeout, StartRefused, Prepare, SecondReadFails,
              Launch
<1>4. CASE AtCancelling
  BY <1>4 DEF AtCancelling, AtCancel, AtCancelFlag, AtCancelState
<1>5. CASE ThreadLook
  BY <1>5 DEF ThreadLook, Park, Wake, LookAgain, SeeCancel, SeeIdle, SeeDisconnected, SeeWork,
              Working, vars
<1>6. CASE Open
  <2>1. t' \in {"send", "done", "top"}
    BY <1>6 DEF Open, OpenNamed, OpenNormal, OpenContinuous, open_file, OpenFile, DropEmptyFile,
                NoMoreFiles, SkipMissing, TooManyMissing, OpenError
  <2> QED
    BY <1>6, <2>1 DEF Open
<1>7. CASE ThreadSend
  BY <1>7 DEF ThreadSend, SendFile, SendStopped, LinkLost, SendFails, FileAcked, SendDone,
              transfer_cleanup, Sending
<1>8. CASE UNCHANGED vars
  BY <1>8 DEF vars
<1> QED
  BY <1>1, <1>2, <1>3, <1>4, <1>5, <1>6, <1>7, <1>8, NextSplit

\* The right to write current_transfer is always in exactly one place: a
\* DOWNLOAD never fills it while the transfer thread works on it (transfer.c,
\* transfer_idle_sem and transfer_trigger_sem).
THEOREM OneHolderAlways == Spec => []OneHolder
<1>1. Baton => OneHolder
  BY BatonIsOneHolder
<1> QED
  BY BatonInit, BatonStep, <1>1, PTL DEF Spec

----------------------------------------------------------------------------
(* One TRANSFER_DONE. *)

\* While the session's end has not been announced, no TRANSFER_DONE was sent.
Announced == /\ dones \in {0, 1}
             /\ session /\ ~complete_sent => dones = 0

LEMMA AnnouncedStep == Announced /\ [Next]_vars => Announced'
<1> SUFFICES ASSUME Announced, [Next]_vars PROVE Announced'
  OBVIOUS
<1> USE DEF Announced
<1>1. CASE CardChange
  BY <1>1 DEF CardChange, SegmentClosed, SegmentCreated, RecordingStopped
<1>2. CASE LinkStep
  BY <1>2 DEF LinkStep, transfer_cancel, Disconnect, Reconnect
<1>3. CASE AtStart
  BY <1>3 DEF AtStart, Download, TakeIdle, IdleTimeout, StartRefused, Prepare, SecondReadFails,
              Launch
<1>4. CASE AtCancelling
  BY <1>4 DEF AtCancelling, AtCancel, AtCancelFlag, AtCancelState
<1>5. CASE ThreadLook
  BY <1>5 DEF ThreadLook, Park, Wake, LookAgain, SeeCancel, SeeIdle, SeeDisconnected, SeeWork,
              Working, vars
<1>6. CASE Open
  BY <1>6 DEF Open
<1>7. CASE ThreadSend
  BY <1>7 DEF ThreadSend, SendFile, SendStopped, LinkLost, SendFails, FileAcked, SendDone,
              transfer_cleanup, Sending
<1>8. CASE UNCHANGED vars
  BY <1>8 DEF vars
<1> QED
  BY <1>1, <1>2, <1>3, <1>4, <1>5, <1>6, <1>7, <1>8, NextSplit

\* However a transfer ends, is cancelled or refused, its client gets at most one
\* TRANSFER_DONE (send_transfer_complete_once).
THEOREM DoneOnceAlways == Spec => []DoneOnce
<1>1. Init => Announced
  BY DEF Init, Announced
<1>2. Announced => DoneOnce
  BY DEF Announced, DoneOnce
<1> QED
  BY <1>1, AnnouncedStep, <1>2, PTL DEF Spec

----------------------------------------------------------------------------
(* The CPU boost. *)

\* A DOWNLOAD that has not answered holds one boost, and so does, at most, the
\* transfer whose thread has still to be woken or to clean up.
StartHolds == IF at \in {"wait", "locked", "filled"} THEN 1 ELSE 0
JobHolds == IF (t \notin {"parked", "park"} \/ Triggered) /\ state # "IDLE" THEN 1 ELSE 0

BoostBound ==
    /\ boost \in Int /\ boost <= StartHolds + JobHolds
    /\ at = "filled" => state # "IDLE"
    /\ at \in AtPCs

LEMMA BoostStep == Baton /\ BoostBound /\ [Next]_vars => BoostBound'
<1> SUFFICES ASSUME Baton, BoostBound, [Next]_vars PROVE BoostBound'
  OBVIOUS
<1> USE DEF BoostBound, StartHolds, JobHolds, Baton, Idle, Triggered, Starting, Running, AtPCs
<1>1. CASE CardChange
  BY <1>1 DEF CardChange, SegmentClosed, SegmentCreated, RecordingStopped
<1>2. CASE LinkStep
  BY <1>2 DEF LinkStep, transfer_cancel, transfer_is_active, Disconnect, Reconnect
<1>3. CASE AtStart
  <2>1. CASE Download
    BY <2>1 DEF Download
  <2>2. CASE TakeIdle
    BY <2>2 DEF TakeIdle
  <2>3. CASE IdleTimeout
    BY <2>3 DEF IdleTimeout
  <2>4. CASE StartRefused
    BY <2>4 DEF StartRefused
  <2>5. CASE Prepare
    BY <2>5 DEF Prepare
  <2>6. CASE SecondReadFails
    BY <2>6 DEF SecondReadFails
  <2>7. CASE Launch
    BY <2>7 DEF Launch
  <2> QED
    BY <1>3, <2>1, <2>2, <2>3, <2>4, <2>5, <2>6, <2>7 DEF AtStart
<1>4. CASE AtCancelling
  BY <1>4 DEF AtCancelling, AtCancel, AtCancelFlag, AtCancelState
<1>5. CASE ThreadLook
  BY <1>5 DEF ThreadLook, Park, Wake, LookAgain, SeeCancel, SeeIdle, SeeDisconnected, SeeWork,
              Working, transfer_is_active, vars
<1>6. CASE Open
  BY <1>6 DEF Open, OpenNamed, OpenNormal, OpenContinuous, open_file, OpenFile, DropEmptyFile,
              NoMoreFiles, SkipMissing, TooManyMissing, OpenError
<1>7. CASE ThreadSend
  <2>1. CASE transfer_cleanup
    BY <1>7, <2>1 DEF transfer_cleanup
  <2> QED
    BY <1>7, <2>1 DEF ThreadSend, SendFile, SendStopped, LinkLost, SendFails, FileAcked,
                      SendDone, Sending
<1>8. CASE UNCHANGED vars
  BY <1>8 DEF vars
<1> QED
  BY <1>1, <1>2, <1>3, <1>4, <1>5, <1>6, <1>7, <1>8, NextSplit

\* Once the transfer thread is parked and no command is under way, the transfers
\* hold no CPU boost, whatever failed, timed out or was cancelled
\* (clip_cpu_boost_acquire and clip_cpu_boost_release in transfer.c).
THEOREM BoostAlwaysGivenBack == Spec => []BoostGivenBack
<1>1. Init => BoostBound
  BY DEF Init, BoostBound, StartHolds, JobHolds, Triggered, AtPCs
<1>2. BoostBound => BoostGivenBack
  BY DEF BoostBound, StartHolds, JobHolds, Triggered, BoostGivenBack
<1> QED
  BY <1>1, <1>2, BatonInit, BatonStep, BoostStep, PTL DEF Spec

----------------------------------------------------------------------------
(* Nothing is sent while it is being recorded. *)

Closed == { f \in 1..NFiles : card[f] = "closed" }

\* An old session is not written any more.
OldIsClosed == ~latest => ~recording /\ \A f \in 1..NFiles : card[f] # "writing"

\* Normal mode is for old sessions.
ModeFits ==
    (state # "IDLE" /\ at # "filled") \/ at \in {"cancel", "cancelFlag"} =>
        continuous \/ ~latest

\* No file is open, or named, when no transfer is in progress.
NoFileWhenIdle ==
    /\ t \in {"park", "parked"} \/ state = "IDLE" => current_file = 0 /\ ~transfer_file_open
    /\ t \in {"open", "send", "end"} => state # "IDLE"
    /\ t = "open" => ~transfer_file_open

\* A file that is named but not open was closed, or will not be opened.
NamedIsClosed ==
    /\ current_file # 0 =>
          \/ current_file \in Closed
          \/ ~connected \/ cancel_requested \/ ~transfer_is_active
    /\ t = "open" /\ current_file # 0 => current_file \in Closed
    /\ transfer_file_open => current_file \in Closed

CardTyped == card \in [1..NFiles -> Contents] /\ latest \in BOOLEAN /\ connected \in BOOLEAN

FilesInv == CardTyped /\ OldIsClosed /\ ModeFits /\ NoFileWhenIdle /\ NamedIsClosed

\* The kinds of result transfer_next_file has.
Opened == OpenFile /\ NextFile \in Closed
NotOpened == transfer_file_open' = transfer_file_open /\ current_file' = 0 /\ t' # "send"
NamedOnly ==
    /\ transfer_file_open' = transfer_file_open /\ current_file' = NextFile
    /\ t' # "send" /\ UNCHANGED card
    /\ ~connected \/ ~transfer_is_active \/ cancel_requested

\* Only a closed file is opened.
LEMMA OpenResults ==
  ASSUME Open, CardTyped, OldIsClosed, ModeFits, NoFileWhenIdle, NamedIsClosed, at # "filled"
  PROVE  Opened \/ NotOpened \/ NamedOnly
<1>1. /\ OnCard(NextFile) \in Contents
      /\ OnCard(NextFile) = "closed" <=> NextFile \in Closed
  BY DEF CardTyped, OnCard, Contents, Closed
<1>2. ASSUME open_file, OnCard(NextFile) # "writing"
      PROVE  Opened \/ NotOpened
  BY <1>1, <1>2 DEF open_file, StatFinds, Opened, NotOpened, NoMoreFiles, DropEmptyFile,
                    OpenError, Contents
<1>3. CASE OpenNamed
  <2>1. NextFile = current_file /\ OnCard(NextFile) = "closed"
    BY <1>1, <1>3 DEF OpenNamed, NextFile, Open, NamedIsClosed
  <2> QED
    BY <1>2, <1>3, <2>1 DEF OpenNamed
<1>4. CASE OpenNormal
  <2>1. OnCard(NextFile) # "writing"
    BY <1>4 DEF OpenNormal, Open, NoFileWhenIdle, ModeFits, OldIsClosed, OnCard
  <2>2. CASE open_file
    BY <1>2, <2>1, <2>2
  <2>3. CASE NoMoreFiles \/ SkipMissing \/ TooManyMissing
    BY <2>3 DEF NoMoreFiles, SkipMissing, TooManyMissing, NotOpened
  <2> QED
    BY <1>4, <2>2, <2>3 DEF OpenNormal
<1>5. CASE OpenContinuous
  <2>1. CASE OnCard(NextFile) \in {"closed", "empty"} /\ open_file
    BY <1>2, <2>1
  <2>2. CASE NoMoreFiles \/ SkipMissing
    BY <2>2 DEF NoMoreFiles, SkipMissing, NotOpened
  <2>3. CASE (~connected \/ ~transfer_is_active) /\ OpenError(NextFile)
    BY <2>3 DEF OpenError, NamedOnly
  <2>4. CASE (~connected \/ cancel_requested) /\ OpenError(IF connected THEN NextFile ELSE 0)
    BY <2>4 DEF OpenError, NamedOnly, NotOpened
  <2> QED
    BY <1>5, <2>1, <2>2, <2>3, <2>4 DEF OpenContinuous
<1> QED
  BY <1>3, <1>4, <1>5 DEF Open

\* What opening a file does to the card: at most, an empty file is deleted.
DropsEmpty ==
    /\ OnCard(NextFile) = "empty"
    /\ card' = [card EXCEPT ![NextFile] = "absent"]

LEMMA OpenCard ==
  ASSUME Open
  PROVE  card' = card \/ DropsEmpty
  BY DEF Open, OpenNamed, OpenNormal, OpenContinuous, open_file, OpenFile, NoMoreFiles,
         SkipMissing, TooManyMissing, OpenError, DropEmptyFile, DropsEmpty

LEMMA CardKept ==
  ASSUME LinkStep \/ AtStart \/ AtCancelling \/ ThreadLook \/ ThreadSend
  PROVE  card' = card /\ latest' = latest /\ recording' = recording
  BY DEF LinkStep, AtStart, AtCancelling, ThreadLook, ThreadSend, transfer_cancel, Disconnect,
    Reconnect, Download, TakeIdle, IdleTimeout, StartRefused, Prepare, SecondReadFails, Launch,
    AtCancel, AtCancelFlag, AtCancelState, Park, Wake, LookAgain, SeeCancel, SeeIdle,
    SeeDisconnected, SeeWork, SendFile, SendStopped, LinkLost, SendFails, FileAcked, SendDone,
    transfer_cleanup, vars

\* Files appear and are closed; what is closed stays closed.
LEMMA CardStepTyped ==
  ASSUME CardTyped, OldIsClosed, Next
  PROVE  CardTyped' /\ OldIsClosed' /\ Closed \subseteq Closed'
<1> USE DEF CardTyped, OldIsClosed, Contents, Closed
<1>1. CASE SegmentClosed
  <2>1. PICK f \in 1..NFiles : card[f] = "writing" /\ card' = [card EXCEPT ![f] = "closed"]
    BY <1>1 DEF SegmentClosed
  <2> QED
    BY <1>1, <2>1 DEF SegmentClosed
<1>2. CASE SegmentCreated
  <2>1. PICK f \in 1..NFiles : card[f] = "absent" /\ card' = [card EXCEPT ![f] = "writing"]
    BY <1>2 DEF SegmentCreated
  <2> QED
    BY <1>2, <2>1 DEF SegmentCreated
<1>3. CASE RecordingStopped
  BY <1>3 DEF RecordingStopped
<1>4. CASE Open
  <2>1. CASE DropsEmpty
    <3>1. card' = [card EXCEPT ![NextFile] = "absent"] /\ card[NextFile] = "empty"
      BY <2>1 DEF DropsEmpty, OnCard
    <3> QED
      BY <1>4, <3>1 DEF Open
  <2>2. CASE card' = card
    BY <1>4, <2>2 DEF Open
  <2> QED
    BY <1>4, <2>1, <2>2, OpenCard
<1>5. CASE LinkStep
  <2>1. connected' \in BOOLEAN
    BY <1>5 DEF LinkStep, transfer_cancel, Disconnect, Reconnect
  <2> QED
    BY <1>5, <2>1, CardKept
<1>6. CASE AtStart \/ AtCancelling \/ ThreadLook \/ ThreadSend
  <2>1. connected' = connected
    BY <1>6 DEF AtStart, AtCancelling, ThreadLook, ThreadSend, Download, TakeIdle, IdleTimeout,
      StartRefused, Prepare, SecondReadFails, Launch, AtCancel, AtCancelFlag, AtCancelState,
      Park, Wake, LookAgain, SeeCancel, SeeIdle, SeeDisconnected, SeeWork, SendFile,
      SendStopped, LinkLost, SendFails, FileAcked, SendDone, transfer_cleanup, vars
  <2>2. card' = card /\ latest' = latest /\ recording' = recording
    <3>1. LinkStep \/ AtStart \/ AtCancelling \/ ThreadLook \/ ThreadSend
      BY <1>6
    <3> QED
      BY <3>1, CardKept
  <2> QED
    BY <2>1, <2>2
<1> QED
  BY <1>1, <1>2, <1>3, <1>4, <1>5, <1>6, NextSplit DEF CardChange

\* The link does not come back while a transfer runs, and the session that is
\* being recorded is read without an error.
Steady == "flap" \notin Faults /\ "rereadLatest" \notin Faults

LEMMA FilesStep == Steady /\ Baton /\ FilesInv /\ [Next]_vars => FilesInv'
<1> SUFFICES ASSUME Steady, Baton, FilesInv, [Next]_vars PROVE FilesInv'
  OBVIOUS
<1>1. CASE UNCHANGED vars
  BY <1>1 DEF FilesInv, CardTyped, OldIsClosed, ModeFits, NoFileWhenIdle, NamedIsClosed,
              Closed, transfer_is_active, vars
<1>2. CASE Next
  <2>1. CardTyped' /\ OldIsClosed' /\ Closed \subseteq Closed'
    BY <1>2, CardStepTyped DEF FilesInv
  <2>2. ModeFits' /\ NoFileWhenIdle' /\ NamedIsClosed'
    <3> USE DEF ModeFits, NoFileWhenIdle, NamedIsClosed, transfer_is_active, CardTyped,
                Baton, Idle, Triggered, Starting, Running, Steady
    <3>1. CASE CardChange
      BY <2>1, <3>1 DEF CardChange, SegmentClosed, SegmentCreated, RecordingStopped, FilesInv
    <3>2. CASE LinkStep
      BY <2>1, <3>2 DEF LinkStep, transfer_cancel, Disconnect, Reconnect, FilesInv
    <3>3. CASE AtStart
      BY <2>1, <3>3 DEF AtStart, Download, TakeIdle, IdleTimeout, StartRefused, Prepare,
                        SecondReadFails, Launch, FilesInv
    <3>4. CASE AtCancelling
      BY <2>1, <3>4 DEF AtCancelling, AtCancel, AtCancelFlag, AtCancelState, FilesInv
    <3>5. CASE ThreadLook
      BY <2>1, <3>5 DEF ThreadLook, Park, Wake, LookAgain, SeeCancel, SeeIdle,
                        SeeDisconnected, SeeWork, Working, vars, FilesInv
    <3>6. CASE Open
      <4>1. Opened \/ NotOpened \/ NamedOnly
        BY <3>6, OpenResults DEF Open, FilesInv
      <4>2. state' \in {state, "COMPLETED", "ERROR"} /\ t' \in {"send", "done", "top"}
        BY <3>6 DEF Open, OpenNamed, OpenNormal, OpenContinuous, open_file, OpenFile,
                    DropEmptyFile, NoMoreFiles, SkipMissing, TooManyMissing, OpenError
      <4>3. /\ t = "open"
            /\ UNCHANGED <<at, connected, latest, recording, continuous, cancel_requested>>
        BY <3>6 DEF Open
      <4>4. ModeFits'
        BY <4>2, <4>3 DEF FilesInv
      <4>5. CASE Opened
        BY <2>1, <4>2, <4>3, <4>4, <4>5 DEF Opened, OpenFile, FilesInv
      <4>6. CASE NotOpened
        BY <2>1, <4>2, <4>3, <4>4, <4>6 DEF NotOpened, FilesInv
      <4>7. CASE NamedOnly
        BY <2>1, <4>2, <4>3, <4>4, <4>7 DEF NamedOnly, FilesInv
      <4> QED
        BY <4>1, <4>5, <4>6, <4>7
    <3>7. CASE ThreadSend
      BY <2>1, <3>7 DEF ThreadSend, SendFile, SendStopped, LinkLost, SendFails, FileAcked,
                        SendDone, transfer_cleanup, Sending, FilesInv
    <3> QED
      BY <1>2, <3>1, <3>2, <3>3, <3>4, <3>5, <3>6, <3>7, NextSplit
  <2> QED
    BY <2>1, <2>2 DEF FilesInv
<1> QED
  BY <1>1, <1>2

LEMMA FilesInit == Init => FilesInv
  BY TransferAssumption DEF Init, InitialCard, FilesInv, CardTyped, Contents, OldIsClosed,
     ModeFits, NoFileWhenIdle, NamedIsClosed

\* Nothing that is still being recorded is sent: in normal mode because the
\* session is an old one, in continuous mode because the file is waited for, and
\* after a broken link because the file was closed before it was named
\* (transfer_next_file, storage_file_is_writing).
THEOREM OnlyClosedFilesAreSent ==
  ASSUME Steady
  PROVE  Spec => []OnlyClosedFilesSent
<1>2. FilesInv => OnlyClosedFilesSent
  BY DEF FilesInv, NamedIsClosed, OnlyClosedFilesSent, Closed, OnCard
<1>3. Baton /\ FilesInv /\ [Next]_vars => FilesInv'
  BY FilesStep
<1> QED
  BY FilesInit, <1>2, <1>3, BatonInit, BatonStep, PTL DEF Spec

----------------------------------------------------------------------------
(* Type correctness. *)

\* While a DOWNLOAD is being prepared its session has files.
HasFiles == at = "filled" /\ latest => \E f \in 1..NFiles : card[f] # "absent"

LEMMA RecordedCountPositive ==
  ASSUME CardTyped
  PROVE  /\ RecordedCount \in Nat
         /\ (latest => \E f \in 1..NFiles : card[f] # "absent") <=> RecordedCount > 0
<1> DEFINE S == { f \in 1..NFiles : card[f] # "absent" }
<1>1. IsFiniteSet(1..NFiles) /\ NFiles \in Nat /\ NFiles > 0
  BY TransferAssumption, FS_Interval
<1>2. IsFiniteSet(S)
  BY <1>1, FS_Subset, S \subseteq 1..NFiles
<1>3. Cardinality(S) \in Nat /\ (Cardinality(S) = 0 <=> S = {})
  BY <1>2, FS_CardinalityType, FS_EmptySet
<1>4. S = {} <=> ~\E f \in 1..NFiles : card[f] # "absent"
  OBVIOUS
<1> QED
  BY <1>1, <1>3, <1>4 DEF RecordedCount, FileCount, CardTyped

\* The files that the card does not show are counted among those.
LEMMA OpenUnseen ==
  ASSUME Open
  PROVE  /\ unseen \subseteq unseen' /\ unseen' \subseteq unseen \cup {NextFile}
  BY DEF Open, OpenNamed, OpenNormal, OpenContinuous, open_file, OpenFile, DropEmptyFile,
         NotFound, OpenError

\* TypeOK, but for what CardTyped says; first the fields that hold numbers.
NumbersTyped ==
    /\ transfer_idle_sem \in {0, 1} /\ transfer_trigger_sem \in {0, 1}
    /\ file_index \in Nat /\ synced_files \in Nat
    /\ current_file \in Nat /\ total_files \in Nat
    /\ errors \in Nat /\ boost \in Int
    /\ saved \in Nat /\ delivered \subseteq Nat /\ dones \in Nat
    /\ asked \in Nat /\ left \subseteq Nat /\ unseen \subseteq Nat

PlacesTyped == t \in ThreadPCs /\ at \in AtPCs /\ state \in States

JobTyped == session \in BOOLEAN /\ continuous \in BOOLEAN /\ transfer_file_open \in BOOLEAN

FlagsTyped == cancel_requested \in BOOLEAN /\ complete_sent \in BOOLEAN /\ recording \in BOOLEAN

LEMMA TypeSplit == TypeOK <=> /\ CardTyped /\ NumbersTyped
                              /\ PlacesTyped /\ JobTyped /\ FlagsTyped
  BY DEF TypeOK, CardTyped, NumbersTyped, PlacesTyped, JobTyped, FlagsTyped

TypeInv == TypeOK /\ HasFiles /\ Baton /\ OldIsClosed

LEMMA TypeStep == TypeInv /\ [Next]_vars => TypeOK' /\ HasFiles'
<1> SUFFICES ASSUME TypeInv, [Next]_vars PROVE TypeOK' /\ HasFiles'
  OBVIOUS
<1> USE TransferAssumption
<1>0. CardTyped
  BY DEF TypeInv, TypeOK, CardTyped
<1>1. CASE UNCHANGED vars
  BY <1>1 DEF TypeInv, TypeOK, HasFiles, vars
<1>2. CASE Next
  <2>1. CardTyped'
    BY <1>0, <1>2, CardStepTyped DEF TypeInv
  <2>2. HasFiles'
    <3>1. CASE SegmentClosed
      BY <3>1 DEF SegmentClosed, CardStep, HasFiles, TypeInv, TypeOK, Contents
    <3>2. CASE SegmentCreated
      BY <3>2 DEF SegmentCreated, CardStep, HasFiles, TypeInv, TypeOK, Contents
    <3>3. CASE RecordingStopped
      BY <3>3 DEF RecordingStopped, CardStep, HasFiles, TypeInv
    <3>4. CASE Open
      BY <3>4 DEF Open, HasFiles, TypeInv, Baton, Starting, Running
    <3>5. CASE Prepare
      BY <1>0, <3>5, RecordedCountPositive DEF Prepare, HasFiles
    <3>6. CASE LinkStep \/ (AtStart /\ ~Prepare) \/ AtCancelling \/ ThreadLook \/ ThreadSend
      <4>1. LinkStep \/ AtStart \/ AtCancelling \/ ThreadLook \/ ThreadSend
        BY <3>6
      <4>2. card' = card /\ latest' = latest
        BY <4>1, CardKept
      <4>3. at' = "filled" => at = "filled"
        BY <3>6 DEF LinkStep, AtStart, AtCancelling, ThreadLook, ThreadSend, transfer_cancel,
          Disconnect, Reconnect, Download, TakeIdle, IdleTimeout, StartRefused,
          SecondReadFails, Launch, AtCancel, AtCancelFlag, AtCancelState, Park, Wake,
          LookAgain, SeeCancel, SeeIdle, SeeDisconnected, SeeWork, SendFile, SendStopped,
          LinkLost, SendFails, FileAcked, SendDone, transfer_cleanup, vars
      <4> QED
        BY <4>2, <4>3 DEF HasFiles, TypeInv
    <3> QED
      BY <1>2, <3>1, <3>2, <3>3, <3>4, <3>5, <3>6, NextSplit DEF CardChange
  <2>3. NumbersTyped /\ PlacesTyped /\ JobTyped /\ FlagsTyped
    BY TypeSplit DEF TypeInv
  <2>4. NumbersTyped'
    <3> USE <2>3 DEF NumbersTyped
    <3>1. CASE CardChange
      BY <3>1 DEF CardChange, SegmentClosed, SegmentCreated, RecordingStopped
    <3>2. CASE LinkStep
      BY <3>2 DEF LinkStep, transfer_cancel, Disconnect, Reconnect
    <3>3. CASE AtStart /\ ~Launch
      <4>1. boost + 1 \in Int /\ boost - 1 \in Int
        OBVIOUS
      <4>2. CASE Download
        BY <4>1, <4>2 DEF Download
      <4>4. CASE TakeIdle
        BY <4>4 DEF TakeIdle
      <4>5. CASE IdleTimeout
        BY <4>1, <4>5 DEF IdleTimeout
      <4>6. CASE StartRefused
        BY <4>1, <4>6 DEF StartRefused
      <4>7. CASE SecondReadFails
        BY <4>1, <4>7 DEF SecondReadFails
      <4>3. CASE Prepare
        BY <4>3 DEF Prepare
      <4> QED
        BY <3>3, <4>2, <4>3, <4>4, <4>5, <4>6, <4>7 DEF AtStart
    <3>4. CASE Launch
      <4>1. RecordedCount \in Nat /\ RecordedCount > 0
        BY <1>0, <3>4, RecordedCountPositive DEF Launch, HasFiles, TypeInv
      <4>2. file_index' \in Nat /\ total_files' \in Nat /\ asked' \in Nat
        BY <3>4, <4>1 DEF Launch
      <4> QED
        BY <3>4, <4>2 DEF Launch
    <3>5. CASE AtCancelling
      BY <3>5 DEF AtCancelling, AtCancel, AtCancelFlag, AtCancelState
    <3>6. CASE ThreadLook
      BY <3>6 DEF ThreadLook, Park, Wake, LookAgain, SeeCancel, SeeIdle, SeeDisconnected,
                  SeeWork, Working, vars
    <3>7. CASE Open
      <4>1. NextFile \in Nat
        BY DEF NextFile
      <4>2. file_index' \in Nat /\ current_file' \in Nat /\ errors' \in Nat
        BY <3>7, <4>1 DEF Open, OpenNamed, OpenNormal, OpenContinuous, open_file, OpenFile,
                    DropEmptyFile, NoMoreFiles, SkipMissing, TooManyMissing, OpenError
      <4>3. unseen' \subseteq Nat
        BY <3>7, <4>1, OpenUnseen
      <4> QED
        BY <3>7, <4>2, <4>3 DEF Open
    <3>8. CASE ThreadSend
      <4>1. CASE FileAcked
        BY <4>1 DEF FileAcked
      <4>2. CASE SendDone
        <5>2. LeftOut \subseteq Nat
          BY DEF LeftOut
        <5>3. left' \in {left, LeftOut} /\ saved' \in Nat /\ dones' \in Nat
          BY <4>2 DEF SendDone
        <5>1. saved' \in Nat /\ dones' \in Nat /\ left' \subseteq Nat
          BY <5>2, <5>3
        <5> QED
          BY <4>2, <5>1 DEF SendDone
      <4>3. CASE transfer_cleanup
        BY <4>3 DEF transfer_cleanup
      <4>4. CASE SendFile \/ SendStopped \/ LinkLost \/ SendFails
        BY <4>4 DEF SendFile, SendStopped, LinkLost, SendFails
      <4> QED
        BY <3>8, <4>1, <4>2, <4>3, <4>4 DEF ThreadSend
    <3> QED
      BY <1>2, <3>1, <3>2, <3>3, <3>4, <3>5, <3>6, <3>7, <3>8, NextSplit
  <2>5. PlacesTyped'
    <3> USE <2>3 DEF PlacesTyped, ThreadPCs, AtPCs, States
    <3>1. CASE CardChange
      BY <3>1 DEF CardChange, SegmentClosed, SegmentCreated, RecordingStopped
    <3>2. CASE LinkStep
      BY <3>2 DEF LinkStep, transfer_cancel, Disconnect, Reconnect
    <3>3. CASE AtStart /\ ~Launch
      BY <3>3 DEF AtStart, Download, TakeIdle, IdleTimeout, StartRefused, Prepare,
                  SecondReadFails
    <3>4. CASE Launch
      BY <1>0, <3>4 DEF Launch, CardTyped
    <3>5. CASE AtCancelling
      BY <3>5 DEF AtCancelling, AtCancel, AtCancelFlag, AtCancelState
    <3>6. CASE ThreadLook
      BY <3>6 DEF ThreadLook, Park, Wake, LookAgain, SeeCancel, SeeIdle, SeeDisconnected,
                  SeeWork, Working, vars
    <3>7. CASE Open
      BY <3>7 DEF Open, OpenNamed, OpenNormal, OpenContinuous, open_file, OpenFile,
                    DropEmptyFile, NoMoreFiles, SkipMissing, TooManyMissing, OpenError
    <3>8. CASE ThreadSend
      BY <3>8 DEF ThreadSend, SendFile, SendStopped, LinkLost, SendFails, FileAcked, SendDone,
                  transfer_cleanup, Sending
    <3> QED
      BY <1>2, <3>1, <3>2, <3>3, <3>4, <3>5, <3>6, <3>7, <3>8, NextSplit
  <2>6. JobTyped'
    <3> USE <2>3 DEF JobTyped
    <3>1. CASE CardChange
      BY <3>1 DEF CardChange, SegmentClosed, SegmentCreated, RecordingStopped
    <3>2. CASE LinkStep
      BY <3>2 DEF LinkStep, transfer_cancel, Disconnect, Reconnect
    <3>3. CASE AtStart /\ ~Launch
      BY <3>3 DEF AtStart, Download, TakeIdle, IdleTimeout, StartRefused, Prepare,
                  SecondReadFails
    <3>4. CASE Launch
      BY <1>0, <3>4 DEF Launch, CardTyped
    <3>5. CASE AtCancelling
      BY <3>5 DEF AtCancelling, AtCancel, AtCancelFlag, AtCancelState
    <3>6. CASE ThreadLook
      BY <3>6 DEF ThreadLook, Park, Wake, LookAgain, SeeCancel, SeeIdle, SeeDisconnected,
                  SeeWork, Working, vars
    <3>7. CASE Open
      BY <3>7 DEF Open, OpenNamed, OpenNormal, OpenContinuous, open_file, OpenFile,
                    DropEmptyFile, NoMoreFiles, SkipMissing, TooManyMissing, OpenError
    <3>8. CASE ThreadSend
      BY <3>8 DEF ThreadSend, SendFile, SendStopped, LinkLost, SendFails, FileAcked, SendDone,
                  transfer_cleanup, Sending
    <3> QED
      BY <1>2, <3>1, <3>2, <3>3, <3>4, <3>5, <3>6, <3>7, <3>8, NextSplit
  <2>7. FlagsTyped'
    <3> USE <2>3 DEF FlagsTyped
    <3>1. CASE CardChange
      BY <3>1 DEF CardChange, SegmentClosed, SegmentCreated, RecordingStopped
    <3>2. CASE LinkStep
      BY <3>2 DEF LinkStep, transfer_cancel, Disconnect, Reconnect
    <3>3. CASE AtStart /\ ~Launch
      BY <3>3 DEF AtStart, Download, TakeIdle, IdleTimeout, StartRefused, Prepare,
                  SecondReadFails
    <3>4. CASE Launch
      BY <1>0, <3>4 DEF Launch, CardTyped
    <3>5. CASE AtCancelling
      BY <3>5 DEF AtCancelling, AtCancel, AtCancelFlag, AtCancelState
    <3>6. CASE ThreadLook
      BY <3>6 DEF ThreadLook, Park, Wake, LookAgain, SeeCancel, SeeIdle, SeeDisconnected,
                  SeeWork, Working, vars
    <3>7. CASE Open
      BY <3>7 DEF Open, OpenNamed, OpenNormal, OpenContinuous, open_file, OpenFile,
                    DropEmptyFile, NoMoreFiles, SkipMissing, TooManyMissing, OpenError
    <3>8. CASE ThreadSend
      BY <3>8 DEF ThreadSend, SendFile, SendStopped, LinkLost, SendFails, FileAcked, SendDone,
                  transfer_cleanup, Sending
    <3> QED
      BY <1>2, <3>1, <3>2, <3>3, <3>4, <3>5, <3>6, <3>7, <3>8, NextSplit
  <2> QED
    BY <2>1, <2>2, <2>4, <2>5, <2>6, <2>7
    DEF TypeOK, CardTyped, NumbersTyped, PlacesTyped, JobTyped, FlagsTyped
<1> QED
  BY <1>1, <1>2

LEMMA TypeInvInit == Init => TypeInv
<1> SUFFICES ASSUME Init PROVE TypeInv
  OBVIOUS
<1>1. CardTyped /\ OldIsClosed
  BY TransferAssumption DEF Init, InitialCard, CardTyped, OldIsClosed, Contents
<1>2. recording \in BOOLEAN
  BY DEF Init, InitialCard
<1>3. NumbersTyped /\ HasFiles
  BY DEF Init, NumbersTyped, HasFiles
<1>4. PlacesTyped
  BY DEF Init, PlacesTyped, ThreadPCs, AtPCs, States
<1>5. JobTyped /\ FlagsTyped
  BY <1>2 DEF Init, JobTyped, FlagsTyped
<1> QED
  BY <1>1, <1>3, <1>4, <1>5, TypeSplit, BatonInit DEF TypeInv

LEMMA TypeInvStep == TypeInv /\ [Next]_vars => TypeInv'
<1>1. TypeInv /\ Next => OldIsClosed'
  BY CardStepTyped DEF TypeInv, TypeOK, CardTyped
<1>2. TypeInv /\ UNCHANGED vars => OldIsClosed'
  BY DEF TypeInv, OldIsClosed, vars
<1> QED
  BY <1>1, <1>2, TypeStep, BatonStep DEF TypeInv

\* The variables of the transfer engine keep their types; in particular the
\* number of the next file stays a natural number, as no DOWNLOAD is started
\* for a session without files (transfer_start, transfer_resume_from).
THEOREM TransferTypeCorrect == Spec => []TypeOK
<1>1. TypeInv => TypeOK
  BY DEF TypeInv
<1> QED
  BY <1>1, TypeInvInit, TypeInvStep, PTL DEF Spec

----------------------------------------------------------------------------
(* What is counted as synced. *)

\* Delivered, or not on the card and not to come any more, or hidden by the card.
Through(f) ==
    \/ f \in delivered \cup unseen
    \/ OnCard(f) \in {"absent", "empty"} /\ (~recording \/ f \notin 1..NFiles)

\* That, or left out by the client of this DOWNLOAD; or by those of what is saved.
Settled(f) == Through(f) \/ f \in LeftOut
Kept(f) == Through(f) \/ f \in left

AllSettled(n) == \A f \in 1..n : Settled(f)

\* What the steps but the opening of a file do to the histories.
LEMMA DeliveredGrows ==
  ASSUME LinkStep \/ AtStart \/ AtCancelling \/ ThreadLook \/ ThreadSend
  PROVE  delivered \subseteq delivered' /\ unseen \subseteq delivered' \cup unseen'
<1>1. CASE FileAcked
  BY <1>1 DEF FileAcked
<1>2. CASE ~FileAcked
  BY <1>2 DEF LinkStep, AtStart, AtCancelling, ThreadLook, ThreadSend, transfer_cancel,
    Disconnect, Reconnect, Download, TakeIdle, IdleTimeout, StartRefused, Prepare,
    SecondReadFails, Launch, AtCancel, AtCancelFlag, AtCancelState, Park, Wake, LookAgain,
    SeeCancel, SeeIdle, SeeDisconnected, SeeWork, SendFile, SendStopped, LinkLost, SendFails,
    SendDone, transfer_cleanup, vars
<1> QED
  BY <1>1, <1>2

\* Nothing undoes that a file is through.
LEMMA ThroughStays ==
  ASSUME CardTyped, [Next]_vars, NEW f \in Nat, Through(f)
  PROVE  Through(f)'
<1> USE DEF Through, OnCard, CardTyped
<1>1. CASE SegmentClosed
  <2>1. PICK g \in 1..NFiles : card[g] = "writing" /\ card' = [card EXCEPT ![g] = "closed"]
    BY <1>1 DEF SegmentClosed
  <2>2. delivered' = delivered /\ unseen' = unseen /\ recording' = recording
    BY <1>1 DEF SegmentClosed
  <2> QED
    BY <2>1, <2>2
<1>2. CASE SegmentCreated
  <2>1. /\ recording /\ recording' = recording
        /\ delivered' = delivered /\ unseen' = unseen
    BY <1>2 DEF SegmentCreated
  <2> QED
    BY <2>1
<1>3. CASE RecordingStopped
  BY <1>3 DEF RecordingStopped
<1>4. CASE Open
  <2>1. delivered' = delivered /\ recording' = recording /\ unseen \subseteq unseen'
    BY <1>4, OpenUnseen DEF Open
  <2>2. CASE DropsEmpty
    BY <2>1, <2>2 DEF DropsEmpty
  <2>3. CASE card' = card
    BY <2>1, <2>3
  <2> QED
    BY <1>4, <2>2, <2>3, OpenCard
<1>5. CASE LinkStep \/ AtStart \/ AtCancelling \/ ThreadLook \/ ThreadSend
  <2>1. card' = card /\ recording' = recording
    BY <1>5, CardKept
  <2>2. delivered \subseteq delivered' /\ unseen \subseteq delivered' \cup unseen'
    BY <1>5, DeliveredGrows
  <2> QED
    BY <2>1, <2>2
<1>6. CASE UNCHANGED vars
  BY <1>6 DEF vars
<1> QED
  BY <1>1, <1>2, <1>3, <1>4, <1>5, <1>6, NextSplit DEF CardChange

\* What only a few steps change.
OtherStep == ~Prepare /\ ~Launch /\ ~FileAcked /\ ~SendDone /\ ~transfer_cleanup

LEMMA OtherSteps ==
  ASSUME [Next]_vars
  PROVE  /\ OtherStep => UNCHANGED <<asked, saved, synced_files, delivered, left>>
         /\ ~SendDone => saved' = saved
<1>1. CASE Open \/ UNCHANGED vars
  BY <1>1 DEF Open, vars
<1>2. CASE ~Open /\ Next
  BY <1>2, NextSplit DEF OtherStep, CardChange, SegmentClosed, SegmentCreated,
    RecordingStopped, LinkStep, transfer_cancel, Disconnect, Reconnect, AtStart, Download,
    TakeIdle, IdleTimeout, StartRefused, Prepare, SecondReadFails, Launch, AtCancelling,
    AtCancel, AtCancelFlag, AtCancelState, ThreadLook, Park, Wake, LookAgain, SeeCancel,
    SeeIdle, SeeDisconnected, SeeWork, ThreadSend, SendFile, SendStopped, LinkLost,
    SendFails, FileAcked, transfer_cleanup, vars
<1> QED
  BY <1>1, <1>2

\* A file is settled for as long as the DOWNLOAD lasts.
LEMMA SettledStays ==
  ASSUME CardTyped, [Next]_vars, ~Prepare, ~Launch, ~transfer_cleanup,
         NEW f \in Nat, Settled(f)
  PROVE  Settled(f)'
<1>1. CASE Through(f)
  BY <1>1, ThroughStays DEF Settled
<1>2. CASE f \in LeftOut /\ OtherStep
  BY <1>2, OtherSteps DEF Settled, LeftOut
<1>3. CASE f \in LeftOut /\ FileAcked
  BY <1>3 DEF Settled, Through, LeftOut, FileAcked
<1>4. CASE f \in LeftOut /\ SendDone
  BY <1>4 DEF Settled, LeftOut, SendDone
<1> QED
  BY <1>1, <1>2, <1>3, <1>4 DEF Settled, OtherStep

LEMMA AllSettledStays ==
  ASSUME CardTyped, [Next]_vars, ~Prepare, ~Launch, ~transfer_cleanup,
         NEW n \in Int, AllSettled(n)
  PROVE  \A f \in 1..n : Settled(f)'
  BY SettledStays DEF AllSettled

\* What is saved is kept, until the next DOWNLOAD is counted.
LEMMA KeptStays ==
  ASSUME CardTyped, [Next]_vars, ~SendDone, NEW f \in Nat, Kept(f)
  PROVE  Kept(f)'
<1>1. CASE Through(f)
  BY <1>1, ThroughStays DEF Kept
<1>2. CASE f \in left /\ OtherStep
  BY <1>2, OtherSteps DEF Kept
<1>3. CASE f \in left /\ FileAcked
  BY <1>3 DEF Kept, Through, FileAcked
<1>4. CASE f \in left /\ (Prepare \/ Launch \/ transfer_cleanup)
  BY <1>4 DEF Kept, Prepare, Launch, transfer_cleanup
<1> QED
  BY <1>1, <1>2, <1>3, <1>4 DEF Kept, OtherStep

\* A transfer that leaves a file named but closed goes on no more.
NamedStopped ==
    current_file # 0 /\ ~transfer_file_open =>
        ~connected \/ cancel_requested \/ ~transfer_is_active

\* The open file is the one the index has just passed, and what is before it is
\* settled; between two files, so is all the index has passed.
IndexInv ==
    /\ t = "open" => current_file = 0
    /\ t \in {"send", "end"} => transfer_file_open
    /\ transfer_file_open => current_file # 0 /\ file_index = current_file
    /\ transfer_file_open => AllSettled(file_index - 1)
    /\ current_file = 0 => AllSettled(file_index)

CountInv ==
    /\ \A f \in 1..saved : Kept(f)
    /\ AllSettled(synced_files)
    /\ at = "filled" => synced_files = 0

SyncInv == NamedStopped /\ IndexInv /\ CountInv

\* What the steps of the proof below know of a step.
Before == Steady /\ TypeInv /\ FilesInv /\ SyncInv /\ [Next]_vars

LEMMA NamedStoppedStep == Before => NamedStopped'
<1> SUFFICES ASSUME Before PROVE NamedStopped'
  OBVIOUS
<1> USE DEF Before, SyncInv, NamedStopped, transfer_is_active
<1>1. CASE CardChange
  BY <1>1 DEF CardChange, SegmentClosed, SegmentCreated, RecordingStopped
<1>2. CASE LinkStep
  BY <1>2 DEF LinkStep, transfer_cancel, Disconnect, Reconnect, FilesInv, NoFileWhenIdle, Steady
<1>3. CASE AtStart
  BY <1>3 DEF AtStart, Download, TakeIdle, IdleTimeout, StartRefused, Prepare, SecondReadFails,
              Launch
<1>4. CASE AtCancelling
  BY <1>4 DEF AtCancelling, AtCancel, AtCancelFlag, AtCancelState
<1>5. CASE ThreadLook
  BY <1>5 DEF ThreadLook, Park, Wake, LookAgain, SeeCancel, SeeIdle, SeeDisconnected, SeeWork,
              Working, vars
<1>6. CASE Open
  <2>1. current_file = 0
    BY <1>6 DEF Open, IndexInv
  <2>2. cancel_requested' = cancel_requested /\ connected' = connected
    BY <1>6 DEF Open
  <2>3. \/ current_file' = 0 \/ transfer_file_open'
        \/ /\ \E n : OpenError(n)
           /\ ~connected \/ ~transfer_is_active \/ cancel_requested
    BY <1>6, <2>1 DEF Open, OpenNamed, OpenNormal, OpenContinuous, open_file, OpenFile,
                      DropEmptyFile, NoMoreFiles, SkipMissing, TooManyMissing, OpenError
  <2>4. (\E n : OpenError(n)) => state' \in {state, "ERROR"}
    BY DEF OpenError
  <2> QED
    BY <2>2, <2>3, <2>4
<1>7. CASE ThreadSend
  BY <1>7 DEF ThreadSend, SendFile, SendStopped, LinkLost, SendFails, FileAcked, SendDone,
              transfer_cleanup, Sending, IndexInv
<1>8. CASE UNCHANGED vars
  BY <1>8 DEF vars
<1> QED
  BY <1>1, <1>2, <1>3, <1>4, <1>5, <1>6, <1>7, <1>8, NextSplit

\* Opening a file moves the index only past what is settled.
LEMMA IndexOpen == Before /\ Open => IndexInv'
<1> SUFFICES ASSUME Before, Open PROVE IndexInv'
  OBVIOUS
<1>1. /\ CardTyped /\ [Next]_vars /\ current_file = 0 /\ file_index \in Nat
      /\ ~transfer_file_open /\ AllSettled(file_index) /\ NextFile = file_index + 1
      /\ recording' = recording /\ delivered' = delivered /\ recording \in BOOLEAN
      /\ ~continuous => ~recording
  BY DEF Before, TypeInv, TypeOK, FilesInv, SyncInv, IndexInv, Open, NextFile, NoFileWhenIdle,
         ModeFits, OldIsClosed, Baton, Starting, Running
<1>2. \A f \in 1..file_index : Settled(f)'
  <2>1. ~Prepare /\ ~Launch /\ ~transfer_cleanup
    BY DEF Open, Prepare, Launch, transfer_cleanup, Before, TypeInv, Baton, Starting, Running
  <2> QED
    BY <1>1, <2>1, AllSettledStays
<1>3. CASE OpenFile
  BY <1>1, <1>2, <1>3 DEF OpenFile, IndexInv, AllSettled
<1>4. CASE NoMoreFiles \/ DropEmptyFile
  BY <1>1, <1>2, <1>4 DEF NoMoreFiles, DropEmptyFile, IndexInv, AllSettled
<1>5. CASE (SkipMissing \/ TooManyMissing) /\ NotFound /\ ~recording
  <2>1. card' = card
    BY <1>5 DEF SkipMissing, TooManyMissing
  <2>2. PICK n \in Nat : n = NextFile
    BY <1>1
  <2>3. Settled(n)'
    BY <1>1, <1>5, <2>1, <2>2 DEF Settled, Through, NotFound, StatFinds, OnCard
  <2>4. \A f \in 1..n : Settled(f)'
    BY <1>1, <1>2, <2>2, <2>3
  <2> QED
    BY <1>1, <1>5, <2>2, <2>4 DEF SkipMissing, TooManyMissing, IndexInv, AllSettled
<1>6. CASE \E n \in {0, NextFile} : OpenError(n)
  BY <1>1, <1>2, <1>6 DEF OpenError, IndexInv, AllSettled
<1> QED
  BY <1>1, <1>3, <1>4, <1>5, <1>6 DEF Open, OpenNamed, OpenNormal, OpenContinuous, open_file

LEMMA IndexStep == Before => IndexInv'
<1> SUFFICES ASSUME Before PROVE IndexInv'
  OBVIOUS
<1>0. /\ CardTyped /\ [Next]_vars /\ Baton /\ file_index \in Nat /\ saved \in Nat
      /\ current_file \in Nat
  BY DEF Before, TypeInv, TypeOK, FilesInv
<1>1. ASSUME ~Prepare, ~Launch, ~transfer_cleanup
      PROVE  /\ transfer_file_open => \A f \in 1..(file_index - 1) : Settled(f)'
             /\ current_file = 0 => \A f \in 1..file_index : Settled(f)'
  BY <1>0, <1>1, AllSettledStays DEF Before, SyncInv, IndexInv
<1>2. /\ t = "open" => current_file = 0
      /\ t \in {"send", "end"} => transfer_file_open
      /\ transfer_file_open => current_file # 0 /\ file_index = current_file
      /\ NamedStopped
  BY DEF Before, SyncInv, IndexInv
<1>3. CASE /\ UNCHANGED <<t, file_index, current_file, transfer_file_open>>
           /\ ~Prepare /\ ~Launch /\ ~transfer_cleanup
  BY <1>1, <1>2, <1>3 DEF IndexInv, AllSettled
<1>4. CASE CardChange \/ LinkStep \/ AtCancelling \/ UNCHANGED vars
  <2>1. UNCHANGED <<t, file_index, current_file, transfer_file_open>>
    BY <1>4 DEF CardChange, SegmentClosed, SegmentCreated, RecordingStopped, LinkStep,
      transfer_cancel, Disconnect, Reconnect, AtCancelling, AtCancel, AtCancelFlag,
      AtCancelState, vars
  <2>2. ~Prepare /\ ~Launch /\ ~transfer_cleanup
    BY <1>4 DEF CardChange, SegmentClosed, SegmentCreated, RecordingStopped, LinkStep,
      transfer_cancel, Disconnect, Reconnect, AtCancelling, AtCancel, AtCancelFlag,
      AtCancelState, vars, Prepare, Launch, transfer_cleanup
  <2> QED
    BY <1>3, <2>1, <2>2
<1>5. CASE Prepare
  BY <1>0, <1>5 DEF Prepare, IndexInv, AllSettled, Baton, Starting, Running
<1>6. CASE Launch
  <2>1. RecordedCount \in Nat /\ RecordedCount > 0
    BY <1>0, <1>6, RecordedCountPositive DEF Launch, HasFiles, Before, TypeInv
  <2>2. file_index' \in Nat /\ file_index' < asked' /\ asked' \in Nat
    BY <2>1, <1>6, TransferAssumption DEF Launch
  <2>5. \A n, m \in Nat : n < m => 1..n \subseteq 1..(m - 1)
    OBVIOUS
  <2>6. 1..file_index' \subseteq 1..(asked' - 1)
    BY <2>2, <2>5
  <2>3. ASSUME NEW f \in 1..file_index' PROVE Settled(f)'
    <3>1. f \in Nat /\ f \in 1..(asked' - 1)
      BY <2>6
    <3>2. saved' = saved /\ left' = left /\ delivered' = delivered
      BY <1>6 DEF Launch
    <3>3. CASE f <= saved
      <4>1. Kept(f)
        BY <1>0, <3>1, <3>3 DEF Before, SyncInv, CountInv
      <4>2. CASE Through(f)
        BY <1>0, <3>1, <4>2, ThroughStays DEF Settled
      <4>3. CASE f \in left /\ f \notin delivered
        BY <3>1, <3>2, <4>3 DEF Settled, LeftOut
      <4> QED
        BY <4>1, <4>2, <4>3 DEF Kept, Through
    <3>4. CASE f > saved
      BY <3>1, <3>2, <3>4 DEF Settled, Through, LeftOut
    <3> QED
      BY <1>0, <3>1, <3>3, <3>4
  <2>4. t = "parked" /\ ~transfer_file_open
    BY <1>0, <1>6 DEF Launch, Baton, Starting, Running, Before, FilesInv, NoFileWhenIdle
  <2> QED
    BY <1>6, <2>3, <2>4 DEF Launch, IndexInv, AllSettled
<1>7. CASE AtStart /\ ~Prepare /\ ~Launch
  <2>1. UNCHANGED <<t, file_index, current_file, transfer_file_open>> /\ ~transfer_cleanup
    BY <1>7 DEF AtStart, Download, TakeIdle, IdleTimeout, StartRefused, SecondReadFails,
                transfer_cleanup, vars
  <2> QED
    BY <1>3, <1>7, <2>1
<1>16. at' = at => ~Prepare /\ ~Launch
  BY DEF Prepare, Launch
<1>8. CASE SeeWork
  <2>1. ~Prepare /\ ~Launch /\ ~transfer_cleanup
    BY <1>8, <1>16 DEF SeeWork, Working, transfer_cleanup
  <2> QED
    BY <1>1, <1>2, <1>8, <2>1 DEF SeeWork, Working, IndexInv, AllSettled, NamedStopped
<1>9. CASE SeeCancel
  <2>1. ~Prepare /\ ~Launch /\ ~transfer_cleanup
    BY <1>9, <1>16 DEF SeeCancel, transfer_cleanup
  <2> QED
    BY <1>1, <1>2, <1>9, <2>1 DEF SeeCancel, IndexInv, AllSettled
<1>10. CASE ThreadLook /\ ~SeeWork /\ ~SeeCancel
  <2>1. /\ UNCHANGED <<file_index, current_file, transfer_file_open>>
        /\ t' \notin {"open", "send", "end"}
    BY <1>10 DEF ThreadLook, Park, Wake, LookAgain, SeeIdle, SeeDisconnected, vars
  <2>2. ~Prepare /\ ~Launch /\ ~transfer_cleanup
    BY <1>10, <1>16 DEF ThreadLook, Park, Wake, LookAgain, SeeIdle, SeeDisconnected,
                        Working, transfer_cleanup, vars
  <2> QED
    BY <1>1, <1>2, <2>1, <2>2 DEF IndexInv, AllSettled
<1>11. CASE Open
  BY <1>11, IndexOpen
<1>12. CASE FileAcked
  <2>1. current_file' = 0 /\ file_index' = file_index /\ ~transfer_file_open' /\ t' = "top"
    BY <1>12 DEF FileAcked
  <2>2. transfer_file_open /\ file_index = current_file
    BY <1>2, <1>12 DEF FileAcked
  <2>3. Settled(file_index)'
    BY <1>12, <2>1, <2>2 DEF FileAcked, Settled, Through
  <2>5. ~Prepare /\ ~Launch /\ ~transfer_cleanup
    BY <1>12, <1>16 DEF FileAcked, transfer_cleanup
  <2>4. \A f \in 1..file_index : Settled(f)'
    BY <1>0, <1>1, <2>2, <2>1, <2>3, <2>5
  <2> QED
    BY <2>1, <2>4 DEF IndexInv, AllSettled
<1>13. CASE transfer_cleanup
  BY <1>13 DEF transfer_cleanup, IndexInv, AllSettled
<1>14. CASE SendFile \/ SendStopped \/ LinkLost \/ SendFails \/ SendDone
  <2>1. ~Prepare /\ ~Launch /\ ~transfer_cleanup
    BY <1>14, <1>16 DEF SendFile, SendStopped, LinkLost, SendFails, SendDone, transfer_cleanup
  <2>2. CASE SendFile
    BY <1>1, <1>2, <2>1, <2>2 DEF SendFile, IndexInv, AllSettled
  <2>3. CASE SendStopped \/ LinkLost \/ SendFails \/ SendDone
    BY <1>1, <1>2, <2>1, <2>3 DEF SendStopped, LinkLost, SendFails, SendDone, IndexInv,
                                  AllSettled
  <2> QED
    BY <1>14, <2>2, <2>3
<1> QED
  BY <1>0, <1>4, <1>5, <1>6, <1>7, <1>8, <1>9, <1>10, <1>11, <1>12, <1>13, <1>14,
     NextSplit DEF ThreadSend

LEMMA CountStep == Before => CountInv'
<1> SUFFICES ASSUME Before PROVE CountInv'
  OBVIOUS
<1>0. /\ CardTyped /\ [Next]_vars /\ Baton /\ saved \in Nat /\ synced_files \in Nat
      /\ file_index \in Nat
  BY DEF Before, TypeInv, TypeOK, FilesInv
<1>1. /\ \A f \in 1..saved : Kept(f)
      /\ AllSettled(synced_files)
      /\ at = "filled" => synced_files = 0
  BY DEF Before, SyncInv, CountInv
<1>2. ASSUME ~SendDone PROVE \A f \in 1..saved : Kept(f)'
  BY <1>0, <1>1, <1>2, KeptStays
<1>3. ASSUME ~Prepare, ~Launch, ~transfer_cleanup
      PROVE  \A f \in 1..synced_files : Settled(f)'
  BY <1>0, <1>1, <1>3, AllSettledStays
<1>4. CASE FileAcked
  <2>1. IndexInv'
    BY IndexStep
  <2>2. ~SendDone /\ saved' = saved /\ at' = at /\ at # "filled"
    BY <1>0, <1>4 DEF FileAcked, SendDone, Baton, Starting, Running
  <2> QED
    BY <1>2, <1>4, <2>1, <2>2 DEF FileAcked, IndexInv, CountInv, AllSettled
<1>5. CASE SendDone
  <2>1. ~Prepare /\ ~Launch /\ ~transfer_cleanup /\ synced_files' = synced_files /\ at' = at
    BY <1>5 DEF SendDone, Prepare, Launch, transfer_cleanup
  <2>2. AllSettled(synced_files)'
    BY <1>3, <2>1 DEF AllSettled
  <2>3. CASE UNCHANGED <<saved, left>>
    <3>1. \A f \in 1..saved : Kept(f)'
      BY <1>0, <1>1, <2>3, ThroughStays DEF Kept
    <3> QED
      BY <1>1, <2>1, <2>2, <2>3, <3>1 DEF CountInv
  <2>4. CASE saved' = synced_files /\ left' = LeftOut
    <3>1. \A f \in 1..synced_files : Kept(f)'
      BY <1>0, <1>1, <2>4, ThroughStays DEF Kept, AllSettled, Settled
    <3> QED
      BY <1>1, <2>1, <2>2, <2>4, <3>1 DEF CountInv
  <2> QED
    BY <1>5, <2>3, <2>4 DEF SendDone
<1>6. CASE Prepare \/ transfer_cleanup
  <2>1. ~SendDone /\ synced_files' = 0 /\ saved' = saved
    BY <1>6 DEF Prepare, transfer_cleanup, SendDone
  <2> QED
    BY <1>2, <2>1 DEF CountInv, AllSettled
<1>7. CASE Launch
  <2>1. ~SendDone /\ synced_files' = 0 /\ saved' = saved
    BY <1>1, <1>7 DEF Launch, SendDone
  <2> QED
    BY <1>2, <2>1 DEF CountInv, AllSettled
<1>8. CASE OtherStep
  <2>1. saved' = saved /\ synced_files' = synced_files
    BY <1>0, <1>8, OtherSteps
  <2>2. at' = "filled" => at = "filled"
    BY <1>0, <1>8, NextSplit DEF OtherStep, CardChange, SegmentClosed, SegmentCreated,
      RecordingStopped, LinkStep, transfer_cancel, Disconnect, Reconnect, AtStart, Download,
      TakeIdle, IdleTimeout, StartRefused, SecondReadFails, AtCancelling, AtCancel,
      AtCancelFlag, AtCancelState, ThreadLook, Park, Wake, LookAgain, SeeCancel, SeeIdle,
      SeeDisconnected, SeeWork, Open, ThreadSend, SendFile, SendStopped, LinkLost,
      SendFails, vars
  <2> QED
    BY <1>1, <1>2, <1>3, <1>8, <2>1, <2>2 DEF CountInv, AllSettled, OtherStep
<1> QED
  BY <1>4, <1>5, <1>6, <1>7, <1>8 DEF OtherStep

\* Whatever is counted as synced in session.json has reached a client, is not on the
\* card, or is a file the clients chose to leave out or the card did not show
\* (transfer_resume_from, transfer_next_file, transfer_set_synced_files).
THEOREM SyncedAlwaysDelivered ==
  ASSUME Steady
  PROVE  Spec => []SyncedDelivered
<1> DEFINE Inv == TypeInv /\ FilesInv /\ SyncInv
<1>1. Init => Inv
  <2> SUFFICES ASSUME Init PROVE Inv
    OBVIOUS
  <2>1. TypeInv
    BY TypeInvInit
  <2>2. FilesInv
    BY FilesInit
  <2>3. SyncInv
    BY DEF Init, SyncInv, NamedStopped, IndexInv, CountInv, AllSettled
  <2> QED
    BY <2>1, <2>2, <2>3
<1>2. Inv /\ [Next]_vars => Inv'
  <2> SUFFICES ASSUME Inv, [Next]_vars PROVE Inv'
    OBVIOUS
  <2>1. Before
    BY DEF Before
  <2>2. TypeInv'
    BY TypeInvStep
  <2>3. FilesInv'
    BY FilesStep DEF TypeInv
  <2>4. SyncInv'
    BY <2>1, NamedStoppedStep, IndexStep, CountStep DEF SyncInv
  <2> QED
    BY <2>2, <2>3, <2>4
<1>3. Inv => SyncedDelivered
  BY DEF SyncInv, CountInv, Kept, Through, SyncedDelivered
<1> QED
  BY <1>1, <1>2, <1>3, PTL DEF Spec
----------------------------------------------------------------------------
(* What a completed transfer has sent. *)

\* The number of files is known, unless the session was read a second time and
\* could not be; an old session has too few files to be cut short then.
Counted == "rereadOld" \notin Faults \/ NFiles <= MissingLimit

\* The total of an old session is all of it, once the transfer has been launched.
TotalKnown ==
    /\ ~latest => total_files \in {0, NFiles}
    /\ "rereadOld" \notin Faults /\ ~latest
       /\ ((transfer_is_active /\ at # "filled") \/ t = "open") => total_files = NFiles
    /\ continuous => latest

\* The files of the session that is being recorded have no gap, and are not empty.
NoGap ==
    latest => \A f \in 1..NFiles :
        /\ card[f] # "empty"
        /\ card[f] = "absent" => \A g \in f..NFiles : card[g] = "absent"

LEMMA TotalStep == Baton /\ NoFileWhenIdle /\ TotalKnown /\ [Next]_vars => TotalKnown'
<1> SUFFICES ASSUME Baton, NoFileWhenIdle, TotalKnown, [Next]_vars PROVE TotalKnown'
  OBVIOUS
<1> USE DEF TotalKnown, transfer_is_active, Baton, Idle, Triggered, Starting, Running
<1>1. CASE CardChange
  BY <1>1 DEF CardChange, SegmentClosed, SegmentCreated, RecordingStopped
<1>2. CASE LinkStep
  BY <1>2 DEF LinkStep, transfer_cancel, Disconnect, Reconnect
<1>3. CASE AtStart
  <2>1. CASE Prepare
    BY <2>1 DEF Prepare
  <2>2. CASE Launch
    <3>1. ~latest => RecordedCount = NFiles
      BY DEF RecordedCount
    <3>2. /\ ~latest => total_files' = NFiles
          /\ continuous' = latest /\ latest' = latest /\ t' = t
      BY <2>2, <3>1 DEF Launch
    <3> QED
      BY <3>2
  <2>3. CASE SecondReadFails
    BY <2>3 DEF SecondReadFails
  <2>4. CASE Download \/ TakeIdle \/ IdleTimeout \/ StartRefused
    BY <2>4 DEF Download, TakeIdle, IdleTimeout, StartRefused
  <2> QED
    BY <1>3, <2>1, <2>2, <2>3, <2>4 DEF AtStart
<1>4. CASE AtCancelling
  BY <1>4 DEF AtCancelling, AtCancel, AtCancelFlag, AtCancelState
<1>5. CASE ThreadLook
  BY <1>5 DEF ThreadLook, Park, Wake, LookAgain, SeeCancel, SeeIdle, SeeDisconnected, SeeWork,
              Working, vars
<1>6. CASE Open
  <2>1. t' # "open"
    BY <1>6 DEF Open, OpenNamed, OpenNormal, OpenContinuous, open_file, OpenFile, DropEmptyFile,
                NoMoreFiles, SkipMissing, TooManyMissing, OpenError
  <2> QED
    BY <1>6, <2>1 DEF Open
<1>7. CASE ThreadSend
  BY <1>7 DEF ThreadSend, SendFile, SendStopped, LinkLost, SendFails, FileAcked, SendDone,
              transfer_cleanup, Sending
<1>8. CASE UNCHANGED vars
  BY <1>8 DEF vars
<1> QED
  BY <1>1, <1>2, <1>3, <1>4, <1>5, <1>6, <1>7, <1>8, NextSplit

LEMMA NoGapStep == CardTyped /\ NoGap /\ [Next]_vars => NoGap'
<1> SUFFICES ASSUME CardTyped, NoGap, [Next]_vars PROVE NoGap'
  OBVIOUS
<1> USE DEF NoGap, CardTyped, Contents
<1>1. CASE SegmentClosed
  <2>1. PICK f \in 1..NFiles : card[f] = "writing" /\ card' = [card EXCEPT ![f] = "closed"]
    BY <1>1 DEF SegmentClosed
  <2> QED
    BY <1>1, <2>1 DEF SegmentClosed
<1>2. CASE SegmentCreated
  <2>1. PICK f \in 1..NFiles :
            /\ card[f] = "absent" /\ \A g \in 1..(f - 1) : card[g] # "absent"
            /\ card' = [card EXCEPT ![f] = "writing"]
    BY <1>2 DEF SegmentCreated
  <2>2. ASSUME latest, NEW g \in 1..NFiles, card'[g] = "absent", NEW h \in g..NFiles
        PROVE  card'[h] = "absent"
    <3>1. g > f /\ card[g] = "absent"
      BY <2>1, <2>2, TransferAssumption
    <3>2. h # f /\ h \in 1..NFiles
      BY <3>1, <2>2, TransferAssumption
    <3> QED
      BY <2>1, <2>2, <3>1, <3>2
  <2>3. latest' = latest
    BY <1>2 DEF SegmentCreated
  <2> QED
    BY <2>1, <2>2, <2>3
<1>3. CASE Open
  <2>1. latest' = latest
    BY <1>3 DEF Open
  <2>2. CASE card' = card
    BY <2>1, <2>2
  <2>3. CASE DropsEmpty
    BY <2>1, <2>3 DEF DropsEmpty, OnCard
  <2> QED
    BY <1>3, <2>2, <2>3, OpenCard
<1>4. CASE RecordingStopped
  BY <1>4 DEF RecordingStopped
<1>5. CASE LinkStep \/ AtStart \/ AtCancelling \/ ThreadLook \/ ThreadSend
  BY <1>5, CardKept
<1>6. CASE UNCHANGED vars
  BY <1>6 DEF vars
<1> QED
  BY <1>1, <1>2, <1>3, <1>4, <1>5, <1>6, NextSplit DEF CardChange

\* Only the opening of the next file completes a transfer.
LEMMA CompletedByOpen ==
  ASSUME Next, state # "COMPLETED", state' = "COMPLETED"
  PROVE  Open
<1> USE DEF transfer_is_active
<1>1. ~CardChange
  BY DEF CardChange, SegmentClosed, SegmentCreated, RecordingStopped
<1>2. ~LinkStep
  BY DEF LinkStep, transfer_cancel, Disconnect, Reconnect
<1>3. ~AtStart
  BY DEF AtStart, Download, TakeIdle, IdleTimeout, StartRefused, Prepare, SecondReadFails,
         Launch
<1>4. ~AtCancelling
  BY DEF AtCancelling, AtCancel, AtCancelFlag, AtCancelState
<1>5. ~ThreadLook
  BY DEF ThreadLook, Park, Wake, LookAgain, SeeCancel, SeeIdle, SeeDisconnected, SeeWork, vars
<1>6. ~ThreadSend
  BY DEF ThreadSend, SendFile, SendStopped, LinkLost, SendFails, FileAcked, SendDone,
         transfer_cleanup
<1> QED
  BY <1>1, <1>2, <1>3, <1>4, <1>5, <1>6, NextSplit

\* What has ended the transfer: there are no more files, as far as is known.
NoMoreNormal == PastTheEnd \/ (total_files = 0 /\ NextFile > MissingLimit)
NoMoreContinuous == continuous /\ OnCard(NextFile) = "absent"

LEMMA CompletedResults ==
  ASSUME CardTyped, Open, current_file = 0, state # "COMPLETED", state' = "COMPLETED"
  PROVE  \/ OnCard(NextFile) = "empty" \/ NextFile \in unseen'
         \/ (~continuous /\ NoMoreNormal) \/ NoMoreContinuous
<1> USE DEF NoMoreNormal, NoMoreContinuous
<1>1. ~\E n : OpenError(n)
  BY DEF OpenError
<1>2. ~OpenFile /\ ~SkipMissing
  BY DEF OpenFile, SkipMissing
<1>3. NotFound => OnCard(NextFile) = "absent" \/ NextFile \in unseen'
  BY DEF NotFound, StatFinds
<1>4. open_file => OnCard(NextFile) \in {"absent", "empty"} \/ NextFile \in unseen'
  BY <1>1, <1>2, <1>3 DEF open_file
<1>5. CASE OpenNormal
  BY <1>2, <1>4, <1>5 DEF OpenNormal, StatFinds
<1>6. CASE OpenContinuous
  BY <1>1, <1>2, <1>3, <1>4, <1>6 DEF OpenContinuous
<1> QED
  BY <1>5, <1>6 DEF Open, OpenNamed

\* Then everything that is closed has been delivered, or was left out: what the
\* index has passed is settled, and what it has not passed is not on the card, or
\* comes after a file the card did not show.
LEMMA CompletedHasAll ==
  ASSUME Counted, Before, TotalKnown, NoGap, Open, state # "COMPLETED", state' = "COMPLETED",
         OnCard(NextFile) # "empty",
         NEW f \in 1..NFiles, card[f] = "closed", ~\E g \in unseen' : g <= f
  PROVE  f \in delivered \cup LeftOut
<1>1. /\ CardTyped /\ current_file = 0 /\ file_index \in Nat /\ AllSettled(file_index)
      /\ NextFile = file_index + 1 /\ t = "open" /\ at # "filled" /\ state # "IDLE"
      /\ total_files \in Nat /\ (continuous \/ ~latest)
  BY DEF Before, TypeInv, TypeOK, FilesInv, SyncInv, IndexInv, Open, NextFile, NoFileWhenIdle,
         ModeFits, Baton, Starting, Running
<1>3. CASE f <= file_index
  <2>1. f \notin unseen
    BY OpenUnseen
  <2> QED
    BY <1>1, <1>3, <2>1 DEF AllSettled, Settled, Through, OnCard
<1>4. CASE NextFile <= f
  <2>1. NextFile \in 1..NFiles /\ f \in NextFile..NFiles
    BY <1>1, <1>4, TransferAssumption
  <2>4. (~continuous /\ NoMoreNormal) \/ NoMoreContinuous
    BY <1>1, <1>4, CompletedResults
  <2>2. CASE NoMoreContinuous
    <3>1. latest /\ card[NextFile] = "absent"
      BY <2>1, <2>2 DEF NoMoreContinuous, TotalKnown, OnCard
    <3> QED
      BY <2>1, <3>1 DEF NoGap
  <2>3. CASE ~continuous /\ NoMoreNormal
    <3>1. ~latest /\ total_files \in {0, NFiles}
      BY <1>1, <2>3 DEF TotalKnown
    <3>2. NextFile <= NFiles /\ NextFile \in Nat
      BY <2>1
    <3>3. ~PastTheEnd
      BY <3>1, <3>2, TransferAssumption DEF PastTheEnd
    <3>4. total_files = 0 /\ NextFile > MissingLimit
      BY <2>3, <3>3 DEF NoMoreNormal
    <3>5. "rereadOld" \notin Faults
      BY <3>2, <3>4, TransferAssumption DEF Counted
    <3>6. total_files = NFiles
      BY <1>1, <3>1, <3>5 DEF TotalKnown
    <3> QED
      BY <3>4, <3>6, TransferAssumption
  <2> QED
    BY <2>2, <2>3, <2>4
<1> QED
  BY <1>1, <1>3, <1>4

\* A transfer that completes, rather than fails or is cancelled, has delivered
\* every closed file of its session that the client asked for and the card showed,
\* or has met an empty file (transfer_next_file, transfer_start,
\* transfer_resume_from): for sessions of every size, read a second time without an
\* error or not longer than the files tried without a known total.
THEOREM CompletedAlwaysMeansDelivered ==
  ASSUME Steady, Counted
  PROVE  Spec => CompletedMeansDelivered
<1> DEFINE Inv == TypeInv /\ FilesInv /\ SyncInv /\ TotalKnown /\ NoGap
<1>1. Init => Inv
  <2> SUFFICES ASSUME Init PROVE Inv
    OBVIOUS
  <2>1. SyncInv
    BY DEF Init, SyncInv, NamedStopped, IndexInv, CountInv, AllSettled
  <2>2. TotalKnown
    BY DEF Init, TotalKnown, transfer_is_active
  <2>3. NoGap
    BY TransferAssumption DEF Init, InitialCard, NoGap
  <2> QED
    BY <2>1, <2>2, <2>3, TypeInvInit, FilesInit
<1>2. Inv /\ [Next]_vars => Inv'
  <2> SUFFICES ASSUME Inv, [Next]_vars PROVE Inv'
    OBVIOUS
  <2>1. Before
    BY DEF Before
  <2>2. TypeInv'
    BY TypeInvStep
  <2>3. FilesInv'
    BY FilesStep DEF TypeInv
  <2>4. SyncInv'
    BY <2>1, NamedStoppedStep, IndexStep, CountStep DEF SyncInv
  <2>5. TotalKnown'
    BY TotalStep DEF TypeInv, FilesInv
  <2>6. NoGap'
    BY NoGapStep DEF FilesInv
  <2> QED
    BY <2>2, <2>3, <2>4, <2>5, <2>6
<1>3. Inv /\ [Next]_vars => [state # "COMPLETED" /\ state' = "COMPLETED" =>
          \/ \A f \in 1..NFiles : card[f] = "closed" =>
                \/ f \in delivered \cup LeftOut
                \/ \E g \in unseen' : g <= f
          \/ OnCard(NextFile) = "empty"]_vars
  <2> SUFFICES ASSUME Inv, Next, state # "COMPLETED", state' = "COMPLETED",
                      OnCard(NextFile) # "empty",
                      NEW f \in 1..NFiles, card[f] = "closed", ~\E g \in unseen' : g <= f
               PROVE  f \in delivered \cup LeftOut
    BY DEF vars
  <2>1. Before
    BY DEF Before
  <2>2. Open
    BY CompletedByOpen
  <2> QED
    BY <2>1, <2>2, CompletedHasAll
<1> QED
  BY <1>1, <1>2, <1>3, PTL DEF Spec, CompletedMeansDelivered
=============================================================================
