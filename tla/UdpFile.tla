------------------------------- MODULE UdpFile -------------------------------
(***************************************************************************)
(* The exchange of the files of one download over Wi-Fi: the device's side *)
(* (transport_udp.c and the retransmissions of transfer.c), a network that *)
(* keeps the order but may lose datagrams, and the receiver of the Python  *)
(* SDK (sdk/src/clip/transfer.py).                                         *)
(*                                                                         *)
(* A file is NFrames DATA frames; a CRC over frames is the set of them, as *)
(* the order is kept.  A frame with a wrong CRC of its own is one that is  *)
(* lost.  While it downloads the SDK's client sends nothing but FILE_ACKs   *)
(* (a client with periodic heartbeats could make a reset transport active  *)
(* at other times, too).  Cancels are module Transfer's subject.           *)
(***************************************************************************)
EXTENDS Integers, Sequences, FiniteSets

CONSTANTS
    NFiles, NFrames,
    SeqModulo,      \* UDP_SEQ_MODULO (4096)
    MaxRetries,     \* TRANSFER_MAX_FILE_RETRIES (10)
    FileEndRetries, \* FILE_END_RETRIES (3)
    Faults          \* the failures a run allows

\* The failures the protocol is made for, and the others.
Recoverable == {"dataLoss", "endLoss", "sendError"}
FaultNames == Recoverable \cup
    {"startLoss", "ackLoss", "doneLoss", "early", "delay", "slow", "reassociate"}

ASSUME UdpAssumption ==
    /\ NFiles \in Nat \ {0} /\ NFrames \in Nat \ {0} /\ SeqModulo \in Nat \ {0}
    /\ MaxRetries \in Nat /\ FileEndRetries \in Nat \ {0}
    /\ Faults \subseteq FaultNames

VARIABLES
    tx,               \* where the transfer thread is
    file, frame,      \* the file it sends, the next frame to read
    next_seq, current_file_crc,
    file_retry, retry,
    file_ack_result, file_ack_sem,
    udp_ready,
    synced_files,
    down, up,         \* datagrams under way to the client, and from it
    rx,               \* the receiver: "idle", "open", "done" or "failed"
    name, got,        \* the file that is open and the frames written to it
    expected_sequence, file_invalid,
    saved,            \* file -> the frames at its final path
    clean             \* only recoverable failures so far

txVars   == <<file, frame, next_seq, current_file_crc>>
ackVars  == <<file_ack_result, file_ack_sem>>
tryVars  == <<file_retry, retry>>
rxVars   == <<rx, name, got, expected_sequence, file_invalid, saved>>
vars == <<tx, txVars, tryVars, ackVars, udp_ready, synced_files, down, up, rxVars, clean>>

Payload(f) == {f} \X (1..NFrames)

Init ==
    /\ tx = "start" /\ file = 1 /\ frame = 1
    /\ next_seq = 0 /\ current_file_crc = {}
    /\ file_retry = 0 /\ retry = 0
    /\ file_ack_result = "none" /\ file_ack_sem = 0
    /\ udp_ready = TRUE /\ synced_files = 0
    /\ down = <<>> /\ up = <<>>
    /\ rx = "idle" /\ name = 0 /\ got = {} /\ expected_sequence = 0
    /\ file_invalid = FALSE
    /\ saved = [f \in 1..NFiles |-> {}]
    /\ clean = TRUE

----------------------------------------------------------------------------
(* The device. *)

\* raw_sendto: the datagram is under way, or lost by a failure of kind "loss".
Sent(d, loss) ==
    \/ down' = Append(down, d) /\ UNCHANGED clean
    \/ /\ loss \in Faults
       /\ clean' = (clean /\ loss \in Recoverable)
       /\ UNCHANGED down

\* FILE_START.  Its result is not looked at: with the link down, it is not sent.
SendFileStart ==
    /\ tx = "start"
    /\ frame' = 1
    /\ IF udp_ready
       THEN /\ next_seq' = 0 /\ current_file_crc' = {}
            /\ file_ack_result' = "none" /\ file_ack_sem' = 0
            /\ Sent([type |-> "FILE_START", file |-> file], "startLoss")
       ELSE UNCHANGED <<next_seq, current_file_crc, ackVars, down, clean>>
    /\ tx' = "data"
    /\ UNCHANGED <<file, tryVars, udp_ready, synced_files, up, rxVars>>

DataFrame == [type |-> "DATA", seq |-> next_seq, payload |-> <<file, frame>>]
NextSeq == (next_seq + 1) % SeqModulo

\* One frame; one that cannot be sent is left out of the CRC, not of the
\* sequence.
SendData ==
    /\ tx = "data" /\ frame <= NFrames /\ udp_ready
    /\ frame' = frame + 1
    /\ next_seq' = NextSeq
    /\ \/ /\ Sent(DataFrame, "dataLoss")
          /\ current_file_crc' = current_file_crc \cup {DataFrame.payload}
       \/ /\ "sendError" \in Faults
          /\ UNCHANGED <<current_file_crc, down, clean>>
    /\ UNCHANGED <<tx, file, tryVars, ackVars, udp_ready, synced_files, up, rxVars>>

EndOfFile ==
    /\ tx = "data" /\ frame > NFrames
    /\ tx' = "end" /\ retry' = 0
    /\ UNCHANGED <<txVars, file_retry, ackVars, udp_ready, synced_files, down, up, rxVars, clean>>

\* FILE_END is sent, and only then the result of an earlier wait is forgotten.
SendFileEnd ==
    /\ tx = "end" /\ retry < FileEndRetries /\ udp_ready
    /\ retry' = retry + 1
    /\ \/ /\ Sent([type |-> "FILE_END", crc |-> current_file_crc], "endLoss")
          /\ tx' = "reset"
       \/ /\ "sendError" \in Faults
          /\ UNCHANGED <<tx, down, clean>>
    /\ UNCHANGED <<txVars, file_retry, ackVars, udp_ready, synced_files, up, rxVars>>

ResetAck ==
    /\ tx = "reset"
    /\ file_ack_result' = "none" /\ file_ack_sem' = 0
    /\ tx' = "await"
    /\ UNCHANGED <<txVars, tryVars, udp_ready, synced_files, down, up, rxVars, clean>>

\* TRANSFER_DONE, with the files counted; then the thread is idle.
Finish(count) ==
    /\ tx' = "stopped"
    /\ synced_files' = count
    /\ IF udp_ready THEN Sent([type |-> "TRANSFER_DONE", count |-> count], "doneLoss")
                    ELSE UNCHANGED <<down, clean>>

\* The file is counted, and the next one begins.
FileAcked ==
    /\ tx = "await" /\ file_ack_sem = 1 /\ file_ack_result = "ok"
    /\ file_ack_sem' = 0
    /\ IF file = NFiles
       THEN Finish(file) /\ UNCHANGED file
       ELSE /\ tx' = "start" /\ file' = file + 1 /\ synced_files' = file
            /\ UNCHANGED <<down, clean>>
    /\ file_retry' = 0
    /\ UNCHANGED <<frame, next_seq, current_file_crc, retry, file_ack_result, udp_ready, up, rxVars>>

\* A NACK, or the transport was reset: the whole file again, MaxRetries times.
\* Mutant: the retransmissions are not counted.
FileNacked_NotCounted ==
    /\ tx = "await" /\ file_ack_sem = 1 /\ file_ack_result # "ok"
    /\ file_ack_sem' = 0
    /\ tx' = "start"
    /\ UNCHANGED <<txVars, tryVars, file_ack_result, udp_ready, up, rxVars, synced_files,
                   down, clean>>

FileNacked ==
    /\ tx = "await" /\ file_ack_sem = 1 /\ file_ack_result # "ok"
    /\ file_ack_sem' = 0
    /\ IF file_retry < MaxRetries
       THEN /\ tx' = "start" /\ file_retry' = file_retry + 1
            /\ UNCHANGED <<synced_files, down, clean>>
       ELSE Finish(synced_files) /\ UNCHANGED file_retry
    /\ UNCHANGED <<txVars, retry, file_ack_result, udp_ready, up, rxVars>>

\* Nothing is on its way any more: FILE_END or the answer was lost.  With
\* "delay" the wait may also end while they still are.
AckTimeout ==
    /\ tx = "await" /\ file_ack_sem = 0
    /\ \/ down = <<>> /\ up = <<>> /\ UNCHANGED clean
       \/ /\ "delay" \in Faults /\ (down # <<>> \/ up # <<>>)
          /\ clean' = FALSE
    /\ tx' = "end"
    /\ UNCHANGED <<txVars, tryVars, ackVars, udp_ready, synced_files, down, up, rxVars>>

\* FILE_END was sent FileEndRetries times without an answer, or the link is down.
\* Mutant: silence is taken for an acknowledgement.
SendFails_AsAcked ==
    /\ \/ tx = "end" /\ (retry = FileEndRetries \/ ~udp_ready)
       \/ tx = "data" /\ frame <= NFrames /\ ~udp_ready
    /\ Finish(file)
    /\ UNCHANGED <<txVars, tryVars, ackVars, udp_ready, up, rxVars>>

SendFails ==
    /\ \/ tx = "end" /\ (retry = FileEndRetries \/ ~udp_ready)
       \/ tx = "data" /\ frame <= NFrames /\ ~udp_ready
    /\ Finish(synced_files)
    /\ UNCHANGED <<txVars, tryVars, ackVars, udp_ready, up, rxVars>>

\* The UDP server thread: any datagram makes the transport active; a FILE_ACK
\* wakes the transfer thread.  Only with "early" does the answer come before
\* the thread that asked has begun to wait.
NotifyFileAck ==
    /\ up # <<>>
    /\ \/ tx # "reset" /\ UNCHANGED clean
       \/ tx = "reset" /\ "early" \in Faults /\ clean' = FALSE
    /\ file_ack_result' = Head(up) /\ file_ack_sem' = 1
    /\ up' = Tail(up)
    /\ udp_ready' = TRUE
    /\ UNCHANGED <<tx, txVars, tryVars, synced_files, down, rxVars>>

\* wifi.c: the station has associated anew; transport_udp_update_active(FALSE).
Reassociate ==
    /\ "reassociate" \in Faults /\ udp_ready /\ tx # "stopped"
    /\ udp_ready' = FALSE
    /\ next_seq' = 0 /\ current_file_crc' = {}
    /\ file_ack_result' = "none" /\ file_ack_sem' = 1
    /\ clean' = FALSE
    /\ UNCHANGED <<tx, file, frame, tryVars, synced_files, down, up, rxVars>>

----------------------------------------------------------------------------
(* The receiver of the SDK. *)

\* feed: a frame is looked at while the receiver is neither done nor failed.
Receive(type) ==
    /\ down # <<>> /\ rx \in {"idle", "open"} /\ Head(down).type = type
    /\ down' = Tail(down)
    /\ UNCHANGED <<tx, txVars, tryVars, ackVars, udp_ready, synced_files>>

Ignored ==
    /\ down # <<>> /\ rx \in {"done", "failed"}
    /\ down' = Tail(down)
    /\ UNCHANGED <<tx, txVars, tryVars, ackVars, udp_ready, synced_files, up, rxVars, clean>>

\* A frame the receiver does not expect is the end of its download.
Unexpected ==
    /\ rx' = "failed" /\ got' = {} /\ name' = 0
    /\ UNCHANGED <<expected_sequence, file_invalid, saved, up, clean>>

OnFileStart ==
    /\ Receive("FILE_START")
    /\ \/ rx = "open" /\ Unexpected
       \/ /\ rx = "idle"
          /\ rx' = "open" /\ name' = Head(down).file
          /\ got' = {} /\ expected_sequence' = 0 /\ file_invalid' = FALSE
          /\ UNCHANGED <<saved, up, clean>>

OnData ==
    /\ Receive("DATA")
    /\ \/ rx = "idle" /\ Unexpected
       \/ /\ rx = "open"
          /\ file_invalid' = (file_invalid \/ Head(down).seq # expected_sequence)
          /\ expected_sequence' = (Head(down).seq + 1) % SeqModulo
          /\ got' = got \cup {Head(down).payload}
          /\ UNCHANGED <<rx, name, saved, up, clean>>

\* No gap, the announced size and the CRC of FILE_END.  Mutant: the size is not
\* compared.
Complete_NoSize(crc) == ~file_invalid /\ got = crc

Complete(crc) == ~file_invalid /\ Cardinality(got) = NFrames /\ got = crc

\* send_file_ack, a datagram that may be lost.
Answer(result) ==
    \/ up' = Append(up, result) /\ UNCHANGED clean
    \/ "ackLoss" \in Faults /\ clean' = FALSE /\ UNCHANGED up

\* Mutant: the part file of a refused file stays open.
OnFileEnd_KeepsOpen ==
    /\ Receive("FILE_END")
    /\ \/ rx = "idle" /\ Unexpected
       \/ /\ rx = "open"
          /\ IF Complete(Head(down).crc)
             THEN /\ saved' = [saved EXCEPT ![name] = got] /\ Answer("ok")
                  /\ rx' = "idle" /\ name' = 0 /\ got' = {}
             ELSE /\ Answer("nack") /\ UNCHANGED <<rx, name, got, saved>>
          /\ UNCHANGED <<expected_sequence, file_invalid>>

OnFileEnd ==
    /\ Receive("FILE_END")
    /\ \/ rx = "idle" /\ Unexpected
       \/ /\ rx = "open"
          /\ IF Complete(Head(down).crc)
             THEN saved' = [saved EXCEPT ![name] = got] /\ Answer("ok")
             ELSE UNCHANGED saved /\ Answer("nack")
          /\ rx' = "idle" /\ name' = 0 /\ got' = {}
          /\ UNCHANGED <<expected_sequence, file_invalid>>

OnTransferDone ==
    /\ Receive("TRANSFER_DONE")
    /\ \/ rx = "open" /\ Unexpected
       \/ /\ rx = "idle" /\ rx' = "done"
          /\ UNCHANGED <<name, got, expected_sequence, file_invalid, saved, up, clean>>

\* wait: the whole download has a time limit.  Without "slow" it is reached only
\* when no TRANSFER_DONE will come.
ClientTimesOut ==
    /\ rx \in {"idle", "open"}
    /\ \/ tx = "stopped" /\ down = <<>> /\ UNCHANGED clean
       \/ "slow" \in Faults /\ clean' = FALSE
    /\ rx' = "failed" /\ got' = {} /\ name' = 0
    /\ UNCHANGED <<tx, txVars, tryVars, ackVars, udp_ready, synced_files, down, up,
                   expected_sequence, file_invalid, saved>>

----------------------------------------------------------------------------
TransferThread ==
    \/ SendFileStart \/ SendData \/ EndOfFile \/ SendFileEnd \/ ResetAck
    \/ FileAcked \/ FileNacked \/ AckTimeout \/ SendFails

Receiver ==
    \/ OnFileStart \/ OnData \/ OnFileEnd \/ OnTransferDone \/ Ignored \/ ClientTimesOut

\* Both sides have come to rest.
Over ==
    /\ tx = "stopped" /\ rx \in {"done", "failed"} /\ down = <<>> /\ up = <<>>
    /\ UNCHANGED vars

Next == TransferThread \/ NotifyFileAck \/ Reassociate \/ Receiver \/ Over

\* The threads run, and what is under way arrives.
Fairness == WF_vars(TransferThread) /\ WF_vars(NotifyFileAck) /\ WF_vars(Receiver)

Spec == Init /\ [][Next]_vars
FairSpec == Spec /\ Fairness

----------------------------------------------------------------------------
(* Properties. *)

AllPayload == (1..NFiles) \X (1..NFrames)

Datagrams ==
    [type : {"FILE_START"}, file : 1..NFiles]
    \cup [type : {"DATA"}, seq : 0..(SeqModulo - 1), payload : AllPayload]
    \cup [type : {"FILE_END"}, crc : SUBSET AllPayload]
    \cup [type : {"TRANSFER_DONE"}, count : 0..NFiles]

\* The variables keep their types; the sequence number stays in 12 bits.
TypeOK ==
    /\ tx \in {"start", "data", "end", "reset", "await", "stopped"}
    /\ file \in 1..NFiles /\ frame \in 1..(NFrames + 1)
    /\ next_seq \in 0..(SeqModulo - 1) /\ current_file_crc \subseteq AllPayload
    /\ file_retry \in 0..MaxRetries /\ retry \in 0..FileEndRetries
    /\ file_ack_result \in {"none", "ok", "nack"} /\ file_ack_sem \in {0, 1}
    /\ udp_ready \in BOOLEAN /\ synced_files \in 0..NFiles
    /\ down \in Seq(Datagrams) /\ up \in Seq({"ok", "nack"})
    /\ rx \in {"idle", "open", "done", "failed"}
    /\ name \in 0..NFiles /\ got \subseteq AllPayload
    /\ expected_sequence \in 0..(SeqModulo - 1) /\ file_invalid \in BOOLEAN
    /\ saved \in [1..NFiles -> SUBSET AllPayload]
    /\ clean \in BOOLEAN

\* A file at its final path is whole and its own, whatever was lost, skipped or
\* sent twice on the way (FileReceiver: "never exposed at its final path until
\* the total byte count and FILE_END CRC32 both match").
SavedIntact == \A f \in 1..NFiles : saved[f] \in {{}, Payload(f)}

\* Lost DATA, a lost FILE_END and frames the device could not send do not end
\* the client's download, unless the device has used up its attempts.
DataLossRecovered ==
    rx = "failed" /\ clean => tx = "stopped" /\ synced_files < NFiles

\* Every download comes to an end on the device: retransmissions and repeated
\* FILE_ENDs are bounded.
SendEnds == <>(tx = "stopped")

\* The exchange delivers: files whole and in order, counted only when delivered.
Delivery == INSTANCE FileDelivery WITH
    delivered <- { f \in 1..NFiles : saved[f] = Payload(f) },
    counted   <- synced_files,
    status    <- IF synced_files = NFiles THEN "complete"
                 ELSE IF tx = "stopped" THEN "failed" ELSE "running"
FilesDelivered == Delivery!Spec

\* A lost FILE_ACK does not end the client's download (docs/udp_protocol.md:236:
\* the server times out and retries FILE_END).
AckLossRecovered == rx = "failed" => tx = "stopped" /\ synced_files < NFiles
=============================================================================
