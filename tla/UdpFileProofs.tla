---------------------------- MODULE UdpFileProofs ----------------------------
(***************************************************************************)
(* The safety properties of UdpFile, for any number of files and frames,   *)
(* any limits and any failures of the network.                             *)
(***************************************************************************)
EXTENDS UdpFile, FiniteSetTheorems, TLAPS

----------------------------------------------------------------------------
(* The datagrams under way. *)

LEMMA PopDown ==
    ASSUME NEW S, NEW s \in Seq(S), s # <<>>
    PROVE  /\ Len(s) \in Nat /\ Len(s) >= 1 /\ Head(s) = s[1] /\ Head(s) \in S
           /\ Tail(s) \in Seq(S) /\ Len(Tail(s)) = Len(s) - 1
           /\ \A i \in 1..Len(Tail(s)) : Tail(s)[i] = s[i + 1]
  OBVIOUS

LEMMA PushDown ==
    ASSUME NEW S, NEW s \in Seq(S), NEW d \in S
    PROVE  /\ Len(s) \in Nat /\ Append(s, d) \in Seq(S) /\ Len(Append(s, d)) = Len(s) + 1
           /\ Append(s, d)[Len(s) + 1] = d
           /\ \A i \in 1..Len(s) : Append(s, d)[i] = s[i]
  OBVIOUS

LEMMA StartTyped == \A f \in 1..NFiles : [type |-> "FILE_START", file |-> f] \in Datagrams
  BY DEF Datagrams
LEMMA DataTyped ==
    \A s \in 0..(SeqModulo - 1), p \in AllPayload :
        [type |-> "DATA", seq |-> s, payload |-> p] \in Datagrams
  BY DEF Datagrams
LEMMA EndTyped == \A c \in SUBSET AllPayload : [type |-> "FILE_END", crc |-> c] \in Datagrams
  BY DEF Datagrams
LEMMA DoneTyped == \A n \in 0..NFiles : [type |-> "TRANSFER_DONE", count |-> n] \in Datagrams
  BY DEF Datagrams

LEMMA DatagramFields ==
    ASSUME NEW d \in Datagrams
    PROVE  /\ d.type \in {"FILE_START", "DATA", "FILE_END", "TRANSFER_DONE"}
           /\ d.type = "FILE_START" => d.file \in 1..NFiles
           /\ d.type = "DATA" => d.seq \in 0..(SeqModulo - 1) /\ d.payload \in AllPayload
           /\ d.type = "FILE_END" => d.crc \subseteq AllPayload
<1>1. CASE d \in [type : {"FILE_START"}, file : 1..NFiles]
  BY <1>1
<1>2. CASE d \in [type : {"DATA"}, seq : 0..(SeqModulo - 1), payload : AllPayload]
  BY <1>2
<1>3. CASE d \in [type : {"FILE_END"}, crc : SUBSET AllPayload]
  BY <1>3
<1>4. CASE d \in [type : {"TRANSFER_DONE"}, count : 0..NFiles]
  BY <1>4
<1> QED BY <1>1, <1>2, <1>3, <1>4 DEF Datagrams

LEMMA Zeros ==
    /\ {} \subseteq AllPayload /\ {} \in SUBSET AllPayload
    /\ 0 \in 0..(SeqModulo - 1) /\ 0 \in 0..NFiles /\ 1 \in 1..(NFrames + 1)
  BY UdpAssumption

LEMMA NextSeqInRange == next_seq \in 0..(SeqModulo - 1) => NextSeq \in 0..(SeqModulo - 1)
  BY UdpAssumption DEF NextSeq

----------------------------------------------------------------------------
(* Types. *)

TypeDevice ==
    /\ tx \in {"start", "data", "end", "reset", "await", "stopped"}
    /\ file \in 1..NFiles /\ frame \in 1..(NFrames + 1)
    /\ next_seq \in 0..(SeqModulo - 1) /\ current_file_crc \subseteq AllPayload
    /\ file_retry \in 0..MaxRetries /\ retry \in 0..FileEndRetries
    /\ file_ack_result \in {"none", "ok", "nack"} /\ file_ack_sem \in {0, 1}
    /\ udp_ready \in BOOLEAN /\ synced_files \in 0..NFiles
TypeNet == down \in Seq(Datagrams) /\ up \in Seq({"ok", "nack"})
TypeReceiver ==
    /\ rx \in {"idle", "open", "done", "failed"}
    /\ name \in 0..NFiles /\ got \subseteq AllPayload
    /\ expected_sequence \in 0..(SeqModulo - 1) /\ file_invalid \in BOOLEAN
    /\ saved \in [1..NFiles -> SUBSET AllPayload]
    /\ clean \in BOOLEAN

LEMMA TypeParts == TypeOK <=> TypeDevice /\ TypeNet /\ TypeReceiver
  BY DEF TypeOK, TypeDevice, TypeNet, TypeReceiver

LEMMA TypeInit == Init => TypeOK
<1> SUFFICES ASSUME Init PROVE TypeOK
  OBVIOUS
<1> USE UdpAssumption DEF Init
<1>1. TypeDevice
  BY DEF TypeDevice
<1>2. TypeNet
  BY DEF TypeNet
<1>3. TypeReceiver
  BY Zeros DEF TypeReceiver
<1> QED BY <1>1, <1>2, <1>3, TypeParts

\* A step of the device puts a datagram under way, or none.
LEMMA SentTyped ==
    ASSUME TypeNet, clean \in BOOLEAN, NEW d \in Datagrams, NEW loss, Sent(d, loss)
    PROVE  down' \in Seq(Datagrams) /\ clean' \in BOOLEAN
  BY PushDown DEF Sent, TypeNet

LEMMA FinishTyped ==
    ASSUME TypeNet, clean \in BOOLEAN, NEW n \in 0..NFiles, Finish(n)
    PROVE  down' \in Seq(Datagrams) /\ clean' \in BOOLEAN
<1>1. [type |-> "TRANSFER_DONE", count |-> n] \in Datagrams
  BY DoneTyped
<1> QED BY <1>1, SentTyped DEF Finish, TypeNet

LEMMA TypeStep == TypeOK /\ [Next]_vars => TypeOK'
<1> SUFFICES ASSUME TypeOK, [Next]_vars PROVE TypeOK'
  OBVIOUS
<1>a. TypeDevice /\ TypeNet /\ TypeReceiver
  BY TypeParts
<1>b. SUFFICES TypeDevice' /\ TypeNet' /\ TypeReceiver'
  BY DEF TypeOK, TypeDevice, TypeNet, TypeReceiver
<1> USE UdpAssumption DEF TypeDevice, TypeReceiver, txVars, ackVars, tryVars, rxVars
<1>1. CASE SendFileStart
  <2>1. [type |-> "FILE_START", file |-> file] \in Datagrams
    BY <1>a, StartTyped
  <2>2. TypeNet' /\ clean' \in BOOLEAN
    BY <1>1, <1>a, <2>1, SentTyped DEF SendFileStart, TypeNet
  <2> QED BY <1>1, <1>a, <2>2 DEF SendFileStart
<1>2. CASE SendData
  <2>1. DataFrame \in Datagrams /\ DataFrame.payload \in AllPayload
    BY <1>2, <1>a, DataTyped DEF SendData, DataFrame, AllPayload
  <2>2. TypeNet' /\ clean' \in BOOLEAN
    BY <1>2, <1>a, <2>1, SentTyped DEF SendData, TypeNet
  <2>3. next_seq' \in 0..(SeqModulo - 1)
    BY <1>2, <1>a, NextSeqInRange DEF SendData
  <2>4. current_file_crc' \subseteq AllPayload
    BY <1>2, <1>a, <2>1 DEF SendData
  <2> QED BY <1>2, <1>a, <2>2, <2>3, <2>4 DEF SendData
<1>3. CASE EndOfFile
  BY <1>3, <1>a DEF EndOfFile, TypeNet
<1>4. CASE SendFileEnd
  <2>1. [type |-> "FILE_END", crc |-> current_file_crc] \in Datagrams
    BY <1>a, EndTyped
  <2>2. TypeNet' /\ clean' \in BOOLEAN
    BY <1>4, <1>a, <2>1, SentTyped DEF SendFileEnd, TypeNet
  <2> QED BY <1>4, <1>a, <2>2 DEF SendFileEnd
<1>5. CASE ResetAck
  BY <1>5, <1>a DEF ResetAck, TypeNet
<1>6. CASE FileAcked
  <2>1. CASE file = NFiles
    <3>1. TypeNet' /\ clean' \in BOOLEAN
      BY <1>6, <1>a, <2>1, FinishTyped DEF FileAcked, TypeNet
    <3> QED BY <1>6, <1>a, <2>1, <3>1 DEF FileAcked, Finish
  <2>2. CASE file # NFiles
    BY <1>6, <1>a, <2>2 DEF FileAcked, TypeNet
  <2> QED BY <2>1, <2>2
<1>7. CASE FileNacked
  <2>1. CASE file_retry < MaxRetries
    BY <1>7, <1>a, <2>1 DEF FileNacked, TypeNet
  <2>2. CASE ~(file_retry < MaxRetries)
    <3>1. TypeNet' /\ clean' \in BOOLEAN
      BY <1>7, <1>a, <2>2, FinishTyped DEF FileNacked, TypeNet
    <3> QED BY <1>7, <1>a, <2>2, <3>1 DEF FileNacked, Finish
  <2> QED BY <2>1, <2>2
<1>8. CASE AckTimeout
  BY <1>8, <1>a DEF AckTimeout, TypeNet
<1>9. CASE SendFails
  <2>1. TypeNet' /\ clean' \in BOOLEAN
    BY <1>9, <1>a, FinishTyped DEF SendFails, TypeNet
  <2> QED BY <1>9, <1>a, <2>1 DEF SendFails, Finish
<1>10. CASE NotifyFileAck
  <2>1. up # <<>> /\ Head(up) \in {"ok", "nack"} /\ Tail(up) \in Seq({"ok", "nack"})
    BY <1>10, <1>a, PopDown DEF NotifyFileAck, TypeNet
  <2> QED BY <1>10, <1>a, <2>1 DEF NotifyFileAck, TypeNet
<1>11. CASE Reassociate
  BY <1>11, <1>a, Zeros DEF Reassociate, TypeNet
<1>12. ASSUME OnFileStart \/ OnData \/ OnFileEnd \/ OnTransferDone \/ Ignored
       PROVE  TypeDevice' /\ TypeNet' /\ TypeReceiver'
  <2>0. down # <<>> /\ down' = Tail(down) /\ TypeDevice'
    BY <1>12, <1>a DEF OnFileStart, OnData, OnFileEnd, OnTransferDone, Ignored, Receive
  <2>1. Head(down) \in Datagrams /\ down' \in Seq(Datagrams)
    BY <1>a, <2>0, PopDown DEF TypeNet
  <2>2. CASE OnFileStart
    <3>1. Head(down).file \in 1..NFiles
      BY <2>1, <2>2, DatagramFields DEF OnFileStart, Receive
    <3>2. CASE rx = "open"
      BY <1>a, <2>0, <2>1, <2>2, <3>2, Zeros DEF OnFileStart, Unexpected, TypeNet
    <3>3. CASE rx = "idle"
      <4>1. /\ UNCHANGED <<up, saved, clean>> /\ rx' = "open" /\ name' = Head(down).file
            /\ got' = {} /\ expected_sequence' = 0 /\ file_invalid' = FALSE
        BY <2>2, <3>3 DEF OnFileStart
      <4>2. name' \in 0..NFiles /\ TypeNet'
        BY <1>a, <2>1, <3>1, <4>1 DEF TypeNet
      <4>3. got' \subseteq AllPayload /\ expected_sequence' \in 0..(SeqModulo - 1)
        BY <4>1, Zeros
      <4> QED BY <1>a, <2>0, <4>1, <4>2, <4>3
    <3> QED BY <2>2, <3>2, <3>3 DEF OnFileStart
  <2>3. CASE OnData
    <3>1. Head(down).payload \in AllPayload /\ Head(down).seq \in 0..(SeqModulo - 1)
      BY <2>1, <2>3, DatagramFields DEF OnData, Receive
    <3>2. (Head(down).seq + 1) % SeqModulo \in 0..(SeqModulo - 1)
      BY <3>1
    <3> QED BY <1>a, <2>0, <2>1, <2>3, <3>1, <3>2, Zeros DEF OnData, Receive, Unexpected, TypeNet
  <2>4. CASE OnFileEnd
    <3>1. \A r \in {"ok", "nack"} : Append(up, r) \in Seq({"ok", "nack"})
      BY <1>a, PushDown DEF TypeNet
    <3>2. TypeNet' /\ clean' \in BOOLEAN
      BY <1>a, <2>1, <2>4, <3>1 DEF OnFileEnd, Unexpected, Answer, TypeNet
    <3>3. saved' \in [1..NFiles -> SUBSET AllPayload]
      BY <1>a, <2>4 DEF OnFileEnd, Unexpected
    <3> QED BY <1>a, <2>0, <2>4, <3>2, <3>3 DEF OnFileEnd, Receive, Unexpected
  <2>5. CASE OnTransferDone
    BY <1>a, <2>0, <2>1, <2>5 DEF OnTransferDone, Receive, Unexpected, TypeNet
  <2>6. CASE Ignored
    BY <1>a, <2>0, <2>1, <2>6 DEF Ignored, TypeNet
  <2> QED BY <1>12, <2>2, <2>3, <2>4, <2>5, <2>6
<1>13. CASE ClientTimesOut
  BY <1>13, <1>a, Zeros DEF ClientTimesOut, TypeNet
<1>14. CASE UNCHANGED vars
  BY <1>14, <1>a DEF vars, TypeNet
<1> QED
  BY <1>1, <1>2, <1>3, <1>4, <1>5, <1>6, <1>7, <1>8, <1>9, <1>10, <1>11, <1>12, <1>13, <1>14
  DEF Next, TransferThread, Receiver, Over

\* The variables keep their types: the sequence number stays within its twelve
\* bits, the retries within their limits and the count within the files.
THEOREM UdpTypeCorrect == Spec => []TypeOK
  BY TypeInit, TypeStep, PTL DEF Spec

----------------------------------------------------------------------------
(* The turns of the two sides: of one attempt at a file, at most one thing  *)
(* is open: its FILE_START under way, the file at the receiver, the answer  *)
(* under way, or the answer at the device.                                  *)

Alive == rx \in {"idle", "open"}
IsStart(i) == i \in 1..Len(down) /\ down[i].type = "FILE_START"
Pending == up # <<>> \/ rx = "open" \/ (Alive /\ \E i \in 1..Len(down) : IsStart(i))

Turn ==
    /\ Len(up) <= 1
    /\ Alive => \A i, j \in 1..Len(down) : IsStart(i) /\ IsStart(j) => i = j
    /\ rx = "open" => up = <<>> /\ \A i \in 1..Len(down) : ~IsStart(i)
    /\ Alive /\ (\E i \in 1..Len(down) : IsStart(i)) => up = <<>>
    /\ tx = "start" /\ udp_ready => ~Pending
    /\ file_ack_sem = 1 => ~Pending \/ (file_ack_result = "none" /\ ~udp_ready)

LEMMA TurnInit == Init => Turn
  BY DEF Init, Turn, Pending, Alive, IsStart

\* A datagram that is not a FILE_START, put under way or lost.
LEMMA TurnSent ==
    ASSUME TypeOK, Turn, NEW d \in Datagrams, d.type # "FILE_START",
           down' = down \/ down' = Append(down, d),
           UNCHANGED <<up, rx>>
    PROVE  /\ Pending' = Pending
           /\ Alive' => \A i, j \in 1..Len(down') : IsStart(i)' /\ IsStart(j)' => i = j
           /\ rx' = "open" => up' = <<>> /\ \A i \in 1..Len(down') : ~IsStart(i)'
           /\ Alive' /\ (\E i \in 1..Len(down') : IsStart(i)') => up' = <<>>
<1>1. CASE down' = down
  BY <1>1 DEF Turn, Pending, Alive, IsStart
<1>2. CASE down' = Append(down, d)
  <2>1. \A i : IsStart(i)' <=> IsStart(i)
    BY <1>2, PushDown DEF TypeOK, IsStart
  <2>2. Len(down) \in Nat /\ Len(down') = Len(down) + 1
    BY <1>2, PushDown DEF TypeOK
  <2>3. \A i : IsStart(i) => i \in 1..Len(down) /\ i \in 1..Len(down')
    BY <2>2 DEF IsStart
  <2> HIDE DEF IsStart
  <2> QED BY <2>1, <2>3 DEF Turn, Pending, Alive
<1> QED BY <1>1, <1>2

\* The first datagram arrives, and nothing is opened by it.
LEMMA TurnPopped ==
    ASSUME TypeOK, Turn, down # <<>>, down' = Tail(down)
    PROVE  /\ Len(down') \in Nat /\ Len(down) = Len(down') + 1
           /\ \A i \in 1..Len(down') : down'[i] = down[i + 1]
           /\ \A i : IsStart(i)' => IsStart(i + 1) /\ i \in 1..Len(down')
           /\ Head(down) = down[1] /\ Head(down) \in Datagrams
<1>1. /\ Len(down) \in Nat /\ Len(down) >= 1 /\ Len(down') = Len(down) - 1
      /\ \A i \in 1..Len(down') : down'[i] = down[i + 1]
      /\ Head(down) = down[1] /\ Head(down) \in Datagrams
  BY PopDown DEF TypeOK
<1> QED BY <1>1 DEF IsStart

LEMMA TurnStep == TypeOK /\ Turn /\ [Next]_vars => Turn'
<1> SUFFICES ASSUME TypeOK, Turn, [Next]_vars PROVE Turn'
  OBVIOUS
<1> USE DEF txVars, ackVars, tryVars, rxVars
<1>1. CASE SendFileStart
  <2>1. CASE udp_ready
    <3>1. ~Pending
      BY <1>1, <2>1 DEF SendFileStart, Turn
    <3>2. \A i \in 1..Len(down) : Alive => ~IsStart(i)
      BY <3>1 DEF Pending
    <3>3. [type |-> "FILE_START", file |-> file] \in Datagrams
      BY StartTyped DEF TypeOK
    <3>4. Len(down) \in Nat /\ (down' = down \/ Len(down') = Len(down) + 1)
      BY <1>1, <2>1, <3>3, PushDown DEF SendFileStart, Sent, TypeOK
    <3>5. \A i : IsStart(i)' => IsStart(i) \/ (Len(down') = Len(down) + 1 /\ i = Len(down) + 1)
      <4>1. CASE down' = down
        BY <4>1 DEF IsStart
      <4>2. CASE down' = Append(down, [type |-> "FILE_START", file |-> file])
        <5>1. /\ Len(down) \in Nat /\ Len(down') = Len(down) + 1
              /\ \A i \in 1..Len(down) : down'[i] = down[i]
          BY <3>3, <4>2, PushDown DEF TypeOK
        <5> QED BY <5>1 DEF IsStart
      <4> QED BY <1>1, <2>1, <4>1, <4>2 DEF SendFileStart, Sent
    <3>6. \A i : IsStart(i) => i \in 1..Len(down)
      BY DEF IsStart
    <3>7. up = <<>> /\ rx # "open" /\ UNCHANGED <<up, rx>> /\ file_ack_sem' = 0 /\ tx' = "data"
      BY <1>1, <2>1, <3>1 DEF SendFileStart, Pending
    <3> QED BY <3>2, <3>4, <3>5, <3>6, <3>7 DEF Turn, Alive
  <2>2. CASE ~udp_ready
    BY <1>1, <2>2 DEF SendFileStart, Turn, Pending, Alive, IsStart
  <2> QED BY <2>1, <2>2
<1>2. CASE SendData
  <2>1. DataFrame \in Datagrams /\ DataFrame.type # "FILE_START"
    BY <1>2, DataTyped DEF SendData, DataFrame, AllPayload, TypeOK
  <2>2. down' = down \/ down' = Append(down, DataFrame)
    BY <1>2 DEF SendData, Sent
  <2>3. /\ UNCHANGED <<up, rx, tx, file_ack_sem, file_ack_result, udp_ready>>
    BY <1>2 DEF SendData
  <2> QED BY <2>1, <2>2, <2>3, TurnSent DEF Turn
<1>3. CASE EndOfFile
  BY <1>3 DEF EndOfFile, Turn, Pending, Alive, IsStart
<1>4. CASE SendFileEnd
  <2> DEFINE d == [type |-> "FILE_END", crc |-> current_file_crc]
  <2>1. d \in Datagrams /\ d.type # "FILE_START"
    BY EndTyped DEF TypeOK
  <2>2. down' = down \/ down' = Append(down, d)
    BY <1>4 DEF SendFileEnd, Sent
  <2>3. UNCHANGED <<up, rx, file_ack_sem, file_ack_result, udp_ready>> /\ tx' # "start"
    BY <1>4 DEF SendFileEnd
  <2> HIDE DEF d
  <2> QED BY <2>1, <2>2, <2>3, TurnSent DEF Turn
<1>5. CASE ResetAck
  BY <1>5 DEF ResetAck, Turn, Pending, Alive, IsStart
<1>6. ASSUME NEW n \in 0..NFiles, Finish(n), UNCHANGED <<up, rx, udp_ready, file_ack_result>>,
             file_ack_sem' = 0 \/ UNCHANGED file_ack_sem
      PROVE  Turn'
  <2> DEFINE d == [type |-> "TRANSFER_DONE", count |-> n]
  <2>1. d \in Datagrams /\ d.type # "FILE_START"
    BY DoneTyped
  <2>2. down' = down \/ down' = Append(down, d)
    BY <1>6 DEF Finish, Sent
  <2>3. tx' # "start"
    BY <1>6 DEF Finish
  <2> HIDE DEF d
  <2> QED BY <1>6, <2>1, <2>2, <2>3, TurnSent DEF Turn
<1>7. CASE FileAcked
  <2>1. ~Pending
    BY <1>7 DEF FileAcked, Turn
  <2>2. CASE file = NFiles
    BY <1>6, <1>7, <2>2 DEF FileAcked, TypeOK
  <2>3. CASE file # NFiles
    BY <1>7, <2>1, <2>3 DEF FileAcked, Turn, Pending, Alive, IsStart
  <2> QED BY <2>2, <2>3
<1>8. CASE FileNacked
  <2>1. ~Pending \/ ~udp_ready
    BY <1>8 DEF FileNacked, Turn
  <2>2. CASE file_retry < MaxRetries
    BY <1>8, <2>1, <2>2 DEF FileNacked, Turn, Pending, Alive, IsStart
  <2>3. CASE ~(file_retry < MaxRetries)
    BY <1>6, <1>8, <2>3 DEF FileNacked, TypeOK
  <2> QED BY <2>2, <2>3
<1>9. CASE AckTimeout
  BY <1>9 DEF AckTimeout, Turn, Pending, Alive, IsStart
<1>10. CASE SendFails
  BY <1>6, <1>10 DEF SendFails, TypeOK
<1>11. CASE NotifyFileAck
  <2>1. up # <<>> /\ Len(up') = Len(up) - 1 /\ Len(up) >= 1 /\ Len(up) \in Nat /\ up' \in Seq({"ok", "nack"})
    BY <1>11, PopDown DEF NotifyFileAck, TypeOK
  <2>2. up' = <<>>
    BY <2>1 DEF Turn
  <2>3. ~Pending'
    BY <1>11, <2>1, <2>2 DEF NotifyFileAck, Turn, Pending, Alive, IsStart
  <2> QED BY <1>11, <2>1, <2>2, <2>3 DEF NotifyFileAck, Turn, Pending, Alive, IsStart
<1>12. CASE Reassociate
  BY <1>12 DEF Reassociate, Turn, Pending, Alive, IsStart
<1>13. ASSUME OnFileStart \/ OnData \/ OnFileEnd \/ OnTransferDone \/ Ignored
       PROVE  Turn'
  <2>0. down # <<>> /\ down' = Tail(down) /\ UNCHANGED <<tx, file_ack_sem, file_ack_result, udp_ready>>
    BY <1>13 DEF OnFileStart, OnData, OnFileEnd, OnTransferDone, Ignored, Receive
  <2>1. /\ Len(down') \in Nat /\ Len(down) = Len(down') + 1
        /\ \A i : IsStart(i)' => IsStart(i + 1) /\ i \in 1..Len(down')
        /\ Head(down) = down[1]
    BY <2>0, TurnPopped
  <2>2. \A i : i \in 1..Len(down') => i \in Int /\ i + 1 \in 1..Len(down) /\ i + 1 # 1
    BY <2>1
  <2>3. IsStart(1) <=> Head(down).type = "FILE_START"
    BY <2>1 DEF IsStart
  <2>4. ASSUME ~Alive', UNCHANGED up PROVE Turn'
    BY <2>0, <2>4 DEF Turn, Pending, Alive
  <2>5. ASSUME Alive, UNCHANGED <<rx, up>> PROVE Turn'
    BY <2>0, <2>1, <2>2, <2>5 DEF Turn, Pending, Alive
  <2>6. CASE OnFileStart
    <3>1. CASE rx = "open"
      BY <2>4, <2>6, <3>1 DEF OnFileStart, Unexpected, Alive
    <3>2. CASE rx = "idle"
      <4>1. IsStart(1) /\ 1 \in 1..Len(down) /\ Alive /\ Pending
        BY <2>1, <2>3, <2>6, <3>2 DEF OnFileStart, Receive, Alive, Pending
      <4>2. \A i : ~IsStart(i)'
        BY <2>1, <2>2, <4>1 DEF Turn
      <4>3. rx' = "open" /\ UNCHANGED up /\ up = <<>>
        BY <2>6, <3>2, <4>1 DEF OnFileStart, Turn
      <4> QED BY <2>0, <4>1, <4>2, <4>3 DEF Turn
    <3> QED BY <2>6, <3>1, <3>2 DEF OnFileStart
  <2>7. CASE OnData
    BY <2>4, <2>5, <2>7 DEF OnData, Unexpected, Alive
  <2>8. CASE OnFileEnd
    <3>1. CASE rx = "idle"
      BY <2>4, <2>8, <3>1 DEF OnFileEnd, Unexpected, Alive
    <3>2. CASE rx = "open"
      <4>1. up = <<>> /\ Pending /\ \A i : ~IsStart(i)'
        BY <2>1, <2>2, <3>2 DEF Turn, Pending
      <4>2. rx' = "idle" /\ (up' = up \/ \E r \in {"ok", "nack"} : up' = Append(up, r))
        BY <2>8, <3>2 DEF OnFileEnd, Answer
      <4>3. Len(up') <= 1
        <5>1. Len(up) = 0
          BY <4>1
        <5>2. \A r \in {"ok", "nack"} : Len(Append(up, r)) = Len(up) + 1
          BY PushDown DEF TypeOK
        <5> QED BY <4>2, <5>1, <5>2
      <4> QED BY <2>0, <4>1, <4>2, <4>3 DEF Turn
    <3> QED BY <2>8, <3>1, <3>2 DEF OnFileEnd
  <2>9. CASE OnTransferDone
    <3>1. ~Alive' /\ UNCHANGED up
      BY <2>9 DEF OnTransferDone, Unexpected, Alive
    <3> QED BY <2>4, <3>1
  <2>10. CASE Ignored
    BY <2>4, <2>10 DEF Ignored, Alive
  <2> QED BY <1>13, <2>6, <2>7, <2>8, <2>9, <2>10
<1>14. CASE ClientTimesOut
  BY <1>14 DEF ClientTimesOut, Turn, Pending, Alive, IsStart
<1>15. CASE UNCHANGED vars
  BY <1>15 DEF vars, Turn, Pending, Alive, IsStart
<1> QED
  BY <1>1, <1>2, <1>3, <1>4, <1>5, <1>7, <1>8, <1>9, <1>10, <1>11, <1>12, <1>13, <1>14, <1>15
  DEF Next, TransferThread, Receiver, Over

----------------------------------------------------------------------------
(* What is open at the receiver, or about to be, is the file that the       *)
(* device sends, and the frames under way to it are of that file.           *)

OfFile(i) == down[i].type = "DATA" => down[i].payload \in Payload(file)

FileInv == Alive =>
    /\ \A i \in 1..Len(down) : IsStart(i) => down[i].file = file
    /\ rx = "open" => name = file /\ got \subseteq Payload(file)
    /\ rx = "open" => \A i \in 1..Len(down) : OfFile(i)
    /\ \A i, j \in 1..Len(down) : IsStart(i) /\ i < j => OfFile(j)

LEMMA FileInit == Init => FileInv
  BY DEF Init, FileInv

\* A datagram that is put under way or lost, of the file if it carries data.
LEMMA FileSent ==
    ASSUME TypeOK, FileInv, NEW d \in Datagrams, d.type # "FILE_START",
           d.type = "DATA" => d.payload \in Payload(file),
           down' = down \/ down' = Append(down, d),
           UNCHANGED <<rx, name, got, file>>
    PROVE  FileInv'
<1>1. CASE down' = down
  BY <1>1 DEF FileInv, Alive, IsStart, OfFile
<1>2. CASE down' = Append(down, d)
  <2>1. /\ Len(down) \in Nat /\ Len(down') = Len(down) + 1 /\ down'[Len(down) + 1] = d
        /\ \A i \in 1..Len(down) : down'[i] = down[i]
    BY <1>2, PushDown DEF TypeOK
  <2>2. \A i \in 1..Len(down') : i \in 1..Len(down) \/ i = Len(down) + 1
    BY <2>1
  <2>3. \A i : IsStart(i)' => IsStart(i) /\ i \in 1..Len(down) /\ down'[i] = down[i]
    BY <2>1, <2>2 DEF IsStart
  <2>4. \A i \in 1..Len(down) : OfFile(i) => OfFile(i)'
    BY <2>1 DEF OfFile, Payload
  <2>5. \A i : i = Len(down) + 1 => OfFile(i)'
    BY <2>1 DEF OfFile, Payload
  <2>6. Alive' => \A i \in 1..Len(down') : IsStart(i)' => down'[i].file = file'
    BY <2>3 DEF FileInv, Alive
  <2>7. rx' = "open" => name' = file' /\ got' \subseteq Payload(file)'
    BY DEF FileInv, Alive, Payload
  <2>8. rx' = "open" => \A i \in 1..Len(down') : OfFile(i)'
    BY <2>2, <2>4, <2>5 DEF FileInv, Alive
  <2>9. Alive' => \A i, j \in 1..Len(down') : IsStart(i)' /\ i < j => OfFile(j)'
    <3>1. SUFFICES ASSUME Alive', NEW i \in 1..Len(down'), NEW j \in 1..Len(down'), IsStart(i)', i < j
                   PROVE  OfFile(j)'
      OBVIOUS
    <3>2. CASE j \in 1..Len(down)
      BY <2>3, <2>4, <3>1, <3>2 DEF FileInv, Alive
    <3>3. CASE j = Len(down) + 1
      BY <2>5, <3>3
    <3> QED BY <2>2, <3>2, <3>3
  <2> QED BY <2>6, <2>7, <2>8, <2>9 DEF FileInv
<1> QED BY <1>1, <1>2

LEMMA FileStep == TypeOK /\ Turn /\ FileInv /\ [Next]_vars => FileInv'
<1> SUFFICES ASSUME TypeOK, Turn, FileInv, [Next]_vars PROVE FileInv'
  OBVIOUS
<1> USE DEF txVars, ackVars, tryVars, rxVars
<1>1. CASE SendFileStart
  <2> DEFINE d == [type |-> "FILE_START", file |-> file]
  <2>1. UNCHANGED <<rx, name, got, file>>
    BY <1>1 DEF SendFileStart
  <2>2. CASE down' = down
    BY <2>1, <2>2 DEF FileInv, Alive, IsStart, OfFile
  <2>3. CASE udp_ready /\ down' = Append(down, d)
    <3>1. d \in Datagrams /\ d.type = "FILE_START" /\ d.file = file
      BY StartTyped DEF TypeOK
    <3>2. rx # "open" /\ (Alive => \A i \in 1..Len(down) : ~IsStart(i))
      BY <1>1, <2>3 DEF SendFileStart, Turn, Pending
    <3> HIDE DEF d
    <3>3. /\ Len(down) \in Nat /\ Len(down') = Len(down) + 1 /\ down'[Len(down) + 1] = d
          /\ \A i \in 1..Len(down) : down'[i] = down[i]
      BY <2>3, <3>1, PushDown DEF TypeOK
    <3>4. Alive => \A i : IsStart(i)' => i = Len(down) + 1 /\ down'[i] = d
      BY <3>2, <3>3 DEF IsStart
    <3>5. \A i \in 1..Len(down') : ~(Len(down) + 1 < i)
      BY <3>3
    <3> QED BY <2>1, <3>1, <3>2, <3>4, <3>5 DEF FileInv, Alive
  <2> QED BY <1>1, <2>2, <2>3 DEF SendFileStart, Sent
<1>2. CASE SendData
  <2>1. DataFrame \in Datagrams /\ DataFrame.type = "DATA" /\ DataFrame.payload \in Payload(file)
    BY <1>2, DataTyped DEF SendData, DataFrame, AllPayload, Payload, TypeOK
  <2>2. down' = down \/ down' = Append(down, DataFrame)
    BY <1>2 DEF SendData, Sent
  <2>3. UNCHANGED <<rx, name, got, file>>
    BY <1>2 DEF SendData
  <2> QED BY <2>1, <2>2, <2>3, FileSent
<1>3. CASE EndOfFile \/ ResetAck \/ AckTimeout \/ NotifyFileAck \/ Reassociate
  BY <1>3 DEF EndOfFile, ResetAck, AckTimeout, NotifyFileAck, Reassociate,
              FileInv, Alive, IsStart, OfFile
<1>4. CASE SendFileEnd
  <2> DEFINE d == [type |-> "FILE_END", crc |-> current_file_crc]
  <2>1. d \in Datagrams /\ d.type = "FILE_END"
    BY EndTyped DEF TypeOK
  <2>2. down' = down \/ down' = Append(down, d)
    BY <1>4 DEF SendFileEnd, Sent
  <2>3. UNCHANGED <<rx, name, got, file>>
    BY <1>4 DEF SendFileEnd
  <2> HIDE DEF d
  <2> QED BY <2>1, <2>2, <2>3, FileSent
<1>5. ASSUME NEW n \in 0..NFiles, Finish(n), UNCHANGED <<rx, name, got, file>>
      PROVE  FileInv'
  <2> DEFINE d == [type |-> "TRANSFER_DONE", count |-> n]
  <2>1. d \in Datagrams /\ d.type = "TRANSFER_DONE"
    BY DoneTyped
  <2>2. down' = down \/ down' = Append(down, d)
    BY <1>5 DEF Finish, Sent
  <2> HIDE DEF d
  <2> QED BY <1>5, <2>1, <2>2, FileSent
<1>6. CASE FileAcked
  <2>1. ~Pending /\ UNCHANGED <<rx, name, got>>
    BY <1>6 DEF FileAcked, Turn
  <2>2. CASE file = NFiles
    BY <1>5, <1>6, <2>1, <2>2 DEF FileAcked, TypeOK
  <2>3. CASE file # NFiles
    BY <1>6, <2>1, <2>3 DEF FileAcked, FileInv, Pending, Alive, IsStart
  <2> QED BY <2>2, <2>3
<1>7. CASE FileNacked
  <2>1. UNCHANGED <<rx, name, got, file>>
    BY <1>7 DEF FileNacked
  <2>2. CASE file_retry < MaxRetries
    BY <1>7, <2>1, <2>2 DEF FileNacked, FileInv, Alive, IsStart, OfFile
  <2>3. CASE ~(file_retry < MaxRetries)
    BY <1>5, <1>7, <2>1, <2>3 DEF FileNacked, TypeOK
  <2> QED BY <2>2, <2>3
<1>8. CASE SendFails
  BY <1>5, <1>8 DEF SendFails, TypeOK
<1>9. ASSUME OnFileStart \/ OnData \/ OnFileEnd \/ OnTransferDone \/ Ignored
      PROVE  FileInv'
  <2>0. down # <<>> /\ down' = Tail(down) /\ UNCHANGED file
    BY <1>9 DEF OnFileStart, OnData, OnFileEnd, OnTransferDone, Ignored, Receive
  <2>1. /\ Len(down') \in Nat /\ Len(down) = Len(down') + 1
        /\ \A i \in 1..Len(down') : down'[i] = down[i + 1]
        /\ \A i : IsStart(i)' => IsStart(i + 1) /\ i \in 1..Len(down')
        /\ Head(down) = down[1]
    BY <2>0, TurnPopped
  <2>2. \A i \in 1..Len(down') : i \in Int /\ 1 < i + 1 /\ i + 1 \in 1..Len(down) /\ 1 \in 1..Len(down)
    BY <2>1
  <2>3. \A i \in 1..Len(down') : OfFile(i + 1) => OfFile(i)'
    BY <2>0, <2>1 DEF OfFile, Payload
  <2>4. ASSUME ~Alive' PROVE FileInv'
    BY <2>4 DEF FileInv
  <2>5. \A i, j \in 1..Len(down') : i < j => i + 1 < j + 1
    BY <2>1
  <2>6. ASSUME Alive, rx' = rx \/ rx' = "idle" \/ (\A i \in 1..Len(down') : OfFile(i)'),
               rx' = "open" => name' = file /\ got' \subseteq Payload(file)
        PROVE  FileInv'
    <3>1. \A i \in 1..Len(down') : IsStart(i)' => down'[i].file = file'
      BY <2>0, <2>1, <2>2, <2>6 DEF FileInv
    <3>2. \A i, j \in 1..Len(down') : IsStart(i)' /\ i < j => OfFile(j)'
      BY <2>1, <2>2, <2>3, <2>5, <2>6 DEF FileInv
    <3>3. rx' = "open" => \A i \in 1..Len(down') : OfFile(i)'
      BY <2>1, <2>2, <2>3, <2>6 DEF FileInv
    <3>4. rx' = "open" => name' = file' /\ got' \subseteq Payload(file)'
      BY <2>0, <2>6 DEF Payload
    <3> QED BY <3>1, <3>2, <3>3, <3>4 DEF FileInv
  <2>7. CASE OnFileStart
    <3>1. CASE rx = "open"
      BY <2>4, <2>7, <3>1 DEF OnFileStart, Unexpected, Alive
    <3>2. CASE rx = "idle"
      <4>1. Alive /\ IsStart(1) /\ 1 \in 1..Len(down)
        BY <2>1, <2>7, <3>2 DEF OnFileStart, Receive, Alive, IsStart
      <4>2. rx' = "open" /\ name' = down[1].file /\ got' = {}
        BY <2>1, <2>7, <3>2 DEF OnFileStart
      <4>3. name' = file /\ got' \subseteq Payload(file)
        BY <4>1, <4>2 DEF FileInv
      <4>4. \A i \in 1..Len(down') : OfFile(i)'
        BY <2>2, <2>3, <4>1 DEF FileInv
      <4> QED BY <2>6, <4>1, <4>3, <4>4
    <3> QED BY <2>7, <3>1, <3>2 DEF OnFileStart
  <2>8. CASE OnData
    <3>1. CASE rx = "idle"
      BY <2>4, <2>8, <3>1 DEF OnData, Unexpected, Alive
    <3>2. CASE rx = "open"
      <4>1. down[1].type = "DATA" /\ 1 \in 1..Len(down) /\ Alive
        BY <2>1, <2>8, <3>2 DEF OnData, Receive, Alive
      <4>2. down[1].payload \in Payload(file) /\ name = file /\ got \subseteq Payload(file)
        BY <3>2, <4>1 DEF FileInv, OfFile
      <4>3. got' = got \cup {down[1].payload} /\ UNCHANGED <<rx, name>>
        BY <2>1, <2>8, <3>2 DEF OnData
      <4> QED BY <2>6, <4>1, <4>2, <4>3
    <3> QED BY <2>8, <3>1, <3>2 DEF OnData
  <2>9. CASE OnFileEnd
    <3>1. CASE rx = "idle"
      BY <2>4, <2>9, <3>1 DEF OnFileEnd, Unexpected, Alive
    <3>2. CASE rx = "open"
      BY <2>6, <2>9, <3>2 DEF OnFileEnd, Alive
    <3> QED BY <2>9, <3>1, <3>2 DEF OnFileEnd
  <2>10. CASE OnTransferDone
    BY <2>4, <2>10 DEF OnTransferDone, Unexpected, Alive
  <2>11. CASE Ignored
    BY <2>4, <2>11 DEF Ignored, Alive
  <2> QED BY <1>9, <2>7, <2>8, <2>9, <2>10, <2>11
<1>10. CASE ClientTimesOut
  BY <1>10 DEF ClientTimesOut, FileInv, Alive
<1>11. CASE UNCHANGED vars
  BY <1>11 DEF vars, FileInv, Alive, IsStart, OfFile
<1> QED
  BY <1>1, <1>2, <1>3, <1>4, <1>6, <1>7, <1>8, <1>9, <1>10, <1>11
  DEF Next, TransferThread, Receiver, Over

----------------------------------------------------------------------------
(* What is saved, and what the device has learned of it. *)

\* A file of NFrames frames that are all its own is whole.
LEMMA WholeFile ==
    ASSUME NEW f, NEW S \in SUBSET Payload(f), Cardinality(S) = NFrames
    PROVE  S = Payload(f)
<1>1. IsFiniteSet(1..NFrames) /\ Cardinality(1..NFrames) = NFrames
  BY UdpAssumption, FS_Interval
<1>2. IsFiniteSet({f}) /\ Cardinality({f}) = 1
  BY FS_Singleton
<1>3. IsFiniteSet(Payload(f)) /\ Cardinality(Payload(f)) = Cardinality({f}) * Cardinality(1..NFrames)
  BY <1>1, <1>2, FS_Product DEF Payload
<1>4. Cardinality(Payload(f)) = NFrames
  BY <1>1, <1>2, <1>3, UdpAssumption
<1> QED BY <1>3, <1>4, FS_Subset

\* With an acknowledgement under way or at the device the file is saved, and so
\* are those that it has counted.
OkInv ==
    /\ \A i \in 1..Len(up) : up[i] = "ok" => saved[file] = Payload(file)
    /\ file_ack_sem = 1 /\ file_ack_result = "ok" => saved[file] = Payload(file)
    /\ \A f \in 1..synced_files : saved[f] = Payload(f)
    /\ tx # "stopped" => synced_files = file - 1
    /\ tx = "stopped" => synced_files = file - 1 \/ (synced_files = file /\ file = NFiles)

LEMMA OkInit == Init => OkInv /\ SavedIntact
  BY UdpAssumption DEF Init, OkInv, SavedIntact

\* FILE_END: the file is saved, whole, or nothing changes but the receiver.
LEMMA FileEndSaves ==
    ASSUME TypeOK, FileInv, OnFileEnd
    PROVE  \/ saved' = saved
           \/ rx = "open" /\ saved' = [saved EXCEPT ![file] = Payload(file)]
<1>1. CASE rx = "idle"
  BY <1>1 DEF OnFileEnd, Unexpected
<1>2. CASE rx = "open" /\ ~Complete(Head(down).crc)
  BY <1>2 DEF OnFileEnd
<1>3. CASE rx = "open" /\ Complete(Head(down).crc)
  <2>1. name = file /\ got \in SUBSET Payload(file) /\ Cardinality(got) = NFrames
    BY <1>3 DEF FileInv, Alive, Complete
  <2>2. got = Payload(file)
    BY <2>1, WholeFile
  <2> QED BY <1>3, <2>1, <2>2 DEF OnFileEnd
<1> QED BY <1>1, <1>2, <1>3 DEF OnFileEnd

LEMMA SavedStep == TypeOK /\ FileInv /\ SavedIntact /\ [Next]_vars => SavedIntact'
<1> SUFFICES ASSUME TypeOK, FileInv, SavedIntact, [Next]_vars PROVE SavedIntact'
  OBVIOUS
<1>1. CASE OnFileEnd
  BY <1>1, FileEndSaves DEF SavedIntact, TypeOK, Payload
<1>2. CASE ~OnFileEnd
  <2>1. saved' = saved
    BY <1>2 DEF Next, TransferThread, Receiver, Over, vars, rxVars, SendFileStart, SendData,
         EndOfFile, SendFileEnd, ResetAck, FileAcked, FileNacked, AckTimeout, SendFails,
         NotifyFileAck, Reassociate, OnFileStart, OnData, OnTransferDone, Ignored,
         ClientTimesOut, Unexpected
  <2> QED BY <2>1 DEF SavedIntact, Payload
<1> QED BY <1>1, <1>2

LEMMA OkStep == TypeOK /\ Turn /\ FileInv /\ OkInv /\ [Next]_vars => OkInv'
<1> SUFFICES ASSUME TypeOK, Turn, FileInv, OkInv, [Next]_vars PROVE OkInv'
  OBVIOUS
<1> USE DEF txVars, ackVars, tryVars, rxVars
<1>0. file \in 1..NFiles /\ synced_files \in 0..NFiles /\ NFiles \in Nat
  BY UdpAssumption DEF TypeOK
<1>1. CASE SendFileStart \/ SendData \/ EndOfFile \/ SendFileEnd \/ ResetAck \/ AckTimeout
           \/ Reassociate \/ UNCHANGED vars
  <2>1. UNCHANGED <<up, file, saved, synced_files>> /\ (tx' = "stopped" <=> tx = "stopped")
    BY <1>1 DEF SendFileStart, SendData, EndOfFile, SendFileEnd, ResetAck, AckTimeout,
                Reassociate, vars
  <2>2. file_ack_sem' = 1 /\ file_ack_result' = "ok" => file_ack_sem = 1 /\ file_ack_result = "ok"
    BY <1>1 DEF SendFileStart, SendData, EndOfFile, SendFileEnd, ResetAck, AckTimeout,
                Reassociate, vars
  <2> QED BY <2>1, <2>2 DEF OkInv, Payload
<1>2. CASE FileAcked
  <2>1. up = <<>> /\ saved[file] = Payload(file) /\ synced_files = file - 1
    BY <1>2 DEF FileAcked, Turn, Pending, OkInv
  <2>2. UNCHANGED <<up, saved>> /\ file_ack_sem' = 0 /\ synced_files' = file
    BY <1>2 DEF FileAcked, Finish
  <2>3. \A f \in 1..synced_files' : f \in 1..synced_files \/ f = file
    BY <1>0, <2>1, <2>2
  <2>4. \A f \in 1..synced_files' : saved'[f] = Payload(f)
    BY <2>1, <2>2, <2>3 DEF OkInv
  <2>5. IF file = NFiles THEN tx' = "stopped" /\ file' = file ELSE tx' = "start" /\ file' = file + 1
    BY <1>2 DEF FileAcked, Finish
  <2> QED BY <1>0, <2>1, <2>2, <2>4, <2>5 DEF OkInv, Payload
<1>3. CASE FileNacked \/ SendFails
  <2>1. UNCHANGED <<up, file, saved, synced_files, file_ack_result>> /\ tx # "stopped"
    BY <1>3 DEF FileNacked, SendFails, Finish
  <2>2. file_ack_sem' = 0 \/ UNCHANGED file_ack_sem
    BY <1>3 DEF FileNacked, SendFails
  <2> QED BY <2>1, <2>2 DEF OkInv, Payload
<1>4. CASE NotifyFileAck
  <2>1. Len(up) >= 1 /\ Head(up) = up[1] /\ Len(up') = Len(up) - 1 /\ Len(up) \in Nat
    BY <1>4, PopDown DEF NotifyFileAck, TypeOK
  <2>2. Len(up') = 0 /\ 1 \in 1..Len(up)
    BY <2>1 DEF Turn
  <2> QED BY <1>4, <2>1, <2>2 DEF NotifyFileAck, OkInv, Payload
<1>5. CASE OnFileStart \/ OnData \/ OnTransferDone \/ Ignored \/ ClientTimesOut
  <2>1. UNCHANGED <<tx, up, file, saved, synced_files, file_ack_result, file_ack_sem>>
    BY <1>5 DEF OnFileStart, OnData, OnTransferDone, Ignored, ClientTimesOut, Unexpected, Receive
  <2> QED BY <2>1 DEF OkInv, Payload
<1>6. CASE OnFileEnd
  <2>0. UNCHANGED <<tx, file, synced_files, file_ack_result, file_ack_sem>>
    BY <1>6 DEF OnFileEnd, Receive
  <2>1. \A f \in 1..NFiles : saved[f] = Payload(f) => saved'[f] = Payload(f)
    BY <1>6, FileEndSaves DEF TypeOK, Payload
  <2>2. \A f \in 1..synced_files : f \in 1..NFiles
    BY <1>0
  <2>3. \A i \in 1..Len(up') : up'[i] = "ok" => saved'[file] = Payload(file)
    <3>1. CASE up' = up
      BY <1>0, <2>1, <3>1 DEF OkInv
    <3>2. CASE rx = "open" /\ Complete(Head(down).crc)
      <4>1. name = file /\ got \in SUBSET Payload(file) /\ Cardinality(got) = NFrames
        BY <3>2 DEF FileInv, Alive, Complete
      <4>2. got = Payload(file)
        BY <4>1, WholeFile
      <4> QED BY <1>0, <1>6, <3>2, <4>1, <4>2 DEF OnFileEnd, TypeOK
    <3>3. CASE rx = "open" /\ up' = Append(up, "nack")
      <4>1. up = <<>> /\ Len(up) = 0
        BY <3>3 DEF Turn
      <4>2. Len(up') = 1 /\ up'[1] = "nack"
        BY <3>3, <4>1, PushDown DEF TypeOK
      <4> QED BY <4>2
    <3> QED BY <1>6, <3>1, <3>2, <3>3 DEF OnFileEnd, Unexpected, Answer
  <2> QED BY <1>0, <2>0, <2>1, <2>2, <2>3 DEF OkInv, Payload
<1> QED
  BY <1>1, <1>2, <1>3, <1>4, <1>5, <1>6 DEF Next, TransferThread, Receiver, Over

----------------------------------------------------------------------------
(* While only recoverable failures have happened, the two sides are in step. *)

Quiet == up = <<>> /\ file_ack_sem = 0

\* The file is open at the receiver, or its FILE_START is the first to arrive.
InFile ==
    \/ rx = "open"
    \/ rx = "idle" /\ 1 \in 1..Len(down) /\ down[1].type = "FILE_START"

OnlyData == \A i \in 1..Len(down) : down[i].type \in {"FILE_START", "DATA"}
EndLast == \A i \in 1..Len(down) :
    down[i].type # "TRANSFER_DONE" /\ (down[i].type = "FILE_END" => i = Len(down))

\* The answer is under way, or at the device.
Answered ==
    /\ down = <<>> /\ rx = "idle"
    /\ \/ up # <<>> /\ file_ack_sem = 0
       \/ up = <<>> /\ file_ack_sem = 1 /\ tx = "await" /\ file_ack_result # "none"

DoneUnderWay == Len(down) = 1 /\ down[1].type = "TRANSFER_DONE"

CleanInv == clean =>
    /\ udp_ready
    /\ tx = "start" => down = <<>> /\ rx = "idle" /\ Quiet
    /\ tx \in {"data", "end"} => InFile /\ Quiet /\ OnlyData
    /\ tx \in {"reset", "await"} => Answered \/ (InFile /\ Quiet /\ EndLast)
    /\ tx = "stopped" /\ synced_files = NFiles => rx = "done" \/ (rx = "idle" /\ DoneUnderWay)

LEMMA CleanInit == Init => CleanInv
  BY DEF Init, CleanInv, Quiet

LEMMA CleanStep ==
    TypeOK /\ Turn /\ OkInv /\ CleanInv /\ [Next]_vars => CleanInv'
<1> SUFFICES ASSUME TypeOK, Turn, OkInv, CleanInv, clean', [Next]_vars PROVE CleanInv'
  BY DEF CleanInv
<1> USE DEF txVars, ackVars, tryVars, rxVars
<1>0. clean
  BY DEF Next, TransferThread, Receiver, Over, vars, SendFileStart, SendData, Sent, Finish,
     EndOfFile, SendFileEnd, ResetAck, FileAcked, FileNacked, AckTimeout, SendFails,
     NotifyFileAck, Reassociate, OnFileStart, OnData, OnFileEnd, OnTransferDone, Ignored,
     ClientTimesOut, Unexpected, Answer, TypeOK
<1>a. file \in 1..NFiles /\ synced_files \in 0..NFiles /\ NFiles \in Nat
  BY UdpAssumption DEF TypeOK
<1>1. CASE SendFileStart
  <2> DEFINE d == [type |-> "FILE_START", file |-> file]
  <2>1. udp_ready /\ down = <<>> /\ rx = "idle" /\ Quiet
    BY <1>0, <1>1 DEF SendFileStart, CleanInv
  <2>2. down' = Append(down, d) /\ d \in Datagrams /\ d.type = "FILE_START"
    BY <1>1, <2>1, StartTyped DEF SendFileStart, Sent, Recoverable, TypeOK
  <2> HIDE DEF d
  <2>3. Len(down') = 1 /\ down'[1] = d
    BY <2>1, <2>2, PushDown DEF TypeOK
  <2>4. tx' = "data" /\ UNCHANGED <<up, rx, udp_ready>> /\ file_ack_sem' = 0
    BY <1>1, <2>1 DEF SendFileStart
  <2> QED BY <2>1, <2>2, <2>3, <2>4 DEF CleanInv, InFile, Quiet, OnlyData
<1>2. CASE SendData
  <2>1. DataFrame \in Datagrams /\ DataFrame.type = "DATA"
    BY <1>2, DataTyped DEF SendData, DataFrame, AllPayload, TypeOK
  <2>2. InFile /\ Quiet /\ OnlyData /\ udp_ready
    BY <1>0, <1>2 DEF SendData, CleanInv
  <2>3. tx' = "data" /\ UNCHANGED <<up, rx, udp_ready, file_ack_sem>>
    BY <1>2 DEF SendData
  <2>4. CASE down' = down
    BY <2>2, <2>3, <2>4 DEF CleanInv, InFile, Quiet, OnlyData
  <2>5. CASE down' = Append(down, DataFrame)
    <3>1. /\ Len(down) \in Nat /\ Len(down') = Len(down) + 1 /\ down'[Len(down) + 1] = DataFrame
          /\ \A i \in 1..Len(down) : down'[i] = down[i]
      BY <2>1, <2>5, PushDown DEF TypeOK
    <3>2. \A i \in 1..Len(down') : i \in 1..Len(down) \/ i = Len(down) + 1
      BY <3>1
    <3>3. InFile' /\ OnlyData'
      BY <2>1, <2>2, <2>3, <3>1, <3>2 DEF InFile, OnlyData
    <3> QED BY <2>2, <2>3, <3>3 DEF CleanInv, Quiet
  <2> QED BY <1>2, <2>4, <2>5 DEF SendData, Sent
<1>3. CASE EndOfFile
  BY <1>0, <1>3 DEF EndOfFile, CleanInv, InFile, Quiet, OnlyData
<1>4. CASE SendFileEnd
  <2> DEFINE d == [type |-> "FILE_END", crc |-> current_file_crc]
  <2>1. d \in Datagrams /\ d.type = "FILE_END"
    BY EndTyped DEF TypeOK
  <2>2. InFile /\ Quiet /\ OnlyData /\ udp_ready
    BY <1>0, <1>4 DEF SendFileEnd, CleanInv
  <2>3. UNCHANGED <<up, rx, udp_ready, file_ack_sem>>
    BY <1>4 DEF SendFileEnd
  <2>4. CASE down' = down /\ tx' \in {"end", "reset"}
    BY <2>2, <2>3, <2>4 DEF CleanInv, InFile, Quiet, OnlyData, EndLast
  <2>5. CASE down' = Append(down, d) /\ tx' = "reset"
    <3> HIDE DEF d
    <3>1. /\ Len(down) \in Nat /\ Len(down') = Len(down) + 1 /\ down'[Len(down) + 1] = d
          /\ \A i \in 1..Len(down) : down'[i] = down[i]
      BY <2>1, <2>5, PushDown DEF TypeOK
    <3>2. \A i \in 1..Len(down') : i \in 1..Len(down) \/ i = Len(down) + 1
      BY <3>1
    <3>3. InFile'
      BY <2>2, <2>3, <3>1 DEF InFile
    <3>4. EndLast'
      BY <2>1, <2>2, <3>1, <3>2 DEF OnlyData, EndLast
    <3> QED BY <2>2, <2>3, <2>5, <3>3, <3>4 DEF CleanInv, Quiet
  <2> QED BY <1>4, <2>4, <2>5 DEF SendFileEnd, Sent
<1>5. CASE ResetAck
  <2>1. /\ down' = down /\ UNCHANGED <<up, rx, udp_ready>>
        /\ file_ack_sem' = 0 /\ tx = "reset" /\ tx' = "await"
    BY <1>5 DEF ResetAck
  <2> QED BY <1>0, <2>1 DEF CleanInv, Answered, InFile, Quiet, EndLast
<1>6. ASSUME NEW n \in 0..NFiles, Finish(n), n < NFiles, UNCHANGED udp_ready PROVE CleanInv'
  BY <1>0, <1>6 DEF Finish, CleanInv, Recoverable
<1>7. CASE FileAcked
  <2>1. udp_ready /\ down = <<>> /\ rx = "idle" /\ up = <<>>
    BY <1>0, <1>7 DEF FileAcked, CleanInv, Answered, Quiet
  <2>2. UNCHANGED <<rx, up, udp_ready>> /\ file_ack_sem' = 0
    BY <1>7 DEF FileAcked
  <2>3. CASE file = NFiles
    <3> DEFINE d == [type |-> "TRANSFER_DONE", count |-> file]
    <3>1. /\ tx' = "stopped" /\ down' = Append(down, d)
          /\ d \in Datagrams /\ d.type = "TRANSFER_DONE"
      <4>1. file \in 0..NFiles
        BY <1>a
      <4>2. d \in Datagrams
        BY <4>1, DoneTyped
      <4>3. tx' = "stopped" /\ down' = Append(down, d)
        BY <1>0, <1>7, <2>1, <2>3 DEF FileAcked, Finish, Sent, Recoverable
      <4> QED BY <4>2, <4>3
    <3> HIDE DEF d
    <3>2. Len(down') = 1 /\ down'[1] = d
      BY <2>1, <3>1, PushDown DEF TypeOK
    <3> QED BY <2>1, <2>2, <3>1, <3>2 DEF CleanInv, DoneUnderWay
  <2>4. CASE file # NFiles
    BY <1>7, <2>1, <2>2, <2>4 DEF FileAcked, CleanInv, Quiet
  <2> QED BY <2>3, <2>4
<1>8. CASE FileNacked
  <2>1. udp_ready /\ down = <<>> /\ rx = "idle" /\ up = <<>>
    BY <1>0, <1>8 DEF FileNacked, CleanInv, Answered, Quiet
  <2>2. UNCHANGED <<rx, up, udp_ready>> /\ file_ack_sem' = 0
    BY <1>8 DEF FileNacked
  <2>3. CASE file_retry < MaxRetries
    BY <1>8, <2>1, <2>2, <2>3 DEF FileNacked, CleanInv, Quiet
  <2>4. CASE ~(file_retry < MaxRetries)
    <3>1. synced_files < NFiles
      BY <1>a, <1>8 DEF FileNacked, OkInv
    <3> QED BY <1>6, <1>8, <1>a, <2>2, <2>4, <3>1 DEF FileNacked
  <2> QED BY <2>3, <2>4
<1>9. CASE AckTimeout
  <2>1. down = <<>> /\ up = <<>> /\ UNCHANGED <<down, up, rx, udp_ready, file_ack_sem>> /\ tx' = "end"
    BY <1>0, <1>9 DEF AckTimeout
  <2>2. InFile /\ Quiet /\ udp_ready
    BY <1>0, <1>9, <2>1 DEF AckTimeout, CleanInv, Answered
  <2>3. Len(down') = 0
    BY <2>1
  <2>4. InFile' /\ Quiet' /\ OnlyData'
    BY <2>1, <2>2, <2>3 DEF InFile, Quiet, OnlyData
  <2> QED BY <2>1, <2>2, <2>4 DEF CleanInv
<1>10. CASE SendFails
  <2>1. synced_files < NFiles /\ UNCHANGED udp_ready /\ Finish(synced_files)
    BY <1>a, <1>10 DEF SendFails, OkInv
  <2> QED BY <1>6, <1>a, <2>1
<1>11. CASE NotifyFileAck
  <2>1. up # <<>> /\ tx # "reset" /\ Head(up) \in {"ok", "nack"} /\ up' = Tail(up)
    BY <1>0, <1>11, PopDown DEF NotifyFileAck, TypeOK
  <2>2. up' = <<>>
    <3>1. up \in Seq({"ok", "nack"}) /\ Len(up) <= 1
      BY DEF Turn, TypeOK
    <3>2. /\ Len(up) \in Nat /\ Len(up) >= 1 /\ Len(Tail(up)) = Len(up) - 1
          /\ Tail(up) \in Seq({"ok", "nack"})
      BY <2>1, <3>1, PopDown
    <3>3. Len(up') = 0 /\ up' \in Seq({"ok", "nack"})
      BY <2>1, <3>1, <3>2
    <3> QED BY <3>3
  <2>3. UNCHANGED <<tx, down, rx, synced_files>> /\ udp_ready' /\ file_ack_sem' = 1 /\ file_ack_result' = Head(up)
    BY <1>11 DEF NotifyFileAck
  <2> QED BY <1>0, <2>1, <2>2, <2>3 DEF CleanInv, Quiet, Answered, DoneUnderWay, TypeOK
<1>12. CASE Reassociate
  BY <1>12 DEF Reassociate
<1>13. ASSUME OnFileStart \/ OnData \/ OnFileEnd \/ OnTransferDone \/ Ignored
       PROVE  CleanInv'
  <2>0. /\ down # <<>> /\ down' = Tail(down)
        /\ UNCHANGED <<tx, file_ack_sem, file_ack_result, udp_ready, synced_files>>
    BY <1>13 DEF OnFileStart, OnData, OnFileEnd, OnTransferDone, Ignored, Receive
  <2>1. /\ Len(down') \in Nat /\ Len(down) = Len(down') + 1
        /\ \A i \in 1..Len(down') : down'[i] = down[i + 1]
        /\ Head(down) = down[1] /\ 1 \in 1..Len(down)
    BY <2>0, TurnPopped
  <2>2. \A i \in 1..Len(down') : i \in Int /\ 1 < i + 1 /\ i + 1 \in 1..Len(down)
    BY <2>1
  <2>3. tx \in {"data", "end", "reset", "await", "stopped"} /\ udp_ready'
    BY <1>0, <2>0 DEF CleanInv, TypeOK
  <2>4. tx \in {"data", "end"} => InFile /\ Quiet /\ OnlyData
    BY <1>0 DEF CleanInv
  <2>5. tx \in {"reset", "await"} => InFile /\ Quiet /\ EndLast
    BY <1>0, <2>0 DEF CleanInv, Answered
  <2>6. tx = "stopped" /\ synced_files = NFiles => rx = "done" \/ (rx = "idle" /\ DoneUnderWay)
    BY <1>0 DEF CleanInv
  <2>7. OnlyData => OnlyData'
    BY <2>1, <2>2 DEF OnlyData
  <2>8. EndLast => EndLast'
    BY <2>1, <2>2 DEF EndLast
  <2>9. ASSUME rx' = "open", UNCHANGED up,
               InFile, down[1].type # "TRANSFER_DONE"
        PROVE  CleanInv'
    BY <2>0, <2>3, <2>4, <2>5, <2>6, <2>7, <2>8, <2>9 DEF CleanInv, InFile, Quiet, DoneUnderWay
  <2>10. ASSUME tx = "stopped", synced_files = NFiles => rx' = "done"
         PROVE  CleanInv'
    BY <2>0, <2>3, <2>10 DEF CleanInv
  <2>11. CASE OnFileStart
    <3>1. down[1].type = "FILE_START" /\ IsStart(1)
      BY <2>1, <2>11 DEF OnFileStart, Receive, IsStart
    <3>2. CASE rx = "open"
      BY <2>1, <3>1, <3>2 DEF Turn
    <3>3. CASE rx = "idle"
      BY <2>1, <2>9, <2>11, <3>1, <3>3 DEF OnFileStart, InFile
    <3> QED BY <2>11, <3>2, <3>3 DEF OnFileStart
  <2>12. CASE OnData
    <3>1. down[1].type = "DATA"
      BY <2>1, <2>12 DEF OnData, Receive
    <3>2. CASE rx = "open"
      BY <2>9, <2>12, <3>1, <3>2 DEF OnData, InFile
    <3>3. CASE rx = "idle"
      BY <2>3, <2>4, <2>5, <2>6, <2>10, <3>1, <3>3 DEF InFile, DoneUnderWay
    <3> QED BY <2>12, <3>2, <3>3 DEF OnData
  <2>13. CASE OnFileEnd
    <3>1. down[1].type = "FILE_END"
      BY <2>1, <2>13 DEF OnFileEnd, Receive
    <3>2. CASE tx \in {"reset", "await"}
      <4>1. rx = "open" /\ up = <<>> /\ file_ack_sem = 0 /\ Len(down) = 1
        BY <2>1, <2>5, <3>1, <3>2 DEF InFile, Quiet, EndLast
      <4>2. rx' = "idle" /\ \E r \in {"ok", "nack"} : up' = Append(up, r)
        BY <1>0, <2>13, <4>1 DEF OnFileEnd, Answer
      <4>3. up' # <<>>
        BY <4>1, <4>2
      <4>4. down' = <<>>
        <5>1. Len(down') = 0 /\ down' \in Seq(Datagrams)
          BY <2>0, <2>1, <4>1, PopDown DEF TypeOK
        <5> QED BY <5>1
      <4> QED BY <2>0, <2>3, <3>2, <4>1, <4>2, <4>3, <4>4 DEF CleanInv, Answered
    <3>3. CASE tx \in {"data", "end"}
      BY <2>1, <2>4, <3>1, <3>3 DEF OnlyData
    <3>4. CASE tx = "stopped"
      BY <2>6, <2>10, <2>13, <3>1, <3>4 DEF OnFileEnd, DoneUnderWay
    <3> QED BY <2>3, <3>2, <3>3, <3>4
  <2>14. CASE OnTransferDone
    <3>1. down[1].type = "TRANSFER_DONE"
      BY <2>1, <2>14 DEF OnTransferDone, Receive
    <3>2. tx = "stopped"
      BY <2>1, <2>3, <2>4, <2>5, <3>1 DEF OnlyData, EndLast
    <3>3. synced_files = NFiles => rx' = "done"
      BY <2>6, <2>14, <3>2 DEF OnTransferDone, Receive
    <3> QED BY <2>10, <3>2, <3>3
  <2>15. CASE Ignored
    <3>1. tx = "stopped" /\ rx' = rx /\ rx # "idle"
      BY <2>3, <2>4, <2>5, <2>15 DEF Ignored, InFile
    <3> QED BY <2>6, <2>10, <3>1
  <2> QED BY <1>13, <2>11, <2>12, <2>13, <2>14, <2>15
<1>14. CASE ClientTimesOut
  <2>1. tx = "stopped" /\ down = <<>> /\ UNCHANGED <<tx, udp_ready, synced_files>> /\ rx # "done"
    BY <1>0, <1>14 DEF ClientTimesOut
  <2>2. synced_files # NFiles
    BY <1>0, <2>1 DEF CleanInv, DoneUnderWay
  <2> QED BY <1>0, <2>1, <2>2 DEF CleanInv
<1>15. CASE UNCHANGED vars
  BY <1>0, <1>15 DEF vars, CleanInv, InFile, Quiet, OnlyData, EndLast, Answered, DoneUnderWay
<1> QED
  BY <1>1, <1>2, <1>3, <1>4, <1>5, <1>7, <1>8, <1>9, <1>10, <1>11, <1>12, <1>13, <1>14, <1>15
  DEF Next, TransferThread, Receiver, Over

----------------------------------------------------------------------------
(* The properties. *)

IInv == TypeOK /\ Turn /\ FileInv /\ OkInv /\ SavedIntact /\ CleanInv

LEMMA InvInit == Init => IInv
  BY TypeInit, TurnInit, FileInit, OkInit, CleanInit DEF IInv

LEMMA InvStep == IInv /\ [Next]_vars => IInv'
  BY TypeStep, TurnStep, FileStep, OkStep, SavedStep, CleanStep DEF IInv

LEMMA InvAlways == Spec => []IInv
  BY InvInit, InvStep, PTL DEF Spec

\* Whatever is lost, skipped, late or sent twice, a file at its final path is
\* whole and its own (FileReceiver: "never exposed at its final path until the
\* total byte count and FILE_END CRC32 both match").
THEOREM SavedAlwaysIntact == Spec => []SavedIntact
<1>1. IInv => SavedIntact
  BY DEF IInv
<1> QED BY <1>1, InvAlways, PTL

\* Lost DATA, a lost FILE_END and frames the device could not send never end the
\* client's download while the device has attempts left.
THEOREM DataLossAlwaysRecovered == Spec => []DataLossRecovered
<1>1. IInv => DataLossRecovered
  <2> SUFFICES ASSUME IInv, rx = "failed", clean PROVE tx = "stopped" /\ synced_files < NFiles
    BY DEF DataLossRecovered
  <2>1. tx = "stopped"
    BY DEF IInv, TypeOK, CleanInv, InFile, Answered
  <2>2. synced_files # NFiles
    BY <2>1 DEF IInv, CleanInv
  <2> QED BY <2>1, <2>2, UdpAssumption DEF IInv, TypeOK
<1> QED BY <1>1, InvAlways, PTL

----------------------------------------------------------------------------
(* The exchange implements FileDelivery. *)

LEMMA DeliveryInit == Init => Delivery!Init
<1> SUFFICES ASSUME Init PROVE Delivery!Init
  OBVIOUS
<1>1. \A f \in 1..NFiles : saved[f] # Payload(f)
  <2> SUFFICES ASSUME NEW f \in 1..NFiles PROVE saved[f] # Payload(f)
    OBVIOUS
  <2>1. <<f, 1>> \in Payload(f)
    BY UdpAssumption DEF Payload
  <2>2. saved[f] = {}
    BY DEF Init
  <2> QED BY <2>1, <2>2
<1>2. synced_files = 0 /\ synced_files # NFiles /\ tx = "start"
  BY UdpAssumption DEF Init
<1> QED BY <1>1, <1>2 DEF Delivery!Init

\* A step that leaves what is saved, counted and over alone is a stutter.
LEMMA DeliveryStutter ==
    ASSUME UNCHANGED <<saved, synced_files>>, tx' = "stopped" <=> tx = "stopped"
    PROVE  UNCHANGED Delivery!vars
  BY DEF Delivery!vars, Payload

LEMMA DeliveryStep == IInv /\ [Next]_vars => [Delivery!Next]_(Delivery!vars)
<1> SUFFICES ASSUME IInv, [Next]_vars PROVE Delivery!Next \/ UNCHANGED Delivery!vars
  OBVIOUS
<1> USE DEF txVars, ackVars, tryVars, rxVars
<1>0. /\ file \in 1..NFiles /\ synced_files \in 0..NFiles /\ NFiles \in Nat
      /\ TypeOK /\ FileInv /\ OkInv
  BY UdpAssumption DEF IInv, TypeOK
<1>1. CASE SendFileStart \/ SendData \/ EndOfFile \/ SendFileEnd \/ ResetAck \/ AckTimeout
           \/ NotifyFileAck \/ Reassociate \/ OnFileStart \/ OnData \/ OnTransferDone
           \/ Ignored \/ ClientTimesOut \/ UNCHANGED vars
  <2>1. UNCHANGED <<saved, synced_files>> /\ (tx' = "stopped" <=> tx = "stopped")
    BY <1>1 DEF SendFileStart, SendData, EndOfFile, SendFileEnd, ResetAck, AckTimeout,
         NotifyFileAck, Reassociate, OnFileStart, OnData, OnTransferDone, Ignored,
         ClientTimesOut, Unexpected, Receive, vars
  <2> QED BY <2>1, DeliveryStutter
<1>2. CASE FileAcked
  <2>1. /\ saved[file] = Payload(file) /\ synced_files = file - 1 /\ synced_files # NFiles
        /\ tx # "stopped"
    BY <1>0, <1>2 DEF FileAcked, OkInv
  <2>2. UNCHANGED saved /\ synced_files' = file
    BY <1>2 DEF FileAcked, Finish
  <2>3. file # NFiles => tx' # "stopped"
    BY <1>2 DEF FileAcked
  <2>4. Delivery!Count
    BY <1>0, <2>1, <2>2, <2>3 DEF Delivery!Count, Payload
  <2> QED BY <2>4 DEF Delivery!Next
<1>3. CASE FileNacked \/ SendFails
  <2>1. UNCHANGED <<saved, synced_files>> /\ synced_files # NFiles /\ tx # "stopped"
    BY <1>0, <1>3 DEF FileNacked, SendFails, Finish, OkInv
  <2>2. CASE tx' = "stopped"
    <3>1. Delivery!GiveUp
      BY <2>1, <2>2 DEF Delivery!GiveUp, Payload
    <3> QED BY <3>1 DEF Delivery!Next
  <2>3. CASE tx' # "stopped"
    BY <2>1, <2>3, DeliveryStutter
  <2> QED BY <2>2, <2>3
<1>4. CASE OnFileEnd
  <2>1. UNCHANGED <<tx, synced_files, file>>
    BY <1>4 DEF OnFileEnd, Receive
  <2>2. CASE saved' = saved
    BY <2>1, <2>2, DeliveryStutter
  <2>3. CASE saved' = [saved EXCEPT ![file] = Payload(file)]
    <3>1. CASE synced_files = file - 1
      <4>1. synced_files < NFiles /\ synced_files + 1 = file
        BY <1>0, <3>1
      <4>2. \A f \in 1..NFiles : saved'[f] = IF f = file THEN Payload(file) ELSE saved[f]
        BY <1>0, <2>3 DEF TypeOK
      <4>3. { f \in 1..NFiles : saved'[f] = Payload(f) }
            = { f \in 1..NFiles : saved[f] = Payload(f) } \cup {synced_files + 1}
        BY <1>0, <4>1, <4>2
      <4>4. Delivery!Deliver
        BY <2>1, <4>1, <4>3 DEF Delivery!Deliver, Payload
      <4> QED BY <4>4 DEF Delivery!Next
    <3>2. CASE synced_files = file
      <4>1. saved[file] = Payload(file)
        BY <1>0, <3>2 DEF OkInv
      <4>2. saved' = saved
        BY <1>0, <2>3, <4>1 DEF TypeOK
      <4> QED BY <2>1, <4>2, DeliveryStutter
    <3> QED BY <1>0, <3>1, <3>2 DEF OkInv, TypeOK
  <2> QED BY <1>0, <1>4, <2>2, <2>3, FileEndSaves
<1> QED
  BY <1>1, <1>2, <1>3, <1>4 DEF Next, TransferThread, Receiver, Over

\* The exchange delivers: files reach the client whole and in order, the device
\* counts one only when it was delivered, and calls the transfer complete only
\* when all were, whatever the network does.
THEOREM FilesAlwaysDelivered == Spec => FilesDelivered
  BY DeliveryInit, DeliveryStep, InvAlways, PTL DEF Spec, FilesDelivered, Delivery!Spec
=============================================================================
