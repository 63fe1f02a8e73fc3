------------------------------ MODULE AtServer -------------------------------
(***************************************************************************)
(* Commands and answers: the SDK's clients over BLE and WiFi (ClipClient,  *)
(* BleTransport, UdpTransport), the queue and the thread of the device's   *)
(* AT server (at_server.c), and the way an answer takes back.              *)
(*                                                                         *)
(* No command and no answer carries a request id.  The device answers to   *)
(* whoever is at the other end of the command's transport by then: the     *)
(* link of BLE, the sender of the last datagram of UDP.  The client takes  *)
(* whatever answer comes first.                                            *)
(***************************************************************************)
EXTENDS Integers, Sequences, FiniteSets

CONSTANTS
    Clients,        \* ClipClient objects, each with its transport
    BleClients,     \* those that use BleTransport; the others use UdpTransport
    QueueSize,      \* CONFIG_CLIP_AT_SERVER_QUEUE_SIZE
    MaxCalls,       \* bound of the model: commands
    MaxLinks,       \* bound of the model: connections
    Faults          \* what a run allows

\* "lose": a datagram of UDP is lost.  "overlap": a client connects while a
\* command of its transport is under way, or another client uses it.
\* "cancel": the task that waits for an answer is cancelled.
FaultNames == {"lose", "overlap", "cancel"}

ASSUME AtServerAssumption ==
    /\ BleClients \subseteq Clients
    /\ QueueSize \in Nat \ {0} /\ MaxCalls \in Nat \ {0} /\ MaxLinks \in Nat \ {0}
    /\ Faults \subseteq FaultNames

Transports == {"BLE", "UDP"}
Transport(c) == IF c \in BleClients THEN "BLE" ELSE "UDP"

NoCall == 0     \* the first command is number 1

VARIABLES
    \* of each client
    connected,      \* is_connected
    link,           \* its last connection, or socket
    desynchronized, \* _desynchronized
    waiting,        \* the command it waits for, or NoCall
    responses,      \* _responses: answers not taken yet
    \* between the two
    up,             \* commands on their way; a NoCall is a heartbeat
    down,           \* answers on their way
    \* of the device
    peer,           \* ble_ctx.conn, udp_client_addr: a client's link, or {}
    queue,          \* at_ctx.msgq
    item,           \* what the thread works on: at most one command
    refused,        \* history: commands the full queue did not take
    calls, links    \* history: how many there were, to tell them apart

clientVars == <<connected, link, desynchronized, waiting, responses>>
countVars == <<calls, links>>
deviceVars == <<peer, queue, item, refused>>
vars == <<clientVars, up, down, deviceVars, countVars>>

Init ==
    /\ connected = [c \in Clients |-> FALSE]
    /\ link = [c \in Clients |-> 0]
    /\ desynchronized = [c \in Clients |-> FALSE]
    /\ waiting = [c \in Clients |-> NoCall]
    /\ responses = [c \in Clients |-> <<>>]
    /\ up = {} /\ down = {}
    /\ peer = [t \in Transports |-> {}]
    /\ queue = <<>> /\ item = {} /\ refused = {}
    /\ calls = 0 /\ links = 0

----------------------------------------------------------------------------
\* A command, as the device keeps it: whose, and which; its transport is that
\* of the driver that submitted it.
Command(c, n) == [client |-> c, call |-> n]

\* What is sent over a link carries the link, so that it can be too late.
Message(c, n, l) == [client |-> c, call |-> n, link |-> l]

\* Where a command of transport t can be between its send_command and the client.
UpOf(t) == {m \in up : m.call # NoCall /\ Transport(m.client) = t}
QueueOf(t) == {i \in DOMAIN queue : Transport(queue[i].client) = t}
ItemOf(t) == {cmd \in item : Transport(cmd.client) = t}
DownOf(t) == {m \in down : Transport(m.to) = t}

Free(t) ==
    /\ UpOf(t) = {} /\ QueueOf(t) = {} /\ ItemOf(t) = {} /\ DownOf(t) = {}
    /\ \A d \in Clients : Transport(d) = t => ~connected[d]

\* A BLE peripheral with a link does not advertise; nobody keeps a second
\* client away from the port of UDP.
MayConnect(c) ==
    /\ c \in BleClients => peer["BLE"] = {}
    /\ Free(Transport(c)) \/ "overlap" \in Faults

----------------------------------------------------------------------------
(* The SDK: connect, disconnect and request, called by one task per client. *)

connect(c) ==
    /\ ~connected[c] /\ waiting[c] = NoCall /\ links < MaxLinks
    /\ MayConnect(c)
    /\ connected' = [connected EXCEPT ![c] = TRUE]
    /\ links' = links + 1
    /\ link' = [link EXCEPT ![c] = links']
    /\ desynchronized' = [desynchronized EXCEPT ![c] = FALSE]
    /\ responses' = [responses EXCEPT ![c] = <<>>]
    /\ IF c \in BleClients
       THEN /\ peer' = [peer EXCEPT !["BLE"] = {[client |-> c, link |-> links']}]
            /\ UNCHANGED up
       ELSE /\ up' = up \cup {Message(c, NoCall, links')}
            /\ UNCHANGED peer
    /\ UNCHANGED <<waiting, down, queue, item, refused, calls>>

\* A link of BLE ends at both ends, and what was on it is gone; a closed socket
\* only hears nothing any more.
HangUp(c) ==
    /\ connected' = [connected EXCEPT ![c] = FALSE]
    /\ down' = {m \in down : m.to # c}
    /\ IF c \in BleClients
       THEN peer' = [peer EXCEPT !["BLE"] = {}] /\ up' = {m \in up : m.client # c}
       ELSE UNCHANGED <<peer, up>>
    /\ UNCHANGED <<link, waiting, queue, item, refused, countVars>>

disconnect(c) ==
    /\ connected[c] /\ waiting[c] = NoCall
    /\ HangUp(c)
    /\ desynchronized' = [desynchronized EXCEPT ![c] = FALSE]
    /\ responses' = [responses EXCEPT ![c] = <<>>]

\* Out of range, switched off, ended by the device (BleLink): a call goes on waiting.
LinkLost(c) ==
    /\ c \in BleClients /\ connected[c]
    /\ HangUp(c)
    /\ UNCHANGED <<desynchronized, responses>>

send_command(c) ==
    /\ connected[c] /\ ~desynchronized[c] /\ waiting[c] = NoCall /\ calls < MaxCalls
    /\ calls' = calls + 1
    /\ waiting' = [waiting EXCEPT ![c] = calls']
    /\ responses' = [responses EXCEPT ![c] = <<>>]
    /\ up' = up \cup {Message(c, calls', link[c])}
    /\ UNCHANGED <<connected, link, desynchronized, down, deviceVars, links>>

\* wait_for returns the first answer there is.
TakeResponse(c) ==
    /\ waiting[c] # NoCall /\ responses[c] # <<>>
    /\ waiting' = [waiting EXCEPT ![c] = NoCall]
    /\ responses' = [responses EXCEPT ![c] = Tail(@)]
    /\ UNCHANGED <<connected, link, desynchronized, up, down, deviceVars, countVars>>

\* Mutant: a timeout leaves the client in sync.
Timeout_StaysInSync(c) ==
    /\ waiting[c] # NoCall
    /\ waiting' = [waiting EXCEPT ![c] = NoCall]
    /\ UNCHANGED <<connected, link, desynchronized, responses, up, down, deviceVars,
                   countVars>>

\* After a timeout the client sends nothing until it is connected again.  A
\* cancelled wait is no TimeoutError and passes by the handler that says so.
Timeout(c) ==
    /\ waiting[c] # NoCall
    /\ waiting' = [waiting EXCEPT ![c] = NoCall]
    /\ \E cancelled \in BOOLEAN :
         /\ cancelled => "cancel" \in Faults
         /\ desynchronized' = [desynchronized EXCEPT ![c] = @ \/ ~cancelled]
    /\ UNCHANGED <<connected, link, responses, up, down, deviceVars, countVars>>

\* _on_response_notification, _on_datagram
OnResponse ==
    \E m \in down :
        /\ down' = down \ {m}
        /\ responses' = [responses EXCEPT ![m.to] = Append(@, Command(m.client, m.call))]
        /\ UNCHANGED <<connected, link, desynchronized, waiting, up, deviceVars, countVars>>

----------------------------------------------------------------------------
(* The device. *)

\* at_server_submit_cmd does not wait; no caller tells the client of a failure:
\* a write without response and a datagram have no answer of their own.  (A
\* command of 256 bytes or more fares like one that finds the queue full.)
at_server_submit_cmd(cmd) ==
    IF Len(queue) < QueueSize
    THEN queue' = Append(queue, cmd) /\ UNCHANGED refused
    ELSE refused' = refused \cup {cmd} /\ UNCHANGED queue

\* cmd_recv_write; udp_server_thread, which notes the sender of any datagram.
Arrive ==
    \E m \in up :
        /\ up' = up \ {m}
        /\ peer' = IF m.client \in BleClients THEN peer
                   ELSE [peer EXCEPT !["UDP"] = {[client |-> m.client, link |-> m.link]}]
        /\ IF m.call = NoCall
           THEN UNCHANGED <<queue, refused>>
           ELSE at_server_submit_cmd(Command(m.client, m.call))
        /\ UNCHANGED <<clientVars, down, item, countVars>>

GetCommand ==
    /\ item = {} /\ queue # <<>>
    /\ item' = {Head(queue)} /\ queue' = Tail(queue)
    /\ UNCHANGED <<clientVars, up, down, peer, refused, countVars>>

\* What reaches a socket that is closed by now is gone.
Answers(cmd, peers) ==
    {[to |-> p.client, link |-> p.link, client |-> cmd.client, call |-> cmd.call] :
        p \in {x \in peers : connected[x.client] /\ link[x.client] = x.link}}

\* Mutant: the answer takes the active transport (transport_send), UDP first.
SendResponse_Active(cmd) ==
    Answers(cmd, IF peer["UDP"] # {} THEN peer["UDP"] ELSE peer["BLE"])

\* SEND_RESPONSE, after the handler or instead of it.
SendResponse(cmd) == Answers(cmd, peer[Transport(cmd.client)])

process_command ==
    \E cmd \in item :
        /\ item' = {}
        /\ down' = down \cup SendResponse(cmd)
        /\ UNCHANGED <<clientVars, up, peer, queue, refused, countVars>>

----------------------------------------------------------------------------
\* A datagram is lost, in the air or in a full buffer.
Lose ==
    /\ "lose" \in Faults
    /\ \/ \E m \in up : m.client \notin BleClients /\ up' = up \ {m} /\ UNCHANGED down
       \/ \E m \in down : m.to \notin BleClients /\ down' = down \ {m} /\ UNCHANGED up
    /\ UNCHANGED <<clientVars, deviceVars, countVars>>

Next ==
    \/ \E c \in Clients : connect(c) \/ disconnect(c) \/ LinkLost(c) \/ send_command(c)
                              \/ TakeResponse(c) \/ Timeout(c)
    \/ OnResponse \/ Arrive \/ GetCommand \/ process_command
    \/ Lose

\* The threads of the device and the event loop of the host run; whether an
\* answer comes before its timeout is open.
Fairness ==
    /\ WF_vars(OnResponse) /\ WF_vars(Arrive) /\ WF_vars(GetCommand) /\ WF_vars(process_command)
    /\ \A c \in Clients : WF_vars(TakeResponse(c))

Spec == Init /\ [][Next]_vars
FairSpec == Spec /\ Fairness

----------------------------------------------------------------------------
(* Properties. *)

Commands == [client : Clients, call : 1..MaxCalls]
Links == [client : Clients, link : 0..MaxLinks]

\* The variables keep their types; a transport has at most one peer.
TypeOK ==
    /\ connected \in [Clients -> BOOLEAN] /\ desynchronized \in [Clients -> BOOLEAN]
    /\ link \in [Clients -> 0..MaxLinks]
    /\ calls \in 0..MaxCalls /\ links \in 0..MaxLinks
    /\ waiting \in [Clients -> 0..MaxCalls]
    /\ responses \in [Clients -> Seq(Commands)]
    /\ up \subseteq [client : Clients, call : 0..MaxCalls, link : 0..MaxLinks]
    /\ down \subseteq [to : Clients, link : 0..MaxLinks, client : Clients, call : 1..MaxCalls]
    /\ peer \in [Transports -> SUBSET Links]
    /\ \A t \in Transports : \A p, q \in peer[t] : p = q
    /\ queue \in Seq(Commands) /\ Len(queue) <= QueueSize
    /\ item \subseteq Commands /\ \A a, b \in item : a = b
    /\ refused \subseteq Commands

\* The answer a client takes is the answer to its own command, whatever was
\* late, lost or refused before: "this deliberately prevents a late response from
\* being attributed to a different command" (sdk/docs/architecture.md:22-26).
AnswerMatches ==
    \A c \in Clients : waiting[c] # NoCall /\ responses[c] # <<>>
                         => Head(responses[c]) = Command(c, waiting[c])

\* A command the device took over BLE is answered, unless its link ends: the
\* one thread and its queue hold no answer back (at_server.c:288-303).
BleAnswered ==
    \A c \in BleClients :
        waiting[c] # NoCall ~> \/ waiting[c] = NoCall \/ ~connected[c]
                               \/ Command(c, waiting[c]) \in refused
=============================================================================
