--------------------------- MODULE AtServerProofs ----------------------------
(***************************************************************************)
(* What is proved of the AT server and of its one command with a program   *)
(* of its own on the other side, AT+LIST: of AtServer for any number of    *)
(* clients, commands and connections and any size of the queue, and of     *)
(* SessionList for cards, pages and responses of every size.               *)
(*                                                                         *)
(* AnswerMatches rests on there being no more than one command of a        *)
(* transport under way.  A client sends only in sync, after its last       *)
(* answer or a new connect; a connect waits until nothing is under way     *)
(* (that is what Calm says: without it the theorem is false).              *)
(*                                                                         *)
(* PagesCover rests on the order of the list: the scan keeps it (newer     *)
(* ids first, whatever the order of the directories), so that the place of *)
(* a session is the number of the newer ones, which only grows.  What a    *)
(* recursive function of n holds for every n is shown of the least n for   *)
(* which it would not (LeastNumber).                                       *)
(***************************************************************************)
EXTENDS AtServer, SessionList, FiniteSetTheorems, WellFoundedInduction, TLAPS

\* A connect waits until nothing of its transport is under way, and no call is cancelled.
Calm == Faults \cap {"overlap", "cancel"} = {}

\* One user of a transport, and all that is on its way to a client is for one
\* that is there.
LinkInv ==
    /\ \A c, d \in Clients : connected[c] /\ connected[d] /\ Transport(c) = Transport(d) => c = d
    /\ \A t \in Transports : \A p \in peer[t] : Transport(p.client) = t
    /\ \A m \in down : connected[m.to]

\* One command of a transport, in one place.
OneInv ==
    \A t \in Transports :
        /\ \A m, x \in UpOf(t) : m = x
        /\ \A i, j \in QueueOf(t) : i = j
        /\ \A m, x \in DownOf(t) : m = x
        /\ UpOf(t) # {} => QueueOf(t) = {} /\ ItemOf(t) = {} /\ DownOf(t) = {}
        /\ QueueOf(t) # {} => ItemOf(t) = {} /\ DownOf(t) = {}
        /\ ItemOf(t) # {} => DownOf(t) = {}

Idle(t) == UpOf(t) = {} /\ QueueOf(t) = {} /\ ItemOf(t) = {} /\ DownOf(t) = {}

\* Command(c, n) is the only one of its transport that may be under way.
Only(c, n) ==
    /\ \A m \in UpOf(Transport(c)) : m.client = c /\ m.call = n
    /\ \A i \in QueueOf(Transport(c)) : queue[i] = Command(c, n)
    /\ \A cmd \in ItemOf(Transport(c)) : cmd = Command(c, n)
    /\ \A m \in DownOf(Transport(c)) : m.client = c /\ m.call = n

\* What a client that is connected may believe.
SyncInv ==
    \A c \in Clients :
        /\ connected[c] /\ ~desynchronized[c] /\ waiting[c] = NoCall => Idle(Transport(c))
        /\ connected[c] /\ waiting[c] # NoCall => Only(c, waiting[c])
        /\ connected[c] /\ waiting[c] # NoCall /\ responses[c] # <<>> => Idle(Transport(c))
        /\ waiting[c] # NoCall =>
             \A i \in DOMAIN responses[c] : responses[c][i] = Command(c, waiting[c])

AtInv == TypeOK /\ LinkInv /\ OneInv /\ SyncInv

-----------------------------------------------------------------------------
(* Types. *)

LEMMA TypeInit == Init => TypeOK
  BY AtServerAssumption DEF Init, TypeOK, Transports, Commands, Links, NoCall

LEMMA CommandType ==
  \A c \in Clients, n \in 1..MaxCalls :
      /\ Command(c, n) \in Commands
      /\ Command(c, n).client = c /\ Command(c, n).call = n
  BY DEF Command, Commands

LEMMA TypeStep == ASSUME TypeOK, [Next]_vars PROVE TypeOK'
<1> USE AtServerAssumption DEF TypeOK
<1>1. ASSUME NEW c \in Clients, connect(c) PROVE TypeOK'
  <2>1. links' \in 0..MaxLinks /\ link' \in [Clients -> 0..MaxLinks]
    BY <1>1 DEF connect
  <2>2. peer' \in [Transports -> SUBSET Links] /\ \A t \in Transports : \A p, q \in peer'[t] : p = q
    <3>1. [client |-> c, link |-> links'] \in Links
      BY <2>1 DEF Links
    <3> QED BY <1>1, <3>1 DEF connect, Transports
  <2>3. up' \subseteq [client : Clients, call : 0..MaxCalls, link : 0..MaxLinks]
    BY <1>1, <2>1 DEF connect, Message, NoCall
  <2>4. responses' \in [Clients -> Seq(Commands)]
    BY <1>1 DEF connect
  <2> QED BY <1>1, <2>1, <2>2, <2>3, <2>4 DEF connect
<1>2. ASSUME NEW c \in Clients, disconnect(c) \/ LinkLost(c) PROVE TypeOK'
  <2>1. HangUp(c)
    BY <1>2 DEF disconnect, LinkLost
  <2>2. /\ responses' \in [Clients -> Seq(Commands)]
        /\ desynchronized' \in [Clients -> BOOLEAN]
    <3>1. CASE disconnect(c)
      BY <3>1 DEF disconnect
    <3>2. CASE LinkLost(c)
      BY <3>2 DEF LinkLost
    <3> QED BY <1>2, <3>1, <3>2
  <2>3. peer' \in [Transports -> SUBSET Links] /\ \A t \in Transports : \A p, q \in peer'[t] : p = q
    BY <2>1 DEF HangUp, Transports
  <2>4. /\ up' \subseteq up /\ down' \subseteq down
        /\ connected' \in [Clients -> BOOLEAN]
        /\ UNCHANGED <<link, waiting, queue, item, refused, calls, links>>
    BY <2>1 DEF HangUp, countVars
  <2> QED BY <2>2, <2>3, <2>4
<1>3. ASSUME NEW c \in Clients, send_command(c) PROVE TypeOK'
  <2>1. calls' \in 0..MaxCalls /\ waiting' \in [Clients -> 0..MaxCalls]
    BY <1>3 DEF send_command
  <2>2. up' \subseteq [client : Clients, call : 0..MaxCalls, link : 0..MaxLinks]
    BY <1>3, <2>1 DEF send_command, Message
  <2>3. responses' \in [Clients -> Seq(Commands)]
    BY <1>3 DEF send_command
  <2> QED BY <1>3, <2>1, <2>2, <2>3 DEF send_command, deviceVars
<1>4. ASSUME NEW c \in Clients, TakeResponse(c) PROVE TypeOK'
  <2>1. responses' \in [Clients -> Seq(Commands)]
    BY <1>4 DEF TakeResponse
  <2>2. waiting' \in [Clients -> 0..MaxCalls]
    BY <1>4 DEF TakeResponse, NoCall
  <2> QED BY <1>4, <2>1, <2>2 DEF TakeResponse, deviceVars, countVars
<1>5. ASSUME NEW c \in Clients, Timeout(c) PROVE TypeOK'
  <2>1. waiting' \in [Clients -> 0..MaxCalls]
    BY <1>5 DEF Timeout, NoCall
  <2>2. desynchronized' \in [Clients -> BOOLEAN]
    BY <1>5 DEF Timeout
  <2> QED BY <1>5, <2>1, <2>2 DEF Timeout, deviceVars, countVars
<1>6. CASE OnResponse
  <2>1. PICK m \in down :
          /\ down' = down \ {m}
          /\ responses' = [responses EXCEPT ![m.to] = Append(@, Command(m.client, m.call))]
    BY <1>6 DEF OnResponse
  <2>2. m.to \in Clients /\ Command(m.client, m.call) \in Commands
    BY CommandType
  <2>3. responses' \in [Clients -> Seq(Commands)]
    BY <2>1, <2>2
  <2>4. UNCHANGED <<connected, link, desynchronized, waiting, up, deviceVars, countVars>>
    BY <1>6 DEF OnResponse
  <2> QED BY <2>1, <2>3, <2>4 DEF deviceVars, countVars
<1>7. CASE Arrive
  <2>1. PICK m \in up :
          /\ up' = up \ {m}
          /\ peer' = IF m.client \in BleClients THEN peer
                     ELSE [peer EXCEPT !["UDP"] = {[client |-> m.client, link |-> m.link]}]
          /\ IF m.call = NoCall THEN UNCHANGED <<queue, refused>>
                                ELSE at_server_submit_cmd(Command(m.client, m.call))
          /\ UNCHANGED <<clientVars, down, item, countVars>>
    BY <1>7 DEF Arrive
  <2>2. peer' \in [Transports -> SUBSET Links] /\ \A t \in Transports : \A p, q \in peer'[t] : p = q
    <3>1. [client |-> m.client, link |-> m.link] \in Links
      BY DEF Links
    <3> QED BY <2>1, <3>1 DEF Transports
  <2>3. m.call # NoCall => Command(m.client, m.call) \in Commands
    BY CommandType DEF NoCall
  <2>4. queue' \in Seq(Commands) /\ Len(queue') <= QueueSize /\ refused' \subseteq Commands
    <3> DEFINE cmd == Command(m.client, m.call)
    <3>1. CASE UNCHANGED <<queue, refused>>
      BY <3>1
    <3>2. CASE cmd \in Commands /\ at_server_submit_cmd(cmd)
      <4> HIDE DEF cmd
      <4>1. CASE Len(queue) < QueueSize
        <5>1. queue' = Append(queue, cmd) /\ UNCHANGED refused
          BY <3>2, <4>1 DEF at_server_submit_cmd
        <5>2. queue' \in Seq(Commands) /\ Len(queue') = Len(queue) + 1
          BY <3>2, <5>1
        <5> QED BY <4>1, <5>1, <5>2
      <4>2. CASE ~(Len(queue) < QueueSize)
        BY <3>2, <4>2 DEF at_server_submit_cmd
      <4> QED BY <4>1, <4>2
    <3> QED BY <2>1, <2>3, <3>1, <3>2
  <2> QED BY <2>1, <2>2, <2>4 DEF clientVars, countVars
<1>8. CASE GetCommand
  <2>1. item' \subseteq Commands /\ \A a, b \in item' : a = b
    BY <1>8 DEF GetCommand
  <2>2. queue' \in Seq(Commands) /\ Len(queue') <= QueueSize
    BY <1>8 DEF GetCommand
  <2> QED BY <1>8, <2>1, <2>2 DEF GetCommand, clientVars, countVars
<1>9. CASE process_command
  <2>1. PICK cmd \in item : item' = {} /\ down' = down \cup SendResponse(cmd)
    BY <1>9 DEF process_command
  <2>2. Transport(cmd.client) \in Transports
    BY DEF Transport, Transports
  <2>3. SendResponse(cmd) \subseteq
          [to : Clients, link : 0..MaxLinks, client : Clients, call : 1..MaxCalls]
    BY <2>2 DEF SendResponse, Answers, Links, Commands
  <2> QED BY <1>9, <2>1, <2>3 DEF process_command, clientVars, countVars
<1>10. CASE Lose
  BY <1>10 DEF Lose, clientVars, deviceVars, countVars
<1>11. CASE UNCHANGED vars
  BY <1>11 DEF vars, clientVars, deviceVars, countVars
<1> QED
  BY <1>1, <1>2, <1>3, <1>4, <1>5, <1>6, <1>7, <1>8, <1>9, <1>10, <1>11 DEF Next

LEMMA LinkInit == Init => LinkInv
  BY DEF Init, LinkInv

LEMMA LinkStep == ASSUME Calm, TypeOK, LinkInv, [Next]_vars PROVE LinkInv'
<1> USE DEF TypeOK, LinkInv, Transports, Calm
<1>1. ASSUME NEW c \in Clients, connect(c) PROVE LinkInv'
  BY <1>1 DEF connect, MayConnect, Free, Transport
<1>2. ASSUME NEW c \in Clients, disconnect(c) PROVE LinkInv'
  BY <1>2 DEF disconnect, HangUp
<1>3. ASSUME NEW c \in Clients, LinkLost(c) PROVE LinkInv'
  BY <1>3 DEF LinkLost, HangUp
<1>4. ASSUME NEW c \in Clients, send_command(c) PROVE LinkInv'
  BY <1>4 DEF send_command, deviceVars
<1>5. ASSUME NEW c \in Clients, TakeResponse(c) PROVE LinkInv'
  BY <1>5 DEF TakeResponse, deviceVars
<1>6. ASSUME NEW c \in Clients, Timeout(c) PROVE LinkInv'
  BY <1>6 DEF Timeout, deviceVars
<1>7. CASE OnResponse
  BY <1>7 DEF OnResponse, deviceVars
<1>8. CASE Arrive
  BY <1>8 DEF Arrive, clientVars, Transport
<1>9. CASE GetCommand
  BY <1>9 DEF GetCommand, clientVars
<1>10. CASE process_command
  BY <1>10 DEF process_command, SendResponse, Answers, clientVars
<1>11. CASE Lose
  BY <1>11 DEF Lose, clientVars, deviceVars
<1>12. CASE UNCHANGED vars
  BY <1>12 DEF vars, clientVars, deviceVars
<1> QED
  BY <1>1, <1>2, <1>3, <1>4, <1>5, <1>6, <1>7, <1>8, <1>9, <1>10, <1>11, <1>12 DEF Next

-----------------------------------------------------------------------------
(* One command at a time, and the one a client waits for. *)

OwnInv == OneInv /\ SyncInv

LEMMA OwnInit == Init => OwnInv
  BY DEF Init, OwnInv, OneInv, SyncInv, UpOf, QueueOf, ItemOf, DownOf, Idle

LEMMA ConnectOwn ==
  ASSUME Calm, TypeOK, LinkInv, OwnInv, NEW c \in Clients, connect(c) PROVE OwnInv'
<1> USE DEF OwnInv
<1>1. Idle(Transport(c)) /\ \A d \in Clients : Transport(d) = Transport(c) => ~connected[d]
  BY DEF Calm, connect, MayConnect, Free, Idle
<1>2. \A t : UpOf(t)' = UpOf(t) /\ QueueOf(t)' = QueueOf(t) /\ ItemOf(t)' = ItemOf(t)
             /\ DownOf(t)' = DownOf(t)
  BY DEF connect, UpOf, QueueOf, ItemOf, DownOf, Message, NoCall
<1>3. OneInv'
  BY <1>2 DEF OneInv
<1>4. \A t : Idle(t)' <=> Idle(t)
  BY <1>2 DEF Idle
<1>5. \A d \in Clients : \A n : Only(d, n)' <=> Only(d, n)
  BY <1>2 DEF Only, connect
<1>6. SyncInv'
  BY <1>1, <1>4, <1>5 DEF SyncInv, connect, TypeOK
<1> QED BY <1>3, <1>6

LEMMA HangUpOwn ==
  ASSUME TypeOK, LinkInv, OwnInv, NEW c \in Clients, HangUp(c),
         UNCHANGED <<desynchronized, responses>>
           \/ /\ waiting[c] = NoCall
              /\ desynchronized' = [desynchronized EXCEPT ![c] = FALSE]
              /\ responses' = [responses EXCEPT ![c] = <<>>]
  PROVE OwnInv'
<1> USE DEF OwnInv
<1>2. \A t : UpOf(t)' \subseteq UpOf(t) /\ QueueOf(t)' = QueueOf(t) /\ ItemOf(t)' = ItemOf(t)
             /\ DownOf(t)' \subseteq DownOf(t)
  BY DEF HangUp, UpOf, QueueOf, ItemOf, DownOf
<1>3. OneInv'
  BY <1>2 DEF OneInv
<1>4. \A t : Idle(t) => Idle(t)'
  BY <1>2 DEF Idle
<1>5. \A d \in Clients : \A n : Only(d, n) => Only(d, n)'
  BY <1>2 DEF Only, HangUp
<1>6. waiting' = waiting /\ \A d \in Clients : connected'[d] => connected[d] /\ d # c
  BY DEF HangUp, TypeOK
<1>7. SyncInv'
  BY <1>4, <1>5, <1>6 DEF SyncInv, TypeOK
<1> QED BY <1>3, <1>7

LEMMA SendOwn ==
  ASSUME TypeOK, LinkInv, OwnInv, NEW c \in Clients, send_command(c) PROVE OwnInv'
<1> USE DEF OwnInv
<1>0. PICK n : n = calls'
  OBVIOUS
<1> DEFINE k == Message(c, n, link[c])
<1>1. Idle(Transport(c)) /\ connected[c]
  BY DEF SyncInv, send_command
<1>2. \A t : QueueOf(t)' = QueueOf(t) /\ ItemOf(t)' = ItemOf(t) /\ DownOf(t)' = DownOf(t)
  BY DEF send_command, QueueOf, ItemOf, DownOf, deviceVars
<1>3. \A t : UpOf(t)' = IF t = Transport(c) THEN {k} ELSE UpOf(t)
  BY <1>0, <1>1 DEF Idle, send_command, UpOf, Message, TypeOK, NoCall
<1>4. OneInv'
  <2>1. \A t \in Transports : t # Transport(c) => UpOf(t)' = UpOf(t)
    BY <1>3
  <2>2. UpOf(Transport(c))' = {k}
    BY <1>3
  <2> HIDE DEF k
  <2> SUFFICES ASSUME NEW t \in Transports
               PROVE  /\ \A m, x \in UpOf(t)' : m = x
                      /\ \A i, j \in QueueOf(t) : i = j
                      /\ \A m, x \in DownOf(t) : m = x
                      /\ UpOf(t)' # {} => QueueOf(t) = {} /\ ItemOf(t) = {} /\ DownOf(t) = {}
                      /\ QueueOf(t) # {} => ItemOf(t) = {} /\ DownOf(t) = {}
                      /\ ItemOf(t) # {} => DownOf(t) = {}
    BY <1>2 DEF OneInv
  <2>3. CASE t = Transport(c)
    BY <1>1, <2>2, <2>3 DEF Idle
  <2>4. CASE t # Transport(c)
    BY <2>1, <2>4 DEF OneInv
  <2> QED BY <2>3, <2>4
<1>5. Only(c, n)'
  BY <1>1, <1>2, <1>3 DEF Only, Idle, Message
<1>6. \A d \in Clients : connected[d] /\ d # c => Transport(d) # Transport(c)
  BY <1>1 DEF LinkInv
<1>7. \A d \in Clients : \A i : connected[d] /\ d # c => (Only(d, i)' <=> Only(d, i))
  BY <1>2, <1>3, <1>6 DEF Only, send_command, deviceVars
<1>8. \A d \in Clients : connected[d] /\ d # c => (Idle(Transport(d))' <=> Idle(Transport(d)))
  BY <1>2, <1>3, <1>6 DEF Idle
<1>9. n # NoCall
  BY <1>0 DEF send_command, TypeOK, NoCall
<1>10. SyncInv'
  <2>1. ASSUME NEW d \in Clients, d # c
        PROVE  /\ connected'[d] = connected[d] /\ desynchronized'[d] = desynchronized[d]
               /\ waiting'[d] = waiting[d] /\ responses'[d] = responses[d]
    BY <2>1 DEF send_command, TypeOK
  <2>2. waiting'[c] = n /\ responses'[c] = <<>>
    BY <1>0 DEF send_command, TypeOK
  <2>3. UNCHANGED connected
    BY DEF send_command
  <2> DEFINE OK(d) ==
        /\ connected[d] /\ ~desynchronized[d] /\ waiting[d] = NoCall => Idle(Transport(d))
        /\ connected[d] /\ waiting[d] # NoCall => Only(d, waiting[d])
        /\ connected[d] /\ waiting[d] # NoCall /\ responses[d] # <<>> => Idle(Transport(d))
        /\ waiting[d] # NoCall =>
             \A i \in DOMAIN responses[d] : responses[d][i] = Command(d, waiting[d])
  <2>4. ASSUME NEW d \in Clients, d # c PROVE OK(d)'
    BY <1>7, <1>8, <2>1, <2>3, <2>4 DEF SyncInv
  <2>5. OK(c)'
    BY <1>5, <1>9, <2>2
  <2> QED BY <2>4, <2>5 DEF SyncInv
<1> QED BY <1>4, <1>10

LEMMA WaitEndsOwn ==
  ASSUME Calm, TypeOK, LinkInv, OwnInv, NEW c \in Clients, TakeResponse(c) \/ Timeout(c)
  PROVE OwnInv'
<1> USE DEF OwnInv
<1>1. UNCHANGED <<up, queue, item, down, connected>>
  BY DEF TakeResponse, Timeout, deviceVars
<1>2. OneInv'
  BY <1>1 DEF OneInv, UpOf, QueueOf, ItemOf, DownOf
<1>3. \A t : Idle(t)' <=> Idle(t)
  BY <1>1 DEF Idle, UpOf, QueueOf, ItemOf, DownOf
<1>4. \A d \in Clients : \A n : Only(d, n)' <=> Only(d, n)
  BY <1>1 DEF Only, UpOf, QueueOf, ItemOf, DownOf
<1>5. waiting'[c] = NoCall
  BY DEF TakeResponse, Timeout, TypeOK
<1>6. ASSUME NEW d \in Clients, d # c
      PROVE  /\ desynchronized'[d] = desynchronized[d]
             /\ waiting'[d] = waiting[d] /\ responses'[d] = responses[d]
  BY <1>6 DEF TakeResponse, Timeout, TypeOK
<1>7. connected[c] /\ ~desynchronized'[c] => Idle(Transport(c))
  <2>1. CASE TakeResponse(c)
    BY <2>1 DEF SyncInv, TakeResponse
  <2>2. CASE Timeout(c)
    BY <2>2 DEF Calm, Timeout, TypeOK
  <2> QED BY <2>1, <2>2
<1>8. SyncInv'
  BY <1>1, <1>3, <1>4, <1>5, <1>6, <1>7 DEF SyncInv
<1> QED BY <1>2, <1>8

\* A command that moves from one place to the next stays the only one.
LEMMA ArriveOwn == ASSUME TypeOK, LinkInv, OwnInv, Arrive PROVE OwnInv'
<1> USE DEF OwnInv
<1>1. PICK m \in up :
        /\ up' = up \ {m}
        /\ IF m.call = NoCall THEN UNCHANGED <<queue, refused>>
                              ELSE at_server_submit_cmd(Command(m.client, m.call))
        /\ UNCHANGED <<clientVars, down, item>>
  BY DEF Arrive
<1> DEFINE T == Transport(m.client)
<1>2. \A t : ItemOf(t)' = ItemOf(t) /\ DownOf(t)' = DownOf(t) /\ UpOf(t)' \subseteq UpOf(t)
  BY <1>1 DEF ItemOf, DownOf, UpOf
<1>3. UNCHANGED <<connected, desynchronized, waiting, responses, item, down>>
  BY <1>1 DEF clientVars
<1>4. CASE UNCHANGED queue
  <2>1. \A t : QueueOf(t)' = QueueOf(t)
    BY <1>4 DEF QueueOf
  <2>2. OneInv'
    BY <1>2, <2>1 DEF OneInv
  <2>3. \A t : Idle(t) => Idle(t)'
    BY <1>2, <2>1 DEF Idle
  <2>4. \A d \in Clients : \A n : Only(d, n) => Only(d, n)'
    BY <1>2, <1>4, <2>1 DEF Only
  <2>5. SyncInv'
    BY <1>3, <2>3, <2>4 DEF SyncInv
  <2> QED BY <2>2, <2>5
<1>5. CASE m.call # NoCall /\ queue' = Append(queue, Command(m.client, m.call))
  <2>1. m \in UpOf(T) /\ T \in Transports
    BY <1>5 DEF UpOf, Transport, Transports
  <2>2. UpOf(T)' = {} /\ QueueOf(T) = {} /\ ItemOf(T) = {} /\ DownOf(T) = {}
    BY <1>1, <2>1 DEF OneInv, UpOf
  <2>3. /\ DOMAIN queue' = DOMAIN queue \cup {Len(queue) + 1}
        /\ \A i \in DOMAIN queue : queue'[i] = queue[i] /\ i # Len(queue) + 1
        /\ queue'[Len(queue) + 1] = Command(m.client, m.call)
    BY <1>5 DEF TypeOK
  <2>4. QueueOf(T)' = {Len(queue) + 1}
    BY <2>2, <2>3 DEF QueueOf, Command
  <2>5. \A t : t # T => QueueOf(t)' = QueueOf(t)
    BY <2>3 DEF QueueOf, Command
  <2>6. \A t \in Transports :
           /\ \A i, j \in QueueOf(t)' : i = j
           /\ UpOf(t)' # {} => QueueOf(t)' = {} /\ ItemOf(t) = {} /\ DownOf(t) = {}
           /\ QueueOf(t)' # {} => ItemOf(t) = {} /\ DownOf(t) = {}
    <3> SUFFICES ASSUME NEW t \in Transports
                 PROVE  /\ \A i, j \in QueueOf(t)' : i = j
                        /\ UpOf(t)' # {} => QueueOf(t)' = {} /\ ItemOf(t) = {} /\ DownOf(t) = {}
                        /\ QueueOf(t)' # {} => ItemOf(t) = {} /\ DownOf(t) = {}
      OBVIOUS
    <3>1. CASE t = T
      BY <2>2, <2>4, <3>1
    <3>2. CASE t # T
      BY <1>2, <2>5, <3>2 DEF OneInv
    <3> QED BY <3>1, <3>2
  <2>7. OneInv'
    BY <1>2, <2>6 DEF OneInv
  <2>8. \A t : Idle(t) => Idle(t)'
    <3> SUFFICES ASSUME NEW t, Idle(t) PROVE Idle(t)'
      OBVIOUS
    <3>1. t # T
      BY <2>1 DEF Idle
    <3> QED BY <1>2, <2>5, <3>1 DEF Idle
  <2>9. ASSUME NEW d \in Clients, NEW n, Only(d, n) PROVE Only(d, n)'
    <3>1. CASE Transport(d) = T
      <4>1. m.client = d /\ m.call = n
        BY <2>1, <2>9, <3>1 DEF Only
      <4> QED BY <1>2, <2>2, <2>3, <2>4, <3>1, <4>1 DEF Only
    <3>2. CASE Transport(d) # T
      <4>1. \A i \in QueueOf(Transport(d)) : queue'[i] = queue[i]
        BY <2>3 DEF QueueOf
      <4> QED BY <1>2, <2>5, <2>9, <3>2, <4>1 DEF Only
    <3> QED BY <3>1, <3>2
  <2>10. SyncInv'
    BY <1>3, <2>8, <2>9 DEF SyncInv
  <2> QED BY <2>7, <2>10
<1> QED BY <1>1, <1>4, <1>5 DEF at_server_submit_cmd

LEMMA GetOwn == ASSUME TypeOK, LinkInv, OwnInv, GetCommand PROVE OwnInv'
<1> USE DEF OwnInv
<1>0. PICK cmd : cmd = Head(queue)
  OBVIOUS
<1> DEFINE T == Transport(cmd.client)
<1>1. cmd = queue[1] /\ 1 \in DOMAIN queue /\ item = {} /\ item' = {cmd} /\ queue' = Tail(queue)
  BY <1>0 DEF GetCommand, TypeOK
<1>2. UNCHANGED <<connected, desynchronized, waiting, responses, up, down>>
  BY DEF GetCommand, clientVars
<1>3. \A t : UpOf(t)' = UpOf(t) /\ DownOf(t)' = DownOf(t)
  BY <1>2 DEF UpOf, DownOf
<1>4. /\ \A i \in DOMAIN queue' : i + 1 \in DOMAIN queue /\ queue'[i] = queue[i + 1] /\ i + 1 # 1
      /\ DOMAIN queue' \subseteq Nat /\ DOMAIN queue \subseteq Nat
      /\ \A j \in DOMAIN queue : j # 1 => j - 1 \in DOMAIN queue' /\ (j - 1) + 1 = j
  BY <1>1 DEF TypeOK
<1>5. 1 \in QueueOf(T) /\ T \in Transports
  BY <1>1 DEF QueueOf, Transport, Transports
<1>6. QueueOf(T) = {1} /\ UpOf(T) = {} /\ ItemOf(T) = {} /\ DownOf(T) = {}
  BY <1>5 DEF OneInv
<1>7. \A t : \A i \in QueueOf(t)' : i + 1 \in QueueOf(t) /\ queue'[i] = queue[i + 1] /\ i + 1 # 1 /\ i \in Nat
  BY <1>4 DEF QueueOf
<1>8. QueueOf(T)' = {}
  BY <1>6, <1>7
<1>9. ItemOf(T)' = {cmd} /\ \A t : t # T => ItemOf(t)' = {}
  BY <1>1 DEF ItemOf
<1>10. \A t : ItemOf(t) = {}
  BY <1>1 DEF ItemOf
<1>11. ASSUME NEW t \in Transports
       PROVE  /\ \A m, x \in UpOf(t) : m = x
              /\ \A i, j \in QueueOf(t)' : i = j
              /\ \A m, x \in DownOf(t) : m = x
              /\ UpOf(t) # {} => QueueOf(t)' = {} /\ ItemOf(t)' = {} /\ DownOf(t) = {}
              /\ QueueOf(t)' # {} => ItemOf(t)' = {} /\ DownOf(t) = {}
              /\ ItemOf(t)' # {} => DownOf(t) = {}
  <2>1. CASE t = T
    BY <1>6, <1>8, <2>1
  <2>2. CASE t # T
    <3>1. ItemOf(t)' = {}
      BY <1>9, <2>2
    <3>2. \A i, j \in QueueOf(t)' : i = j
      <4> SUFFICES ASSUME NEW i \in QueueOf(t)', NEW j \in QueueOf(t)' PROVE i = j
        OBVIOUS
      <4>1. i + 1 = j + 1 /\ i \in Nat /\ j \in Nat
        BY <1>7 DEF OneInv
      <4> QED BY <4>1
    <3>3. QueueOf(t)' # {} => QueueOf(t) # {}
      BY <1>7
    <3> QED BY <3>1, <3>2, <3>3 DEF OneInv
  <2> QED BY <2>1, <2>2
<1>12. OneInv'
  BY <1>3, <1>11 DEF OneInv
<1>13. \A t : Idle(t) => Idle(t)'
  <2> SUFFICES ASSUME NEW t, Idle(t) PROVE Idle(t)'
    OBVIOUS
  <2>1. t # T
    BY <1>5 DEF Idle
  <2>2. QueueOf(t)' = {}
    BY <1>7 DEF Idle
  <2> QED BY <1>3, <1>9, <2>1, <2>2 DEF Idle
<1>14. ASSUME NEW d \in Clients, NEW n, Only(d, n) PROVE Only(d, n)'
  <2>1. CASE Transport(d) = T
    <3>1. cmd = Command(d, n)
      BY <1>1, <1>5, <1>14, <2>1 DEF Only
    <3> QED BY <1>3, <1>6, <1>8, <1>9, <2>1, <3>1 DEF Only
  <2>2. CASE Transport(d) # T
    <3>1. ItemOf(Transport(d))' = {}
      BY <1>9, <2>2
    <3>2. \A i \in QueueOf(Transport(d))' : queue'[i] = Command(d, n)
      BY <1>7, <1>14 DEF Only
    <3> QED BY <1>3, <1>14, <3>1, <3>2 DEF Only
  <2> QED BY <2>1, <2>2
<1>15. SyncInv'
  BY <1>2, <1>13, <1>14 DEF SyncInv
<1> QED BY <1>12, <1>15

LEMMA AnswerOwn == ASSUME TypeOK, LinkInv, OwnInv, process_command PROVE OwnInv'
<1> USE DEF OwnInv
<1>1. PICK cmd \in item : item' = {} /\ down' = down \cup SendResponse(cmd)
  BY DEF process_command
<1> DEFINE T == Transport(cmd.client)
<1>2. UNCHANGED <<connected, desynchronized, waiting, responses, up, queue>>
  BY DEF process_command, clientVars
<1>3. \A t : UpOf(t)' = UpOf(t) /\ QueueOf(t)' = QueueOf(t) /\ ItemOf(t)' = {}
  BY <1>1, <1>2 DEF UpOf, QueueOf, ItemOf
<1>4. cmd \in ItemOf(T) /\ T \in Transports
  BY DEF ItemOf, Transport, Transports
<1>5. UpOf(T) = {} /\ QueueOf(T) = {} /\ DownOf(T) = {}
  BY <1>4 DEF OneInv
<1>6. /\ \A m, x \in SendResponse(cmd) : m = x
      /\ \A m \in SendResponse(cmd) :
            m.client = cmd.client /\ m.call = cmd.call /\ Transport(m.to) = T
  BY <1>4 DEF SendResponse, Answers, TypeOK, LinkInv
<1>7. \A m, x \in DownOf(T)' : m = x
  BY <1>1, <1>5, <1>6 DEF DownOf
<1>8. \A m \in DownOf(T)' : m.client = cmd.client /\ m.call = cmd.call
  BY <1>1, <1>5, <1>6 DEF DownOf
<1>9. \A t : t # T => DownOf(t)' = DownOf(t)
  BY <1>1, <1>6 DEF DownOf
<1>10. ASSUME NEW t \in Transports
       PROVE  /\ \A m, x \in UpOf(t) : m = x
              /\ \A i, j \in QueueOf(t) : i = j
              /\ \A m, x \in DownOf(t)' : m = x
              /\ UpOf(t) # {} => QueueOf(t) = {} /\ DownOf(t)' = {}
              /\ QueueOf(t) # {} => DownOf(t)' = {}
  <2>1. CASE t = T
    BY <1>5, <1>7, <2>1
  <2>2. CASE t # T
    BY <1>9, <2>2 DEF OneInv
  <2> QED BY <2>1, <2>2
<1>11. OneInv'
  BY <1>3, <1>10 DEF OneInv
<1>12. \A t : Idle(t) => Idle(t)'
  <2> SUFFICES ASSUME NEW t, Idle(t) PROVE Idle(t)'
    OBVIOUS
  <2>1. t # T
    BY <1>4 DEF Idle
  <2> QED BY <1>3, <1>9, <2>1 DEF Idle
<1>13. ASSUME NEW d \in Clients, NEW n, Only(d, n) PROVE Only(d, n)'
  <2>1. CASE Transport(d) = T
    <3>1. cmd = Command(d, n)
      BY <1>4, <1>13, <2>1 DEF Only
    <3>2. cmd.client = d /\ cmd.call = n
      BY <3>1 DEF Command
    <3> QED BY <1>3, <1>5, <1>8, <2>1, <3>2 DEF Only
  <2>2. CASE Transport(d) # T
    <3>1. \A i \in QueueOf(Transport(d))' : queue'[i] = Command(d, n)
      BY <1>2, <1>3, <1>13 DEF Only
    <3> QED BY <1>3, <1>9, <1>13, <2>2, <3>1 DEF Only
  <2> QED BY <2>1, <2>2
<1>14. SyncInv'
  BY <1>2, <1>12, <1>13 DEF SyncInv
<1> QED BY <1>11, <1>14

LEMMA ResponseOwn == ASSUME TypeOK, LinkInv, OwnInv, OnResponse PROVE OwnInv'
<1> USE DEF OwnInv
<1>1. PICK m \in down :
        /\ down' = down \ {m}
        /\ responses' = [responses EXCEPT ![m.to] = Append(@, Command(m.client, m.call))]
  BY DEF OnResponse
<1> DEFINE c == m.to
<1> DEFINE T == Transport(c)
<1>2. UNCHANGED <<connected, desynchronized, waiting, up, queue, item>>
  BY DEF OnResponse, deviceVars
<1>3. \A t : /\ UpOf(t)' = UpOf(t) /\ QueueOf(t)' = QueueOf(t) /\ ItemOf(t)' = ItemOf(t)
              /\ DownOf(t)' \subseteq DownOf(t)
  BY <1>1, <1>2 DEF UpOf, QueueOf, ItemOf, DownOf
<1>4. m \in DownOf(T) /\ T \in Transports /\ c \in Clients /\ connected[c]
  BY DEF DownOf, Transport, Transports, LinkInv, TypeOK
<1>5. Idle(T)'
  <2>1. DownOf(T)' = {}
    BY <1>1, <1>4 DEF OneInv, DownOf
  <2> QED BY <1>3, <1>4, <2>1 DEF OneInv, Idle
<1>6. OneInv'
  BY <1>3 DEF OneInv
<1>7. \A t : Idle(t) => Idle(t)'
  BY <1>3 DEF Idle
<1>8. \A d \in Clients : \A n : Only(d, n) => Only(d, n)'
  BY <1>2, <1>3 DEF Only
<1>9. ASSUME NEW d \in Clients, d # c PROVE responses'[d] = responses[d]
  BY <1>1, <1>9 DEF TypeOK
<1>10. waiting[c] # NoCall =>
         \A i \in DOMAIN responses'[c] : responses'[c][i] = Command(c, waiting[c])
  <2> SUFFICES ASSUME waiting[c] # NoCall, NEW i \in DOMAIN responses'[c]
               PROVE  responses'[c][i] = Command(c, waiting[c])
    OBVIOUS
  <2>1. Command(m.client, m.call) = Command(c, waiting[c])
    BY <1>4 DEF SyncInv, Only
  <2>2. responses'[c] = Append(responses[c], Command(c, waiting[c])) /\ responses[c] \in Seq(Commands)
    BY <1>1, <1>4, <2>1 DEF TypeOK
  <2>3. i \in DOMAIN responses[c] => responses'[c][i] = responses[c][i]
    BY <2>2
  <2>4. i \notin DOMAIN responses[c] => responses'[c][i] = Command(c, waiting[c])
    BY <2>2
  <2> QED BY <1>4, <2>3, <2>4 DEF SyncInv
<1>11. SyncInv'
  BY <1>2, <1>5, <1>7, <1>8, <1>9, <1>10 DEF SyncInv
<1> QED BY <1>6, <1>11

LEMMA LoseOwn == ASSUME OwnInv, Lose \/ UNCHANGED vars PROVE OwnInv'
<1> USE DEF OwnInv
<1>1. UNCHANGED <<clientVars, queue, item>> /\ up' \subseteq up /\ down' \subseteq down
  BY DEF Lose, vars, deviceVars
<1>2. \A t : /\ UpOf(t)' \subseteq UpOf(t) /\ QueueOf(t)' = QueueOf(t) /\ ItemOf(t)' = ItemOf(t)
              /\ DownOf(t)' \subseteq DownOf(t)
  BY <1>1 DEF UpOf, QueueOf, ItemOf, DownOf
<1>3. OneInv'
  BY <1>2 DEF OneInv
<1>4. \A t : Idle(t) => Idle(t)'
  BY <1>2 DEF Idle
<1>5. \A d \in Clients : \A n : Only(d, n) => Only(d, n)'
  BY <1>1, <1>2 DEF Only
<1>6. SyncInv'
  BY <1>1, <1>4, <1>5 DEF SyncInv, clientVars
<1> QED BY <1>3, <1>6

LEMMA OwnStep == ASSUME Calm, TypeOK, LinkInv, OwnInv, [Next]_vars PROVE OwnInv'
<1>1. ASSUME NEW c \in Clients, disconnect(c) \/ LinkLost(c) PROVE OwnInv'
  BY <1>1, HangUpOwn DEF disconnect, LinkLost
<1> QED
  BY <1>1, ConnectOwn, SendOwn, WaitEndsOwn, ArriveOwn, GetOwn, AnswerOwn, ResponseOwn, LoseOwn
     DEF Next

LEMMA AtInvariant ==
  ASSUME Calm
  PROVE  Spec => [](TypeOK /\ LinkInv /\ OwnInv)
<1>1. Init => TypeOK /\ LinkInv /\ OwnInv
  BY TypeInit, LinkInit, OwnInit
<1>2. TypeOK /\ LinkInv /\ OwnInv /\ [Next]_vars => (TypeOK /\ LinkInv /\ OwnInv)'
  BY TypeStep, LinkStep, OwnStep
<1> QED BY <1>1, <1>2, PTL DEF Spec

-----------------------------------------------------------------------------
(* The theorems. *)

\* The variables keep their types; the queue never holds more than it has room for.
THEOREM AtTypeCorrect == Spec => []TypeOK
<1>1. TypeOK /\ [Next]_vars => TypeOK'
  BY TypeStep
<1> QED BY <1>1, TypeInit, PTL DEF Spec

\* At most one command of a transport is under way between the SDK and the answer.
THEOREM OneCommandPerTransport ==
  ASSUME Calm
  PROVE  Spec => []OneInv
  BY AtInvariant, PTL DEF OwnInv

\* Among clients that connect only when nothing of their transport is under way,
\* and are not cancelled, none takes an answer for another command's: the lock,
\* the drained queue and _desynchronized do what they are for.
THEOREM AnswerAlwaysMatches ==
  ASSUME Calm
  PROVE  Spec => []AnswerMatches
<1>1. TypeOK /\ SyncInv => AnswerMatches
  <2> SUFFICES ASSUME TypeOK, SyncInv, NEW c \in Clients, waiting[c] # NoCall, responses[c] # <<>>
               PROVE  Head(responses[c]) = Command(c, waiting[c])
    BY DEF AnswerMatches
  <2>1. 1 \in DOMAIN responses[c] /\ Head(responses[c]) = responses[c][1]
    BY DEF TypeOK
  <2> QED BY <2>1 DEF SyncInv
<1> QED BY <1>1, AtInvariant, PTL DEF OwnInv

----------------------------------------------------------------------------
(* AT+LIST: numbers and sequences. *)

\* A set of natural numbers that is not empty has a least one.
LEMMA LeastNumber ==
  ASSUME NEW T \in SUBSET Nat, T # {}
  PROVE  \E m \in T : \A k \in T : m <= k
<1> DEFINE R == OpToRel(<, Nat)
<1>1. \A x, y \in Nat : <<y, x>> \in R <=> y < x
  BY DEF OpToRel
<1>2. \E x \in T : \A y \in T : ~ (<<y, x>> \in R)
  BY WFMin, NatLessThanWellFounded
<1> HIDE DEF R
<1>3. PICK x \in T : \A y \in T : ~ (<<y, x>> \in R)
  BY <1>2
<1>4. ASSUME NEW y \in T PROVE x <= y
  <2>1. x \in Nat /\ y \in Nat /\ ~ (<<y, x>> \in R)
    BY <1>3
  <2>2. ~ (y < x)
    BY <1>1, <2>1
  <2> QED
    BY <2>1, <2>2
<1> QED
  BY <1>3, <1>4

LEMMA MinIsLeast ==
  ASSUME NEW T \in SUBSET Nat, T # {}
  PROVE  Min(T) \in T /\ \A k \in T : Min(T) <= k
  BY LeastNumber DEF Min

LEMMA Joined ==
  ASSUME NEW S, NEW a \in Seq(S), NEW b \in Seq(S)
  PROVE  /\ a \o b \in Seq(S) /\ Len(a \o b) = Len(a) + Len(b)
         /\ Len(a) \in Nat /\ Len(b) \in Nat
         /\ \A k \in 1..Len(a) : (a \o b)[k] = a[k]
         /\ \A k \in 1..Len(b) : (a \o b)[Len(a) + k] = b[k]
  OBVIOUS

LEMMA InsertedAt ==
  ASSUME NEW S, NEW ids \in Seq(S), NEW s \in S, NEW i \in 1..(Len(ids) + 1)
  PROVE  /\ InsertAt(ids, i, s) \in Seq(S)
         /\ Len(InsertAt(ids, i, s)) = Len(ids) + 1
         /\ \A k \in 1..(Len(ids) + 1) :
                InsertAt(ids, i, s)[k] = IF k < i THEN ids[k]
                                         ELSE IF k = i THEN s ELSE ids[k - 1]
<1> DEFINE A == SubSeq(ids, 1, i - 1)
           C == SubSeq(ids, i, Len(ids))
<1>1. /\ A \in Seq(S) /\ Len(A) = i - 1 /\ \A k \in 1..(i - 1) : A[k] = ids[k]
  OBVIOUS
<1>2. /\ C \in Seq(S) /\ Len(C) = Len(ids) - i + 1
      /\ \A k \in 1..(Len(ids) - i + 1) : C[k] = ids[k + i - 1]
  OBVIOUS
<1>3. <<s>> \in Seq(S) /\ Len(<<s>>) = 1 /\ <<s>>[1] = s
  OBVIOUS
<1> DEFINE B == A \o <<s>>
<1>4. InsertAt(ids, i, s) = B \o C
  BY DEF InsertAt
<1> HIDE DEF A, C
<1>5. /\ B \in Seq(S) /\ Len(B) = i
      /\ \A k \in 1..i : B[k] = IF k < i THEN ids[k] ELSE s
  BY <1>1, <1>3, Joined
<1> HIDE DEF B
<1> DEFINE r == B \o C
<1>a. /\ r \in Seq(S) /\ Len(r) = Len(B) + Len(C)
      /\ \A k \in 1..Len(B) : r[k] = B[k]
      /\ \A k \in 1..Len(C) : r[Len(B) + k] = C[k]
  <2>1. B \in Seq(S) /\ C \in Seq(S)
    BY <1>2, <1>5
  <2> QED
    BY <2>1, Joined
<1>6. /\ r \in Seq(S) /\ Len(r) = i + Len(C)
      /\ \A k \in 1..i : r[k] = B[k]
      /\ \A k \in 1..Len(C) : r[i + k] = C[k]
  <2> HIDE DEF r
  <2> QED
    BY <1>5, <1>a
<1> HIDE DEF r
<1>7. Len(r) = Len(ids) + 1
  BY <1>2, <1>6
<1>8. ASSUME NEW k \in 1..(Len(ids) + 1)
      PROVE  r[k] = IF k < i THEN ids[k] ELSE IF k = i THEN s ELSE ids[k - 1]
  <2>1. CASE k <= i
    BY <1>2, <1>5, <1>6, <2>1
  <2>2. CASE k > i
    <3> DEFINE n == k - i
    <3>1. n \in 1..(Len(ids) - i + 1) /\ n + i - 1 = k - 1 /\ i + n = k
      BY <2>2
    <3> HIDE DEF n
    <3>2. C[n] = ids[k - 1]
      BY <1>2, <3>1
    <3>3. r[k] = C[n]
      BY <1>2, <1>6, <3>1
    <3> QED
      BY <2>2, <3>2, <3>3
  <2> QED
    BY <2>1, <2>2
<1> QED
  BY <1>4, <1>6, <1>7, <1>8 DEF r

LEMMA RemovedAt ==
  ASSUME NEW S, NEW ids \in Seq(S), NEW i \in 1..Len(ids)
  PROVE  /\ RemoveAt(ids, i) \in Seq(S)
         /\ Len(RemoveAt(ids, i)) = Len(ids) - 1
         /\ \A k \in 1..(Len(ids) - 1) :
                RemoveAt(ids, i)[k] = IF k < i THEN ids[k] ELSE ids[k + 1]
<1> DEFINE A == SubSeq(ids, 1, i - 1)
           C == SubSeq(ids, i + 1, Len(ids))
<1>1. /\ A \in Seq(S) /\ Len(A) = i - 1 /\ \A k \in 1..(i - 1) : A[k] = ids[k]
  OBVIOUS
<1>2. /\ C \in Seq(S) /\ Len(C) = Len(ids) - i
      /\ \A k \in 1..(Len(ids) - i) : C[k] = ids[k + i]
  OBVIOUS
<1>3. RemoveAt(ids, i) = A \o C
  BY DEF RemoveAt
<1> HIDE DEF A, C
<1> DEFINE r == A \o C
<1>a. /\ r \in Seq(S) /\ Len(r) = Len(A) + Len(C)
      /\ \A k \in 1..Len(A) : r[k] = A[k]
      /\ \A k \in 1..Len(C) : r[Len(A) + k] = C[k]
  <2>1. A \in Seq(S) /\ C \in Seq(S)
    BY <1>1, <1>2
  <2> QED
    BY <2>1, Joined
<1>4. /\ r \in Seq(S) /\ Len(r) = i - 1 + Len(C)
      /\ \A k \in 1..(i - 1) : r[k] = A[k]
      /\ \A k \in 1..Len(C) : r[(i - 1) + k] = C[k]
  <2> HIDE DEF r
  <2> QED
    BY <1>1, <1>a
<1> HIDE DEF r
<1>5. Len(r) = Len(ids) - 1
  BY <1>2, <1>4
<1>6. ASSUME NEW k \in 1..(Len(ids) - 1)
      PROVE  r[k] = IF k < i THEN ids[k] ELSE ids[k + 1]
  <2>1. CASE k < i
    BY <1>1, <1>2, <1>4, <2>1
  <2>2. CASE k >= i
    <3> DEFINE n == k - (i - 1)
    <3>1. n \in 1..(Len(ids) - i) /\ n + i = k + 1 /\ (i - 1) + n = k
      BY <2>2
    <3> HIDE DEF n
    <3>2. C[n] = ids[k + 1]
      BY <1>2, <3>1
    <3>3. r[k] = C[n]
      BY <1>2, <1>4, <3>1
    <3> QED
      BY <2>2, <3>2, <3>3
  <2> QED
    BY <2>1, <2>2
<1> QED
  BY <1>3, <1>4, <1>5, <1>6 DEF r

Descending(ids) == \A i, j \in DOMAIN ids : i < j => ids[i] > ids[j]

LEMMA AddedInOrder ==
  ASSUME NEW ids \in Seq(Sessions), Descending(ids), NEW s \in Sessions, s \notin ToSet(ids)
  PROVE  /\ AddSessionId(ids, s) \in Seq(Sessions)
         /\ Len(AddSessionId(ids, s)) = Len(ids) + 1
         /\ Descending(AddSessionId(ids, s))
         /\ ToSet(AddSessionId(ids, s)) = ToSet(ids) \cup {s}
<1> DEFINE older == { i \in DOMAIN ids : ids[i] < s }
           i0 == IF older = {} THEN Len(ids) + 1 ELSE Min(older)
           r == AddSessionId(ids, s)
<1>0. s \in Nat /\ Len(ids) \in Nat /\ DOMAIN ids = 1..Len(ids)
      /\ \A k \in 1..Len(ids) : ids[k] \in Nat /\ ids[k] \in Sessions /\ ids[k] # s
  BY SessionListAssumption DEF Sessions, ToSet
<1>1. /\ i0 \in 1..(Len(ids) + 1)
      /\ \A k \in 1..Len(ids) : (k < i0 => ids[k] > s) /\ (k >= i0 => ids[k] < s)
  <2>1. CASE older = {}
    BY <1>0, <2>1
  <2>2. CASE older # {}
    <3>1. older \in SUBSET Nat
      BY <1>0
    <3>2. i0 \in older /\ \A k \in older : i0 <= k
      BY <2>2, <3>1, MinIsLeast
    <3> HIDE DEF i0
    <3>3. i0 \in 1..Len(ids) /\ ids[i0] < s
      BY <1>0, <3>2
    <3>4. ASSUME NEW k \in 1..Len(ids), k < i0 PROVE ids[k] > s
      BY <1>0, <3>2, <3>3, <3>4
    <3>5. ASSUME NEW k \in 1..Len(ids), k >= i0 PROVE ids[k] < s
      <4>1. CASE k = i0
        BY <3>3, <4>1
      <4>2. CASE k > i0
        BY <1>0, <3>3, <3>5, <4>2 DEF Descending
      <4> QED
        BY <3>3, <3>5, <4>1, <4>2
    <3> QED
      BY <1>0, <3>3, <3>4, <3>5
  <2> QED
    BY <2>1, <2>2
<1>2. r = InsertAt(ids, i0, s)
  BY DEF AddSessionId
<1> HIDE DEF i0, r, older
<1>3. /\ r \in Seq(Sessions) /\ Len(r) = Len(ids) + 1
      /\ \A k \in 1..(Len(ids) + 1) :
             r[k] = IF k < i0 THEN ids[k] ELSE IF k = i0 THEN s ELSE ids[k - 1]
  <2>1. PICK i \in 1..(Len(ids) + 1) : i = i0
    BY <1>1
  <2>2. /\ InsertAt(ids, i, s) \in Seq(Sessions)
        /\ Len(InsertAt(ids, i, s)) = Len(ids) + 1
        /\ \A k \in 1..(Len(ids) + 1) :
               InsertAt(ids, i, s)[k] = IF k < i THEN ids[k]
                                        ELSE IF k = i THEN s ELSE ids[k - 1]
    BY InsertedAt
  <2>3. r = InsertAt(ids, i, s)
    BY <1>2, <2>1
  <2> HIDE DEF Sessions
  <2> QED
    BY <2>1, <2>2, <2>3
<1>4. DOMAIN r = 1..(Len(ids) + 1)
  BY <1>3
<1>5. Descending(r)
  <2> SUFFICES ASSUME NEW j \in 1..(Len(ids) + 1), NEW k \in 1..(Len(ids) + 1), j < k
               PROVE  r[j] > r[k]
    BY <1>4 DEF Descending
  <2>0. \A x, y \in 1..Len(ids) : x < y => ids[x] > ids[y]
    BY <1>0 DEF Descending
  <2>1. CASE k < i0
    BY <1>0, <1>1, <1>3, <2>0, <2>1
  <2>2. CASE k = i0
    BY <1>0, <1>1, <1>3, <2>2
  <2>3. CASE j < i0 /\ k > i0
    BY <1>0, <1>1, <1>3, <2>0, <2>3
  <2>4. CASE j = i0
    BY <1>0, <1>1, <1>3, <2>4
  <2>5. CASE j > i0
    <3>1. j - 1 \in 1..Len(ids) /\ k - 1 \in 1..Len(ids) /\ j - 1 < k - 1
      BY <1>0, <1>1, <2>5
    <3>2. r[j] = ids[j - 1] /\ r[k] = ids[k - 1]
      BY <1>1, <1>3, <2>5
    <3> QED
      BY <2>0, <3>1, <3>2
  <2> QED
    BY <1>1, <2>1, <2>2, <2>3, <2>4, <2>5
<1>6. ToSet(r) = ToSet(ids) \cup {s}
  <2>1. ASSUME NEW k \in 1..(Len(ids) + 1) PROVE r[k] \in ToSet(ids) \cup {s}
    <3>1. CASE k < i0
      <4>1. k \in DOMAIN ids /\ r[k] = ids[k]
        BY <1>0, <1>1, <1>3, <3>1
      <4> QED
        BY <4>1 DEF ToSet
    <3>2. CASE k > i0
      <4>1. k - 1 \in 1..Len(ids) /\ r[k] = ids[k - 1]
        BY <1>0, <1>1, <1>3, <3>2
      <4> QED
        BY <1>0, <4>1 DEF ToSet
    <3>3. CASE k = i0
      BY <1>3, <3>3
    <3> QED
      BY <1>1, <3>1, <3>2, <3>3
  <2>2. s \in ToSet(r)
    <3>1. i0 \in DOMAIN r /\ r[i0] = s
      BY <1>1, <1>3, <1>4
    <3> QED
      BY <3>1 DEF ToSet
  <2>3. ASSUME NEW k \in 1..Len(ids) PROVE ids[k] \in ToSet(r)
    <3>1. CASE k < i0
      BY <1>0, <1>1, <1>3, <1>4, <3>1 DEF ToSet
    <3>2. CASE k >= i0
      <4>1. k + 1 \in 1..(Len(ids) + 1) /\ r[k + 1] = ids[k]
        BY <1>0, <1>1, <1>3, <3>2
      <4> QED
        BY <1>4, <4>1 DEF ToSet
    <3> QED
      BY <1>1, <3>1, <3>2
  <2> QED
    BY <1>0, <1>4, <2>1, <2>2, <2>3 DEF ToSet
<1> QED
  BY <1>3, <1>5, <1>6 DEF r

\* The directories the scan has met after n steps, in order; ids of the code.
Scanned(ids, n) ==
    /\ ids \in Seq(Sessions) /\ Len(ids) = n /\ Descending(ids)
    /\ ToSet(ids) = { dirs[i] : i \in 1..n }

Once(d) == \A i, j \in DOMAIN d : d[i] = d[j] => i = j

LEMMA ScanInOrder ==
  ASSUME dirs \in Seq(Sessions), Once(dirs)
  PROVE  \E n \in Nat : /\ Scanned(ScanSessionIds, n) /\ n <= MaxIds /\ n <= Len(dirs)
                        /\ n = MaxIds \/ n = Len(dirs)
<1> DEFINE N == Len(dirs)
           Fix(m, f) == f = [n \in 0..m |-> IF n = 0 THEN <<>>
                                            ELSE AddSessionId(f[n - 1], dirs[n])]
           Bad == { m \in Nat : ~ \E f : Fix(m, f) }
           last == Min({MaxIds, N})
<1>0. N \in Nat /\ DOMAIN dirs = 1..N /\ \A i \in 1..N : dirs[i] \in Sessions
  OBVIOUS
<1>1. Bad = {}
  <2> SUFFICES ASSUME Bad # {} PROVE FALSE
    OBVIOUS
  <2>1. PICK m \in Bad : \A k \in Bad : m <= k
    <3>1. Bad \in SUBSET Nat
      OBVIOUS
    <3> HIDE DEF Bad
    <3> QED
      BY <3>1, LeastNumber
  <2>2. CASE m = 0
    <3>1. Fix(m, [n \in 0..m |-> <<>>])
      BY <2>2
    <3> QED
      BY <3>1
  <2>3. CASE m # 0
    <3>1. m - 1 \in Nat /\ m - 1 \notin Bad
      <4>1. m \in Nat
        BY <2>1
      <4> HIDE DEF Bad
      <4> QED
        BY <2>1, <2>3, <4>1
    <3>2. PICK f : Fix(m - 1, f)
      BY <3>1
    <3> DEFINE g == [n \in 0..m |-> IF n = m THEN AddSessionId(f[m - 1], dirs[m]) ELSE f[n]]
    <3>3. \A n \in 0..m : g[n] = IF n = 0 THEN <<>> ELSE AddSessionId(g[n - 1], dirs[n])
      BY <2>3, <3>1, <3>2
    <3>4. Fix(m, g)
      BY <3>3
    <3> QED
      BY <3>4
  <2> QED
    BY <2>2, <2>3
<1>2. \E f : Fix(N, f)
  BY <1>0, <1>1
<1> DEFINE f == CHOOSE g : Fix(N, g)
<1>3. Fix(N, f)
  BY <1>2
<1>4. ScanSessionIds = f[last]
  BY DEF ScanSessionIds
<1> HIDE DEF f
<1>5. /\ f[0] = <<>>
      /\ \A n \in 1..N : f[n] = AddSessionId(f[n - 1], dirs[n])
  <2>1. \A n \in 0..N : f[n] = IF n = 0 THEN <<>> ELSE AddSessionId(f[n - 1], dirs[n])
    BY <1>3
  <2> HIDE DEF N, Fix
  <2> QED
    BY <1>0, <2>1
<1> HIDE DEF Fix, N
<1> DEFINE Wrong == { n \in 0..N : ~ Scanned(f[n], n) }
<1>7. Wrong = {}
  <2> SUFFICES ASSUME Wrong # {} PROVE FALSE
    OBVIOUS
  <2>1. PICK n \in Wrong : \A k \in Wrong : n <= k
    <3>1. Wrong \in SUBSET Nat
      BY <1>0
    <3> HIDE DEF Wrong
    <3> QED
      BY <3>1, LeastNumber
  <2>2. n # 0
    <3>1. Scanned(<<>>, 0)
      BY DEF Scanned, Descending, ToSet
    <3> QED
      BY <1>5, <2>1, <3>1
  <2>3. n - 1 \in 0..N /\ n \in 1..N /\ n - 1 \notin Wrong
    BY <1>0, <2>1, <2>2
  <2>4. Scanned(f[n - 1], n - 1)
    BY <2>3
  <2> DEFINE old == f[n - 1]
             s == dirs[n]
  <2>5. /\ old \in Seq(Sessions) /\ Len(old) = n - 1 /\ Descending(old)
        /\ ToSet(old) = { dirs[i] : i \in 1..(n - 1) }
    BY <2>4 DEF Scanned
  <2>6. s \in Sessions /\ s \notin ToSet(old)
    BY <1>0, <2>3, <2>5 DEF Once
  <2>7. f[n] = AddSessionId(old, s)
    BY <1>5, <2>3
  <2> HIDE DEF old
  <2>8. /\ f[n] \in Seq(Sessions) /\ Len(f[n]) = n - 1 + 1 /\ Descending(f[n])
        /\ ToSet(f[n]) = ToSet(old) \cup {s}
    BY <2>5, <2>6, <2>7, AddedInOrder
  <2>9. ToSet(old) \cup {s} = { dirs[i] : i \in 1..n }
    BY <1>0, <2>3, <2>5
  <2>10. Scanned(f[n], n)
    BY <2>3, <2>8, <2>9 DEF Scanned
  <2> QED
    BY <2>1, <2>10
<1>8. last \in 0..N /\ last <= MaxIds /\ (last = MaxIds \/ last = N)
  <2>1. {MaxIds, N} \in SUBSET Nat /\ {MaxIds, N} # {}
    BY <1>0, SessionListAssumption
  <2>2. last \in {MaxIds, N} /\ \A k \in {MaxIds, N} : last <= k
    BY <2>1, MinIsLeast
  <2> HIDE DEF last
  <2>3. last <= MaxIds /\ last <= N
    BY <2>2
  <2> QED
    BY <1>0, <2>2, <2>3, SessionListAssumption
<1> HIDE DEF last
<1>9. last \in Nat /\ last <= N /\ Scanned(ScanSessionIds, last)
  BY <1>0, <1>4, <1>7, <1>8
<1> QED
  BY <1>8, <1>9 DEF N

LEMMA SessionsFinite ==
  ASSUME NEW S \in SUBSET Sessions
  PROVE  IsFiniteSet(S) /\ Cardinality(S) \in Nat
<1>1. IsFiniteSet(Sessions)
  BY FS_Interval, SessionListAssumption DEF Sessions
<1>2. IsFiniteSet(S)
  BY <1>1, FS_Subset
<1> QED
  BY <1>2, FS_CardinalityType

\* The place of a session in a list is the number of the newer ones.
LEMMA PlaceIsRank ==
  ASSUME NEW ids \in Seq(Sessions), Descending(ids), NEW q \in 1..Len(ids)
  PROVE  Cardinality({ d \in ToSet(ids) : d > ids[q] }) = q - 1
<1> DEFINE S == { d \in ToSet(ids) : d > ids[q] }
           f == [k \in 1..(q - 1) |-> ids[k]]
<1>1. /\ Len(ids) \in Nat /\ DOMAIN ids = 1..Len(ids)
      /\ \A k \in 1..Len(ids) : ids[k] \in Nat
  BY SessionListAssumption DEF Sessions
<1>2. \A i, j \in 1..Len(ids) : i < j => ids[i] > ids[j]
  BY <1>1 DEF Descending
<1>3. \A k \in 1..(q - 1) : k \in 1..Len(ids) /\ ids[k] > ids[q]
  BY <1>1, <1>2
<1>4. f \in [1..(q - 1) -> S]
  BY <1>1, <1>3 DEF ToSet
<1>5. \A a, b \in 1..(q - 1) : f[a] = f[b] => a = b
  <2> SUFFICES ASSUME NEW a \in 1..(q - 1), NEW b \in 1..(q - 1), a < b
               PROVE  f[a] # f[b]
    OBVIOUS
  <2> QED
    BY <1>1, <1>2, <1>3
<1>6. \A d \in S : \E k \in 1..(q - 1) : f[k] = d
  <2> SUFFICES ASSUME NEW d \in S PROVE \E k \in 1..(q - 1) : ids[k] = d
    OBVIOUS
  <2>1. PICK k \in 1..Len(ids) : ids[k] = d
    BY <1>1 DEF ToSet
  <2>2. k < q
    BY <1>1, <1>2, <2>1
  <2> QED
    BY <2>1, <2>2
<1> HIDE DEF f, S
<1>7. f \in Bijection(1..(q - 1), S)
  BY <1>4, <1>5, <1>6 DEF Bijection, Injection, Surjection, IsInjective
<1>8. ExistsBijection(1..(q - 1), S) /\ q - 1 \in Nat
  BY <1>7 DEF ExistsBijection
<1>9. Cardinality(S) = q - 1
  BY <1>8, FS_CountingElements
<1> QED
  BY <1>9 DEF S

----------------------------------------------------------------------------
(* The inductive invariant of the list and the walk. *)

\* A page is more than the session being recorded, which may be all of it and
\* have no file yet: the client would take the page for the end of the list.
PageFits == PerPage >= 2
USE DEF PageFits

OnCard == ToSet(dirs)
Rank(s) == Cardinality({ d \in OnCard : d > s })
Missing == there \ (ToSet(result) \cup lost)

\* What is recorded is on the card, once; only the card's sessions have files.
CardInv ==
    /\ Once(dirs) /\ OnCard \subseteq used /\ filled \subseteq OnCard
    /\ current # None => current \in OnCard

ThereInv == ~excused => there \subseteq filled

\* Between two pages, what the client still lacks, and was not cut off, is behind
\* the pages it has seen, however many sessions have been recorded since.
BetweenPages ==
    PageFits /\ ~excused /\ at = "idle" /\ walk.st = "on" =>
        /\ Len(result) <= Offset
        /\ \A s \in Missing : Rank(s) >= Offset /\ Offset < MaxIds

InPage ==
    at = "item" =>
        /\ walk.st \in {"on", "broken"}
        /\ Len(list_ids) <= MaxIds /\ Descending(list_ids)
        /\ ToSet(list_ids) \subseteq used
        /\ pos \in (Offset + 1)..(PageEnd + 1)
        /\ sent <= pos - 1 - Offset

\* On a page, what the client lacks is still to come; the only session that is
\* passed by is the current one.
InGoodPage ==
    PageFits /\ ~excused /\ at = "item" =>
        /\ Len(result) <= pos - 1
        /\ ToSet(list_ids) \subseteq OnCard
        /\ \A s \in Missing : \E q \in pos..Len(list_ids) : list_ids[q] = s
        /\ sent = 0 => /\ pos <= Offset + 2
                       /\ pos = Offset + 2 =>
                              \A q \in pos..Len(list_ids) : list_ids[q] # current

Covered == PageFits => PagesCover

ListInv == /\ ListTypeOK /\ CardInv /\ ThereInv /\ BetweenPages /\ InPage /\ InGoodPage
           /\ Covered

LEMMA OffsetTyped == ListTypeOK => Offset \in Nat
<1> SUFFICES ASSUME ListTypeOK PROVE Offset \in Nat
  OBVIOUS
<1>1. walk.page - 1 \in Nat /\ PerPage \in Nat
  BY SessionListAssumption DEF ListTypeOK
<1>2. \A x, y \in Nat : x * y \in Nat
  OBVIOUS
<1> QED
  BY <1>1, <1>2 DEF Offset

LEMMA OffsetNext ==
  ASSUME NEW p \in Nat \ {0}
  PROVE  ((p + 1) - 1) * PerPage = (p - 1) * PerPage + PerPage
<1>1. PerPage \in Nat
  BY SessionListAssumption
<1>2. \A x, y \in Int : (x + 1) * y = x * y + y
  OBVIOUS
<1>3. (p + 1) - 1 = (p - 1) + 1 /\ p - 1 \in Int
  OBVIOUS
<1> QED
  BY <1>1, <1>2, <1>3

LEMMA PageEndIs ==
  ASSUME ListTypeOK
  PROVE  /\ PageEnd \in Nat /\ Len(list_ids) \in Nat
         /\ PageEnd <= Offset + PerPage /\ PageEnd <= Len(list_ids)
         /\ PageEnd = Offset + PerPage \/ PageEnd = Len(list_ids)
<1> DEFINE T == {Offset + PerPage, Len(list_ids)}
<1>1. /\ Offset + PerPage \in Nat /\ Len(list_ids) \in Nat
  BY OffsetTyped, SessionListAssumption DEF ListTypeOK
<1>2. T \in SUBSET Nat /\ T # {}
  BY <1>1
<1>3. PageEnd \in T /\ \A k \in T : PageEnd <= k
  BY <1>2, MinIsLeast DEF PageEnd
<1> QED
  BY <1>1, <1>3

LEMMA RankGrows ==
  ASSUME NEW T \in SUBSET Sessions, NEW S \in SUBSET T, NEW s \in Sessions
  PROVE  Cardinality({ d \in S : d > s }) <= Cardinality({ d \in T : d > s })
<1> DEFINE A == { d \in S : d > s }
           B == { d \in T : d > s }
<1>1. B \in SUBSET Sessions /\ A \in SUBSET B
  OBVIOUS
<1>2. IsFiniteSet(B)
  BY <1>1, SessionsFinite
<1> HIDE DEF A, B
<1>3. Cardinality(A) <= Cardinality(B)
  BY <1>1, <1>2, FS_Subset
<1> QED
  BY <1>3 DEF A, B

LEMMA Recorded ==
  ASSUME NEW d \in Seq(Sessions), NEW s \in Sessions
  PROVE  /\ Append(d, s) \in Seq(Sessions)
         /\ ToSet(Append(d, s)) = ToSet(d) \cup {s}
         /\ Once(d) /\ s \notin ToSet(d) => Once(Append(d, s))
         /\ ToSet(d) \subseteq Sessions
<1> DEFINE r == Append(d, s)
<1>1. /\ r \in Seq(Sessions) /\ Len(d) \in Nat /\ DOMAIN d = 1..Len(d)
      /\ DOMAIN r = 1..(Len(d) + 1)
      /\ \A k \in 1..Len(d) : r[k] = d[k] /\ d[k] \in Sessions
      /\ r[Len(d) + 1] = s
  OBVIOUS
<1> HIDE DEF r
<1>2. ToSet(r) = ToSet(d) \cup {s}
  <2>1. ASSUME NEW k \in 1..(Len(d) + 1) PROVE r[k] \in ToSet(d) \cup {s}
    <3>1. k = Len(d) + 1 \/ k \in 1..Len(d)
      BY <1>1
    <3> QED
      BY <1>1, <3>1 DEF ToSet
  <2>2. s \in ToSet(r)
    <3>1. Len(d) + 1 \in DOMAIN r
      BY <1>1
    <3> QED
      BY <1>1, <3>1 DEF ToSet
  <2>3. ASSUME NEW k \in 1..Len(d) PROVE d[k] \in ToSet(r)
    <3>1. k \in DOMAIN r /\ r[k] = d[k]
      BY <1>1
    <3> QED
      BY <3>1 DEF ToSet
  <2> QED
    BY <1>1, <2>1, <2>2, <2>3 DEF ToSet
<1>3. ASSUME Once(d), s \notin ToSet(d) PROVE Once(r)
  <2>1. \A k \in 1..Len(d) : d[k] # s
    BY <1>1, <1>3 DEF ToSet
  <2>2. \A k \in 1..(Len(d) + 1) : k = Len(d) + 1 \/ k \in 1..Len(d)
    BY <1>1
  <2> QED
    BY <1>1, <1>3, <2>1, <2>2 DEF Once
<1>4. ToSet(d) \subseteq Sessions
  BY <1>1 DEF ToSet
<1> QED
  BY <1>1, <1>2, <1>3, <1>4 DEF r

LEMMA TakenOff ==
  ASSUME NEW d \in Seq(Sessions), Once(d), NEW i \in DOMAIN d
  PROVE  /\ RemoveAt(d, i) \in Seq(Sessions) /\ Once(RemoveAt(d, i))
         /\ ToSet(RemoveAt(d, i)) = ToSet(d) \ {d[i]}
<1> DEFINE r == RemoveAt(d, i)
<1>1. Len(d) \in Nat /\ DOMAIN d = 1..Len(d) /\ i \in 1..Len(d)
  OBVIOUS
<1>2. /\ r \in Seq(Sessions) /\ Len(r) = Len(d) - 1
      /\ \A k \in 1..(Len(d) - 1) : r[k] = IF k < i THEN d[k] ELSE d[k + 1]
  BY <1>1, RemovedAt
<1> HIDE DEF r
<1>3. DOMAIN r = 1..(Len(d) - 1)
  BY <1>2
<1> DEFINE from(k) == IF k < i THEN k ELSE k + 1
<1>4. \A k \in DOMAIN r : /\ from(k) \in 1..Len(d) /\ from(k) # i
                          /\ r[k] = d[from(k)]
  BY <1>1, <1>2, <1>3
<1>5. \A k \in 1..Len(d) : k # i => \E j \in DOMAIN r : from(j) = k
  <2> SUFFICES ASSUME NEW k \in 1..Len(d), k # i
               PROVE  \E j \in DOMAIN r : from(j) = k
    OBVIOUS
  <2>1. CASE k < i
    <3>1. k \in DOMAIN r /\ from(k) = k
      BY <1>1, <1>3, <2>1
    <3> QED
      BY <3>1
  <2>2. CASE k > i
    <3>1. k - 1 \in DOMAIN r /\ from(k - 1) = k
      BY <1>1, <1>3, <2>2
    <3> QED
      BY <3>1
  <2> QED
    BY <1>1, <2>1, <2>2
<1>6. \A k, j \in DOMAIN r : from(k) = from(j) => k = j
  BY <1>1, <1>3
<1> HIDE DEF from
<1>7. Once(r)
  BY <1>1, <1>4, <1>6 DEF Once
<1>8. ToSet(r) = ToSet(d) \ {d[i]}
  <2>1. ASSUME NEW k \in DOMAIN r PROVE r[k] \in ToSet(d) \ {d[i]}
    BY <1>1, <1>4 DEF Once, ToSet
  <2>2. ASSUME NEW k \in 1..Len(d), d[k] # d[i] PROVE d[k] \in ToSet(r)
    <3>1. PICK j \in DOMAIN r : from(j) = k
      BY <1>5, <2>2
    <3> QED
      BY <1>4, <3>1 DEF ToSet
  <2> QED
    BY <1>1, <2>1, <2>2 DEF ToSet
<1> QED
  BY <1>2, <1>7, <1>8 DEF r

----------------------------------------------------------------------------
(* The steps. *)

\* Nothing of the walk has changed but the sessions on the card, which grew.
LEMMA RanksKept ==
  ASSUME ListInv, BetweenPages, UNCHANGED <<atVars, walkVars>>, OnCard \subseteq OnCard',
         OnCard' \subseteq Sessions
  PROVE  BetweenPages' /\ Offset' = Offset /\ PageEnd' = PageEnd
<1>1. /\ Offset' = Offset /\ PageEnd' = PageEnd /\ Missing' = Missing
      /\ result' = result /\ walk' = walk /\ at' = at /\ excused' = excused
  BY DEF Offset, PageEnd, Missing, atVars, walkVars
<1>2. ASSUME NEW s \in Missing PROVE Rank(s)' >= Rank(s) /\ Rank(s)' \in Int /\ Rank(s) \in Int
  <2>1. s \in Sessions
    BY DEF Missing, ListInv, ListTypeOK
  <2> DEFINE A == { d \in OnCard : d > s }
             B == { d \in OnCard' : d > s }
  <2>2. Cardinality(A) <= Cardinality(B)
    BY <2>1, RankGrows
  <2>3. A \in SUBSET Sessions /\ B \in SUBSET Sessions
    OBVIOUS
  <2>4. Cardinality(A) \in Nat /\ Cardinality(B) \in Nat
    BY <2>3, SessionsFinite
  <2>5. Rank(s) = Cardinality(A) /\ Rank(s)' = Cardinality(B)
    BY DEF Rank
  <2> QED
    BY <2>2, <2>4, <2>5
<1>3. Offset \in Nat
  BY OffsetTyped DEF ListInv
<1> QED
  BY <1>1, <1>2, <1>3 DEF BetweenPages

LEMMA ListRecord ==
  ASSUME ListInv, NEW s \in Sessions, Record(s)
  PROVE  ListInv'
<1>0. ListTypeOK /\ CardInv /\ ThereInv /\ BetweenPages /\ InPage /\ InGoodPage
      /\ Covered
  BY DEF ListInv
<1>1. /\ dirs' = Append(dirs, s) /\ used' = used \cup {s} /\ current' = s
      /\ UNCHANGED <<filled, atVars, walkVars>> /\ s \notin used
  BY DEF Record
<1>2. /\ dirs' \in Seq(Sessions) /\ Once(dirs') /\ ToSet(dirs') = ToSet(dirs) \cup {s}
      /\ ToSet(dirs) \subseteq Sessions
  BY <1>0, <1>1, Recorded DEF ListTypeOK, CardInv, OnCard
<1>3. OnCard \subseteq OnCard' /\ OnCard' = OnCard \cup {s} /\ OnCard' \subseteq Sessions
  BY <1>2 DEF OnCard
<1>4. ListTypeOK'
  BY <1>0, <1>1, <1>2 DEF ListTypeOK, atVars, walkVars
<1>5. CardInv'
  BY <1>0, <1>1, <1>2, <1>3 DEF CardInv
<1>6. BetweenPages' /\ Offset' = Offset /\ PageEnd' = PageEnd
  BY <1>0, <1>1, <1>3, RanksKept
<1>7. ThereInv' /\ Covered'
  BY <1>0, <1>1 DEF ThereInv, Covered, PagesCover, walkVars
<1>8. InPage'
  BY <1>0, <1>1, <1>6 DEF InPage, atVars, walkVars
<1>9. InGoodPage'
  <2>1. at = "item" => s \notin ToSet(list_ids)
    BY <1>0, <1>1 DEF InPage
  <2>2. ASSUME at = "item", pos \in Nat, pos >= 1, NEW q \in pos..Len(list_ids)
        PROVE  list_ids[q] # s
    <3>1. q \in DOMAIN list_ids
      BY <1>0, <2>2 DEF ListTypeOK
    <3> QED
      BY <2>1, <2>2, <3>1 DEF ToSet
  <2>3. at = "item" => pos \in Nat /\ pos >= 1
    BY <1>0, OffsetTyped DEF InPage, ListTypeOK
  <2>4. UNCHANGED <<at, excused, result, pos, list_ids, sent, Missing, Offset>>
    BY <1>1, <1>6 DEF atVars, walkVars, Missing
  <2> QED
    BY <1>0, <1>1, <1>3, <2>2, <2>3, <2>4 DEF InGoodPage
<1> QED
  BY <1>4, <1>5, <1>6, <1>7, <1>8, <1>9 DEF ListInv

LEMMA ListFirstFile ==
  ASSUME ListInv, FirstFile
  PROVE  ListInv'
<1>0. ListTypeOK /\ CardInv /\ ThereInv /\ BetweenPages /\ InPage /\ InGoodPage
      /\ Covered
  BY DEF ListInv
<1>1. /\ filled' = filled \cup {current} /\ current # None
      /\ UNCHANGED <<dirs, used, current, atVars, walkVars>>
  BY DEF FirstFile
<1>2. OnCard' = OnCard /\ OnCard \subseteq Sessions
  BY <1>0, <1>1, Recorded DEF OnCard, ListTypeOK, ToSet
<1>4. ListTypeOK'
  BY <1>0, <1>1 DEF ListTypeOK, atVars, walkVars
<1>5. CardInv'
  BY <1>0, <1>1, <1>2 DEF CardInv
<1>6. BetweenPages' /\ Offset' = Offset /\ PageEnd' = PageEnd
  BY <1>0, <1>1, <1>2, RanksKept
<1>7. ThereInv' /\ Covered'
  BY <1>0, <1>1 DEF ThereInv, Covered, PagesCover, walkVars
<1>8. InPage'
  BY <1>0, <1>1, <1>6 DEF InPage, atVars, walkVars
<1>9. InGoodPage'
  BY <1>0, <1>1, <1>2, <1>6 DEF InGoodPage, Missing, atVars, walkVars
<1> QED
  BY <1>4, <1>5, <1>6, <1>7, <1>8, <1>9 DEF ListInv

LEMMA ListEndRecording ==
  ASSUME ListInv, EndRecording
  PROVE  ListInv'
<1>0. ListTypeOK /\ CardInv /\ ThereInv /\ BetweenPages /\ InPage /\ InGoodPage
      /\ Covered
  BY DEF ListInv
<1>1. /\ current' = None /\ UNCHANGED <<dirs, filled, used, atVars, walkVars>>
  BY DEF EndRecording
<1>2. OnCard' = OnCard /\ OnCard \subseteq Sessions
  BY <1>0, <1>1, Recorded DEF OnCard, ListTypeOK, ToSet
<1>4. ListTypeOK'
  BY <1>0, <1>1 DEF ListTypeOK, atVars, walkVars
<1>5. CardInv'
  BY <1>0, <1>1, <1>2 DEF CardInv
<1>6. BetweenPages' /\ Offset' = Offset /\ PageEnd' = PageEnd
  BY <1>0, <1>1, <1>2, RanksKept
<1>7. ThereInv' /\ Covered'
  BY <1>0, <1>1 DEF ThereInv, Covered, PagesCover, walkVars
<1>8. InPage'
  BY <1>0, <1>1, <1>6 DEF InPage, atVars, walkVars
<1>9. InGoodPage'
  <2>1. at = "item" => pos \in Nat /\ pos >= 1
    BY <1>0, OffsetTyped DEF InPage, ListTypeOK
  <2>2. ASSUME at = "item", NEW q \in pos..Len(list_ids)
        PROVE  list_ids[q] # None
    <3>1. list_ids \in Seq(Sessions) /\ q \in 1..Len(list_ids)
      BY <1>0, <2>1, <2>2 DEF ListTypeOK
    <3>2. list_ids[q] \in Sessions
      BY <3>1
    <3> QED
      BY <3>2 DEF Sessions, None
  <2>4. UNCHANGED <<at, excused, result, pos, list_ids, sent, Missing, Offset>>
    BY <1>1, <1>6 DEF atVars, walkVars, Missing
  <2> QED
    BY <1>0, <1>1, <1>2, <2>2, <2>4 DEF InGoodPage
<1> QED
  BY <1>4, <1>5, <1>6, <1>7, <1>8, <1>9 DEF ListInv

LEMMA ListStartWalk ==
  ASSUME ListInv, StartWalk
  PROVE  ListInv'
<1>0. ListTypeOK /\ CardInv
  BY DEF ListInv
<1>1. /\ at = "idle" /\ at' = "idle" /\ walk' = [st |-> "on", page |-> 1]
      /\ result' = <<>> /\ there' = filled /\ excused' = FALSE /\ lost' = {}
      /\ UNCHANGED <<cardVars, list_ids, pos, sent>>
  BY DEF StartWalk, atVars
<1>2. OnCard' = OnCard /\ OnCard \subseteq Sessions
  BY <1>0, <1>1, Recorded DEF OnCard, ListTypeOK, ToSet, cardVars
<1>3. Offset' = 0
  <2>1. Offset' = (1 - 1) * PerPage
    BY <1>1 DEF Offset
  <2> QED
    BY <2>1, SessionListAssumption
<1>4. ListTypeOK'
  <2>1. result' \in Seq(Sessions)
    BY <1>1
  <2>2. walk' \in [st : {"off", "on", "done", "broken"}, page : Nat \ {0}]
    BY <1>1
  <2> QED
    BY <1>0, <1>1, <2>1, <2>2 DEF ListTypeOK, cardVars
<1>5. CardInv' /\ ThereInv' /\ Covered' /\ InPage' /\ InGoodPage'
  BY <1>0, <1>1, <1>2 DEF CardInv, ThereInv, Covered, PagesCover, InPage, InGoodPage, cardVars
<1>6. BetweenPages'
  <2>1. ASSUME NEW s PROVE Rank(s)' \in Nat
    <3>1. { d \in OnCard' : d > s } \in SUBSET Sessions
      BY <1>2
    <3> QED
      BY <3>1, SessionsFinite DEF Rank
  <2> QED
    BY <1>1, <1>3, <2>1, SessionListAssumption DEF BetweenPages
<1> QED
  BY <1>4, <1>5, <1>6 DEF ListInv

LEMMA ListDelete ==
  ASSUME ListInv, NEW s \in Sessions, Delete(s)
  PROVE  ListInv'
<1>0. ListTypeOK /\ CardInv
  BY DEF ListInv
<1>1. PICK i \in DOMAIN dirs : dirs[i] = s /\ dirs' = RemoveAt(dirs, i)
  BY DEF Delete, TakeOff
<1>2. /\ filled' = filled \ {s} /\ excused' = TRUE /\ at = "idle" /\ s # current
      /\ UNCHANGED <<used, current, atVars, walk, result, there, lost>>
  BY DEF Delete, TakeOff
<1>3. /\ dirs' \in Seq(Sessions) /\ Once(dirs') /\ OnCard' = OnCard \ {s}
  BY <1>0, <1>1, TakenOff DEF ListTypeOK, CardInv, OnCard
<1>4. ListTypeOK'
  BY <1>0, <1>2, <1>3 DEF ListTypeOK, atVars
<1>5. CardInv'
  BY <1>0, <1>2, <1>3 DEF CardInv
<1>6. ThereInv' /\ BetweenPages' /\ InPage' /\ InGoodPage' /\ Covered'
  BY <1>2 DEF ThereInv, BetweenPages, InPage, InGoodPage, Covered, PagesCover, atVars
<1> QED
  BY <1>4, <1>5, <1>6 DEF ListInv

\* The list of a LIST: all that is on the card, unless there is too much.
LEMMA ListMade ==
  ASSUME ListInv
  PROVE  LET ids == ScanSessionIds IN
         /\ ids \in Seq(Sessions) /\ Len(ids) \in Nat /\ Len(ids) <= MaxIds /\ Descending(ids)
         /\ ToSet(ids) \subseteq OnCard
         /\ Len(dirs) <= MaxIds \/ Len(ids) < MaxIds => ToSet(ids) = OnCard
<1> DEFINE ids == ScanSessionIds
<1>1. dirs \in Seq(Sessions) /\ Once(dirs) /\ Len(dirs) \in Nat
  BY DEF ListInv, ListTypeOK, CardInv
<1>2. PICK n \in Nat : /\ Scanned(ids, n) /\ n <= MaxIds /\ n <= Len(dirs)
                       /\ n = MaxIds \/ n = Len(dirs)
  BY <1>1, ScanInOrder
<1> HIDE DEF ids
<1>3. /\ ids \in Seq(Sessions) /\ Len(ids) = n /\ Descending(ids)
      /\ ToSet(ids) = { dirs[i] : i \in 1..n }
  BY <1>2 DEF Scanned
<1>a. OnCard = { dirs[i] : i \in 1..Len(dirs) }
  <2>1. DOMAIN dirs = 1..Len(dirs)
    BY <1>1
  <2> QED
    BY <2>1 DEF OnCard, ToSet
<1>b. n <= MaxIds /\ n <= Len(dirs) /\ (n = MaxIds \/ n = Len(dirs))
  BY <1>2
<1>4. ToSet(ids) \subseteq OnCard
  BY <1>1, <1>3, <1>a, <1>b
<1>5. ASSUME Len(dirs) <= MaxIds \/ Len(ids) < MaxIds PROVE ToSet(ids) = OnCard
  <2>1. MaxIds \in Nat
    BY SessionListAssumption
  <2>2. Len(dirs) <= MaxIds \/ n < MaxIds
    BY <1>3, <1>5
  <2>3. n = Len(dirs)
    BY <1>1, <1>b, <2>1, <2>2
  <2> QED
    BY <1>3, <1>a, <2>3
<1> QED
  BY <1>2, <1>3, <1>4, <1>5 DEF ids

\* A session of the card has its place in the list behind the newer ones.
LEMMA PlaceInList ==
  ASSUME NEW ids \in Seq(Sessions), Descending(ids), ToSet(ids) = OnCard, NEW s \in OnCard
  PROVE  \E q \in 1..Len(ids) : ids[q] = s /\ Rank(s) = q - 1
<1>1. PICK q \in 1..Len(ids) : ids[q] = s
  BY DEF ToSet
<1>2. Cardinality({ d \in ToSet(ids) : d > ids[q] }) = q - 1
  BY PlaceIsRank
<1> QED
  BY <1>1, <1>2 DEF Rank

LEMMA ListList ==
  ASSUME ListInv, List
  PROVE  ListInv'
<1>0. ListTypeOK /\ CardInv /\ ThereInv /\ BetweenPages
  BY DEF ListInv
<1> DEFINE ids == ScanSessionIds
<1>1. /\ ids \in Seq(Sessions) /\ Len(ids) \in Nat /\ Len(ids) <= MaxIds /\ Descending(ids)
      /\ ToSet(ids) \subseteq OnCard
      /\ Len(dirs) <= MaxIds \/ Len(ids) < MaxIds => ToSet(ids) = OnCard
  BY ListMade
<1>2. /\ at = "idle" /\ walk.st = "on" /\ UNCHANGED <<cardVars, result, there, lost>>
      /\ OnCard' = OnCard /\ Missing' = Missing
  BY DEF List, OnCard, Missing, cardVars
<1>3. /\ Offset \in Nat /\ Len(result) \in Nat /\ Len(dirs) \in Nat /\ MaxIds \in Nat
      /\ PerPage \in Nat /\ PerPage >= 1
  BY <1>0, OffsetTyped, SessionListAssumption DEF ListTypeOK
<1>4. CardInv'
  BY <1>0, <1>2 DEF CardInv, cardVars
<1>5. CASE Offset >= Len(ids)
  <2>1. walk' = AfterEmptyPage /\ UNCHANGED <<atVars, excused>>
    BY <1>5 DEF List
  <2>2. walk' = [walk EXCEPT !.st = "done"]
    BY <2>1 DEF AfterEmptyPage
  <2> HIDE DEF ids
  <2>3. walk'.st = "done"
    BY <1>0, <2>2 DEF ListTypeOK
  <2>4. ASSUME PageFits, ~excused, NEW s \in Missing PROVE FALSE
    <3>1. Len(result) <= Offset /\ Rank(s) >= Offset /\ Offset < MaxIds
      BY <1>0, <1>2, <2>4 DEF BetweenPages
    <3>2. ToSet(ids) = OnCard
      BY <1>1, <1>3, <1>5, <3>1
    <3>3. s \in OnCard
      BY <1>0, <2>4 DEF ThereInv, CardInv, Missing
    <3>4. PICK q \in 1..Len(ids) : ids[q] = s /\ Rank(s) = q - 1
      BY <1>1, <3>2, <3>3, PlaceInList
    <3> QED
      BY <1>1, <1>3, <1>5, <3>1, <3>4
  <2>5. Covered'
    BY <1>2, <2>1, <2>4 DEF Covered, PagesCover, Missing
  <2>6. ListTypeOK'
    <3>1. walk' \in [st : {"off", "on", "done", "broken"}, page : Nat \ {0}]
      BY <1>0, <2>2 DEF ListTypeOK
    <3> QED
      BY <1>0, <1>2, <2>1, <3>1 DEF ListTypeOK, cardVars, atVars
  <2>7. ThereInv' /\ BetweenPages' /\ InPage' /\ InGoodPage'
    BY <1>0, <1>2, <2>1, <2>3
       DEF ThereInv, BetweenPages, InPage, InGoodPage, cardVars, atVars
  <2> QED
    BY <1>4, <2>5, <2>6, <2>7 DEF ListInv
<1>6. CASE Offset < Len(ids)
  <2>1. /\ list_ids' = ids /\ pos' = Offset + 1 /\ sent' = 0
        /\ excused' = (excused \/ Len(dirs) > MaxIds)
        /\ at' = "item" /\ walk' = walk
    BY <1>1, <1>3, <1>6 DEF List
  <2> HIDE DEF ids
  <2>2. Offset' = Offset
    BY <2>1 DEF Offset
  <2>3. ListTypeOK'
    BY <1>0, <1>1, <1>2, <1>3, <2>1 DEF ListTypeOK, cardVars
  <2>4. /\ PageEnd' \in Nat
        /\ PageEnd' = Offset + PerPage \/ PageEnd' = Len(ids)
    <3>1. (ListTypeOK => /\ PageEnd \in Nat
                         /\ PageEnd = Offset + PerPage \/ PageEnd = Len(list_ids))'
      BY PageEndIs, PTL
    <3> QED
      BY <2>1, <2>2, <2>3, <3>1
  <2>5. InPage'
    <3>1. ToSet(ids) \subseteq used
      BY <1>0, <1>1 DEF CardInv
    <3>2. pos' \in (Offset' + 1)..(PageEnd' + 1)
      <4>1. Offset + 1 <= PageEnd' + 1 /\ Offset + 1 \in Int /\ PageEnd' + 1 \in Int
        <5>1. Len(ids) \in Nat
          BY <1>1
        <5>2. CASE PageEnd' = Offset + PerPage
          BY <1>3, <5>2
        <5>3. CASE PageEnd' = Len(ids)
          BY <1>3, <1>6, <5>1, <5>3
        <5> QED
          BY <2>4, <5>2, <5>3
      <4> QED
        BY <2>1, <2>2, <4>1
    <3> QED
      BY <1>1, <1>2, <1>3, <2>1, <2>2, <3>1, <3>2 DEF InPage, cardVars
  <2>6. InGoodPage'
    <3> SUFFICES ASSUME PageFits, ~excused'
                 PROVE  /\ Len(result) <= Offset
                        /\ ToSet(ids) \subseteq OnCard
                        /\ \A s \in Missing : \E q \in pos'..Len(ids) : ids[q] = s
      <4>1. pos' - 1 = Offset /\ pos' <= Offset + 2 /\ pos' # Offset + 2
        BY <1>3, <2>1
      <4> QED
        BY <1>2, <2>1, <2>2, <4>1 DEF InGoodPage
    <3>1. ~excused /\ ToSet(ids) = OnCard
      <4>1. ~excused /\ ~(Len(dirs) > MaxIds)
        BY <2>1
      <4>2. Len(dirs) <= MaxIds
        BY <1>3, <4>1
      <4> QED
        BY <1>1, <4>1, <4>2
    <3>2. ASSUME NEW s \in Missing PROVE \E q \in pos'..Len(ids) : ids[q] = s
      <4>1. Rank(s) >= Offset
        BY <1>0, <1>2, <3>1, <3>2 DEF BetweenPages
      <4>2. s \in OnCard
        BY <1>0, <3>1, <3>2 DEF ThereInv, CardInv, Missing
      <4>3. PICK q \in 1..Len(ids) : ids[q] = s /\ Rank(s) = q - 1
        BY <1>1, <3>1, <4>2, PlaceInList
      <4> QED
        BY <1>1, <1>3, <2>1, <4>1, <4>3
    <3>3. Len(result) <= Offset
      BY <1>0, <1>2, <3>1 DEF BetweenPages
    <3> QED
      BY <3>1, <3>2, <3>3
  <2>7. ThereInv' /\ BetweenPages' /\ Covered'
    BY <1>0, <1>2, <2>1 DEF ThereInv, BetweenPages, Covered, PagesCover, cardVars
  <2> QED
    BY <1>4, <2>3, <2>5, <2>6, <2>7 DEF ListInv
<1> QED
  BY <1>1, <1>3, <1>5, <1>6

\* One session of a page.
LEMMA ListListItem ==
  ASSUME ListInv, ListItem
  PROVE  ListInv'
<1>0. /\ ListTypeOK /\ CardInv /\ ThereInv /\ BetweenPages /\ InPage /\ InGoodPage
      /\ Covered
  BY DEF ListInv
<1>1. /\ at = "item" /\ pos <= PageEnd /\ pos' = pos + 1
      /\ UNCHANGED <<used, current, at, list_ids, there, lost>>
  BY DEF ListItem
<1>2. /\ PageEnd \in Nat /\ Len(list_ids) \in Nat /\ PageEnd <= Len(list_ids)
      /\ Offset \in Nat /\ pos \in Nat /\ sent \in Nat /\ Len(result) \in Nat
      /\ list_ids \in Seq(Sessions) /\ result \in Seq(Sessions)
  BY <1>0, PageEndIs, OffsetTyped DEF ListTypeOK
<1>3. pos >= Offset + 1 /\ pos <= PageEnd + 1 /\ sent <= pos - 1 - Offset
  BY <1>0, <1>1, <1>2 DEF InPage
<1> DEFINE s == list_ids[pos]
<1>4. pos \in 1..Len(list_ids) /\ s \in Sessions
  BY <1>1, <1>2, <1>3
<1>5. /\ walk'.page = walk.page /\ walk'.st \in {"on", "broken"}
      /\ walk' \in [st : {"off", "on", "done", "broken"}, page : Nat \ {0}]
  <2>1. walk' = walk \/ walk' = [walk EXCEPT !.st = "broken"]
    BY DEF ListItem
  <2> QED
    BY <1>0, <1>1, <2>1 DEF ListTypeOK, InPage
<1>6. Offset' = Offset /\ PageEnd' = PageEnd
  BY <1>1, <1>5 DEF Offset, PageEnd
<1>7. pos' \in (Offset' + 1)..(PageEnd' + 1)
  BY <1>1, <1>2, <1>3, <1>6
<1>8. ASSUME sent' \in {sent, sent + 1} PROVE InPage'
  BY <1>0, <1>1, <1>2, <1>3, <1>5, <1>6, <1>7, <1>8 DEF InPage
<1>9. Covered' /\ BetweenPages'
  BY <1>1, <1>5 DEF Covered, PagesCover, BetweenPages
<1>10. \A q \in (pos + 1)..Len(list_ids) : q \in pos..Len(list_ids)
  BY <1>2
<1>11. CASE /\ s \in filled
            /\ result' = Append(result, s) /\ sent' = sent + 1
            /\ UNCHANGED <<dirs, filled, excused>>
  <2>1. /\ result' \in Seq(Sessions) /\ Len(result') = Len(result) + 1
        /\ ToSet(result') = ToSet(result) \cup {s}
    BY <1>2, <1>4, <1>11, Recorded
  <2>2. OnCard' = OnCard /\ Missing' = Missing \ {s}
    BY <1>1, <1>11, <2>1 DEF OnCard, Missing
  <2>3. ListTypeOK' /\ CardInv' /\ ThereInv'
    BY <1>0, <1>1, <1>2, <1>5, <1>11, <2>1, <2>2 DEF ListTypeOK, CardInv, ThereInv
  <2>4. InGoodPage'
    <3> SUFFICES ASSUME PageFits, ~excused
                 PROVE  /\ Len(result') <= pos' - 1
                        /\ ToSet(list_ids) \subseteq OnCard
                        /\ \A x \in Missing' : \E q \in pos'..Len(list_ids) : list_ids[q] = x
                        /\ sent' # 0
      BY <1>1, <1>11, <2>2 DEF InGoodPage
    <3>1. ASSUME NEW x \in Missing' PROVE \E q \in pos'..Len(list_ids) : list_ids[q] = x
      <4>1. PICK q \in pos..Len(list_ids) : list_ids[q] = x
        BY <1>0, <1>1, <2>2, <3>1 DEF InGoodPage
      <4>2. q # pos
        BY <2>2, <3>1, <4>1
      <4> QED
        BY <1>1, <1>2, <4>1, <4>2
    <3>2. Len(result) <= pos - 1 /\ ToSet(list_ids) \subseteq OnCard
      BY <1>0, <1>1 DEF InGoodPage
    <3>3. Len(result') <= pos' - 1 /\ sent' # 0
      BY <1>1, <1>2, <1>11, <2>1, <3>2
    <3> QED
      BY <3>1, <3>2, <3>3
  <2> QED
    BY <1>8, <1>9, <1>11, <2>3, <2>4 DEF ListInv
<1>12. CASE /\ s \notin filled /\ s # current /\ TakeOff(s)
            /\ UNCHANGED <<result, sent, walk>>
  <2>1. PICK i \in DOMAIN dirs : dirs[i] = s /\ dirs' = RemoveAt(dirs, i)
    BY <1>12 DEF TakeOff
  <2>2. /\ filled' = filled \ {s} /\ excused' = TRUE
    BY <1>12 DEF TakeOff
  <2>3. /\ dirs' \in Seq(Sessions) /\ Once(dirs') /\ OnCard' = OnCard \ {s}
    BY <1>0, <2>1, TakenOff DEF ListTypeOK, CardInv, OnCard
  <2>4. ListTypeOK'
    BY <1>0, <1>1, <1>2, <1>5, <1>12, <2>2, <2>3 DEF ListTypeOK
  <2>5. CardInv'
    BY <1>0, <1>1, <1>12, <2>2, <2>3 DEF CardInv
  <2>6. ThereInv' /\ InGoodPage'
    BY <2>2 DEF ThereInv, InGoodPage
  <2> QED
    BY <1>8, <1>9, <1>12, <2>4, <2>5, <2>6 DEF ListInv
<1>13. CASE /\ s \notin filled /\ s = current
            /\ UNCHANGED <<dirs, filled, excused, result, sent, walk>>
  <2>1. OnCard' = OnCard /\ Missing' = Missing
    BY <1>1, <1>13 DEF OnCard, Missing
  <2>2. ListTypeOK' /\ CardInv' /\ ThereInv'
    BY <1>0, <1>1, <1>2, <1>5, <1>13, <2>1 DEF ListTypeOK, CardInv, ThereInv
  <2>3. InGoodPage'
    <3> SUFFICES ASSUME PageFits, ~excused
                 PROVE  /\ Len(result) <= pos' - 1
                        /\ ToSet(list_ids) \subseteq OnCard
                        /\ \A x \in Missing : \E q \in pos'..Len(list_ids) : list_ids[q] = x
                        /\ sent = 0 =>
                              /\ pos' <= Offset + 2
                              /\ \A q \in pos'..Len(list_ids) : list_ids[q] # current
      BY <1>1, <1>6, <1>13, <2>1 DEF InGoodPage
    <3>1. ASSUME NEW x \in Missing PROVE \E q \in pos'..Len(list_ids) : list_ids[q] = x
      <4>1. PICK q \in pos..Len(list_ids) : list_ids[q] = x
        BY <1>0, <1>1, <3>1 DEF InGoodPage
      <4>2. q # pos
        BY <1>0, <1>13, <3>1, <4>1 DEF ThereInv, Missing
      <4> QED
        BY <1>1, <1>2, <4>1, <4>2
    <3>2. Len(result) <= pos - 1 /\ ToSet(list_ids) \subseteq OnCard
      BY <1>0, <1>1 DEF InGoodPage
    <3>3. Len(result) <= pos' - 1
      BY <1>1, <1>2, <3>2
    <3>4. ASSUME sent = 0
          PROVE  /\ pos' <= Offset + 2
                 /\ \A q \in pos'..Len(list_ids) : list_ids[q] # current
      <4>1. /\ pos <= Offset + 2
            /\ pos = Offset + 2 => \A q \in pos..Len(list_ids) : list_ids[q] # current
        BY <1>0, <1>1, <3>4 DEF InGoodPage
      <4>2. pos # Offset + 2
        BY <1>2, <1>4, <1>13, <4>1
      <4>3. pos = Offset + 1 /\ pos' = Offset + 2
        BY <1>1, <1>2, <1>3, <4>1, <4>2
      <4>4. ASSUME NEW q \in pos'..Len(list_ids) PROVE list_ids[q] # current
        <5>1. q \in 1..Len(list_ids) /\ pos < q
          BY <1>1, <1>2, <4>4
        <5>2. s > list_ids[q]
          BY <1>0, <1>1, <1>2, <1>4, <5>1 DEF InPage, Descending
        <5>3. list_ids[q] \in Nat /\ s \in Nat
          BY <1>2, <1>4, <5>1, SessionListAssumption DEF Sessions
        <5> QED
          BY <1>13, <5>2, <5>3
      <4> QED
        BY <1>2, <4>3, <4>4
    <3> QED
      BY <3>1, <3>2, <3>3, <3>4
  <2> QED
    BY <1>8, <1>9, <1>13, <2>2, <2>3 DEF ListInv
<1> QED
  BY <1>11, <1>12, <1>13 DEF ListItem

\* A page that is not full is the last one: nothing the client lacks is behind it.
LEMMA LastPage ==
  ASSUME PageFits, ListInv, ListEnd, ~excused,
         sent = 0 \/ Len(result) >= Len(list_ids)
  PROVE  Missing = {}
<1>0. ListTypeOK /\ InPage /\ InGoodPage
  BY DEF ListInv
<1>1. at = "item" /\ (pos > PageEnd \/ sent >= Room)
  BY DEF ListEnd
<1>2. /\ PageEnd \in Nat /\ Len(list_ids) \in Nat
      /\ PageEnd = Offset + PerPage \/ PageEnd = Len(list_ids)
      /\ Offset \in Nat /\ pos \in Nat /\ sent \in Nat /\ Len(result) \in Nat
  BY <1>0, PageEndIs, OffsetTyped DEF ListTypeOK
<1>3. Len(result) <= pos - 1 /\ (sent = 0 => pos <= Offset + 2)
  BY <1>0, <1>1 DEF InGoodPage
<1>4. PerPage \in Nat /\ Room \in Nat /\ PerPage >= 2 /\ Room >= 1
  BY SessionListAssumption DEF PageFits
<1>5. pos > Len(list_ids)
  <2>1. CASE Len(result) >= Len(list_ids)
    BY <1>2, <1>3, <2>1
  <2>2. CASE sent = 0
    <3>1. pos > PageEnd /\ pos <= Offset + 2
      BY <1>1, <1>3, <1>4, <2>2
    <3>2. PageEnd # Offset + PerPage
      BY <1>2, <1>4, <3>1
    <3> QED
      BY <1>2, <3>1, <3>2
  <2> QED
    BY <2>1, <2>2
<1>6. pos..Len(list_ids) = {}
  BY <1>2, <1>5
<1> QED
  BY <1>0, <1>1, <1>6 DEF InGoodPage

\* What is behind a page has as many newer sessions as the pages hold.
LEMMA NextPage ==
  ASSUME PageFits, ListInv, ListEnd, ~excused, NEW s \in Missing, s \notin lost'
  PROVE  Rank(s) >= Offset + PerPage /\ Offset + PerPage < MaxIds
<1>0. ListTypeOK /\ CardInv /\ InPage /\ InGoodPage
  BY DEF ListInv
<1>1. at = "item" /\ lost' = lost \cup { list_ids[i] : i \in pos..PageEnd }
  BY DEF ListEnd
<1>2. /\ PageEnd \in Nat /\ Len(list_ids) \in Nat /\ PageEnd <= Offset + PerPage
      /\ PageEnd = Offset + PerPage \/ PageEnd = Len(list_ids)
      /\ Offset \in Nat /\ pos \in Nat /\ sent \in Nat /\ Len(result) \in Nat
      /\ list_ids \in Seq(Sessions)
  BY <1>0, PageEndIs, OffsetTyped DEF ListTypeOK
<1>3. /\ Len(result) <= pos - 1 /\ ToSet(list_ids) \subseteq OnCard
      /\ sent <= pos - 1 - Offset /\ pos <= PageEnd + 1 /\ pos >= Offset + 1
      /\ Len(list_ids) <= MaxIds /\ Descending(list_ids)
  BY <1>0, <1>1, <1>2 DEF InGoodPage, InPage
<1>4. PerPage \in Nat /\ MaxIds \in Nat
  BY SessionListAssumption
<1>5. PICK q \in pos..Len(list_ids) : list_ids[q] = s
  BY <1>0, <1>1 DEF InGoodPage
<1>6. ~(q <= PageEnd)
  <2>1. q <= PageEnd => q \in pos..PageEnd
    BY <1>2, <1>5
  <2> QED
    BY <1>1, <1>5, <2>1
<1>7. q \in 1..Len(list_ids) /\ q - 1 >= Offset + PerPage
  BY <1>2, <1>3, <1>4, <1>5, <1>6
<1>8. Cardinality({ d \in ToSet(list_ids) : d > s }) = q - 1
  BY <1>2, <1>3, <1>5, <1>7, PlaceIsRank
<1>9. OnCard \in SUBSET Sessions
  BY <1>0, Recorded DEF OnCard, ListTypeOK, ToSet
<1>10. s \in Sessions
  BY <1>0 DEF Missing, ListTypeOK
<1>11. q - 1 <= Rank(s)
  BY <1>3, <1>8, <1>9, <1>10, RankGrows DEF Rank
<1>12. Rank(s) \in Nat
  <2>1. { d \in OnCard : d > s } \in SUBSET Sessions
    BY <1>9
  <2> QED
    BY <2>1, SessionsFinite DEF Rank
<1> QED
  BY <1>2, <1>3, <1>4, <1>6, <1>7, <1>11, <1>12

LEMMA ListListEnd ==
  ASSUME ListInv, ListEnd
  PROVE  ListInv'
<1>0. ListTypeOK /\ CardInv /\ ThereInv /\ InPage
  BY DEF ListInv
<1>1. /\ at = "item" /\ at' = "idle" /\ list_ids' = <<>> /\ pos' = 0 /\ sent' = 0
      /\ UNCHANGED <<cardVars, result, there, excused>>
  BY DEF ListEnd
<1>2. /\ OnCard' = OnCard /\ Missing' \subseteq Missing
      /\ \A s \in Missing' : s \notin lost'
      /\ lost' \in SUBSET Sessions
  <2>1. lost' = lost \cup { list_ids[i] : i \in pos..PageEnd }
    BY DEF ListEnd
  <2>2. \A i \in pos..PageEnd : i \in 1..Len(list_ids)
    BY <1>0, <1>1, PageEndIs, OffsetTyped DEF InPage, ListTypeOK
  <2>3. \A i \in 1..Len(list_ids) : list_ids[i] \in Sessions
    BY <1>0 DEF ListTypeOK
  <2>4. lost \in SUBSET Sessions
    BY <1>0 DEF ListTypeOK
  <2> QED
    BY <1>1, <2>1, <2>2, <2>3, <2>4 DEF OnCard, Missing, cardVars
<1>3. \/ walk' = walk /\ walk.st = "broken"
      \/ /\ walk' = [walk EXCEPT !.st = "done"]
         /\ sent = 0 \/ Len(result) >= Len(list_ids)
      \/ walk' = [walk EXCEPT !.page = @ + 1]
  BY DEF ListEnd, AfterEmptyPage
<1>4. walk \in [st : {"off", "on", "done", "broken"}, page : Nat \ {0}]
  BY <1>0 DEF ListTypeOK
<1>5. ListTypeOK'
  <2>1. walk' \in [st : {"off", "on", "done", "broken"}, page : Nat \ {0}]
    BY <1>3, <1>4
  <2>2. <<>> \in Seq(Sessions)
    OBVIOUS
  <2> QED
    BY <1>0, <1>1, <1>2, <2>1, <2>2 DEF ListTypeOK, cardVars
<1>6. CardInv' /\ ThereInv' /\ InPage' /\ InGoodPage'
  BY <1>0, <1>1, <1>2 DEF CardInv, ThereInv, InPage, InGoodPage, cardVars
<1>7. CASE walk' = walk /\ walk.st = "broken"
  BY <1>5, <1>6, <1>7 DEF BetweenPages, Covered, PagesCover, ListInv
<1>8. CASE /\ walk' = [walk EXCEPT !.st = "done"]
           /\ sent = 0 \/ Len(result) >= Len(list_ids)
  <2>1. walk'.st = "done"
    BY <1>4, <1>8
  <2>2. PageFits /\ ~excused => Missing = {}
    BY <1>8, LastPage
  <2>3. BetweenPages' /\ Covered'
    BY <1>1, <1>2, <2>1, <2>2 DEF BetweenPages, Covered, PagesCover, Missing
  <2> QED
    BY <1>5, <1>6, <2>3 DEF ListInv
<1>9. CASE walk' = [walk EXCEPT !.page = @ + 1]
  <2>1. walk'.st = walk.st /\ walk'.page = walk.page + 1 /\ walk.page \in Nat \ {0}
    BY <1>4, <1>9
  <2>2. walk.st # "done"
    BY <1>0, <1>1 DEF InPage
  <2>3. Offset' = Offset + PerPage
    BY <2>1, OffsetNext DEF Offset
  <2>4. BetweenPages'
    <3> SUFFICES ASSUME PageFits, ~excused
                 PROVE  /\ Len(result) <= Offset + PerPage
                        /\ \A s \in Missing' : /\ Rank(s) >= Offset + PerPage
                                               /\ Offset + PerPage < MaxIds
      BY <1>1, <1>2, <2>3 DEF BetweenPages, Rank
    <3>1. Len(result) <= Offset + PerPage
      <4>1. Len(result) <= pos - 1
        BY <1>1 DEF ListInv, InGoodPage
      <4>2. pos <= PageEnd + 1 /\ PageEnd <= Offset + PerPage
        BY <1>0, <1>1, PageEndIs, OffsetTyped DEF InPage
      <4> QED
        BY <1>0, <4>1, <4>2, PageEndIs, OffsetTyped, SessionListAssumption DEF ListTypeOK
    <3> QED
      BY <1>2, <3>1, NextPage
  <2>5. Covered'
    BY <2>1, <2>2 DEF Covered, PagesCover
  <2> QED
    BY <1>5, <1>6, <2>4, <2>5 DEF ListInv
<1> QED
  BY <1>3, <1>7, <1>8, <1>9

LEMMA ListInvInit == ListInit => ListInv
<1> SUFFICES ASSUME ListInit PROVE ListInv
  OBVIOUS
<1>1. <<>> \in Seq(Sessions) /\ [st |-> "off", page |-> 1] \in
          [st : {"off", "on", "done", "broken"}, page : Nat \ {0}]
  OBVIOUS
<1>2. ListTypeOK
  BY <1>1 DEF ListInit, ListTypeOK, None
<1>3. CardInv
  BY DEF ListInit, CardInv, Once, OnCard, ToSet, None
<1>4. ThereInv /\ BetweenPages /\ InPage /\ InGoodPage
      /\ Covered
  BY DEF ListInit, ThereInv, BetweenPages, InPage, InGoodPage, Covered, PagesCover
<1> QED
  BY <1>2, <1>3, <1>4 DEF ListInv

LEMMA ListInvStep == ListInv /\ [ListNext]_listVars => ListInv'
<1> SUFFICES ASSUME ListInv, [ListNext]_listVars PROVE ListInv'
  OBVIOUS
<1>1. CASE UNCHANGED listVars
  BY <1>1 DEF listVars, cardVars, atVars, walkVars, ListInv, ListTypeOK, CardInv, OnCard,
              ThereInv, BetweenPages, InPage, InGoodPage, Covered, PagesCover, Missing,
              Rank, Offset, PageEnd
<1>2. CASE ListNext
  BY <1>2, ListRecord, ListDelete, ListFirstFile, ListEndRecording, ListStartWalk, ListList,
     ListListItem, ListListEnd DEF ListNext
<1> QED
  BY <1>1, <1>2

\* A client that walks through all pages of AT+LIST (list_all_sessions) gets
\* every session that was there from the beginning, but for those cut off a full
\* response, however many are recorded meanwhile, if none is deleted and the list
\* is never too long: for cards, pages and responses of every size, if a page is
\* of two sessions or more.
THEOREM PagesAlwaysCover ==
  ASSUME PageFits
  PROVE  ListSpec => []PagesCover
<1>1. ListInv /\ [ListNext]_listVars => ListInv'
  BY ListInvStep
<1>2. ListInv => PagesCover
  BY DEF ListInv, Covered
<1> QED
  BY ListInvInit, <1>1, <1>2, PTL DEF ListSpec

\* The variables of the list and of the walk keep their types.
THEOREM ListTypeCorrect == ListSpec => []ListTypeOK
<1>1. ListInv /\ [ListNext]_listVars => ListInv'
  BY ListInvStep
<1>2. ListInv => ListTypeOK
  BY DEF ListInv
<1> QED
  BY ListInvInit, <1>1, <1>2, PTL DEF ListSpec
=============================================================================
