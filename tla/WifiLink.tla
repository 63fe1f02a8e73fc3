------------------------------ MODULE WifiLink -------------------------------
(***************************************************************************)
(* The WiFi link: the access point that the main loop switches on and off  *)
(* (wifi.c, from the dispatcher of clip_event.c), the thread of the UDP    *)
(* server it starts and stops (wifi_udp.c), the results and the stations   *)
(* that the network management thread reports, and the timer that turns an *)
(* unused access point off.  The driver below is external.                 *)
(*                                                                         *)
(* A step of the main loop goes from one blocking call to the next.        *)
(***************************************************************************)
EXTENDS Integers, Sequences, FiniteSets

CONSTANTS
    Stations,       \* the stations that may join
    Retries,        \* WIFI_AP_ENABLE_RETRIES
    QueueSize,      \* EVENT_QUEUE_SIZE
    MaxEvents,      \* bound of the model: network events on their way
    WifiFaults      \* the failures a run allows

\* The first seven are failures of the driver and the sockets. The last two are of
\* time: an answer after the wait for it ("late"), a server thread that is not done
\* within its two seconds ("slow").
WifiFaultNames ==
    {"netif", "driver", "request", "reject", "mute", "ifdown", "socket", "late", "slow"}

ASSUME WifiLinkAssumption ==
    /\ Retries \in Nat /\ QueueSize \in Nat \ {0} /\ MaxEvents \in Nat \ {0}
    /\ WifiFaults \subseteq WifiFaultNames

\* A server thread is in one of two slots, so that a second one can be seen;
\* the code has one stack and one thread object for all of them.
Servers == 1..2
NoSock == 0

VARIABLES
    g_state,        \* the device state, as far as WiFi is concerned
    queue,          \* clip_ev_msgq; "AUTO_OFF" is the timer's WIFI_OFF
    pc,             \* where the main loop is in wifi_on or wifi_off
    attempt,        \* of wifi_enable_ap
    ap_running, sta_connected, wifi_ready,
    ap_enabled_sem, ap_disabled_sem, wifi_ready_sem,
    timer,          \* wifi_timeout_work: armed or not
    driver,         \* the interface: down, starting, up
    requests,       \* accepted by the driver, not answered yet
    air,            \* the access point is on the air
    stations,       \* associated with it
    events,         \* results and stations not handled yet, in order
    server,         \* each server thread
    server_running, server_sock, udp_thread_done_sem,
    socks,          \* the sockets that are open, by the thread that opened them
    dropped,        \* history: the timer's WIFI_OFF found the queue full
    crowded,        \* history: two stations at a time
    leftup          \* history: the last net_if_down failed

mainVars   == <<g_state, pc, attempt>>
flagVars   == <<ap_running, sta_connected, wifi_ready>>
semVars    == <<ap_enabled_sem, ap_disabled_sem, wifi_ready_sem>>
driverVars == <<driver, requests, air, stations>>
udpVars    == <<server, server_running, server_sock, udp_thread_done_sem, socks>>
histVars   == <<dropped, crowded, leftup>>
wifiVars == <<mainVars, queue, flagVars, semVars, timer, driverVars, events, udpVars, histVars>>

WifiInit ==
    /\ g_state = "IDLE" /\ queue = <<>> /\ pc = "rest" /\ attempt = 0
    /\ ap_running = FALSE /\ sta_connected = FALSE /\ wifi_ready = FALSE
    /\ ap_enabled_sem = 0 /\ ap_disabled_sem = 0 /\ wifi_ready_sem = 0
    /\ timer = "off"
    /\ driver = "down" /\ requests = <<>> /\ air = FALSE /\ stations = {} /\ events = <<>>
    /\ server = [t \in Servers |-> "none"]
    /\ server_running = FALSE /\ server_sock = NoSock
    /\ udp_thread_done_sem = 0 /\ socks = {}
    /\ dropped = FALSE /\ crowded = FALSE /\ leftup = FALSE

----------------------------------------------------------------------------
(* The event queue and the part of transition_table that WiFi meets. *)

\* A client, by AT command or button.
Post(e) ==
    /\ Len(queue) < QueueSize
    /\ queue' = Append(queue, e)
    /\ UNCHANGED <<mainVars, flagVars, semVars, timer, driverVars, events, udpVars, histVars>>

Take(e) ==
    /\ pc = "rest" /\ queue # <<>> /\ Head(queue) = e
    /\ queue' = Tail(queue)

\* START, STOP, PAUSE or RESUME: what their rows make of the state, or nothing.
RecordEvent ==
    /\ Take("RECORDER")
    /\ \/ g_state = "IDLE" /\ g_state' = "RECORDING"
       \/ g_state = "RECORDING" /\ g_state' \in {"IDLE", "PAUSED"}
       \/ g_state = "PAUSED" /\ g_state' \in {"IDLE", "RECORDING"}
       \/ UNCHANGED g_state
    /\ UNCHANGED <<pc, attempt, flagVars, semVars, timer, driverVars, events, udpVars, histVars>>

\* The table also has WIFI_ON in states that no row leads to: TRANSMITTING, ERROR, OTA.
TakesWifi(e) ==
    \/ e = "WIFI_ON" /\ g_state \in {"IDLE", "PAUSED", "WIFI_SYNC"}
    \/ e \in {"WIFI_OFF", "AUTO_OFF"} /\ g_state = "WIFI_SYNC"

RefuseWifi ==
    /\ \E e \in {"WIFI_ON", "WIFI_OFF", "AUTO_OFF"} : Take(e) /\ ~TakesWifi(e)
    /\ UNCHANGED <<mainVars, flagVars, semVars, timer, driverVars, events, udpVars, histVars>>

\* The dispatcher moves the state when the handler returns CLIP_EVENT_OK.
Ends(state) == pc' = "rest" /\ g_state' = state

----------------------------------------------------------------------------
(* wifi_on *)

wifi_on ==
    /\ Take("WIFI_ON") /\ TakesWifi("WIFI_ON")
    /\ IF ap_running
       THEN Ends("WIFI_SYNC") /\ UNCHANGED driver
       ELSE IF driver # "down"
       THEN pc' = "request" /\ UNCHANGED <<g_state, driver>>
       ELSE \/ /\ driver' = "starting" /\ UNCHANGED g_state
               /\ pc' = IF wifi_ready THEN "request" ELSE "ready"
            \/ "netif" \in WifiFaults /\ Ends(g_state) /\ UNCHANGED driver
    /\ attempt' = 0
    /\ UNCHANGED <<flagVars, semVars, timer, requests, air, stations, events, udpVars, histVars>>

TakeReady ==
    /\ pc = "ready" /\ wifi_ready_sem = 1
    /\ wifi_ready_sem' = 0 /\ pc' = "request"
    /\ UNCHANGED <<g_state, queue, attempt, flagVars, ap_enabled_sem, ap_disabled_sem, timer,
                   driverVars, events, udpVars, histVars>>

ReadyTimeout ==
    /\ pc = "ready" /\ wifi_ready_sem = 0 /\ "driver" \in WifiFaults
    /\ pc' = "no_driver"
    /\ UNCHANGED <<g_state, queue, attempt, flagVars, semVars, timer, driverVars, events,
                   udpVars, histVars>>

NextAttempt ==
    /\ pc' = IF attempt = Retries THEN "no_ap" ELSE "request"
    /\ attempt' = IF attempt = Retries THEN attempt ELSE attempt + 1

\* One attempt of wifi_enable_ap: an old token is thrown away first.
RequestEnable ==
    /\ pc = "request"
    /\ ap_enabled_sem' = 0
    /\ \/ driver = "up" /\ requests' = Append(requests, "enable") /\ pc' = "enabling"
             /\ UNCHANGED attempt
       \/ (driver # "up" \/ "request" \in WifiFaults) /\ NextAttempt /\ UNCHANGED requests
    /\ UNCHANGED <<g_state, queue, flagVars, ap_disabled_sem, wifi_ready_sem, timer, driver,
                   air, stations, events, udpVars, histVars>>

\* A rejection gives the semaphore too: the flag tells.
EnableResult ==
    /\ pc = "enabling" /\ ap_enabled_sem = 1
    /\ ap_enabled_sem' = 0
    /\ IF ap_running THEN pc' = "serve" /\ UNCHANGED attempt ELSE NextAttempt
    /\ UNCHANGED <<g_state, queue, flagVars, ap_disabled_sem, wifi_ready_sem, timer,
                   driverVars, events, udpVars, histVars>>

\* A result is still to come: the request or the driver's answer to it is on its
\* way. But for "late", the driver answers before the wait is over, or never.
Coming(req, evs) ==
    /\ "late" \notin WifiFaults
    /\ \/ \E i \in DOMAIN requests : requests[i] = req
       \/ \E i \in DOMAIN events : events[i] \in evs

EnableTimeout ==
    /\ pc = "enabling" /\ ap_enabled_sem = 0
    /\ ~Coming("enable", {"enabled", "rejected"})
    /\ NextAttempt
    /\ UNCHANGED <<g_state, queue, flagVars, semVars, timer, driverVars, events, udpVars,
                   histVars>>

Departures == [i \in 1..Cardinality(stations) |-> "left"]

\* net_if_down: the driver forgets what it was asked and sends its stations away, or
\* nothing happens. wifi.c does not look at the result, or logs it.
net_if_down ==
    \/ /\ driver' = "down" /\ requests' = <<>> /\ air' = FALSE /\ stations' = {}
       /\ events' = events \o Departures /\ leftup' = FALSE
    \/ /\ "ifdown" \in WifiFaults /\ leftup' = TRUE
       /\ UNCHANGED <<driverVars, events>>

\* Mutant: the interface is left up.
wifi_on_Fails_StaysUp ==
    /\ pc \in {"no_driver", "no_ap"}
    /\ ap_running' = (ap_running /\ pc = "no_driver")
    /\ Ends(g_state)
    /\ UNCHANGED <<queue, attempt, sta_connected, wifi_ready, semVars, timer, driverVars, events,
                   udpVars, histVars>>

\* wifi_on without a driver, or without an access point.
wifi_on_Fails ==
    /\ pc \in {"no_driver", "no_ap"}
    /\ net_if_down
    /\ ap_running' = (ap_running /\ pc = "no_driver")
    /\ Ends(g_state)
    /\ UNCHANGED <<queue, attempt, sta_connected, wifi_ready, semVars, timer, udpVars, dropped,
                   crowded>>

\* Every thread starts on udp_stack.
wifi_udp_start ==
    /\ pc = "serve"
    /\ IF server_running
       THEN UNCHANGED <<server, server_running>>
       ELSE /\ server_running' = TRUE
            /\ \E t \in Servers :
                  /\ server[t] = "none" /\ \A u \in Servers : u < t => server[u] # "none"
                  /\ server' = [server EXCEPT ![t] = "start"]
    /\ pc' = "arm"
    /\ UNCHANGED <<g_state, queue, attempt, flagVars, semVars, timer, driverVars, events,
                   server_sock, udp_thread_done_sem, socks, histVars>>

wifi_on_Succeeds ==
    /\ pc = "arm"
    /\ timer' = "armed"
    /\ Ends("WIFI_SYNC")
    /\ UNCHANGED <<queue, attempt, flagVars, semVars, driverVars, events, udpVars, histVars>>

----------------------------------------------------------------------------
(* wifi_off *)

wifi_off(e) ==
    /\ Take(e) /\ TakesWifi(e)
    /\ timer' = "off"
    /\ IF ap_running THEN pc' = "stop" /\ g_state' = g_state ELSE Ends("IDLE")
    /\ UNCHANGED <<attempt, flagVars, semVars, driverVars, events, udpVars, histVars>>

\* The socket is closed under the thread, which sees the flag within a second.
wifi_udp_stop ==
    /\ pc = "stop"
    /\ IF server_running
       THEN /\ server_running' = FALSE
            /\ socks' = socks \ {server_sock} /\ server_sock' = NoSock
            /\ pc' = "join"
       ELSE pc' = "disable" /\ UNCHANGED <<server_running, socks, server_sock>>
    /\ UNCHANGED <<g_state, queue, attempt, flagVars, semVars, timer, driverVars, events, server,
                   udp_thread_done_sem, histVars>>

Alive == { t \in Servers : server[t] # "none" }

\* Mutant: the wait is gone.
JoinServer_NoWait ==
    /\ pc = "join"
    /\ udp_thread_done_sem' = 0 /\ pc' = "disable"
    /\ UNCHANGED <<g_state, queue, attempt, flagVars, semVars, timer, driverVars, events, server,
                   server_running, server_sock, socks, histVars>>

\* A thread is done in time, unless it is slow; one that could not open its socket
\* ends without the semaphore, and the wait is in vain.
JoinServer ==
    /\ pc = "join"
    /\ udp_thread_done_sem = 1 \/ Alive = {} \/ "slow" \in WifiFaults
    /\ udp_thread_done_sem' = 0 /\ pc' = "disable"
    /\ UNCHANGED <<g_state, queue, attempt, flagVars, semVars, timer, driverVars, events, server,
                   server_running, server_sock, socks, histVars>>

\* Whether the request was accepted is not looked at.
RequestDisable ==
    /\ pc = "disable"
    /\ ap_disabled_sem' = 0
    /\ \/ driver = "up" /\ requests' = Append(requests, "disable")
       \/ (driver # "up" \/ "request" \in WifiFaults) /\ UNCHANGED requests
    /\ pc' = "disabling"
    /\ UNCHANGED <<g_state, queue, attempt, flagVars, ap_enabled_sem, wifi_ready_sem, timer,
                   driver, air, stations, events, udpVars, histVars>>

\* A thread that has given its semaphore has only to return, and does so while the
\* main loop waits for the driver.
wifi_off_Ends ==
    /\ pc = "disabling"
    /\ (\A t \in Servers : server[t] # "exiting") \/ "slow" \in WifiFaults
    /\ ap_disabled_sem = 1 \/ ~Coming("disable", {"disabled"})
    /\ ap_disabled_sem' = 0 /\ wifi_ready_sem' = 0
    /\ ap_running' = FALSE /\ sta_connected' = FALSE /\ wifi_ready' = FALSE
    /\ net_if_down
    /\ Ends("IDLE")
    /\ UNCHANGED <<queue, attempt, ap_enabled_sem, timer, udpVars, dropped, crowded>>

----------------------------------------------------------------------------
(* The timer and the network management thread. *)

wifi_timeout_handler ==
    /\ timer = "armed"
    /\ timer' = "off"
    /\ IF ap_running /\ ~sta_connected
       THEN IF Len(queue) < QueueSize
            THEN queue' = Append(queue, "AUTO_OFF") /\ UNCHANGED dropped
            ELSE dropped' = TRUE /\ UNCHANGED queue
       ELSE UNCHANGED <<queue, dropped>>
    /\ UNCHANGED <<mainVars, flagVars, semVars, driverVars, events, udpVars, crowded, leftup>>

HandleResult ==
    /\ events # <<>> /\ Head(events) \in {"enabled", "rejected", "disabled"}
    /\ events' = Tail(events)
    /\ \/ /\ Head(events) = "enabled" /\ ap_running' = TRUE /\ ap_enabled_sem' = 1
          /\ UNCHANGED <<sta_connected, ap_disabled_sem>>
       \/ /\ Head(events) = "rejected" /\ ap_enabled_sem' = 1
          /\ UNCHANGED <<ap_running, sta_connected, ap_disabled_sem>>
       \/ /\ Head(events) = "disabled" /\ ap_disabled_sem' = 1
          /\ ap_running' = FALSE /\ sta_connected' = FALSE
          /\ UNCHANGED ap_enabled_sem
    /\ UNCHANGED <<mainVars, queue, wifi_ready, wifi_ready_sem, timer, driverVars, udpVars,
                   histVars>>

\* Mutant: a station that joins is not noted.
HandleStation_NotNoted ==
    /\ events # <<>> /\ Head(events) \in {"joined", "left"}
    /\ events' = Tail(events)
    /\ sta_connected' = FALSE
    /\ timer' = IF Head(events) = "joined" THEN "off" ELSE "armed"
    /\ UNCHANGED <<mainVars, queue, ap_running, wifi_ready, semVars, driverVars, udpVars,
                   histVars>>

\* Mutant: the timer is not started again.
HandleStation_NoTimer ==
    /\ events # <<>> /\ Head(events) \in {"joined", "left"}
    /\ events' = Tail(events)
    /\ sta_connected' = (Head(events) = "joined")
    /\ timer' = "off"
    /\ UNCHANGED <<mainVars, queue, ap_running, wifi_ready, semVars, driverVars, udpVars,
                   histVars>>

\* One flag for all stations.
HandleStation ==
    /\ events # <<>> /\ Head(events) \in {"joined", "left"}
    /\ events' = Tail(events)
    /\ sta_connected' = (Head(events) = "joined")
    /\ timer' = IF Head(events) = "joined" THEN "off" ELSE "armed"
    /\ UNCHANGED <<mainVars, queue, ap_running, wifi_ready, semVars, driverVars, udpVars,
                   histVars>>

wifi_ready_callback ==
    /\ \/ /\ driver = "starting" /\ driver' = "up"
          /\ wifi_ready' = TRUE /\ wifi_ready_sem' = 1
       \/ /\ driver = "down" /\ wifi_ready /\ wifi_ready' = FALSE
          /\ UNCHANGED <<driver, wifi_ready_sem>>
    /\ UNCHANGED <<mainVars, queue, ap_running, sta_connected, ap_enabled_sem, ap_disabled_sem,
                   timer, requests, air, stations, events, udpVars, histVars>>

----------------------------------------------------------------------------
(* The driver and the stations (external). *)

DriverEnables ==
    /\ requests # <<>> /\ Head(requests) = "enable"
    /\ requests' = Tail(requests)
    /\ \/ air' = TRUE /\ events' = Append(events, "enabled")
       \/ "reject" \in WifiFaults /\ air' = air /\ events' = Append(events, "rejected")
       \/ "mute" \in WifiFaults /\ air' \in {air, TRUE} /\ events' = events
    /\ UNCHANGED <<mainVars, queue, flagVars, semVars, timer, driver, stations, udpVars,
                   histVars>>

\* The stations are sent away first.
DriverDisables ==
    /\ requests # <<>> /\ Head(requests) = "disable"
    /\ requests' = Tail(requests)
    /\ air' = FALSE /\ stations' = {}
    /\ \E result \in {<<"disabled">>} \cup (IF "mute" \in WifiFaults THEN {<<>>} ELSE {}) :
          events' = events \o Departures \o result
    /\ UNCHANGED <<mainVars, queue, flagVars, semVars, timer, driver, udpVars, histVars>>

StationJoins(s) ==
    /\ air /\ s \notin stations /\ Len(events) < MaxEvents
    /\ stations' = stations \cup {s} /\ events' = Append(events, "joined")
    /\ crowded' = (crowded \/ stations # {})
    /\ UNCHANGED <<mainVars, queue, flagVars, semVars, timer, driver, requests, air, udpVars,
                   dropped, leftup>>

StationLeaves(s) ==
    /\ s \in stations /\ Len(events) < MaxEvents
    /\ stations' = stations \ {s} /\ events' = Append(events, "left")
    /\ UNCHANGED <<mainVars, queue, flagVars, semVars, timer, driver, requests, air, udpVars,
                   histVars>>

----------------------------------------------------------------------------
(* The thread of the UDP server. *)

serverRest == <<mainVars, queue, flagVars, semVars, timer, driverVars, events, histVars>>

\* socket and bind: on failure the thread ends, without the semaphore.
OpenSocket(t) ==
    /\ server[t] = "start"
    /\ \/ /\ socks' = socks \cup {t} /\ server_sock' = t
          /\ server' = [server EXCEPT ![t] = "bound"]
          /\ UNCHANGED server_running
       \/ /\ "socket" \in WifiFaults
          /\ server_running' = FALSE /\ server' = [server EXCEPT ![t] = "exiting"]
          /\ UNCHANGED <<socks, server_sock>>
    /\ UNCHANGED <<udp_thread_done_sem, serverRest>>

BindFails(t) ==
    /\ server[t] = "bound" /\ "socket" \in WifiFaults
    /\ socks' = socks \ {server_sock} /\ server_sock' = NoSock
    /\ server_running' = FALSE /\ server' = [server EXCEPT ![t] = "exiting"]
    /\ UNCHANGED <<udp_thread_done_sem, serverRest>>

Serve(t) ==
    /\ server[t] = "bound"
    /\ server' = [server EXCEPT ![t] = "serving"]
    /\ UNCHANGED <<server_running, server_sock, udp_thread_done_sem, socks, serverRest>>

\* The loop has seen the flag: close what is left to close.
StopServing(t) ==
    /\ server[t] = "serving" /\ ~server_running
    /\ socks' = socks \ {server_sock} /\ server_sock' = NoSock
    /\ server' = [server EXCEPT ![t] = "ending"]
    /\ UNCHANGED <<server_running, udp_thread_done_sem, serverRest>>

GiveDone(t) ==
    /\ server[t] = "ending"
    /\ server_running' = FALSE /\ udp_thread_done_sem' = 1
    /\ server' = [server EXCEPT ![t] = "exiting"]
    /\ UNCHANGED <<server_sock, socks, serverRest>>

\* The thread returns: its stack is free.
ServerEnds(t) ==
    /\ server[t] = "exiting"
    /\ server' = [server EXCEPT ![t] = "none"]
    /\ UNCHANGED <<server_running, udp_thread_done_sem, server_sock, socks, serverRest>>

----------------------------------------------------------------------------
Wifi ==
    \/ RecordEvent \/ RefuseWifi
    \/ wifi_on \/ TakeReady \/ ReadyTimeout \/ RequestEnable \/ EnableResult \/ EnableTimeout
    \/ wifi_on_Fails \/ wifi_udp_start \/ wifi_on_Succeeds
    \/ wifi_off("WIFI_OFF") \/ wifi_off("AUTO_OFF")
    \/ wifi_udp_stop \/ JoinServer \/ RequestDisable \/ wifi_off_Ends

Network == HandleResult \/ HandleStation \/ wifi_ready_callback

Driver == DriverEnables \/ DriverDisables

Server(t) ==
    OpenSocket(t) \/ BindFails(t) \/ Serve(t) \/ StopServing(t) \/ GiveDone(t) \/ ServerEnds(t)

WifiNext ==
    \/ \E e \in {"WIFI_ON", "WIFI_OFF", "RECORDER"} : Post(e)
    \/ Wifi \/ wifi_timeout_handler \/ Network \/ Driver
    \/ \E s \in Stations : StationJoins(s) \/ StationLeaves(s)
    \/ \E t \in Servers : Server(t)

WifiSpec == WifiInit /\ [][WifiNext]_wifiVars

\* The scheduler runs every thread that is ready, the driver answers, and the
\* timer fires unless it is cancelled. Clients and stations owe nothing.
WifiFairness ==
    /\ WF_wifiVars(Wifi) /\ WF_wifiVars(wifi_timeout_handler)
    /\ WF_wifiVars(Network) /\ WF_wifiVars(Driver)
    /\ \A t \in Servers : WF_wifiVars(Server(t))

WifiFairSpec == WifiSpec /\ WifiFairness

----------------------------------------------------------------------------
(* Properties. *)

\* Every variable keeps to its type.
WifiTypeOK ==
    /\ g_state \in {"IDLE", "RECORDING", "PAUSED", "WIFI_SYNC"}
    /\ queue \in Seq({"WIFI_ON", "WIFI_OFF", "RECORDER", "AUTO_OFF"})
    /\ Len(queue) <= QueueSize
    /\ pc \in {"rest", "ready", "request", "enabling", "no_driver", "no_ap", "serve", "arm",
               "stop", "join", "disable", "disabling"}
    /\ attempt \in 0..Retries
    /\ {ap_running, sta_connected, wifi_ready, air, server_running} \subseteq BOOLEAN
    /\ {ap_enabled_sem, ap_disabled_sem, wifi_ready_sem, udp_thread_done_sem} \subseteq 0..1
    /\ timer \in {"off", "armed"} /\ driver \in {"down", "starting", "up"}
    /\ requests \in Seq({"enable", "disable"})
    /\ stations \subseteq Stations
    /\ events \in Seq({"enabled", "rejected", "disabled", "joined", "left"})
    /\ server \in [Servers -> {"none", "start", "bound", "serving", "ending", "exiting"}]
    /\ server_sock \in Servers \cup {NoSock} /\ socks \subseteq Servers
    /\ {dropped, crowded, leftup} \subseteq BOOLEAN

\* Two server threads never run on the one stack, a thread that could not open
\* its socket and one that is stopped before it first runs included. Premise: a
\* thread that is told to stop is done within two seconds (no "slow").
OneServer == Cardinality(Alive) <= 1

\* With the dispatcher at rest, the state it shows and the link agree. WiFi shown is
\* an access point that runs. No WiFi shown is none, whatever step of wifi_on failed
\* before: no flag, no server thread and no socket is left, nothing is on the air and
\* the interface is down, unless net_if_down itself failed, which the code does not
\* look at. Premise: no result of the driver comes after the wait for it (no "late").
OffIsOff ==
    pc = "rest" =>
        IF g_state = "WIFI_SYNC"
        THEN ap_running /\ driver = "up"
        ELSE /\ ~ap_running /\ Alive = {} /\ socks = {} /\ server_sock = NoSock
             /\ leftup \/ (driver = "down" /\ ~air)

\* The timer does not ask for WiFi to go off while there is a station that has
\* been reported, as long as they come one at a time (sta_connected is one flag) and
\* the last access point went down with its stations.
TimerFires == timer = "armed" /\ timer' = "off" /\ Len(queue') > Len(queue)
Unreported == \E i \in DOMAIN events : events[i] = "joined"
TimerSparesStation ==
    [][TimerFires => stations = {} \/ Unreported \/ crowded \/ leftup]_wifiVars

\* An access point without a station goes off in the end, or a station comes,
\* unless the timer's only event was lost to a full queue (FR-3.3.6a of
\* docs/requirements.md makes no exception).
UnusedApGoesOff ==
    (ap_running /\ stations = {}) ~> (~ap_running \/ stations # {} \/ dropped)

=============================================================================
