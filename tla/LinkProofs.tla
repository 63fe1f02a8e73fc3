------------------------------ MODULE LinkProofs ------------------------------
(***************************************************************************)
(* The safety properties of the two radio links: of BleLink, for any peers *)
(* and any faults, and of WifiLink, for any stations, retries, sizes and   *)
(* faults.                                                                 *)
(***************************************************************************)
EXTENDS BleLink, WifiLink, FiniteSetTheorems, TLAPS

----------------------------------------------------------------------------
(* BleLink. *)

\* The flags, one by one, as the provers want them.
FlagsOK ==
    /\ secure \in BOOLEAN /\ leaving \in BOOLEAN /\ is_fast_adv \in BOOLEAN
    /\ security_request_work \in BOOLEAN /\ adv_work \in BOOLEAN
    /\ ota_in_progress \in BOOLEAN /\ chunk \in BOOLEAN
    /\ raced \in BOOLEAN /\ cleared \in BOOLEAN /\ late \in BOOLEAN
    /\ security_timeout \in {Off, Armed} /\ inactivity \in {Off, Armed}
    /\ adv_timeout \in {Off, Armed}

BondOK ==
    /\ conn \in ToPeer /\ bond \in ToPeer /\ knows \subseteq Peers /\ prev_bond_count \in 0..1
    /\ adv \in {Off, "fast", "slow"}
    /\ wq \in {"free", "asked"} /\ main \in {"rest", "stop", "start"}
    /\ conn = None => ~secure /\ ~leaving

\* A link under which a peer can pair anew was made without a bond, or the bond
\* was cleared under it: every other way to lose the bond ends the link, too.
PairInv == Linked /\ ~leaving /\ bond = None /\ prev_bond_count = 1 => cleared

\* The password has one owner, or none yet.
OwnerInv == knows = {} \/ (\E p \in Peers : knows = {p}) \/ cleared

BleInv ==
    /\ FlagsOK /\ BondOK
    /\ PairInv /\ OwnerInv
    /\ SecureLinkKept /\ OtaEndsWithLink

LEMMA BleInvInit == Init => BleInv
<1> SUFFICES ASSUME Init PROVE BleInv
  OBVIOUS
<1>1. FlagsOK
  BY DEF Init, FlagsOK, Off, Armed
<1>2. BondOK
  BY DEF Init, BondOK, ToPeer, Off
<1>3. PairInv /\ OwnerInv
  BY DEF Init, PairInv, OwnerInv, Linked
<1>4. SecureLinkKept /\ OtaEndsWithLink
  BY DEF Init, SecureLinkKept, OtaEndsWithLink, Off, Armed
<1> QED BY <1>1, <1>2, <1>3, <1>4 DEF BleInv

\* The parts of the invariant and the groups of variables are visible to every
\* step below.
LEMMA BleInvStep == BleInv /\ [Next]_vars => BleInv'
<1> SUFFICES ASSUME BleInv, [Next]_vars PROVE BleInv'
  OBVIOUS
<1> USE BleLinkAssumption
    DEF BleInv, FlagsOK, BondOK, PairInv, OwnerInv, SecureLinkKept, OtaEndsWithLink,
        ToPeer, Linked, Off, Armed, linkVars, bondVars, advVars, timerVars, otaVars
<1>1. ASSUME NEW p \in Peers, connected(p) PROVE BleInv'
  <2>1. FlagsOK'
    BY <1>1 DEF connected, BondCount
  <2>2. BondOK'
    BY <1>1 DEF connected, BondCount
  <2>3. PairInv'
    BY <1>1 DEF connected, BondCount
  <2>4. OwnerInv'
    BY <1>1 DEF connected, BondCount
  <2>5. SecureLinkKept' /\ OtaEndsWithLink'
    BY <1>1 DEF connected, BondCount
  <2> QED BY <2>1, <2>2, <2>3, <2>4, <2>5
<1>2. CASE disconnected
  <2>1. FlagsOK'
    BY <1>2 DEF disconnected
  <2>2. BondOK'
    BY <1>2 DEF disconnected
  <2>3. PairInv'
    BY <1>2 DEF disconnected
  <2>4. OwnerInv'
    BY <1>2 DEF disconnected
  <2>5. SecureLinkKept' /\ OtaEndsWithLink'
    BY <1>2 DEF disconnected
  <2> QED BY <2>1, <2>2, <2>3, <2>4, <2>5
<1>3. CASE security_request_handler
  <2>1. FlagsOK'
    <3>1. leaving' \in BOOLEAN /\ security_request_work' \in BOOLEAN
      BY <1>3 DEF security_request_handler, bt_conn_disconnect
    <3> QED BY <1>3, <3>1 DEF security_request_handler
  <2>2. BondOK'
    BY <1>3 DEF security_request_handler, bt_conn_disconnect
  <2>3. PairInv'
    <3>1. (leaving' = leaving /\ bond' = bond) \/ leaving' = Linked
      BY <1>3 DEF security_request_handler, bt_conn_disconnect
    <3>2. conn' = conn /\ prev_bond_count' = prev_bond_count /\ cleared' = cleared
      BY <1>3 DEF security_request_handler
    <3> QED BY <3>1, <3>2
  <2>4. OwnerInv'
    BY <1>3 DEF security_request_handler, bt_conn_disconnect
  <2>5. SecureLinkKept' /\ OtaEndsWithLink'
    BY <1>3 DEF security_request_handler, bt_conn_disconnect
  <2> QED BY <2>1, <2>2, <2>3, <2>4, <2>5
<1>4. CASE StartSecurityTimeout
  <2>1. FlagsOK'
    BY <1>4 DEF StartSecurityTimeout
  <2>2. BondOK'
    BY <1>4 DEF StartSecurityTimeout
  <2>3. PairInv'
    BY <1>4 DEF StartSecurityTimeout
  <2>4. OwnerInv'
    BY <1>4 DEF StartSecurityTimeout
  <2>5. SecureLinkKept' /\ OtaEndsWithLink'
    BY <1>4 DEF StartSecurityTimeout
  <2> QED BY <2>1, <2>2, <2>3, <2>4, <2>5
<1>5. CASE adv_work_handler
  <2>1. FlagsOK'
    BY <1>5 DEF adv_work_handler, bt_le_adv_start
  <2>2. BondOK'
    BY <1>5 DEF adv_work_handler, bt_le_adv_start
  <2>3. PairInv'
    BY <1>5 DEF adv_work_handler, bt_le_adv_start
  <2>4. OwnerInv'
    BY <1>5 DEF adv_work_handler, bt_le_adv_start
  <2>5. SecureLinkKept' /\ OtaEndsWithLink'
    BY <1>5 DEF adv_work_handler, bt_le_adv_start
  <2> QED BY <2>1, <2>2, <2>3, <2>4, <2>5
<1>6. CASE security_timeout_handler
  BY <1>6 DEF security_timeout_handler, bt_conn_disconnect
<1>7. CASE inactivity_timeout_handler
  BY <1>7 DEF inactivity_timeout_handler, bt_conn_disconnect
<1>8. CASE adv_timeout_handler
  <2>1. FlagsOK'
    <3>1. is_fast_adv' \in BOOLEAN
      BY <1>8 DEF adv_timeout_handler
    <3>2. adv_timeout' \in {Off, Armed}
      BY <1>8 DEF adv_timeout_handler
    <3> QED BY <1>8, <3>1, <3>2 DEF adv_timeout_handler
  <2>2. BondOK'
    BY <1>8 DEF adv_timeout_handler
  <2>3. PairInv'
    BY <1>8 DEF adv_timeout_handler
  <2>4. OwnerInv'
    BY <1>8 DEF adv_timeout_handler
  <2>5. SecureLinkKept' /\ OtaEndsWithLink'
    BY <1>8 DEF adv_timeout_handler
  <2> QED BY <2>1, <2>2, <2>3, <2>4, <2>5
<1>9. CASE ble_activity_refresh
  BY <1>9 DEF ble_activity_refresh
<1>10. CASE security_changed_Ok
  BY <1>10 DEF security_changed_Ok
<1>11. CASE security_changed_Fails
  <2>1. FlagsOK'
    BY <1>11 DEF security_changed_Fails, bt_conn_disconnect
  <2>2. BondOK'
    BY <1>11 DEF security_changed_Fails, bt_conn_disconnect
  <2>3. PairInv'
    BY <1>11 DEF security_changed_Fails, bt_conn_disconnect
  <2>4. OwnerInv'
    BY <1>11 DEF security_changed_Fails, bt_conn_disconnect
  <2>5. SecureLinkKept' /\ OtaEndsWithLink'
    BY <1>11 DEF security_changed_Fails, bt_conn_disconnect
  <2> QED BY <2>1, <2>2, <2>3, <2>4, <2>5
<1>12. CASE pairing_complete
  <2>1. conn \in Peers
    BY <1>12 DEF pairing_complete
  <2>2. cleared' = cleared /\ (cleared \/ knows' = {conn})
    BY <1>12 DEF pairing_complete
  <2>3. OwnerInv'
    BY <2>1, <2>2
  <2>4. knows' \subseteq Peers
    BY <1>12, <2>1 DEF pairing_complete
  <2>5. FlagsOK' /\ BondOK' /\ PairInv' /\ SecureLinkKept' /\ OtaEndsWithLink'
    BY <1>12, <2>1, <2>4 DEF pairing_complete
  <2> QED BY <2>3, <2>5
<1>13. CASE ble_clear_bonds
  <2>1. FlagsOK'
    BY <1>13 DEF ble_clear_bonds
  <2>2. BondOK'
    BY <1>13 DEF ble_clear_bonds
  <2>3. PairInv'
    BY <1>13 DEF ble_clear_bonds
  <2>4. OwnerInv'
    BY <1>13 DEF ble_clear_bonds
  <2>5. SecureLinkKept' /\ OtaEndsWithLink'
    BY <1>13 DEF ble_clear_bonds
  <2> QED BY <2>1, <2>2, <2>3, <2>4, <2>5
<1>14. CASE CheckRestart
  BY <1>14 DEF CheckRestart
<1>15. CASE StopAdv
  BY <1>15 DEF StopAdv
<1>16. CASE StartFast
  BY <1>16 DEF StartFast, bt_le_adv_start
<1>17. CASE ReceiveChunk
  BY <1>17 DEF ReceiveChunk, otaRest
<1>18. CASE DfuChunk
  <2>1. FlagsOK'
    BY <1>18 DEF DfuChunk, otaRest
  <2>2. BondOK'
    BY <1>18 DEF DfuChunk, otaRest
  <2>3. PairInv'
    BY <1>18 DEF DfuChunk, otaRest
  <2>4. OwnerInv'
    BY <1>18 DEF DfuChunk, otaRest
  <2>5. SecureLinkKept' /\ OtaEndsWithLink'
    BY <1>18 DEF DfuChunk, otaRest
  <2> QED BY <2>1, <2>2, <2>3, <2>4, <2>5
<1>19. CASE DfuEnds
  <2>1. FlagsOK'
    <3>1. UNCHANGED <<otaRest, chunk, late>> /\ ota_in_progress' \in BOOLEAN
      BY <1>19 DEF DfuEnds
    <3> QED BY <3>1 DEF otaRest
  <2>2. BondOK'
    BY <1>19 DEF DfuEnds, otaRest
  <2>3. PairInv'
    BY <1>19 DEF DfuEnds, otaRest
  <2>4. OwnerInv'
    BY <1>19 DEF DfuEnds, otaRest
  <2>5. SecureLinkKept' /\ OtaEndsWithLink'
    BY <1>19 DEF DfuEnds, otaRest
  <2> QED BY <2>1, <2>2, <2>3, <2>4, <2>5
<1>20. CASE UNCHANGED vars
  BY <1>20 DEF vars
<1> QED
  BY <1>1, <1>2, <1>3, <1>4, <1>5, <1>6, <1>7, <1>8, <1>9, <1>10, <1>11, <1>12, <1>13,
     <1>14, <1>15, <1>16, <1>17, <1>18, <1>19, <1>20 DEF Next, WorkQueue, Restart

LEMMA BleInvAlways == Spec => []BleInv
  BY BleInvInit, BleInvStep, PTL DEF Spec

\* The type invariant.
THEOREM BleTypeCorrect == Spec => []TypeOK
<1>1. BleInv => TypeOK
  BY DEF BleInv, FlagsOK, BondOK, TypeOK
<1> QED BY <1>1, BleInvAlways, PTL

\* The ten seconds a link has to be secured (ble.c, security_timeout_work) never
\* run against one that is, and never against the next one.
THEOREM SecureLinkAlwaysKept == Spec => []SecureLinkKept
<1>1. BleInv => SecureLinkKept
  BY DEF BleInv
<1> QED BY <1>1, BleInvAlways, PTL

\* The password of the access point is renewed before a second phone could know
\* it (auth_pairing_complete), however many phones pair, forget and come back.
THEOREM NewOwnerAlwaysNewPassword == Spec => []NewOwnerNewPassword
<1>1. BleInv => NewOwnerNewPassword
  <2> SUFFICES ASSUME BleInv PROVE NewOwnerNewPassword
    OBVIOUS
  <2>1. CASE knows = {}
    <3>1. Cardinality(knows) = 0
      BY <2>1, FS_EmptySet
    <3> QED BY <3>1 DEF NewOwnerNewPassword
  <2>2. CASE \E p \in Peers : knows = {p}
    <3>1. PICK p \in Peers : knows = {p}
      BY <2>2
    <3>2. Cardinality(knows) = 1
      BY <3>1, FS_Singleton
    <3> QED BY <3>2 DEF NewOwnerNewPassword
  <2>3. CASE cleared
    BY <2>3 DEF NewOwnerNewPassword
  <2> QED BY <2>1, <2>2, <2>3 DEF BleInv, OwnerInv
<1> QED BY <1>1, BleInvAlways, PTL

\* The flag that keeps the card powered during an update falls with its link.
THEOREM OtaAlwaysEndsWithLink == Spec => []OtaEndsWithLink
<1>1. BleInv => OtaEndsWithLink
  BY DEF BleInv
<1> QED BY <1>1, BleInvAlways, PTL

----------------------------------------------------------------------------
(* WifiLink. *)

NetworkEvents == {"enabled", "rejected", "disabled", "joined", "left"}
QueueEvents == {"WIFI_ON", "WIFI_OFF", "RECORDER", "AUTO_OFF"}
Answers == {"enabled", "rejected"}

SwitchingOn == {"ready", "request", "enabling", "no_driver", "no_ap", "serve", "arm"}
SwitchingOff == {"stop", "join", "disable", "disabling"}

\* The premise of what follows: the driver's results come before the wait for them is
\* over, and a server thread is done within the two seconds it is given.
InTime == "late" \notin WifiFaults /\ "slow" \notin WifiFaults

\* Every variable keeps to its type, one by one, as the provers want them.
MainTyped ==
    /\ g_state \in {"IDLE", "RECORDING", "PAUSED", "WIFI_SYNC"}
    /\ pc \in {"rest"} \cup SwitchingOn \cup SwitchingOff
    /\ attempt \in 0..Retries
    /\ ap_running \in BOOLEAN /\ sta_connected \in BOOLEAN /\ wifi_ready \in BOOLEAN
    /\ ap_enabled_sem \in 0..1 /\ ap_disabled_sem \in 0..1 /\ wifi_ready_sem \in 0..1
    /\ timer \in {"off", "armed"} /\ driver \in {"down", "starting", "up"}
    /\ air \in BOOLEAN /\ dropped \in BOOLEAN /\ crowded \in BOOLEAN /\ leftup \in BOOLEAN

QueueTyped == queue \in Seq(QueueEvents) /\ Len(queue) <= QueueSize

ServerTyped ==
    /\ server \in [Servers -> {"none", "start", "bound", "serving", "ending", "exiting"}]
    /\ server_running \in BOOLEAN /\ udp_thread_done_sem \in 0..1
    /\ server_sock \in Servers \cup {NoSock} /\ socks \subseteq Servers

\* Where the main loop is tells whether there is an access point: it runs once
\* its result has been taken, and until the one of AP_DISABLE has.
MainInv ==
    /\ pc \in SwitchingOn => g_state \in {"IDLE", "PAUSED"}
    /\ pc \in SwitchingOff => g_state = "WIFI_SYNC"
    /\ ap_running =>
          \/ pc = "rest" /\ g_state = "WIFI_SYNC"
          \/ pc = "enabling" /\ ap_enabled_sem = 1
          \/ pc \in {"serve", "arm"} \cup SwitchingOff
    /\ ~ap_running => pc \notin {"serve", "arm", "stop", "join", "disable"}
    /\ pc = "rest" /\ g_state = "WIFI_SYNC" => ap_running

DriverInv ==
    /\ pc \in {"enabling", "serve", "arm"} \cup SwitchingOff => driver = "up"
    /\ pc = "rest" /\ g_state = "WIFI_SYNC" => driver = "up"
    /\ pc = "rest" /\ g_state # "WIFI_SYNC" => leftup \/ (driver = "down" /\ ~air)

\* At most one answer is on its way, and only while somebody waits for it: as a
\* request, as an event, or as the semaphore.
RequestInv ==
    /\ requests \in {<<>>, <<"enable">>, <<"disable">>}
    /\ requests = <<"enable">> => pc = "enabling" /\ ap_enabled_sem = 0
    /\ requests = <<"disable">> => pc = "disabling" /\ ap_disabled_sem = 0
    /\ ap_enabled_sem = 1 => pc = "enabling"
    /\ ap_disabled_sem = 1 => pc = "disabling"

AnswerInv ==
    /\ events \in Seq(NetworkEvents)
    /\ \A i \in 1..Len(events) : events[i] \in Answers =>
          /\ pc = "enabling" /\ ap_enabled_sem = 0 /\ requests = <<>>
          /\ \A j \in 1..Len(events) : events[j] \in Answers => j = i
    /\ \A i \in 1..Len(events) : events[i] = "disabled" =>
          /\ pc = "disabling" /\ ap_disabled_sem = 0 /\ requests = <<>>
          /\ stations = {} /\ ~air
          /\ \A j \in 1..Len(events) : events[j] = "disabled" => j = i

\* A server thread is alive while WiFi is on, and when the wait for its end is on:
\* it has at most one socket, which it or the main loop closes. One that only has to
\* return may do so up to the end of wifi_off.
Serving == pc \in {"arm", "stop"} \/ (pc = "rest" /\ g_state = "WIFI_SYNC")
Returning == Serving \/ pc \in {"join", "disable", "disabling"}
ServerInv ==
    /\ \A t, u \in Servers : server[t] # "none" /\ server[u] # "none" => t = u
    /\ \A t \in Servers : server[t] \in {"start", "bound", "serving"} =>
          IF server_running THEN Serving ELSE pc = "join"
    /\ \A t \in Servers : server[t] = "ending" => pc = "join"
    /\ \A t \in Servers : server[t] \in {"ending", "exiting"} => ~server_running /\ Returning
    /\ server_running => \E t \in Servers : server[t] # "none"
    /\ udp_thread_done_sem = 1 =>
          pc = "join" /\ \A t \in Servers : server[t] \in {"none", "exiting"}
    /\ socks = {server_sock} \ {NoSock}
    /\ server_sock # NoSock => server[server_sock] \in {"bound", "serving"}

\* While stations come one at a time, and no access point was left on the air, what is
\* known of them and what is reported last agree: a station that has joined is noted, or
\* its report is the last one.
StationInv ==
    /\ stations \subseteq Stations /\ IsFiniteSet(stations)
    /\ crowded \/ \A a, b \in stations : a = b
    /\ crowded \/ leftup \/ stations = {} \/ sta_connected
         \/ \E i \in 1..Len(events) : events[i] = "joined"
    /\ crowded \/ leftup \/ stations = {}
         \/ \A i \in 1..Len(events) : events[i] = "left" =>
               \E j \in 1..Len(events) : j > i /\ events[j] = "joined"

WifiInv ==
    /\ MainTyped /\ QueueTyped /\ ServerTyped
    /\ MainInv /\ DriverInv /\ RequestInv /\ AnswerInv /\ ServerInv /\ StationInv

----------------------------------------------------------------------------
LEMMA Tokens == 0 \in 0..1 /\ 1 \in 0..1
  OBVIOUS

LEMMA PopSeq ==
    ASSUME NEW S, NEW s \in Seq(S), s # <<>>
    PROVE  /\ Len(s) \in Nat /\ Len(s) >= 1 /\ Head(s) = s[1] /\ Head(s) \in S
           /\ Tail(s) \in Seq(S) /\ Len(Tail(s)) = Len(s) - 1
           /\ \A i \in 1..Len(Tail(s)) : Tail(s)[i] = s[i + 1]
  OBVIOUS

LEMMA PushSeq ==
    ASSUME NEW S, NEW s \in Seq(S), NEW d \in S
    PROVE  /\ Len(s) \in Nat /\ Append(s, d) \in Seq(S) /\ Len(Append(s, d)) = Len(s) + 1
           /\ Append(s, d)[Len(s) + 1] = d
           /\ \A i \in 1..Len(s) : Append(s, d)[i] = s[i]
  OBVIOUS

LEMMA JoinSeqs ==
    ASSUME NEW S, NEW s \in Seq(S), NEW r \in Seq(S)
    PROVE  /\ Len(s) \in Nat /\ Len(r) \in Nat
           /\ s \o r \in Seq(S) /\ Len(s \o r) = Len(s) + Len(r)
           /\ \A i \in 1..Len(s) : (s \o r)[i] = s[i]
           /\ \A i \in 1..Len(r) : (s \o r)[Len(s) + i] = r[i]
  OBVIOUS

\* What net_if_down appends are reports of stations that left.
LEMMA DeparturesTyped ==
    ASSUME IsFiniteSet(stations)
    PROVE  /\ Departures \in Seq(NetworkEvents)
           /\ \A i \in 1..Len(Departures) : Departures[i] = "left"
<1>1. Cardinality(stations) \in Nat
  BY FS_CardinalityType
<1>2. Departures \in [1..Cardinality(stations) -> NetworkEvents]
  BY DEF Departures, NetworkEvents
<1>3. Departures \in Seq(NetworkEvents)
  BY <1>1, <1>2
<1>4. Len(Departures) = Cardinality(stations)
  BY <1>1 DEF Departures
<1> QED BY <1>3, <1>4 DEF Departures

LEMMA WifiInvInit == WifiInit => WifiInv
<1> SUFFICES ASSUME WifiInit PROVE WifiInv
  OBVIOUS
<1> USE WifiLinkAssumption DEF WifiInit
<1>1. MainTyped
  <2>1. 0 \in 0..Retries
    OBVIOUS
  <2> QED BY Tokens, <2>1 DEF MainTyped, SwitchingOn, SwitchingOff
<1>2. QueueTyped
  <2>1. queue \in Seq(QueueEvents) /\ Len(queue) = 0
    OBVIOUS
  <2> QED BY <2>1 DEF QueueTyped
<1>3. ServerTyped
  <2>1. {} \subseteq Servers
    OBVIOUS
  <2> QED BY Tokens, <2>1 DEF ServerTyped
<1>4. MainInv /\ DriverInv /\ RequestInv
  BY DEF MainInv, DriverInv, RequestInv, SwitchingOn, SwitchingOff
<1>5. AnswerInv
  BY DEF AnswerInv
<1>6. ServerInv
  BY DEF ServerInv, Servers, NoSock
<1>7. StationInv
  BY FS_EmptySet DEF StationInv
<1> QED BY <1>1, <1>2, <1>3, <1>4, <1>5, <1>6, <1>7 DEF WifiInv

\* What each part of the invariant does not depend on.
LEMMA ServerFrame ==
    ASSUME ServerTyped, ServerInv, UNCHANGED udpVars, Serving => Serving',
           pc = "join" => pc' = "join", Returning => Returning'
    PROVE  ServerTyped' /\ ServerInv'
  BY DEF ServerTyped, ServerInv, udpVars

\* With no server there is nothing that the place of the main loop could break.
LEMMA NoServerFrame ==
    ASSUME ServerTyped, ServerInv, UNCHANGED udpVars, ~Returning
    PROVE  ServerTyped' /\ ServerInv'
<1>1. ~server_running /\ udp_thread_done_sem # 1 /\ \A t \in Servers : server[t] = "none"
  BY DEF ServerInv, ServerTyped, Returning
<1> QED BY <1>1 DEF ServerTyped, ServerInv, udpVars

LEMMA StationFrame ==
    ASSUME StationInv, UNCHANGED <<stations, sta_connected, events, crowded, leftup>>
    PROVE  StationInv'
  BY DEF StationInv

LEMMA QueueFrame ==
    ASSUME QueueTyped, UNCHANGED queue
    PROVE  QueueTyped'
  BY DEF QueueTyped

LEMMA QueueTaken ==
    ASSUME QueueTyped, queue # <<>>, queue' = Tail(queue)
    PROVE  QueueTyped'
  BY WifiLinkAssumption, PopSeq DEF QueueTyped

LEMMA QueuePosted ==
    ASSUME QueueTyped, NEW e \in QueueEvents, Len(queue) < QueueSize,
           queue' = Append(queue, e)
    PROVE  QueueTyped'
  BY WifiLinkAssumption, PushSeq DEF QueueTyped

\* No answer is on its way unless the main loop waits for one.
LEMMA NoAnswer ==
    ASSUME AnswerInv, RequestInv,
           pc # "enabling" \/ ap_enabled_sem = 1, pc # "disabling" \/ ap_disabled_sem = 1
    PROVE  /\ requests = <<>>
           /\ \A i \in 1..Len(events) : events[i] \notin Answers \cup {"disabled"}
  BY DEF AnswerInv, RequestInv, Answers

\* What is appended by net_if_down leaves AnswerInv alone when no answer is due. The flag
\* of the stations only matters while there are stations of an access point that went down.
LEMMA NetIfDown ==
    ASSUME AnswerInv, StationInv, net_if_down,
           \A i \in 1..Len(events) : events[i] \notin Answers \cup {"disabled"},
           UNCHANGED crowded
    PROVE  AnswerInv' /\ StationInv'
<1>1. CASE leftup'
  <2>1. UNCHANGED <<stations, events, requests, air>>
    BY <1>1 DEF net_if_down, driverVars
  <2>2. AnswerInv'
    BY <2>1 DEF AnswerInv
  <2> QED BY <1>1, <2>1, <2>2 DEF StationInv
<1>2. CASE ~leftup'
  <2> DEFINE d == Departures
  <2>1. /\ d \in Seq(NetworkEvents) /\ events \in Seq(NetworkEvents)
        /\ \A i \in 1..Len(d) : d[i] = "left"
        /\ events' = events \o d
    BY <1>2, DeparturesTyped DEF AnswerInv, StationInv, net_if_down
  <2>2. stations' = {}
    BY <1>2 DEF net_if_down
  <2> HIDE DEF d
  <2>3. /\ Len(events) \in Nat /\ Len(d) \in Nat /\ Len(events') = Len(events) + Len(d)
        /\ events' \in Seq(NetworkEvents)
        /\ \A i \in 1..Len(events) : events'[i] = events[i]
        /\ \A i \in 1..Len(d) : events'[Len(events) + i] = d[i]
    BY <2>1, JoinSeqs
  <2>4. ASSUME NEW i \in 1..Len(events')
        PROVE  events'[i] \notin Answers \cup {"disabled"}
    <3>1. CASE i \in 1..Len(events)
      BY <3>1, <2>3
    <3>2. CASE i \notin 1..Len(events)
      <4>1. i - Len(events) \in 1..Len(d) /\ i = Len(events) + (i - Len(events))
        BY <3>2, <2>3
      <4>2. events'[i] = "left"
        BY <4>1, <2>1, <2>3
      <4> QED BY <4>2 DEF Answers
    <3> QED BY <3>1, <3>2
  <2>5. AnswerInv'
    BY <2>3, <2>4 DEF AnswerInv
  <2> QED BY <2>2, <2>5, FS_EmptySet DEF StationInv
<1> QED BY <1>1, <1>2

----------------------------------------------------------------------------
(* The steps of the main loop. *)

\* A step of the main loop that meets neither driver nor stations nor server, and
\* asks for no answer.
LEMMA QuietStep ==
    ASSUME WifiInv, UNCHANGED <<requests, events, stations, sta_connected, crowded, leftup, air,
                                ap_enabled_sem, ap_disabled_sem>>,
           pc' = pc \/ {pc, pc'} \cap {"enabling", "disabling"} = {}
    PROVE  AnswerInv' /\ RequestInv' /\ StationInv'
<1>1. AnswerInv'
  BY DEF WifiInv, AnswerInv
<1>2. RequestInv'
  BY DEF WifiInv, RequestInv
<1>3. StationInv'
  BY StationFrame DEF WifiInv
<1> QED BY <1>1, <1>2, <1>3

LEMMA PostKeeps ==
    ASSUME WifiInv, NEW e \in QueueEvents, Post(e)
    PROVE  WifiInv'
<1> USE DEF WifiInv, Post, mainVars, flagVars, semVars, driverVars, histVars
<1>1. QueueTyped'
  BY QueuePosted
<1>2. MainTyped' /\ MainInv' /\ DriverInv'
  BY DEF MainTyped, MainInv, DriverInv
<1>3. AnswerInv' /\ RequestInv' /\ StationInv'
  BY QuietStep
<1>4. ServerTyped' /\ ServerInv'
  BY ServerFrame DEF Serving, Returning
<1> QED BY <1>1, <1>2, <1>3, <1>4

LEMMA RecordEventKeeps ==
    ASSUME WifiInv, RecordEvent
    PROVE  WifiInv'
<1> USE DEF WifiInv, RecordEvent, Take, flagVars, semVars, driverVars, histVars
<1>1. QueueTyped'
  BY QueueTaken
<1>2. MainTyped' /\ MainInv' /\ DriverInv'
  BY DEF MainTyped, MainInv, DriverInv, SwitchingOn, SwitchingOff
<1>3. AnswerInv' /\ RequestInv' /\ StationInv'
  BY QuietStep
<1>4. ServerTyped' /\ ServerInv'
  BY ServerFrame DEF Serving, Returning
<1> QED BY <1>1, <1>2, <1>3, <1>4

LEMMA RefuseWifiKeeps ==
    ASSUME WifiInv, RefuseWifi
    PROVE  WifiInv'
<1> USE DEF WifiInv, RefuseWifi, Take, mainVars, flagVars, semVars, driverVars, histVars
<1>1. QueueTyped'
  BY QueueTaken
<1>2. MainTyped' /\ MainInv' /\ DriverInv'
  BY DEF MainTyped, MainInv, DriverInv
<1>3. AnswerInv' /\ RequestInv' /\ StationInv'
  BY QuietStep
<1>4. ServerTyped' /\ ServerInv'
  BY ServerFrame DEF Serving, Returning
<1> QED BY <1>1, <1>2, <1>3, <1>4

LEMMA WifiOnKeeps ==
    ASSUME WifiInv, wifi_on
    PROVE  WifiInv'
<1> USE DEF WifiInv, wifi_on, Take, TakesWifi, Ends, flagVars, semVars, driverVars, histVars
<1>1. QueueTyped'
  BY QueueTaken
<1>2. MainTyped' /\ MainInv' /\ DriverInv'
  BY WifiLinkAssumption DEF MainTyped, MainInv, DriverInv, SwitchingOn, SwitchingOff
<1>3. AnswerInv' /\ RequestInv' /\ StationInv'
  BY QuietStep
<1>4. ServerTyped' /\ ServerInv'
  <2>1. CASE ap_running
    BY <2>1, ServerFrame DEF Serving, Returning
  <2>2. CASE ~ap_running
    BY <2>2, NoServerFrame DEF Serving, Returning, MainInv
  <2> QED BY <2>1, <2>2
<1> QED BY <1>1, <1>2, <1>3, <1>4

\* The waits of wifi_on for the driver.
LEMMA ReadyKeeps ==
    ASSUME WifiInv, TakeReady \/ ReadyTimeout
    PROVE  WifiInv'
<1> USE DEF WifiInv, TakeReady, ReadyTimeout, flagVars, semVars, driverVars, histVars
<1>1. QueueTyped'
  BY QueueFrame
<1>2. MainTyped' /\ MainInv' /\ DriverInv'
  BY DEF MainTyped, MainInv, DriverInv, SwitchingOn, SwitchingOff
<1>3. AnswerInv' /\ RequestInv' /\ StationInv'
  BY QuietStep
<1>4. ServerTyped' /\ ServerInv'
  BY NoServerFrame DEF Serving, Returning
<1> QED BY <1>1, <1>2, <1>3, <1>4

LEMMA NextAttemptTyped ==
    ASSUME attempt \in 0..Retries, NextAttempt
    PROVE  attempt' \in 0..Retries /\ pc' \in {"no_ap", "request"}
  BY WifiLinkAssumption DEF NextAttempt

LEMMA RequestEnableKeeps ==
    ASSUME WifiInv, RequestEnable
    PROVE  WifiInv'
<1> USE DEF WifiInv, RequestEnable, flagVars, semVars, driverVars, histVars
<1>1. QueueTyped'
  BY QueueFrame
<1>2. attempt' \in 0..Retries /\ pc' \in {"no_ap", "request", "enabling"}
  BY NextAttemptTyped DEF MainTyped
<1>3. MainTyped' /\ MainInv' /\ DriverInv'
  BY <1>2, NextAttemptTyped DEF MainTyped, MainInv, DriverInv, SwitchingOn, SwitchingOff
<1>4. /\ requests = <<>>
      /\ \A i \in 1..Len(events) : events[i] \notin Answers \cup {"disabled"}
  BY NoAnswer
<1>5. requests' \in {<<>>, <<"enable">>} /\ (requests' = <<"enable">> => pc' = "enabling")
  BY <1>4, NextAttemptTyped
<1>6. AnswerInv'
  BY <1>4 DEF AnswerInv
<1>7. RequestInv'
  BY <1>5 DEF RequestInv
<1>8. StationInv'
  BY StationFrame
<1>9. ServerTyped' /\ ServerInv'
  BY NoServerFrame DEF Serving, Returning
<1> QED BY <1>1, <1>3, <1>6, <1>7, <1>8, <1>9

LEMMA EnableResultKeeps ==
    ASSUME WifiInv, EnableResult
    PROVE  WifiInv'
<1> USE DEF WifiInv, EnableResult, flagVars, semVars, driverVars, histVars
<1>1. QueueTyped'
  BY QueueFrame
<1>2. attempt' \in 0..Retries /\ pc' \in {"no_ap", "request", "serve"}
      /\ (pc' = "serve" <=> ap_running)
  BY NextAttemptTyped DEF MainTyped
<1>3. MainTyped' /\ MainInv' /\ DriverInv'
  BY <1>2 DEF MainTyped, MainInv, DriverInv, SwitchingOn, SwitchingOff
<1>4. /\ requests = <<>>
      /\ \A i \in 1..Len(events) : events[i] \notin Answers \cup {"disabled"}
  BY NoAnswer
<1>5. AnswerInv'
  BY <1>4 DEF AnswerInv
<1>6. RequestInv'
  BY <1>2, <1>4 DEF RequestInv
<1>7. StationInv'
  BY StationFrame
<1>8. ServerTyped' /\ ServerInv'
  BY NoServerFrame DEF Serving, Returning
<1> QED BY <1>1, <1>3, <1>5, <1>6, <1>7, <1>8

\* The wait is over only if neither request nor answer is on its way: there is no
\* answer left that could come too late.
LEMMA EnableTimeoutKeeps ==
    ASSUME InTime, WifiInv, EnableTimeout
    PROVE  WifiInv'
<1> USE DEF InTime, WifiInv, EnableTimeout, flagVars, semVars, driverVars, histVars
<1>1. QueueTyped'
  BY QueueFrame
<1>2. attempt' \in 0..Retries /\ pc' \in {"no_ap", "request"}
  BY NextAttemptTyped DEF MainTyped
<1>3. MainTyped' /\ MainInv' /\ DriverInv'
  BY <1>2 DEF MainTyped, MainInv, DriverInv, SwitchingOn, SwitchingOff
<1>4. \A i \in 1..Len(events) : events[i] \notin Answers
  BY DEF Coming, AnswerInv, Answers
<1>5. requests # <<"enable">>
  BY DEF Coming
<1>6. requests = <<>>
  BY <1>5 DEF RequestInv
<1>7. AnswerInv'
  BY <1>4, <1>6 DEF AnswerInv
<1>8. RequestInv'
  BY <1>2, <1>6 DEF RequestInv
<1>9. StationInv'
  BY StationFrame
<1>10. ServerTyped' /\ ServerInv'
  BY NoServerFrame DEF Serving, Returning
<1> QED BY <1>1, <1>3, <1>7, <1>8, <1>9, <1>10

LEMMA WifiOnFailsKeeps ==
    ASSUME WifiInv, wifi_on_Fails
    PROVE  WifiInv'
<1> USE DEF WifiInv, wifi_on_Fails, Ends, semVars, driverVars
<1>1. QueueTyped'
  BY QueueFrame
<1>2. MainTyped' /\ MainInv' /\ DriverInv'
  BY DEF net_if_down, MainTyped, MainInv, DriverInv, SwitchingOn, SwitchingOff
<1>3. AnswerInv' /\ StationInv'
  BY NoAnswer, NetIfDown
<1>4. RequestInv'
  BY DEF net_if_down, RequestInv
<1>5. ServerTyped' /\ ServerInv'
  BY NoServerFrame DEF Serving, Returning
<1> QED BY <1>1, <1>2, <1>3, <1>4, <1>5

LEMMA StartKeeps ==
    ASSUME WifiInv, wifi_udp_start
    PROVE  WifiInv'
<1> USE DEF WifiInv, wifi_udp_start, flagVars, semVars, driverVars, histVars
<1>1. QueueTyped'
  BY QueueFrame
<1>2. MainTyped' /\ MainInv' /\ DriverInv'
  BY DEF MainTyped, MainInv, DriverInv, SwitchingOn, SwitchingOff
<1>3. AnswerInv' /\ RequestInv' /\ StationInv'
  BY QuietStep
<1>4. ~server_running /\ udp_thread_done_sem # 1 /\ \A t \in Servers : server[t] = "none"
  BY DEF ServerTyped, ServerInv, Serving, Returning
<1>5. PICK t \in Servers : server' = [server EXCEPT ![t] = "start"]
  BY <1>4
<1>6. server_sock = NoSock
  BY <1>4 DEF ServerInv, ServerTyped
<1>7. ServerTyped'
  BY <1>4, <1>5 DEF ServerTyped
<1>8. ServerInv'
  BY <1>4, <1>5, <1>6 DEF ServerTyped, ServerInv, Serving, Returning
<1> QED BY <1>1, <1>2, <1>3, <1>7, <1>8

LEMMA ArmKeeps ==
    ASSUME WifiInv, wifi_on_Succeeds
    PROVE  WifiInv'
<1> USE DEF WifiInv, wifi_on_Succeeds, Ends, flagVars, semVars, driverVars, histVars
<1>1. QueueTyped'
  BY QueueFrame
<1>2. MainTyped' /\ MainInv' /\ DriverInv'
  BY DEF MainTyped, MainInv, DriverInv, SwitchingOn, SwitchingOff
<1>3. AnswerInv' /\ RequestInv' /\ StationInv'
  BY QuietStep
<1>4. ServerTyped' /\ ServerInv'
  BY ServerFrame DEF Serving, Returning
<1> QED BY <1>1, <1>2, <1>3, <1>4

LEMMA WifiOffKeeps ==
    ASSUME WifiInv, NEW e \in {"WIFI_OFF", "AUTO_OFF"}, wifi_off(e)
    PROVE  WifiInv'
<1> USE DEF WifiInv, wifi_off, Take, TakesWifi, Ends, flagVars, semVars, driverVars, histVars
<1>1. QueueTyped'
  BY QueueTaken
<1>2. pc = "rest" /\ g_state = "WIFI_SYNC" /\ ap_running
  BY DEF MainInv
<1>3. MainTyped' /\ MainInv' /\ DriverInv'
  BY <1>2 DEF MainTyped, MainInv, DriverInv, SwitchingOn, SwitchingOff
<1>4. AnswerInv' /\ RequestInv' /\ StationInv'
  BY <1>2, QuietStep
<1>5. ServerTyped' /\ ServerInv'
  BY <1>2, ServerFrame DEF Serving, Returning
<1> QED BY <1>1, <1>3, <1>4, <1>5

LEMMA StopKeeps ==
    ASSUME WifiInv, wifi_udp_stop
    PROVE  WifiInv'
<1> USE DEF WifiInv, wifi_udp_stop, flagVars, semVars, driverVars, histVars
<1>1. QueueTyped'
  BY QueueFrame
<1>2. MainTyped' /\ MainInv' /\ DriverInv'
  BY DEF MainTyped, MainInv, DriverInv, SwitchingOn, SwitchingOff
<1>3. AnswerInv' /\ RequestInv' /\ StationInv'
  BY QuietStep
<1>4. ServerTyped'
  BY DEF ServerTyped
<1>5. ServerInv'
  <2>1. CASE server_running
    <3>1. socks' = {} /\ server_sock' = NoSock
      BY <2>1 DEF ServerInv
    <3>2. udp_thread_done_sem # 1
      BY DEF ServerInv
    <3> QED BY <2>1, <3>1, <3>2 DEF ServerInv
  <2>2. CASE ~server_running
    <3>1. \A t \in Servers : server[t] \in {"none", "exiting"}
      BY <2>2 DEF ServerTyped, ServerInv
    <3> QED BY <2>2, <3>1 DEF ServerInv, Returning
  <2> QED BY <2>1, <2>2
<1> QED BY <1>1, <1>2, <1>3, <1>4, <1>5

LEMMA JoinKeeps ==
    ASSUME InTime, WifiInv, JoinServer
    PROVE  WifiInv'
<1> USE DEF InTime, WifiInv, JoinServer, flagVars, semVars, driverVars, histVars
<1>1. QueueTyped'
  BY QueueFrame
<1>2. MainTyped' /\ MainInv' /\ DriverInv'
  BY DEF MainTyped, MainInv, DriverInv, SwitchingOn, SwitchingOff
<1>3. AnswerInv' /\ RequestInv' /\ StationInv'
  BY QuietStep
<1>4. \A t \in Servers : server[t] \in {"none", "exiting"}
  BY DEF ServerInv, Alive
<1>5. ServerTyped'
  BY Tokens DEF ServerTyped
<1>6. server_sock = NoSock /\ socks = {}
  BY <1>4 DEF ServerInv, ServerTyped
<1>7. ~server_running
  BY <1>4 DEF ServerInv, Serving
<1>8. ServerInv'
  BY <1>4, <1>6, <1>7 DEF ServerInv, Serving, Returning
<1> QED BY <1>1, <1>2, <1>3, <1>5, <1>8

LEMMA RequestDisableKeeps ==
    ASSUME WifiInv, RequestDisable
    PROVE  WifiInv'
<1> USE DEF WifiInv, RequestDisable, flagVars, semVars, driverVars, histVars
<1>1. QueueTyped'
  BY QueueFrame
<1>2. MainTyped' /\ MainInv' /\ DriverInv'
  BY DEF MainTyped, MainInv, DriverInv, SwitchingOn, SwitchingOff
<1>3. /\ requests = <<>>
      /\ \A i \in 1..Len(events) : events[i] \notin Answers \cup {"disabled"}
  BY NoAnswer
<1>4. requests' \in {<<>>, <<"disable">>}
  BY <1>3
<1>5. AnswerInv'
  BY <1>3 DEF AnswerInv
<1>6. RequestInv'
  BY <1>4 DEF RequestInv
<1>7. StationInv'
  BY StationFrame
<1>8. ServerTyped' /\ ServerInv'
  BY ServerFrame DEF Serving, Returning
<1> QED BY <1>1, <1>2, <1>5, <1>6, <1>7, <1>8

LEMMA WifiOffEndsKeeps ==
    ASSUME InTime, WifiInv, wifi_off_Ends
    PROVE  WifiInv'
<1> USE DEF InTime, WifiInv, wifi_off_Ends, Ends, driverVars
<1>1. QueueTyped'
  BY QueueFrame
<1>2. MainTyped' /\ MainInv' /\ DriverInv'
  BY Tokens DEF net_if_down, MainTyped, MainInv, DriverInv, SwitchingOn, SwitchingOff
<1>3. \A i \in 1..Len(events) : events[i] \notin Answers \cup {"disabled"}
  BY DEF AnswerInv, Coming, Answers
<1>4. AnswerInv' /\ StationInv'
  BY <1>3, NetIfDown
<1>5. RequestInv'
  <2>1. requests = <<>> /\ ap_enabled_sem = 0
    <3>1. requests # <<"disable">>
      BY DEF Coming, RequestInv
    <3>2. requests # <<"enable">> /\ ap_enabled_sem # 1
      BY DEF RequestInv
    <3>3. ap_enabled_sem \in 0..1
      BY DEF MainTyped
    <3> QED BY <3>1, <3>2, <3>3 DEF RequestInv
  <2>2. requests' = <<>>
    BY <2>1 DEF net_if_down
  <2> QED BY <2>1, <2>2 DEF RequestInv
<1>6. \A t \in Servers : server[t] = "none"
  BY DEF ServerTyped, ServerInv, Serving
<1>7. ServerTyped' /\ ServerInv'
  BY <1>6 DEF ServerTyped, ServerInv, udpVars
<1> QED BY <1>1, <1>2, <1>4, <1>5, <1>7

----------------------------------------------------------------------------
(* The steps of the timer, the network management thread, the driver and the
   stations. *)

LEMMA TimeoutKeeps ==
    ASSUME WifiInv, wifi_timeout_handler
    PROVE  WifiInv'
<1> USE DEF WifiInv, wifi_timeout_handler, mainVars, flagVars, semVars, driverVars
<1>1. QueueTyped'
  <2>1. CASE queue' = queue
    BY <2>1, QueueFrame
  <2>2. CASE queue' # queue
    BY <2>2, QueuePosted DEF QueueEvents
  <2> QED BY <2>1, <2>2
<1>2. MainTyped' /\ MainInv' /\ DriverInv'
  <2>1. timer' \in {"off", "armed"} /\ dropped' \in BOOLEAN
    BY DEF MainTyped
  <2>2. MainTyped'
    BY <2>1 DEF MainTyped
  <2>3. MainInv'
    BY DEF MainTyped, MainInv
  <2>4. DriverInv'
    BY DEF MainTyped, DriverInv
  <2> QED BY <2>2, <2>3, <2>4
<1>3. AnswerInv' /\ RequestInv' /\ StationInv'
  BY QuietStep
<1>4. ServerTyped' /\ ServerInv'
  BY ServerFrame DEF Serving, Returning
<1> QED BY <1>1, <1>2, <1>3, <1>4

\* A result is taken off the events: it was the only one.
LEMMA HandleResultKeeps ==
    ASSUME WifiInv, HandleResult
    PROVE  WifiInv'
<1> USE DEF WifiInv, HandleResult, mainVars, flagVars, semVars, driverVars, histVars
<1>1. QueueTyped'
  BY QueueFrame
<1>2. /\ Len(events) \in Nat /\ Len(events) >= 1 /\ Head(events) = events[1]
      /\ events' \in Seq(NetworkEvents) /\ Len(events') = Len(events) - 1
      /\ \A i \in 1..Len(events') : i + 1 \in 1..Len(events) /\ events'[i] = events[i + 1]
  BY PopSeq DEF AnswerInv
<1>3. Head(events) \in Answers =>
         /\ pc = "enabling" /\ ap_enabled_sem = 0 /\ requests = <<>>
         /\ \A i \in 1..Len(events') : events'[i] \notin Answers
  BY <1>2 DEF AnswerInv
<1>4. Head(events) = "disabled" =>
         /\ pc = "disabling" /\ ap_disabled_sem = 0 /\ requests = <<>>
         /\ stations = {} /\ ~air
         /\ \A i \in 1..Len(events') : events'[i] # "disabled"
  BY <1>2 DEF AnswerInv
<1>5. MainTyped' /\ MainInv' /\ DriverInv'
  <2>1. /\ ap_running' \in BOOLEAN /\ sta_connected' \in BOOLEAN
        /\ ap_enabled_sem' \in 0..1 /\ ap_disabled_sem' \in 0..1
    BY Tokens DEF MainTyped
  <2>2. MainTyped'
    BY <2>1 DEF MainTyped
  <2>3. MainInv'
    BY Tokens, <1>3, <1>4 DEF MainTyped, MainInv, SwitchingOn, SwitchingOff, Answers
  <2>4. DriverInv'
    BY <1>3, <1>4 DEF MainTyped, DriverInv, SwitchingOn, SwitchingOff, Answers
  <2> QED BY <2>2, <2>3, <2>4
<1>6. RequestInv'
  BY <1>3, <1>4 DEF RequestInv, Answers
<1>7. AnswerInv'
  <2>1. CASE Head(events) \in Answers
    <3>1. \A i \in 1..Len(events') : events'[i] # "disabled"
      BY <1>2, <1>3, <2>1 DEF AnswerInv
    <3> QED BY <1>2, <1>3, <2>1, <3>1 DEF AnswerInv
  <2>2. CASE Head(events) = "disabled"
    <3>1. \A i \in 1..Len(events') : events'[i] \notin Answers
      BY <1>2, <1>4, <2>2 DEF AnswerInv
    <3> QED BY <1>2, <1>4, <2>2, <3>1 DEF AnswerInv
  <2> QED BY <2>1, <2>2 DEF Answers
<1>8. StationInv'
  <2>1. CASE Head(events) \in Answers
    <3>1. \A i \in 2..Len(events) : i - 1 \in 1..Len(events') /\ events[i] = events'[i - 1]
      BY <1>2
    <3>2. events[1] \notin {"joined", "left"}
      BY <1>2, <2>1 DEF Answers
    <3>3. (\E i \in 1..Len(events) : events[i] = "joined")
             => \E i \in 1..Len(events') : events'[i] = "joined"
      <4> SUFFICES ASSUME NEW i \in 1..Len(events), events[i] = "joined"
                   PROVE  \E k \in 1..Len(events') : events'[k] = "joined"
        OBVIOUS
      <4>1. i \in 2..Len(events)
        BY <1>2, <3>2
      <4> QED BY <3>1, <4>1
    <3>4. ASSUME NEW i \in 1..Len(events'), events'[i] = "left",
                 NEW j \in 1..Len(events), j > i + 1, events[j] = "joined"
          PROVE  \E k \in 1..Len(events') : k > i /\ events'[k] = "joined"
      <4>1. j \in 2..Len(events)
        BY <1>2, <3>4
      <4>2. j - 1 \in 1..Len(events') /\ j - 1 > i /\ events'[j - 1] = "joined"
        BY <1>2, <3>1, <3>4, <4>1
      <4> QED BY <4>2
    <3>5. sta_connected' = sta_connected
      BY <2>1 DEF Answers
    <3> QED BY <1>2, <3>3, <3>4, <3>5 DEF StationInv
  <2>2. CASE Head(events) = "disabled"
    BY <1>4, <2>2 DEF StationInv
  <2> QED BY <2>1, <2>2 DEF Answers
<1>9. ServerTyped' /\ ServerInv'
  BY ServerFrame DEF Serving, Returning
<1> QED BY <1>1, <1>5, <1>6, <1>7, <1>8, <1>9

\* A station report is taken: the last one stays the last one.
LEMMA HandleStationKeeps ==
    ASSUME WifiInv, HandleStation
    PROVE  WifiInv'
<1> USE DEF WifiInv, HandleStation, mainVars, semVars, driverVars, histVars
<1>1. QueueTyped'
  BY QueueFrame
<1>2. /\ Len(events) \in Nat /\ Len(events) >= 1 /\ Head(events) = events[1]
      /\ events' \in Seq(NetworkEvents) /\ Len(events') = Len(events) - 1
      /\ \A i \in 1..Len(events') : i + 1 \in 1..Len(events) /\ events'[i] = events[i + 1]
      /\ \A i \in 2..Len(events) : i - 1 \in 1..Len(events') /\ events[i] = events'[i - 1]
  BY PopSeq DEF AnswerInv
<1>3. MainTyped' /\ MainInv' /\ DriverInv'
  BY DEF MainTyped, MainInv, DriverInv
<1>4. RequestInv'
  BY DEF RequestInv
<1>5. AnswerInv'
  <2>1. ASSUME NEW i \in 1..Len(events'), events'[i] \in Answers
        PROVE  /\ pc = "enabling" /\ ap_enabled_sem = 0 /\ requests = <<>>
               /\ \A j \in 1..Len(events') : events'[j] \in Answers => j = i
    <3>1. \A j \in 1..Len(events') : events'[j] \in Answers => j + 1 = i + 1
      BY <1>2, <2>1 DEF AnswerInv
    <3> QED BY <1>2, <2>1, <3>1 DEF AnswerInv
  <2>2. ASSUME NEW i \in 1..Len(events'), events'[i] = "disabled"
        PROVE  /\ pc = "disabling" /\ ap_disabled_sem = 0 /\ requests = <<>>
               /\ stations = {} /\ ~air
               /\ \A j \in 1..Len(events') : events'[j] = "disabled" => j = i
    <3>1. \A j \in 1..Len(events') : events'[j] = "disabled" => j + 1 = i + 1
      BY <1>2, <2>2 DEF AnswerInv
    <3> QED BY <1>2, <2>2, <3>1 DEF AnswerInv
  <2> QED BY <1>2, <2>1, <2>2 DEF AnswerInv
<1>6. ASSUME ~crowded, ~leftup, stations # {}
      PROVE  /\ sta_connected' \/ \E i \in 1..Len(events') : events'[i] = "joined"
             /\ \A i \in 1..Len(events') : events'[i] = "left" =>
                   \E j \in 1..Len(events') : j > i /\ events'[j] = "joined"
  <2>1. \A i \in 1..Len(events) : events[i] = "left" =>
           \E j \in 1..Len(events) : j > i /\ events[j] = "joined"
    BY <1>6 DEF StationInv
  <2>2. ASSUME Head(events) = "left"
        PROVE  \E i \in 1..Len(events') : events'[i] = "joined"
    <3>1. 1 \in 1..Len(events) /\ events[1] = "left"
      BY <1>2, <2>2
    <3>2. PICK j \in 1..Len(events) : j > 1 /\ events[j] = "joined"
      BY <2>1, <3>1
    <3>3. j \in 2..Len(events)
      BY <3>2
    <3> QED BY <1>2, <3>2, <3>3
  <2>3. ASSUME NEW i \in 1..Len(events'), events'[i] = "left"
        PROVE  \E j \in 1..Len(events') : j > i /\ events'[j] = "joined"
    <3>1. i + 1 \in 1..Len(events) /\ events[i + 1] = "left"
      BY <1>2, <2>3
    <3>2. PICK j \in 1..Len(events) : j > i + 1 /\ events[j] = "joined"
      BY <2>1, <3>1
    <3>3. j \in 2..Len(events) /\ j - 1 > i
      BY <3>2
    <3> QED BY <1>2, <3>2, <3>3
  <2> QED BY <2>2, <2>3
<1>7. StationInv'
  BY <1>6 DEF StationInv
<1>8. ServerTyped' /\ ServerInv'
  BY ServerFrame DEF Serving, Returning
<1> QED BY <1>1, <1>3, <1>4, <1>5, <1>7, <1>8

LEMMA ReadyCallbackKeeps ==
    ASSUME WifiInv, wifi_ready_callback
    PROVE  WifiInv'
<1> USE DEF WifiInv, wifi_ready_callback, mainVars, histVars
<1>1. QueueTyped'
  BY QueueFrame
<1>2. MainInv'
  BY DEF MainInv
<1>6. MainTyped'
  <2>1. wifi_ready' \in BOOLEAN /\ driver' \in {"down", "starting", "up"}
        /\ wifi_ready_sem' \in 0..1
    BY Tokens DEF MainTyped
  <2> QED BY <2>1 DEF MainTyped
<1>3. AnswerInv' /\ RequestInv' /\ StationInv'
  BY QuietStep
<1>5. DriverInv'
  BY DEF DriverInv, SwitchingOff
<1>4. ServerTyped' /\ ServerInv'
  BY ServerFrame DEF Serving, Returning
<1> QED BY <1>1, <1>2, <1>3, <1>4, <1>5, <1>6

\* One report, appended, and what it does not change.
LEMMA Reported ==
    ASSUME events \in Seq(NetworkEvents), NEW e \in NetworkEvents, events' = Append(events, e)
    PROVE  /\ Len(events) \in Nat /\ Len(events') = Len(events) + 1
           /\ events' \in Seq(NetworkEvents) /\ events'[Len(events) + 1] = e
           /\ \A i \in 1..Len(events) : i \in 1..Len(events') /\ events'[i] = events[i]
           /\ \A i \in 1..Len(events') : i \in 1..Len(events) \/ i = Len(events) + 1
           /\ Len(events) + 1 \in 1..Len(events')
  BY PushSeq

\* A report that is not of a station changes nothing for the stations.
LEMMA StationsUntold ==
    ASSUME AnswerInv, StationInv, NEW e \in NetworkEvents \ {"joined", "left"},
           events' = Append(events, e),
           UNCHANGED <<stations, sta_connected, crowded, leftup>>
    PROVE  StationInv'
<1>1. /\ Len(events) \in Nat /\ Len(events') = Len(events) + 1
      /\ events'[Len(events) + 1] = e
      /\ \A i \in 1..Len(events) : i \in 1..Len(events') /\ events'[i] = events[i]
      /\ \A i \in 1..Len(events') : i \in 1..Len(events) \/ i = Len(events) + 1
  BY Reported DEF AnswerInv
<1>2. \A i \in 1..Len(events') : events'[i] = "left" => i \in 1..Len(events)
  BY <1>1
<1> QED BY <1>1, <1>2 DEF StationInv

LEMMA DriverEnablesKeeps ==
    ASSUME WifiInv, DriverEnables
    PROVE  WifiInv'
<1> USE DEF WifiInv, DriverEnables, mainVars, flagVars, semVars, histVars
<1>1. QueueTyped'
  BY QueueFrame
<1>2. requests = <<"enable">> /\ requests' = <<>> /\ pc = "enabling" /\ ap_enabled_sem = 0
  BY DEF RequestInv
<1>3. MainTyped' /\ MainInv' /\ DriverInv'
  <2>1. air' \in BOOLEAN
    BY DEF MainTyped
  <2>2. MainTyped'
    BY <2>1 DEF MainTyped
  <2>3. MainInv'
    BY <1>2 DEF MainTyped, MainInv, SwitchingOn, SwitchingOff
  <2>4. DriverInv'
    BY <1>2 DEF MainTyped, DriverInv, SwitchingOn, SwitchingOff
  <2> QED BY <2>2, <2>3, <2>4
<1>4. RequestInv'
  BY <1>2 DEF RequestInv
<1>5. \A i \in 1..Len(events) : events[i] \notin Answers \cup {"disabled"}
  BY <1>2 DEF AnswerInv
<1>6. AnswerInv' /\ StationInv'
  <2>1. CASE events' = events
    BY <1>5, <2>1, StationFrame DEF AnswerInv
  <2>2. ASSUME NEW e \in Answers, events' = Append(events, e)
        PROVE  AnswerInv' /\ StationInv'
    <3>1. e \in NetworkEvents /\ e \notin {"joined", "left", "disabled"}
      BY DEF Answers, NetworkEvents
    <3>2. /\ Len(events) \in Nat /\ Len(events') = Len(events) + 1
          /\ events' \in Seq(NetworkEvents) /\ events'[Len(events) + 1] = e
          /\ \A i \in 1..Len(events) : i \in 1..Len(events') /\ events'[i] = events[i]
          /\ \A i \in 1..Len(events') : i \in 1..Len(events) \/ i = Len(events) + 1
      BY <2>2, <3>1, Reported DEF AnswerInv
    <3>3. /\ \A i \in 1..Len(events') : events'[i] \in Answers => i = Len(events) + 1
          /\ \A i \in 1..Len(events') : events'[i] # "disabled"
      BY <1>5, <3>1, <3>2
    <3>4. AnswerInv'
      BY <1>2, <3>2, <3>3 DEF AnswerInv
    <3>5. StationInv'
      BY <2>2, <3>1, StationsUntold
    <3> QED BY <3>4, <3>5
  <2> QED BY <2>1, <2>2 DEF Answers
<1>7. ServerTyped' /\ ServerInv'
  BY ServerFrame DEF Serving, Returning
<1> QED BY <1>1, <1>3, <1>4, <1>6, <1>7

LEMMA DriverDisablesKeeps ==
    ASSUME WifiInv, DriverDisables
    PROVE  WifiInv'
<1> USE DEF WifiInv, DriverDisables, mainVars, flagVars, semVars, histVars
<1>1. QueueTyped'
  BY QueueFrame
<1>2. requests = <<"disable">> /\ requests' = <<>> /\ pc = "disabling" /\ ap_disabled_sem = 0
  <2>1. requests = <<"disable">>
    BY DEF RequestInv
  <2>2. Tail(<<"disable">>) = <<>>
    OBVIOUS
  <2> QED BY <2>1, <2>2 DEF RequestInv
<1>3. MainTyped' /\ MainInv' /\ DriverInv'
  BY <1>2 DEF MainTyped, MainInv, DriverInv, SwitchingOn, SwitchingOff
<1>4. RequestInv'
  BY <1>2 DEF RequestInv
<1>5. \A i \in 1..Len(events) : events[i] \notin Answers \cup {"disabled"}
  BY <1>2 DEF AnswerInv
<1> DEFINE d == Departures
<1>6. /\ d \in Seq(NetworkEvents) /\ events \in Seq(NetworkEvents)
      /\ \A i \in 1..Len(d) : d[i] = "left"
  BY DeparturesTyped DEF AnswerInv, StationInv
<1>7. PICK result \in {<<"disabled">>, <<>>} : events' = (events \o d) \o result
  OBVIOUS
<1> HIDE DEF d
<1> DEFINE told == events \o d
<1>8. /\ told \in Seq(NetworkEvents) /\ Len(told) \in Nat
      /\ \A i \in 1..Len(told) : told[i] \notin Answers \cup {"disabled"}
  <2>1. /\ Len(events) \in Nat /\ Len(d) \in Nat /\ Len(told) = Len(events) + Len(d)
        /\ told \in Seq(NetworkEvents)
        /\ \A i \in 1..Len(events) : told[i] = events[i]
        /\ \A i \in 1..Len(d) : told[Len(events) + i] = d[i]
    BY <1>6, JoinSeqs
  <2> HIDE DEF told
  <2>2. ASSUME NEW i \in 1..Len(told), i \notin 1..Len(events)
        PROVE  told[i] = "left"
    <3>1. i - Len(events) \in 1..Len(d) /\ i = Len(events) + (i - Len(events))
      BY <2>1, <2>2
    <3> QED BY <1>6, <2>1, <3>1
  <2>3. \A i \in 1..Len(told) : told[i] \notin Answers \cup {"disabled"}
    BY <1>5, <2>1, <2>2 DEF Answers
  <2> QED BY <2>1, <2>3
<1> HIDE DEF told
<1>9. events' = told \o result
  BY <1>7 DEF told
<1>10. AnswerInv'
  <2>1. CASE result = <<>>
    <3>1. events' = told
      BY <1>8, <1>9, <2>1
    <3> QED BY <1>8, <3>1 DEF AnswerInv
  <2>2. CASE result = <<"disabled">>
    <3>1. events' = Append(told, "disabled") /\ "disabled" \in NetworkEvents
      BY <1>8, <1>9, <2>2 DEF NetworkEvents
    <3>2. /\ Len(events') = Len(told) + 1 /\ events' \in Seq(NetworkEvents)
          /\ events'[Len(told) + 1] = "disabled"
          /\ \A i \in 1..Len(told) : events'[i] = told[i]
      BY <1>8, <3>1, PushSeq
    <3>3. \A i \in 1..Len(events') : i \in 1..Len(told) \/ i = Len(told) + 1
      BY <1>8, <3>2
    <3>4. /\ \A i \in 1..Len(events') : events'[i] = "disabled" => i = Len(told) + 1
          /\ \A i \in 1..Len(events') : events'[i] \notin Answers
      BY <1>8, <3>2, <3>3 DEF Answers
    <3> QED BY <1>2, <3>2, <3>4 DEF AnswerInv
  <2> QED BY <2>1, <2>2
<1>11. StationInv'
  BY FS_EmptySet DEF StationInv
<1>12. ServerTyped' /\ ServerInv'
  BY ServerFrame DEF Serving, Returning
<1> QED BY <1>1, <1>3, <1>4, <1>10, <1>11, <1>12

\* A report of a station leaves the answers alone.
LEMMA AnswersUntold ==
    ASSUME AnswerInv, NEW e \in {"joined", "left"}, events' = Append(events, e),
           UNCHANGED <<pc, ap_enabled_sem, ap_disabled_sem, requests>>,
           \A i \in 1..Len(events) : events[i] # "disabled"
    PROVE  AnswerInv'
<1>1. e \in NetworkEvents /\ e \notin Answers \cup {"disabled"}
  BY DEF NetworkEvents, Answers
<1>2. /\ Len(events) \in Nat /\ Len(events') = Len(events) + 1
      /\ events' \in Seq(NetworkEvents) /\ events'[Len(events) + 1] = e
      /\ \A i \in 1..Len(events) : i \in 1..Len(events') /\ events'[i] = events[i]
      /\ \A i \in 1..Len(events') : i \in 1..Len(events) \/ i = Len(events) + 1
  BY <1>1, Reported DEF AnswerInv
<1>3. \A i \in 1..Len(events') : events'[i] \in Answers \cup {"disabled"} => i \in 1..Len(events)
  BY <1>1, <1>2
<1> QED BY <1>2, <1>3 DEF AnswerInv

LEMMA StationJoinsKeeps ==
    ASSUME WifiInv, NEW s \in Stations, StationJoins(s)
    PROVE  WifiInv'
<1> USE DEF WifiInv, StationJoins, mainVars, flagVars, semVars
<1>1. QueueTyped'
  BY QueueFrame
<1>2. MainTyped' /\ MainInv' /\ DriverInv' /\ RequestInv'
  BY DEF MainTyped, MainInv, DriverInv, RequestInv
<1>3. \A i \in 1..Len(events) : events[i] # "disabled"
  BY DEF AnswerInv
<1>4. AnswerInv'
  BY <1>3, AnswersUntold
<1>5. /\ Len(events) \in Nat /\ Len(events') = Len(events) + 1
      /\ events'[Len(events) + 1] = "joined" /\ Len(events) + 1 \in 1..Len(events')
      /\ \A i \in 1..Len(events) : i \in 1..Len(events') /\ events'[i] = events[i]
      /\ \A i \in 1..Len(events') : i \in 1..Len(events) \/ i = Len(events) + 1
  BY Reported DEF AnswerInv, NetworkEvents
<1>6. \A i \in 1..Len(events') : events'[i] = "left" =>
         \E j \in 1..Len(events') : j > i /\ events'[j] = "joined"
  <2> SUFFICES ASSUME NEW i \in 1..Len(events'), events'[i] = "left"
               PROVE  Len(events) + 1 > i
    BY <1>5
  <2> QED BY <1>5
<1>7. IsFiniteSet(stations')
  BY FS_AddElement DEF StationInv
<1>8. crowded' \/ \A a, b \in stations' : a = b
  OBVIOUS
<1>9. StationInv'
  BY <1>5, <1>6, <1>7, <1>8 DEF StationInv
<1>10. ServerTyped' /\ ServerInv'
  BY ServerFrame DEF Serving, Returning
<1> QED BY <1>1, <1>2, <1>4, <1>9, <1>10

LEMMA StationLeavesKeeps ==
    ASSUME WifiInv, NEW s \in Stations, StationLeaves(s)
    PROVE  WifiInv'
<1> USE DEF WifiInv, StationLeaves, mainVars, flagVars, semVars, histVars
<1>1. QueueTyped'
  BY QueueFrame
<1>2. MainTyped' /\ MainInv' /\ DriverInv' /\ RequestInv'
  BY DEF MainTyped, MainInv, DriverInv, RequestInv
<1>3. \A i \in 1..Len(events) : events[i] # "disabled"
  BY DEF AnswerInv
<1>4. AnswerInv'
  BY <1>3, AnswersUntold
<1>5. IsFiniteSet(stations')
  BY FS_RemoveElement DEF StationInv
<1>6. crowded \/ stations' = {}
  BY DEF StationInv
<1>7. StationInv'
  BY <1>5, <1>6 DEF StationInv
<1>8. ServerTyped' /\ ServerInv'
  BY ServerFrame DEF Serving, Returning
<1> QED BY <1>1, <1>2, <1>4, <1>7, <1>8

----------------------------------------------------------------------------
(* The steps of a server thread. *)

\* What a server thread leaves alone.
LEMMA ServerRestKeeps ==
    ASSUME WifiInv, UNCHANGED serverRest
    PROVE  /\ MainTyped' /\ QueueTyped'
           /\ MainInv' /\ DriverInv' /\ RequestInv' /\ AnswerInv' /\ StationInv'
<1> USE DEF WifiInv, serverRest, mainVars, flagVars, semVars, driverVars, histVars
<1>1. MainTyped' /\ MainInv' /\ DriverInv'
  BY DEF MainTyped, MainInv, DriverInv
<1>2. QueueTyped'
  BY QueueFrame
<1>3. RequestInv' /\ AnswerInv' /\ StationInv'
  BY QuietStep
<1> QED BY <1>1, <1>2, <1>3

LEMMA ServerKeeps ==
    ASSUME WifiInv, NEW t \in Servers, Server(t)
    PROVE  WifiInv'
<1> USE DEF WifiInv
<1>1. UNCHANGED serverRest /\ pc' = pc /\ g_state' = g_state
  BY DEF Server, OpenSocket, BindFails, Serve, StopServing, GiveDone, ServerEnds, serverRest,
         mainVars
<1>2. t # NoSock
  BY DEF Servers, NoSock
<1>3. server[t] # "none" /\ \A u \in Servers : u # t => server[u] = "none"
  BY DEF Server, OpenSocket, BindFails, Serve, StopServing, GiveDone, ServerEnds, ServerInv
<1>4. server_sock = NoSock \/ (server_sock = t /\ server[t] \in {"bound", "serving"})
  BY <1>3 DEF ServerInv, ServerTyped
<1>5. CASE OpenSocket(t)
  <2>1. server_sock = NoSock /\ socks = {}
    BY <1>4, <1>5 DEF OpenSocket, ServerInv
  <2>2. ServerTyped'
    BY <1>5, <2>1 DEF OpenSocket, ServerTyped
  <2>3. ServerInv'
    BY <1>1, <1>2, <1>3, <1>5, <2>1 DEF OpenSocket, ServerTyped, ServerInv, Serving, Returning
  <2> QED BY <1>1, <2>2, <2>3, ServerRestKeeps
<1>6. CASE BindFails(t)
  <2>1. socks' = {} /\ server_sock' = NoSock
    BY <1>6 DEF BindFails, ServerInv
  <2>2. ServerTyped'
    BY <1>6, <2>1 DEF BindFails, ServerTyped
  <2>3. ServerInv'
    BY <1>1, <1>3, <1>6, <2>1 DEF BindFails, ServerTyped, ServerInv, Serving, Returning
  <2> QED BY <1>1, <2>2, <2>3, ServerRestKeeps
<1>7. CASE Serve(t)
  <2>1. ServerTyped'
    BY <1>7 DEF Serve, ServerTyped
  <2>2. ServerInv'
    BY <1>1, <1>2, <1>3, <1>4, <1>7 DEF Serve, ServerTyped, ServerInv, Serving, Returning
  <2> QED BY <1>1, <2>1, <2>2, ServerRestKeeps
<1>8. CASE StopServing(t)
  <2>1. socks' = {} /\ server_sock' = NoSock
    BY <1>8 DEF StopServing, ServerInv
  <2>2. ServerTyped'
    BY <1>8, <2>1 DEF StopServing, ServerTyped
  <2>3. ServerInv'
    BY <1>1, <1>3, <1>8, <2>1 DEF StopServing, ServerTyped, ServerInv, Serving, Returning
  <2> QED BY <1>1, <2>2, <2>3, ServerRestKeeps
<1>9. CASE GiveDone(t)
  <2>1. server_sock = NoSock
    BY <1>4, <1>9 DEF GiveDone
  <2>2. ServerTyped'
    BY Tokens, <1>9 DEF GiveDone, ServerTyped
  <2>3. pc = "join"
    BY <1>9 DEF GiveDone, ServerInv
  <2>4. ServerInv'
    BY <1>1, <1>3, <1>9, <2>1, <2>3 DEF GiveDone, ServerTyped, ServerInv, Serving, Returning
  <2> QED BY <1>1, <2>2, <2>4, ServerRestKeeps
<1>10. CASE ServerEnds(t)
  <2>1. server_sock = NoSock
    BY <1>4, <1>10 DEF ServerEnds
  <2>2. ServerTyped'
    BY <1>10 DEF ServerEnds, ServerTyped
  <2>3. ServerInv'
    BY <1>1, <1>3, <1>10, <2>1 DEF ServerEnds, ServerTyped, ServerInv, Serving, Returning
  <2> QED BY <1>1, <2>2, <2>3, ServerRestKeeps
<1> QED BY <1>5, <1>6, <1>7, <1>8, <1>9, <1>10 DEF Server

----------------------------------------------------------------------------
LEMMA WifiInvStep ==
  ASSUME InTime
  PROVE  WifiInv /\ [WifiNext]_wifiVars => WifiInv'
<1> SUFFICES ASSUME WifiInv, [WifiNext]_wifiVars PROVE WifiInv'
  OBVIOUS
<1>1. ASSUME NEW e \in {"WIFI_ON", "WIFI_OFF", "RECORDER"}, Post(e) PROVE WifiInv'
  BY <1>1, PostKeeps DEF QueueEvents
<1>2. CASE Wifi
  BY <1>2, RecordEventKeeps, RefuseWifiKeeps, WifiOnKeeps, ReadyKeeps, RequestEnableKeeps,
     EnableResultKeeps, EnableTimeoutKeeps, WifiOnFailsKeeps, StartKeeps, ArmKeeps,
     WifiOffKeeps, StopKeeps, JoinKeeps, RequestDisableKeeps, WifiOffEndsKeeps DEF Wifi
<1>3. CASE wifi_timeout_handler \/ Network \/ Driver
  BY <1>3, TimeoutKeeps, HandleResultKeeps, HandleStationKeeps, ReadyCallbackKeeps,
     DriverEnablesKeeps, DriverDisablesKeeps DEF Network, Driver
<1>4. ASSUME NEW s \in Stations, StationJoins(s) \/ StationLeaves(s) PROVE WifiInv'
  BY <1>4, StationJoinsKeeps, StationLeavesKeeps
<1>5. ASSUME NEW t \in Servers, Server(t) PROVE WifiInv'
  BY <1>5, ServerKeeps
<1>6. CASE UNCHANGED wifiVars
  <2>1. UNCHANGED <<serverRest, udpVars>>
    BY <1>6 DEF wifiVars, serverRest
  <2>2. UNCHANGED <<pc, g_state>>
    BY <2>1 DEF serverRest, mainVars
  <2>3. ServerTyped' /\ ServerInv'
    BY <2>1, <2>2, ServerFrame DEF Serving, Returning, WifiInv
  <2> QED BY <2>1, <2>3, ServerRestKeeps DEF WifiInv
<1> QED BY <1>1, <1>2, <1>3, <1>4, <1>5, <1>6 DEF WifiNext

LEMMA WifiInvAlways ==
  ASSUME InTime
  PROVE  WifiSpec => []WifiInv
  BY WifiInvInit, WifiInvStep, PTL DEF WifiSpec

\* Every variable keeps to its type.
THEOREM WifiTypeCorrect ==
  ASSUME InTime
  PROVE  WifiSpec => []WifiTypeOK
<1>1. WifiInv => WifiTypeOK
  <2> SUFFICES ASSUME WifiInv PROVE WifiTypeOK
    OBVIOUS
  <2> USE DEF WifiInv, MainTyped, ServerTyped
  <2>1. {ap_running, sta_connected, wifi_ready, air, server_running} \subseteq BOOLEAN
        /\ {dropped, crowded, leftup} \subseteq BOOLEAN
    OBVIOUS
  <2>2. {ap_enabled_sem, ap_disabled_sem, wifi_ready_sem, udp_thread_done_sem} \subseteq 0..1
    OBVIOUS
  <2>3. requests \in Seq({"enable", "disable"})
    <3>1. {<<>>, <<"enable">>, <<"disable">>} \subseteq Seq({"enable", "disable"})
      OBVIOUS
    <3> QED BY <3>1 DEF RequestInv
  <2>4. pc \in {"rest", "ready", "request", "enabling", "no_driver", "no_ap", "serve", "arm",
                "stop", "join", "disable", "disabling"}
    BY DEF SwitchingOn, SwitchingOff
  <2>5. queue \in Seq(QueueEvents) /\ Len(queue) <= QueueSize
    BY DEF QueueTyped
  <2>6. stations \subseteq Stations /\ events \in Seq(NetworkEvents)
    BY DEF StationInv, AnswerInv
  <2> HIDE DEF WifiInv
  <2> QED BY <2>1, <2>2, <2>3, <2>4, <2>5, <2>6
          DEF WifiInv, WifiTypeOK, NetworkEvents, QueueEvents
<1> QED BY <1>1, WifiInvAlways, PTL

\* Two threads never run on the one stack of the UDP server (wifi_udp_start and
\* wifi_udp_stop), if each is done in the time it is given.
THEOREM OneServerAlways ==
  ASSUME InTime
  PROVE  WifiSpec => []OneServer
<1>1. WifiInv => OneServer
  <2> SUFFICES ASSUME WifiInv PROVE OneServer
    OBVIOUS
  <2>1. CASE Alive = {}
    BY <2>1, FS_EmptySet DEF OneServer
  <2>2. CASE Alive # {}
    <3>1. PICK t \in Servers : Alive = {t}
      BY <2>2 DEF WifiInv, ServerInv, Alive
    <3>2. Cardinality(Alive) = 1
      BY <3>1, FS_Singleton
    <3> QED BY <3>2 DEF OneServer
  <2> QED BY <2>1, <2>2
<1> QED BY <1>1, WifiInvAlways, PTL

\* What wifi_on and wifi_off leave behind agrees with the state that is shown, after each
\* failure but a late result and, for the interface, one of net_if_down.
THEOREM OffAlwaysOff ==
  ASSUME InTime
  PROVE  WifiSpec => []OffIsOff
<1>1. WifiInv => OffIsOff
  <2> SUFFICES ASSUME WifiInv, pc = "rest" PROVE OffIsOff
    BY DEF OffIsOff
  <2>1. CASE g_state = "WIFI_SYNC"
    BY <2>1 DEF WifiInv, MainInv, DriverInv, OffIsOff
  <2>2. CASE g_state # "WIFI_SYNC"
    <3>1. ~Returning
      BY <2>2 DEF Serving, Returning
    <3>2. \A t \in Servers : server[t] = "none"
      BY <3>1 DEF WifiInv, ServerInv, ServerTyped, Returning
    <3>3. server_sock = NoSock
      BY <3>2 DEF WifiInv, ServerInv, ServerTyped
    <3>4. Alive = {} /\ socks = {}
      BY <3>2, <3>3 DEF WifiInv, ServerInv, Alive
    <3>5. ~ap_running /\ (leftup \/ (driver = "down" /\ ~air))
      BY <2>2 DEF WifiInv, MainInv, DriverInv, SwitchingOff
    <3> QED BY <2>2, <3>3, <3>4, <3>5 DEF OffIsOff
  <2> QED BY <2>1, <2>2
<1> QED BY <1>1, WifiInvAlways, PTL

\* The timer only asks for WiFi to go off when no station has been reported.
THEOREM TimerAlwaysSparesStation ==
  ASSUME InTime
  PROVE  WifiSpec => TimerSparesStation
<1>1. WifiInv /\ [WifiNext]_wifiVars
        => [TimerFires => stations = {} \/ Unreported \/ crowded \/ leftup]_wifiVars
  <2> SUFFICES ASSUME WifiInv, WifiNext, TimerFires, stations # {}, ~Unreported, ~crowded,
                      ~leftup
               PROVE  FALSE
    OBVIOUS
  <2>1. sta_connected
    BY DEF WifiInv, StationInv, AnswerInv, Unreported
  <2>2. queue \in Seq(QueueEvents) /\ timer = "armed" /\ timer' = "off" /\ queue' # queue
    BY DEF WifiInv, QueueTyped, TimerFires
  <2>3. ~wifi_timeout_handler
    BY <2>1, <2>2 DEF wifi_timeout_handler
  <2>4. ASSUME NEW e, Take(e) PROVE FALSE
    <3>1. Len(queue') = Len(queue) - 1 /\ Len(queue) \in Nat
      BY <2>2, <2>4, PopSeq DEF Take
    <3> QED BY <3>1 DEF TimerFires
  <2> QED
    BY <2>2, <2>3, <2>4
    DEF WifiNext, Wifi, Network, Driver, Server, Post, RecordEvent, RefuseWifi, wifi_on,
        wifi_off, wifi_on_Succeeds, TakeReady, ReadyTimeout, RequestEnable, EnableResult,
        EnableTimeout, wifi_on_Fails, wifi_udp_start, wifi_udp_stop, JoinServer,
        RequestDisable, wifi_off_Ends, HandleResult, HandleStation, wifi_ready_callback,
        DriverEnables, DriverDisables, StationJoins, StationLeaves, OpenSocket, BindFails,
        Serve, StopServing, GiveDone, ServerEnds, serverRest
<1> QED BY <1>1, WifiInvAlways, PTL DEF WifiSpec, TimerSparesStation
=============================================================================
