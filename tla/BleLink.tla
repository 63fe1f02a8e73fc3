------------------------------- MODULE BleLink -------------------------------
(***************************************************************************)
(* The BLE link (ble.c): one connection, its encryption and its bond, the  *)
(* timers that end a link which is not secured or not used, advertising    *)
(* when there is no link, and the firmware update that runs over it        *)
(* (clip_event.c).  The callbacks run in the receive thread of the stack,  *)
(* the works and timers one at a time in the system work queue, the        *)
(* dispatcher in the main loop.  Peers and stack are external.             *)
(*                                                                         *)
(* A callback is one step; a work handler is cut where it calls the stack  *)
(* and goes on with what it knew before.                                   *)
(***************************************************************************)
EXTENDS Integers, FiniteSets

CONSTANTS
    Peers,          \* the phones that may connect
    None,           \* no phone
    Faults          \* the failures a run allows

FaultNames == {"smp", "pool"}

ASSUME BleLinkAssumption ==
    /\ None \notin Peers
    /\ Faults \subseteq FaultNames

ToPeer == Peers \cup {None}

VARIABLES
    conn,           \* ble_ctx.conn: the peer
    secure,         \* the link is encryption level 2
    leaving,        \* bt_conn_disconnect was called
    bond,           \* the bonded peer: CONFIG_BT_MAX_PAIRED is 1
    prev_bond_count,
    knows,          \* history: the peers that were bonded under the WiFi password
    adv,            \* what is advertised: off, fast, slow
    is_fast_adv,
    security_request_work, adv_work,            \* pending or not
    security_timeout, inactivity, adv_timeout,  \* delayable works, armed or not
    wq,             \* the work queue: free, or in security_request_handler
    main,           \* the main loop in ble_adv_restart_fast
    ota_in_progress,
    chunk,          \* a chunk of firmware received and not handled yet
    raced,          \* history: the link was secure before its timer was started
    cleared,        \* history: the bond was cleared under another peer's link
    late            \* history: a chunk was handled after its link

linkVars == <<conn, secure, leaving>>
bondVars == <<bond, prev_bond_count, knows, cleared>>
advVars  == <<adv, is_fast_adv, adv_work, adv_timeout, main>>
timerVars == <<security_request_work, security_timeout, inactivity, wq, raced>>
otaVars  == <<ota_in_progress, chunk, late>>
vars == <<linkVars, bondVars, advVars, timerVars, otaVars>>

Linked == conn # None
Off == "off"
Armed == "armed"

Init ==
    /\ conn = None /\ secure = FALSE /\ leaving = FALSE
    /\ bond = None /\ prev_bond_count = 0 /\ knows = {} /\ cleared = FALSE
    /\ adv = "fast" /\ is_fast_adv = TRUE /\ adv_work = FALSE /\ adv_timeout = Armed
    /\ main = "rest"
    /\ security_request_work = FALSE /\ security_timeout = Off /\ inactivity = Off
    /\ wq = "free" /\ raced = FALSE
    /\ ota_in_progress = FALSE /\ chunk = FALSE /\ late = FALSE

----------------------------------------------------------------------------
(* The connection. *)

BondCount == IF bond = None THEN 0 ELSE 1

\* Mutant: the count is only stored when there is a bond.
connected_CountsBonds(p) ==
    /\ ~Linked /\ adv # Off
    /\ conn' = p /\ secure' = FALSE /\ leaving' = FALSE
    /\ adv' = Off
    /\ prev_bond_count' = IF BondCount > 0 THEN BondCount ELSE prev_bond_count
    /\ security_request_work' = TRUE /\ inactivity' = Armed
    /\ UNCHANGED <<bond, knows, cleared, is_fast_adv, adv_work, adv_timeout, main,
                   security_timeout, wq, raced, otaVars>>

\* Mutant: inactivity is left to the first command.
connected_NoInactivity(p) ==
    /\ ~Linked /\ adv # Off
    /\ conn' = p /\ secure' = FALSE /\ leaving' = FALSE
    /\ adv' = Off
    /\ prev_bond_count' = BondCount
    /\ security_request_work' = TRUE
    /\ UNCHANGED <<bond, knows, cleared, is_fast_adv, adv_work, adv_timeout, main,
                   security_timeout, inactivity, wq, raced, otaVars>>

\* The stack ends advertising when a peer connects.
connected(p) ==
    /\ ~Linked /\ adv # Off
    /\ conn' = p /\ secure' = FALSE /\ leaving' = FALSE
    /\ adv' = Off
    /\ prev_bond_count' = BondCount
    /\ security_request_work' = TRUE /\ inactivity' = Armed
    /\ UNCHANGED <<bond, knows, cleared, is_fast_adv, adv_work, adv_timeout, main,
                   security_timeout, wq, raced, otaVars>>

\* Mutant: advertising is not started again.
disconnected_NoAdvWork ==
    /\ Linked
    /\ conn' = None /\ secure' = FALSE /\ leaving' = FALSE
    /\ security_timeout' = Off /\ inactivity' = Off /\ adv_timeout' = Off
    /\ ota_in_progress' = FALSE
    /\ adv_work' = adv_work
    /\ UNCHANGED <<bondVars, adv, is_fast_adv, main, security_request_work, wq,
                   raced, chunk, late>>

\* The peer goes, or the link is lost, or we asked for it.
disconnected ==
    /\ Linked
    /\ conn' = None /\ secure' = FALSE /\ leaving' = FALSE
    /\ security_timeout' = Off /\ inactivity' = Off /\ adv_timeout' = Off
    /\ ota_in_progress' = FALSE
    /\ adv_work' = TRUE
    /\ UNCHANGED <<bondVars, adv, is_fast_adv, main, security_request_work, wq,
                   raced, chunk, late>>

bt_conn_disconnect == leaving' = Linked

----------------------------------------------------------------------------
(* Encryption and bond. *)

\* bt_conn_set_security: sent, or nothing to do as the link is secure already;
\* without room for the peer's keys all bonds are cleared; any other error is
\* logged only.
security_request_handler ==
    /\ wq = "free" /\ security_request_work
    /\ security_request_work' = FALSE
    /\ \/ ~Linked /\ UNCHANGED <<wq, leaving, bond>>
       \/ Linked /\ wq' = "asked" /\ UNCHANGED <<leaving, bond>>
       \/ /\ Linked /\ "pool" \in Faults /\ bond \notin {None, conn}
          /\ bond' = None /\ bt_conn_disconnect /\ UNCHANGED wq
       \/ Linked /\ "smp" \in Faults /\ UNCHANGED <<wq, leaving, bond>>
    /\ UNCHANGED <<conn, secure, prev_bond_count, knows, cleared, advVars, security_timeout,
                   inactivity, raced, otaVars>>

\* Ten seconds from here, whatever has happened since the request.
StartSecurityTimeout ==
    /\ wq = "asked"
    /\ wq' = "free"
    /\ security_timeout' = Armed
    /\ raced' = (raced \/ secure \/ ~Linked)
    /\ UNCHANGED <<linkVars, bondVars, advVars, security_request_work, inactivity, otaVars>>

security_timeout_handler ==
    /\ wq = "free" /\ security_timeout = Armed
    /\ security_timeout' = Off
    /\ bt_conn_disconnect
    /\ UNCHANGED <<conn, secure, bondVars, advVars, security_request_work, inactivity, wq, raced,
                   otaVars>>

inactivity_timeout_handler ==
    /\ wq = "free" /\ inactivity = Armed
    /\ inactivity' = Off
    /\ bt_conn_disconnect
    /\ UNCHANGED <<conn, secure, bondVars, advVars, security_request_work, security_timeout, wq,
                   raced, otaVars>>

\* ble_activity_refresh: only a secured peer can write or be notified.
ble_activity_refresh ==
    /\ Linked /\ secure /\ inactivity' = Armed
    /\ UNCHANGED <<linkVars, bondVars, advVars, security_request_work, security_timeout, wq, raced,
                   otaVars>>

\* Mutant: the timer goes on.
security_changed_Ok_KeepsTimer ==
    /\ Linked /\ ~leaving /\ ~secure /\ bond = conn
    /\ secure' = TRUE
    /\ UNCHANGED <<conn, leaving, bondVars, advVars, timerVars, otaVars>>

\* The link is encrypted with the bond there is, at the request of either side.
security_changed_Ok ==
    /\ Linked /\ ~leaving /\ ~secure /\ bond = conn
    /\ secure' = TRUE
    /\ security_timeout' = Off
    /\ UNCHANGED <<conn, leaving, bondVars, advVars, security_request_work, inactivity, wq, raced,
                   otaVars>>

\* A bond the peer has forgotten is removed, other errors leave it; all of them
\* end the link.
security_changed_Fails ==
    /\ Linked /\ ~leaving /\ ~secure
    /\ security_timeout' = Off
    /\ \/ bond' = bond
       \/ bond = conn /\ bond' = None
    /\ bt_conn_disconnect
    /\ UNCHANGED <<conn, secure, prev_bond_count, knows, cleared, advVars, security_request_work,
                   inactivity, wq, raced, otaVars>>

\* A new bond. Whether the password is renewed is told by the number of bonds
\* there were when the peer connected.
pairing_complete ==
    /\ Linked /\ ~leaving /\ ~secure /\ bond = None
    /\ bond' = conn
    /\ knows' = IF prev_bond_count # 1 THEN {conn} ELSE knows \cup {conn}
    /\ secure' = TRUE /\ security_timeout' = Off
    /\ UNCHANGED <<conn, leaving, prev_bond_count, cleared, advVars, security_request_work,
                   inactivity, wq, raced, otaVars>>

\* AT+PAIR=reset: the bonded peer loses its link.
ble_clear_bonds ==
    /\ bond # None
    /\ bond' = None
    /\ leaving' = (leaving \/ conn = bond)
    /\ cleared' = (cleared \/ conn \notin {None, bond})
    /\ UNCHANGED <<conn, secure, prev_bond_count, knows, advVars, timerVars, otaVars>>

----------------------------------------------------------------------------
(* Advertising. *)

\* bt_le_adv_start: it fails while there is a connection (CONFIG_BT_MAX_CONN is
\* 1), and changes nothing (-EALREADY) while there is advertising.
bt_le_adv_start(speed, before) ==
    adv' = IF Linked THEN Off ELSE IF before = Off THEN speed ELSE before

\* A bonded device starts slow, and takes itself to be fast.
adv_work_handler ==
    /\ wq = "free" /\ adv_work
    /\ adv_work' = FALSE
    /\ bt_le_adv_start(IF bond = None THEN "fast" ELSE "slow", adv)
    /\ adv_timeout' = IF Linked THEN adv_timeout ELSE Armed
    /\ is_fast_adv' = (is_fast_adv \/ ~Linked)
    /\ UNCHANGED <<linkVars, bondVars, main, timerVars, otaVars>>

\* Slow when the device is idle; otherwise the timer is started again.
adv_timeout_handler ==
    /\ wq = "free" /\ adv_timeout = Armed
    /\ \/ Linked /\ adv_timeout' = Off /\ UNCHANGED <<adv, is_fast_adv>>
       \/ ~Linked /\ UNCHANGED <<adv, is_fast_adv, adv_timeout>>
       \/ ~Linked /\ adv_timeout' = Off /\ is_fast_adv' = FALSE /\ adv' = "slow"
    /\ UNCHANGED <<linkVars, bondVars, adv_work, main, timerVars, otaVars>>

\* ble_adv_restart_fast, for a press that shows the status.
CheckRestart ==
    /\ main = "rest" /\ ~Linked
    /\ IF is_fast_adv
       THEN adv_timeout' = Armed /\ UNCHANGED main
       ELSE main' = "stop" /\ UNCHANGED adv_timeout
    /\ UNCHANGED <<linkVars, bondVars, adv, is_fast_adv, adv_work, timerVars, otaVars>>

StopAdv ==
    /\ main = "stop"
    /\ main' = "start" /\ adv' = Off
    /\ UNCHANGED <<linkVars, bondVars, is_fast_adv, adv_work, adv_timeout, timerVars, otaVars>>

StartFast ==
    /\ main = "start"
    /\ main' = "rest"
    /\ bt_le_adv_start("fast", adv)
    /\ is_fast_adv' = (is_fast_adv \/ ~Linked)
    /\ adv_timeout' = Armed
    /\ UNCHANGED <<linkVars, bondVars, adv_work, timerVars, otaVars>>

----------------------------------------------------------------------------
(* The firmware update: mcumgr_dfu_cb, in the work queue of mcumgr. *)

otaRest == <<linkVars, bondVars, advVars, timerVars>>

\* A peer uploads, from the start or from where it was.
ReceiveChunk ==
    /\ Linked /\ secure /\ ~chunk
    /\ chunk' = TRUE
    /\ UNCHANGED <<ota_in_progress, late, otaRest>>

\* DFU_STARTED, or a chunk behind the start while no update is in progress: it is
\* taken for one that goes on.
DfuChunk ==
    /\ chunk
    /\ chunk' = FALSE
    /\ ota_in_progress' = TRUE
    /\ late' = (late \/ ~Linked)
    /\ UNCHANGED otaRest

\* DFU_STOPPED or DFU_PENDING; what they show is left out.
DfuEnds ==
    /\ ota_in_progress
    /\ ota_in_progress' = FALSE
    /\ UNCHANGED <<chunk, late, otaRest>>

----------------------------------------------------------------------------
WorkQueue ==
    \/ security_request_handler \/ StartSecurityTimeout
    \/ adv_work_handler

Restart == StopAdv \/ StartFast

Next ==
    \/ \E p \in Peers : connected(p)
    \/ disconnected
    \/ WorkQueue \/ security_timeout_handler \/ inactivity_timeout_handler
    \/ adv_timeout_handler
    \/ ble_activity_refresh
    \/ security_changed_Ok \/ security_changed_Fails \/ pairing_complete \/ ble_clear_bonds
    \/ CheckRestart \/ Restart
    \/ ReceiveChunk \/ DfuChunk \/ DfuEnds

Spec == Init /\ [][Next]_vars

\* Works and timers run, the main loop finishes what it does, and a link that was
\* asked to end does. Peers owe nothing.
Fairness ==
    /\ WF_vars(WorkQueue)
    /\ SF_vars(security_timeout_handler) /\ SF_vars(inactivity_timeout_handler)
    /\ WF_vars(Restart)
    /\ WF_vars(leaving /\ disconnected)

FairSpec == Spec /\ Fairness

----------------------------------------------------------------------------
(* Properties. *)

\* Every variable keeps to its type, and without a link there is no security.
TypeOK ==
    /\ conn \in ToPeer /\ bond \in ToPeer /\ knows \subseteq Peers /\ prev_bond_count \in 0..1
    /\ {secure, leaving, is_fast_adv, security_request_work, adv_work, ota_in_progress, chunk,
        raced, cleared, late} \subseteq BOOLEAN
    /\ adv \in {Off, "fast", "slow"}
    /\ {security_timeout, inactivity, adv_timeout} \subseteq {Off, Armed}
    /\ wq \in {"free", "asked"} /\ main \in {"rest", "stop", "start"}
    /\ conn = None => ~secure /\ ~leaving

\* The timer that ends links which were not secured in ten seconds is not running
\* against a link that is, nor left over for the next one, unless the encryption
\* (or the end of the link) came before the timer was started.
SecureLinkKept == security_timeout = Armed => (Linked /\ ~secure) \/ raced

\* A phone that takes over the device gets a WiFi password no other phone has
\* known, unless the bond was cleared while it was connected.
NewOwnerNewPassword == Cardinality(knows) <= 1 \/ cleared

\* A link that is not secured is secured or ends, even if security could not be
\* asked for (FR-3.2.6 of docs/requirements.md).
UnsecuredLinkEnds == (Linked /\ ~secure) ~> (secure \/ ~Linked)

\* Without a link the device advertises (FR-3.7.1), however the works, the timer and
\* the button that stop and start advertising meet, as long as starting it succeeds:
\* nothing tries again.
AdvertisesAgain == ~Linked ~> (adv # Off \/ Linked)

\* An update does not outlive its link: the flag that keeps the card powered
\* (clip_sd_busy) falls, unless a chunk is handled after the link.
OtaEndsWithLink == ota_in_progress => Linked \/ late

=============================================================================
