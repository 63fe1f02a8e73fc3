# A formal model of the reSpeaker Clip firmware

TLA+ modules for the concurrent core of the Clip firmware: recording, file
transfer, the exchange of files over UDP, the one button, the SD card, the
sessions on it and their list, the WiFi and BLE links, and the way of a command
and its answer between the Python SDK and the device. Each module is translated
from the C (and, for the client, Python) source; TLC checks it on small
instances, and TLAPS proves its most important invariants for every instance.
Paths below are relative to the repository; a bare `name.c` is in
`applications/clip/src/`.

    tlc -config Transfer_safety.cfg MCTransfer      (a run)
    tlapm TransferProofs.tla                        (a proof module)

`PROJECT.json` maps every definition to the lines it stands for, and lists the
runs, the hazards, the findings and the theorems.

## 1. The system

The device records speech from two microphones to an SD card, shows its state on
a small display, and is driven by one button and by AT commands over BLE, USB or
WiFi (UDP). A client lists the sessions on the card and downloads their files.

| Thread | Priority | Runs |
|---|---|---|
| main loop (`main.c:353`) | 0 | the event dispatcher `clip_event_process`, then the UI |
| audio (`audio.c`) | 0 | waits for a start, records, closes, signals |
| button driver (`gpio_button.c`) | cooperative | polls the pin after an edge, calls `button.c` |
| system work queue | cooperative | BLE security and inactivity timers, advertising, OTA progress, SD idle power-off, transfer cancel on BLE or WiFi disconnect, USB and WiFi timeouts, reboot |
| transfer (`transfer.c`) | 5 | waits for a trigger, sends files |
| UDP server (`wifi_udp.c`) | 5 | receives packets: AT lines, heartbeats, FILE_ACKs |
| AT server (`at_server.c`) | 7 | one command at a time from a queue of 10 |
| BLE, network management and USB stacks | stack | connection, pairing, station and VBUS callbacks |

The threads meet in: the event queue (8 items; an item carries a pointer to the
poster's semaphore and result, so a synchronous poster waits on its own stack);
the AT queue; the audio thread's flags `recording_active`, `is_paused`,
`stop_requested`, `pause_requested` and its semaphores; the transfer record
`current_transfer`, passed on by `transfer_idle_sem` and `transfer_trigger_sem`;
session.json under its mutex; the card with its flags and `sd_lifecycle_mutex`;
and the CPU boost count.

### Inventory

| Component | State | Operations | What is hard about it | What makes it correct | Module |
|---|---|---|---|---|---|
| Event dispatcher, `clip_event.c` | `g_state`, event queue | post, post and wait, one handler per event by `transition_table`, power-off | posters of three priorities; a handler that waits for another thread | every poster is answered; no item outlives its poster; the state shown is the state of the recorder | Recorder |
| Audio thread, `audio.c` | flags, semaphores, session id, open file | start, stop, pause, resume, segment rotation, error paths | flags and semaphores set in several steps, a stop that times out, errors that end a recording by themselves | file and session closed before IDLE, boost balanced, no stale signal | Recorder, RecordingService |
| Transfer, `transfer.c` | `current_transfer`, two semaphores, cancel flag, "synced" | DOWNLOAD, resume, CANCEL, disconnect, send, retry, finish | four cancellers, a session that is still being recorded, missing and empty files, retries | one owner of the record; only what was acknowledged is counted | Transfer |
| UDP exchange, `transport_udp.c`, `sdk/.../transfer.py` | sequence number, CRC, last FILE_ACK; receiver's file | FILE_START, DATA, FILE_END, FILE_ACK, TRANSFER_DONE | loss, delay, answers without a file number, reassociation | a file at its final path is whole; counted only when delivered; bounded retries | UdpFile, FileDelivery |
| Button, `gpio_button.c`, `button.c` | press count and times, two long-press flags, two notes of the callback | edge, poll, click, double click, long press, power-off screen | edges while polling, a state that changes under the press, two-step power-off | a driver at rest owes nothing; a stopping press does not start; the screen ends | Button |
| SD card lifecycle and USB mass storage, `storage.c`, `usb_cdc.c`, `clip_event.c` | power and mount flags, mutex, LDO2's references | resume, idle power-off, cleanup, remount, format, USB on and off | three operations without the mutex; a check that sees flags only; a counting regulator | rail and flag agree; the card is not cut from a client; the mount is not wedged | SdCard |
| Session store, `storage.c` | directories, `session.json`, bookmarks | create, close, delete, prune, mark, save "synced", power cut | two writers of session.json, delete during a transfer, two-step bookmark | a recorded session is listed, a deleted one gone, no update lost | SessionStore |
| AT+LIST, `at_commands.c`, `storage.c`, `sdk/.../client.py` | ids of one scan, the client's pages | page, prune on the way | pages of a list that changes between them | the pages cover the list; the walk ends | SessionList |
| AT server and its clients, `at_server.c`, `transport_*.c`, `sdk/.../transports/` | queue, peer, `_desynchronized` | connect, request, answer, time out | no request id; a full queue; a peer that has changed | an answer is taken for its own command only | AtServer |
| WiFi, `wifi.c`, `wifi_udp.c` | access point, station, timer, server thread | on, off, timeout, station joins and leaves | waits that time out, a stop that gives up waiting for the thread, a dropped event | off is off; one server thread; unused WiFi goes off | WifiLink |
| BLE, `ble.c` | connection, security, bond, advertising | connect, pair, time out, advertise | timers that race with callbacks | an unpaired peer is dropped, a paired one kept; the device can be found again | BleLink |
| Firmware update, `clip_event.c` | `ota_in_progress` | chunk, stopped, pending | a chunk after the link | the flag falls with the link | BleLink |
| Transport switch `transport.c` | none | calls through a table | - | - | within Transfer, UdpFile, AtServer |
| Configuration `config.c`, battery `battery.c`, haptic `haptic.c`, display `display.c`, `icons.c`, `drivers/display` | settings, readings, screens | read, save, draw, play | floating point, drawing, a delayed pattern | - | not modelled |
| Rest of the SDK, test clients, samples, factory tests, boards, `lib/opus`, `lib/lua`, `lib/speexdsp` | - | - | - | - | not modelled |

## 2. The plan, and where it stands

1. **Recorder** with the abstract **RecordingService**: the most important
   promise of the device is that it shows what the audio thread does, and that a
   recording it shows as ended is closed on the card. *Done*, up to what the card
   refuses, which nobody is told.
2. **Transfer**: the record that six threads share. *Done.*
3. **UdpFile** with the abstract **FileDelivery**. *Done.*
4. **Button**, **SdCard**: two other parts where threads meet. *Done.*
5. **SessionStore** with crashes at every step, **SessionList**. *Done.*
6. **WifiLink** and **BleLink**, the links under the transports. *Done.* They are
   kept apart from Transfer, which takes a link that goes and comes at any time:
   that is more than either link can do, so what Transfer shows holds over both.
7. **AtServer** with the SDK's side of it. *Done.*
8. Proofs: SyncedDelivered of Transfer, the invariants of SessionStore, BleLink
   and AtServer, the step simulations of RecordingService by Recorder and of
   FileDelivery by UdpFile; then the invariants of WifiLink and SessionList and
   the last action properties. *Done.* What stays with TLC is liveness (section 6).
9. Left to model: the transport as a part of the transfer record (section 7), the
   AT commands over USB, the latch of a full card, the stop of an update.

## 3. The modules

### Recorder (MCRecorder), RecordingService

Processes: the main loop (`pc[Main]`), the audio thread (`audio`), the clients
that post and wait, the reboot work. A step is the code between two points where
another thread can see or change something: a queue or semaphore operation, a
write of a shared flag, a blocking call. `Enqueue`, `clip_post_event_sync` and
`GetEvent` are the queue; `ExecStart` ... `ExecPowerOff` the handlers;
`audio_stop_recording` and its followers the stop as seen by whoever calls it
(dispatcher, AT+STOP's fallback, reboot); `TakeStart` ... `SignalDone` the audio
thread. `Faults` says what may fail. The audio thread logs a session that could not
be created or closed, or a file that could not be made, and goes on
(`audio.c:541-549`, `587-603`): the faults "create" and "close", and the history
`refused` names the sessions. Sound and encoding are left out, and with them the
last frames of a file: `storage_close_file` logs a flush or sync that fails and
closes the file all the same (`storage.c`), so "closed" here is closed, not "whole".
`RecordingService` is what the recorder promises: requested, open, closed, none;
"open" is a recording whose audio thread runs, with or without a file.

### Transfer (MCTransfer)

`t` is the transfer thread, `at` the AT server inside `transfer_start`,
`transfer_resume_from` or `transfer_cancel`. A DOWNLOAD starts at the first file,
at the saved count, or at any file its client names (`AT+DOWNLOAD=s:0003.opus`,
`docs/protocol.md:719-745`). `card` says what each file of the session is (closed,
being written, absent, empty), `saved` is "synced" in session.json, `delivered`
a history of the files acknowledged, `dones` counts TRANSFER_DONE. Three more
histories say what a count may include without a delivery: `asked`, the file the
running DOWNLOAD began with; `left`, files that no client has asked for or got
when a count behind them was saved; `unseen`, files on the card that a failing
`fs_stat` made the thread take for missing (fault "stat", `transfer.c:1032`). A file is
sent in one step, as UdpFile has the frames. The code's branch for a single file
has no caller and is left out, as is the second EBUSY check of
`transfer_resume_from`, which nothing can make true while the record is held; the
state PAUSED is never entered.

### UdpFile, FileDelivery

`down` and `up` are the datagrams under way, in order; a CRC over frames is the
set of the frames. `tx` is the device (`SendFileStart`, `SendData`, `EndOfFile`,
`SendFileEnd`, `ResetAck` and the three outcomes of `wait_for_file_ack`), `rx`
the receiver of the SDK. `clean` says that only failures the protocol is made
for have happened. `FileDelivery` is the promise: delivered one after the other,
counted when delivered, complete when all are counted.

### Button

`pin` and `gpio_sem` are the interrupt, `thread` the driver. Time is `press_age`
and `release_age`, in polls, capped one above the last threshold. The callback's
two notes are `poweroff_screen_active` and `recording_stopped`. The dispatcher
appears as the queue it posts to and the table that moves `g_state`; other
clients change it at any time.

### SdCard

`rail` counts the references to LDO2; `sd_powered`, `sd_mounted` are the flags
and `fs` the mount point itself. Each of four threads (AT server, main loop,
work queue, USB stack) is somewhere (`pc`) in an operation (`op`); unmount, the
flag behind it, format, mount and cut are steps of their own. The recorder and
the transfers are what the card sees of them. Three history variables: `leaked`
(references nobody will give back), `missed` (the check of the power-off under
way missed a client that had the card), `raced` (two threads changed the mount at
once). The log backend on the card is taken to be off, and the idle delay of 45 s
longer than one command; no update is in progress (BleLink has `ota_in_progress`).

### SessionStore

The card is `dirs`, `json` (session.json per session), `files`, `marks` (the
count and the entries of marks.bin). The audio thread (`rec`, `sid`, `index`,
`open`) creates a session in six steps, each of which leaves something on the
card and each of which may fail, after which the recording goes on all the same;
it closes it by reading and rewriting session.json; the transfer thread
(`sync`) rewrites it to save "synced"; the main loop (`mark`) raises the count
of bookmarks and appends one; the AT server (`at`) deletes file by file, for
DELETE or for an empty session met by LIST. `PowerCut` may come between any two
steps. `GetSessionInfo` and `BookmarkPage` are what clients are told.
`recorded`, `last_synced` and `added` are what a client was promised, `deleted`
and `gone` the deletes asked for and answered. `unmade` (no session.json could be
made), `lacking` (no first file) and `undeleted` (the card refused an unlink) are
histories of failures that the code logs or ignores. A session.json whose writing
failed is there and blank: LIST counts its files, and no "synced" can be saved in
it. Where the first file could not be made LIST may find no file in a session
that is being recorded, but not yet the current one, and take it away with its
bookmarks. A flush that fails when a file is closed is not modelled. A step is the code between two
calls of the file system, which locks the volume for one call only. Sessions are
numbered in the order of recording: an id is used once.

### SessionList

`AT+LIST?page&per_page` as `ScanSessionIds` (a recursive function: insertion of
the ids in the order of the directory, up to `MaxIds`, as `add_session_id` finds
their places), then one step per item
with its pruning; the client walks as `list_all_sessions` of the SDK does, while
sessions are recorded and deleted. `there` is what had files when the walk began.
The response is text of at most 1024 bytes (`at_commands.c:1048`): it has room for
`Room` sessions at least, and ends there or later; `lost` is what its page still had.

### WifiLink

The main loop inside `wifi_on` and `wifi_off` (`pc`, cut at each blocking call),
the network management callbacks (`HandleResult`, `HandleStation`,
`wifi_ready_callback`), the timer, the driver and the stations (external), and
each thread of the UDP server (`server[t]`), so that two on the one stack could
be seen. Seven failures: no interface, no driver, a request refused, a result that
is bad, one that never comes, no socket, and `net_if_down`, which wifi.c logs
(line 466) or does not look at (lines 352 and 366) and goes on (`leftup` says that the
last one failed). Two further faults stand for premises about time: "late", a
result after the wait for it, and "slow", a server thread that is not done within
the two seconds of `wifi_udp_stop`. A thread's last act, giving the semaphore, is
one step with its end. `dropped` (the timer's event found the queue full) and
`crowded` (two stations at once) are histories.

### BleLink

`connected`, `disconnected`, `security_changed`, `pairing_complete` are the
callbacks of the stack; the works and timers are handlers of the one work queue,
cut where they call the stack; the main loop restarts fast advertising for a
press that shows the status. `knows` is who was bonded under the present WiFi
password. The firmware update is `ota_in_progress` and one chunk on its way.
`raced`, `cleared` and `late` name three orders of events that break what the
code means to hold (section 7). A secured link that is used lives on: only then
does `ble_activity_refresh` arm the inactivity timer again.

### AtServer

A client is a `ClipClient` with its transport: `connected`, `_desynchronized`,
the command it waits for, the answers it has not taken. `up` and `down` are what
is under way; a message carries its link, since what is sent to a closed socket
or a lost link is gone. The device has a queue, the command in hand, and one
peer per transport: the link of BLE, the sender of the last datagram of UDP. A
heartbeat is a message without a command. The fault "overlap" lets a client
connect while a command of its transport is under way, or while another uses it;
"cancel" lets the waiting task be cancelled. Left out: duplicated datagrams, a
disconnect by another task during a wait, USB serial. A BLE connect with its
`start_notify` is one step.

## 4. The runs

| Run | Configuration | Shows | Bounds, and why they are enough |
|---|---|---|---|
| recorder_faults | Recorder_faults | ResourcesBalanced, SyncPostsAnswered, StopReturns, under every fault, with WiFi, power-off, reboot and the AT+STOP fallback | one client and a queue of one: the queue is full with one item, and a fallback, an asynchronous STOP and the reboot are three stops at a time |
| recorder_device | Recorder_device | WaiterHasItem, StateAgreesWithAudio, NoStaleSignal, SessionsClosed, ImplementsService, StartTakesEffect | two clients, two sessions, a queue of two: two posters blocked at once, and a START that takes over from the session before. The card may refuse to create or to close a session or a file. Write errors, WiFi and slow stops are off, because with them the state and the recorder do part (section 7) |
| recorder_resume | Recorder_resume | ResumeTakesEffect is violated (section 7) | the same device without failures |
| transfer_safety | Transfer_safety | OneHolder, OnlyClosedFilesSent, SyncedDelivered, CompletedMeansDelivered, TransferAnnounced | two files, so that a download can begin behind one that was never sent (three, one before, at and after the one in question, in Transfer_more); one error before giving up (10 in the code); a session with a missing and an empty file and one that is being recorded; `MCBoostFloor` ends the model when the boost count has been given back once too often |
| udp_file | UdpFile_faults | SavedIntact, DataLossRecovered, SendEnds, FilesDelivered under all ten failures | two files of three frames, so that an answer can be late for the next file; a modulus of two (4096 in the code) smaller than a file, so that sequence numbers wrap and a loss of a whole round happens; one retransmission (10), two FILE_ENDs (3) |
| button_gestures | Button_gestures | ScreenEndsWithPress, StoppingPressDoesNotStart | thresholds at 2 and 4 polls, second click within 1, a queue of two, two edges counted: every order of thresholds, releases and edges occurs |
| sd_card | SdCard_card | RailBalanced, NotWedged, CardKept | the four threads there are, and no command begins with more than two references to LDO2: one leaked and one in use |
| session_store | SessionStore_card | RecordingsListed, NoLostUpdate, DeletedStaysDeleted, BookmarksReturned, SessionCloses, with failing creations, writes and unlinks and power cuts anywhere | one session of two files and two bookmarks, deleted, listed and transferred while it is created and recorded: a second file or bookmark shows what a failed first one left (two sessions, one on the card from the beginning, in SessionStore_more) |
| session_list | SessionList_pages | PagesCover, WalkEnds | three sessions, two to a page, room for one in a response: a response that is cut off, a second page, sessions that move from the first to the second (four sessions and three ids to a scan, so that the list overflows, in SessionList_more) |
| wifi_link | WifiLink_ap | OneServer, OffIsOff, TimerSparesStation, UnusedApGoesOff under all seven failures | one station, one retry, a queue of two, two network events on their way: the queue is full, results and stations cross, a server ends while the next one is started (two stations in WifiLink_more) |
| ble_link | BleLink_link | SecureLinkKept, NewOwnerNewPassword, UnsecuredLinkEnds, AdvertisesAgain | two phones, both failures: one owner and one who takes over |
| at_server | AtServer_calls | AnswerMatches, BleAnswered | two phones and a laptop, a queue of one, three commands and three connections: a command that is late, one that is refused, one after a new connect |

Deadlock is checked in every run but at_server, whose clients stop when they have
sent `MaxCalls` commands and connected `MaxLinks` times. Counters are capped in guards
by constants (`RailBound`, `EdgeBound`, `MCBoostFloor`, `NFiles`, `MaxMarks`,
`MaxEvents`, `MaxCalls`, `MaxLinks`) or by the code's own limits.

### Further configurations

The same instances with the properties a reader needs less, each of which passes
(`tlc -config <name>.cfg <module>`): `Recorder_more` (MCRecorder: TypeOK,
StopOkMeansClosed, PauseTakesEffect), `Transfer_more` (MCTransfer, three files, every `fs_stat` works: TypeOK,
BoostGivenBack, DoneOnce and the properties of transfer_safety but for liveness),
`Button_more` (TypeOK, RestIsClean, GestureEnds), `SdCard_more` (TypeOK, CommandsEnd,
IdlePowersOff), `BleLink_more` (TypeOK, OtaEndsWithLink), `SessionStore_more` (two
sessions, every failure but "unlink": TypeOK and all of session_store),
`SessionList_more` (four sessions: ListTypeOK and all of session_list), and TypeOK in
`UdpFile_more`, `WifiLink_more`, `AtServer_more`.

Each of the following ends in a counterexample, which section 7 tells:
`Recorder_write_error`, `Transfer_cancel`, `UdpFile_ackloss`, `Button_poweroff`,
`SdCard_host`, `SessionList_room`, `SessionList_json`, `AtServer_reconnect`,
`AtServer_cancel`; and `WifiLink_late` and `WifiLink_slow`, which show what the two
premises about time in WifiLink are for.

### Premises inside properties, and why they are there

What is left out of a property is named by a history variable or a fault, and
what the code does then is in section 7.

- `SessionsClosed` (and `StopOkMeansClosed`) hold up to the sessions the card refused
  to create or to close (`refused`): the audio thread logs that, and the STOP is
  answered OK. Neither says that the last frames of a file were flushed.
- `TransferAnnounced` leaves out a lost link: the code then cleans up in silence.
- `BoostGivenBack` says "no boost held", not "balanced": the boost can be given
  back twice.
- `SyncedDelivered`, `CompletedMeansDelivered` and `OnlyClosedFilesSent` run without
  the faults "flap" (the link drops inside the chunk loop and is back before the
  loop looks) and "rereadLatest" (the second read of session.json fails for the
  session being recorded). Both are in the model, and each breaks all three.
  A file that `SyncedDelivered` counts was delivered, or left out by the clients
  (`left`), or taken as missing (`unseen`, or not on the card);
  `CompletedMeansDelivered` speaks of the files from `asked` on, and not of those
  behind an `unseen` one, as a session being recorded ends at the first file missing.
- `ScreenEndsWithPress` leaves out a lost RELEASE, `CardKept` a client the check
  could not see or a race on the mount, `NotWedged` such a race or a leaked
  reference.
- The properties of SessionStore leave out a session on which a delete began
  while it was being created (`raced`): it is not yet the current one, and
  nothing refuses it; or one that is recorded after its creation failed, which is
  not the current one either. `RecordingsListed` does not ask for an entry in the
  list where session.json could not be made (`unmade`), and neither it nor
  `NoLostUpdate` for the right count of files where the first could not be made
  (`lacking`); that the files are kept and found by the session's name holds there, too.
  `DeletedStaysDeleted` leaves out what the card refused to unlink (`undeleted`).
  `NoLostUpdate` reads session.json where it is whole.
- `PagesCover` leaves out walks in which a session was deleted or the list was too
  long (`excused`), and what a full response cut off (`lost`): with the SDK's default
  of 50 to a page, that is most of a long list (section 7). `PerPage` is at least
  two: with one a page that holds only the recording that has just started is empty
  and ends the walk. The theorem assumes the same (`PageFits`), and nothing of `Room`.
- `TimerSparesStation` leaves out a second station (`crowded`), `UnusedApGoesOff`
  a timer event lost to the full queue (`dropped`). `OffIsOff` says nothing of the
  interface, and `TimerSparesStation` nothing at all, after a `net_if_down` that
  failed (`leftup`); flags, server and socket are down then, too. In WifiLink a result of the
  driver comes before the wait for it is over, or never (else `WifiLink_late`), and a server thread that
  is told to end does so within the two seconds of the wait (else `WifiLink_slow`): it polls every second.
- `SecureLinkKept` leaves out a link encrypted before its timer was started
  (`raced`), `NewOwnerNewPassword` a bond cleared under another phone's link
  (`cleared`), `OtaEndsWithLink` a chunk handled after the link (`late`);
  `AdvertisesAgain` takes advertising to start when the stack is asked and there
  is no link.
- `AnswerMatches` is for clients that connect when nothing of their transport is
  under way and are not cancelled; `BleAnswered` leaves out a command that was refused.

## 5. Fairness

Weak fairness per thread: a thread that can go on does, as the scheduler is
preemptive with priorities and every thread blocks in each round of its loop.
Nothing obliges a user to press or to post, a fault to happen, a link to come
back or a segment to end, with two exceptions: in Transfer a segment being
written is closed some time, as the audio thread closes one every few minutes
while a recording runs; in UdpFile what is under way arrives or is lost. Strong
fairness stands where a thread waits for a mutex, which Zephyr hands to a waiting
thread: the AT server's `sd_lifecycle_mutex` in SdCard, and the audio thread's
`session_json_mutex` in SessionStore, where otherwise only the two steps that
hold it need to go on. In Recorder, Transfer and Button the fairness is over the
whole of a thread, never over one branch of it, so no failure is forced or ruled out.

SessionList: the AT server works, and a client that walks asks for the next page.
WifiLink: main loop, network management, driver, each server thread, and the
timer, which fires unless it is cancelled. BleLink: the work queue and the main
loop's restart; the two timers that end a link strongly, since a work that is
due waits for the queue to be free, which it is again and again; and a link that
was asked to end ends, by the supervision timeout at the latest. Phones owe
nothing. AtServer: the driver's callbacks, the AT thread and the event loop of
the host; not the timeout, so BleAnswered is not satisfied by giving up.

## 6. What is proved

Every theorem holds for all values of the constants under the named assumption
of its module (sizes are positive naturals, faults come from the list, processes
are distinct).

**RecorderProofs**: `TypeCorrect`, `BoostAndFlagBalanced`, `NoFileLeftOpen` from
TypeOK and `AudioInv`, which adds to the two properties that an open file belongs
to a named session; no fault is excluded. `NoItemOutlivesItsPoster` from
`PostInv`: WaiterHasItem is not inductive without `HandEmpty`, which says that
the dispatcher's hand is empty where the next item is taken; a client waits
exactly as long as its one item is in the queue or in the hand.

Three more hold under `Orderly`: no failing write, microphone read or resume, no
slow stop, no reboot, no AT+STOP; every other fault, a session or a file that cannot
be created or closed among them, and every event stays in. They are
`StoppedIsClosed`, `NoSignalLeft` and `NoSessionLeftOpen`, from `OrderlyInv`: only
the dispatcher stops recordings (`MainAlone`); the audio thread is quiet, running,
or being stopped, and which it can be follows from the dispatcher's place (`Stage`);
and while a recording begins the device shows it, so no second START takes its
session id away (`StartShown`). They say "closed": a session the card refused to
create or to close is excused by name (`refused`). Each of the three is false with
any one of the excluded faults or with AT+STOP: TLC finds the counterexample, so
`Orderly` is as wide as it can be on faults.

`StateAndAudioAgree` holds under `Undisturbed`: `Orderly`, the microphone starts, no
WiFi event is posted, and a power-off that is posted does cut the power. Each of
these is needed too. Its invariant `DeviceInv` says that the event in the
dispatcher's hand fits its place and the device state (`AnswersFit`), and that the
state shown, or about to be shown, tells whether the audio thread is quiet or
running (`Phase`). That only events somebody posts are handled is `ItemsPosted`,
which holds without a premise.

The refinement, `RecorderImplementsService`, is under `Ordinary`: no power-off
either, since RecordingService has none. With the one row of the table that an
admitted ordinary event has (`OneTarget`), every step is shown to be a step of
RecordingService or a stutter.

**UdpFileProofs**, with no failure excluded: `UdpTypeCorrect`,
`SavedAlwaysIntact`, `DataLossAlwaysRecovered` and `FilesAlwaysDelivered`, the
refinement of FileDelivery. An answer does not say which file it is for, so the
argument is about turns: of one attempt at a file at most one thing is pending,
its FILE_START, the open file, or the answer under way (`Turn`), and the device
begins another only when nothing is, unless it is cut off. So what is open is the
file the device sends (`FileInv`), and an "ok" speaks of that file (`OkInv`). That
a saved file is whole follows from its size: frames of one file, as many as it
has, are all of it. It needs no sequence number, so the theorem holds for every
modulus, the 4096 of the code included. `CleanInv` says how the two sides are in
step while only recoverable failures have happened.

**TransferProofs**: `OneHolderAlways` from `Baton` (the right to write the record is
in one of four places), `DoneOnceAlways` from `Announced`, `BoostAlwaysGivenBack`
from `BoostBound`, `TransferTypeCorrect` from `TypeInv` (needs Baton: the index is
written by the holder only), and under `Steady` (no flap, no failing second read of
the session being recorded: each of the two breaks all three theorems that follow)
`OnlyClosedFilesAreSent` from `FilesInv` (the file that is open is one that was
closed when it was opened, and a closed file stays closed) and
`SyncedAlwaysDelivered` from `SyncInv`: the open file is the one the index has just
passed and all before it are settled (delivered, not on the card or not shown by it,
or before the file this or an earlier client asked for), between two files all the
index has passed are, and a file that is named but closed belongs to a transfer that
goes no further. `CompletedAlwaysMeansDelivered`, a property of steps, follows from
the same and from the gap between two files (`NoGap`): what the index has not passed
when a transfer completes is not on the card, or behind a file that `fs_stat` did
not show. A DOWNLOAD may start at any file. It needs `Counted`: when the second read
of an old session fails and the DOWNLOAD is refused, the woken thread has no total,
and a session whose first files, more than `MissingLimit` (10 in the code) of them,
are missing completes without the later ones (TLC shows it with three files and a
limit of one).

**ButtonProofs**: `ButtonTypeCorrect`, `RestIsAlwaysClean`, `ScreenAlwaysEnds`,
`StoppingPressNeverStarts`. `DriverInv` relates the press count, the two
long-press flags and the edges not yet seen: an owed RELEASE always has an edge
to come or one counted. `ScreenInv`, `StopInv`, `LongInv` tie the callback's two
notes to that.

**SdCardProofs**: `SdCardTypeCorrect`, `RailAlwaysBalanced`, `NeverWedged`,
`CardAlwaysKept`. `HolderInv` says who has the mutex, and that a power-off works
on a powered card, so that the reference it gives back exists; `AloneInv` that
without a race one thread changes the mount; `MountInv` that the mount point
then follows its flag (the step where a mount finds the rail up needs
RailBalanced); `KeptInv` that nobody gets the card while it is powered down.

**SessionStoreProofs**, with no fault excluded, creations, unlinks and the power cut
included: `StoreTypeCorrect`, `RecordingsAlwaysListed`, `NeverLostUpdate`,
`DeletedAlwaysStaysDeleted`, `BookmarksAlwaysReturned`. None of the properties is
inductive. `StoreInv` adds what the row of each kept session looks like at each
place of the threads: a session.json that is right as soon as there is one
(`SessionOK`; a blank one counts nothing); the files and the session.json of the
recording under way, step by step (`UnderWay`); what the transfer thread has read is
still what is there (`ReadOK`, with `LockInv`: the mutex has one owner); what LIST
takes away is empty (`TargetOK`), and a session under deletion is not the one under
way and has lost its parts in order (`AtInv`); every bookmark is where it was added
and behind a file (`MarksOK`, `MarkInv`), and a count is no smaller than its entries
(`CountInv`); what is gone stays gone (`GoneInv`). What failed is excused by the
history that names it, session by session: the invariants speak of a session with
its failed parts, they do not leave it out.

**LinkProofs**, both links. BleLink, with no fault excluded: `BleTypeCorrect`,
`SecureLinkAlwaysKept`, `NewOwnerAlwaysNewPassword` (whoever knows the password is
bonded, or there was no bond when the present peer connected),
`OtaAlwaysEndsWithLink`. WifiLink: `WifiTypeCorrect`, `OneServerAlways`,
`OffAlwaysOff`, `TimerAlwaysSparesStation`, for any number of stations, retries
and queue places, under `InTime`: neither "late" nor "slow"; every other failure,
`net_if_down` included, stays in. None of them is inductive; `WifiInv` ties the place of the main
loop in `wifi_on` and `wifi_off` to what the driver and the flags are there
(`MainInv`, `DriverInv`), a request to its one answer (`RequestInv`, `AnswerInv`),
the main loop to the thread it started or waits for (`ServerInv`: a thread is
alive only while its stack is spoken for), and the timer to `sta_connected` and the
stations' events still to be handled (`StationInv`).

**AtServerProofs**, the server and its AT+LIST: `AtTypeCorrect` for all faults;
under `Calm` (neither "overlap" nor "cancel") `OneCommandPerTransport` and
`AnswerAlwaysMatches`. Nothing identifies an answer, so what makes it the right one
is that at most one command of a transport is under way (`OneInv`), which holds
because a client sends only in sync (`SyncInv`): after the answer to its last
command, or after a connect that found nothing under way. Of SessionList, for cards,
lists, pages and responses of every size, `ListTypeCorrect`, and `PagesAlwaysCover`
under `PageFits` (`PerPage` is two at least). The list is always in descending order
without repetitions (`ScanInOrder`), so the place of a session is the number of
newer ones on the card (`PlaceIsRank`), and as none is deleted that number only
grows: a session the client still lacks is behind the pages it has seen
(`BetweenPages`), or still to come on this one (`InGoodPage`), or was cut off a full
response. `ScanInOrder` is a fact about a recursive function for every length of the
directory. The induction theorems of the library are out of reach, since they take
an operator; it is shown of the smallest length for which it would be false
(`LeastNumber`, from the well-foundedness of the numbers).

Proved, then, under the assumptions named above, is every invariant and every action
property that a run checks, and that each step of Recorder and of UdpFile is a step
of its abstract specification or a stutter. Only model-checked: the liveness
properties (SyncPostsAnswered, StopReturns, StartTakesEffect, TransferAnnounced,
SendEnds, SessionCloses, WalkEnds, UnusedApGoesOff, UnsecuredLinkEnds,
AdvertisesAgain, BleAnswered, and GestureEnds, CommandsEnd, IdlePowersOff and
PauseTakesEffect of the further configurations) and the fairness of
RecordingService, since fairness and ENABLED are beyond the prover.

## 7. Where code and documents part

Each of these ends in a counterexample: the first is a run, the others are the
further configurations named with them.

- *Recorder_resume*: a RESUME before the pause is complete is answered OK and
  lost (`audio.c:360`); the device shows RECORDING with the microphone off.
- *Recorder_write_error* (RecordingGoesOn): a write error ends the recording
  (`audio.c:842`) and nobody tells the dispatcher; `docs/architecture.md:906` says
  it goes on without storage.
- *Transfer_cancel* (CancelEnds): AT+CANCEL between its flag and its state,
  overtaken by the end of the transfer, leaves the state ERROR behind for ever
  (`transfer.c:450`), and a new download finds the thread busy;
  `docs/architecture.md:462-464` has a fresh download work after a cancel.
- *UdpFile_ackloss* (AckLossRecovered): a lost FILE_ACK makes the device repeat
  FILE_END, which the SDK's receiver takes as fatal.
- *Button_poweroff* (ReleasePowersOff): an edge counted while the driver polled
  makes it take the end of a long hold for a click, and the power-off screen stays armed.
- *SdCard_host* (HostAlone): a card command mounts the card that USB mass storage
  has lent out.
- *SessionList_room* (WalkComplete): the response holds 1024
  bytes (`at_commands.c:1048`), about 13 sessions; `per_page` may be 50
  (`docs/protocol.md:572`), and is by default in the SDK (`sdk/src/clip/client.py:247`).
  What does not fit is on no page: the walk ends without it.
- *SessionList_json* (ResponsesParse): a session that has no file yet, on the
  first place of a page, leaves its comma behind (`at_commands.c:1061`), and the response is
  not JSON (`docs/protocol.md:37`).
- *AtServer_reconnect* (AnswerMatches with "overlap"): a command times out, the
  client disconnects and connects, and then its answer comes: it goes to the new
  link and is taken for the answer to the next command. The same happens when
  another client takes over the transport. `sdk/docs/architecture.md:22-26` says
  that a new connection prevents it, and no answer carries a request id.
- *AtServer_cancel* (AnswerMatches with "cancel"): a cancelled wait passes by the
  handler of TimeoutError that marks the client as desynchronized.

- *WifiLink_late* (OffIsOff) and *WifiLink_slow* (OneServer): what the time limits rule
  out. A result after the wait for it sets `ap_running` with the device in IDLE; a
  thread that needs more than two seconds shares its stack with the next one.

Met while modelling, without a configuration of their own:

Transfer and UDP
- AT+DOWNLOAD=s:0003.opus stores 3 in "synced" when file 3 is acknowledged, though 1
  and 2 were never sent (`transfer.c:411-418`): a download that resumes begins at 4.
- An `fs_stat` that fails is taken for a file that is missing, and the file is skipped
  and counted (`transfer.c:1032`).
- A DOWNLOAD sets `current_transport` before it finds a transfer running
  (`transfer.c:185`): refused as busy, it has sent the running transfer the other
  way, where `at_commands.c:1421` has it use "the transport that received the command".
- A lost link resets the transfer without saving "synced" (`transfer.c:684`;
  `docs/requirements.md:295` asks for an update on each successful transfer).
- A failing second read in `transfer_start` (`transfer.c:275`) reports an error,
  and the woken thread sends the session all the same and gives the CPU boost
  back twice, which may take the audio thread's.
- A link that drops inside the chunk loop and returns makes the thread skip a
  file that is then counted (`transfer.c:746`).

Card and sessions
- AT+USB=on then off takes a second reference to LDO2 (`storage.c:422`): from
  then on the idle power-off clears its flag and the rail stays up. The device
  tree (`clip_nrf5340_cpuapp.dts:206`) wants one disable for each enable.
- After the idle power-off, AT+USB=on gives the host a card without power (`usb_cdc.c:234`).
- The table lets WiFi start from PAUSED (`clip_event.c:66`), where
  `docs/requirements.md:460` has it from IDLE only; coming back to IDLE leaves the
  paused recording alive.
- Session ids are the second of the start; with the time unset, or twice in one
  second, they collide (`audio.c:284`). The models take them as used once.
- With more than 200 sessions the scan ends in the order of the directory, so
  that the newest may be the ones left out.
- DELETE of an unknown id answers `deleted: true`; `docs/protocol.md:634` lists
  "Session not found".
- A DELETE cut by the power after session.json is gone leaves audio on the card
  that no LIST shows.
- A first file that could not be created is counted all the same (`audio.c:545-549`).
- A session.json that could not be made is only logged (`audio.c:541-543`): the recording goes
  on, and no list shows it until its end is written. While it goes on nothing
  refuses a DELETE of it, since it is not the current session.
- DELETE ignores a failing unlink and answers OK (`storage.c:1520-1529`).
- A close whose flush fails, or an update of session.json that fails, is logged, and
  the STOP is answered OK (`audio.c:587-603`, `storage.c:594-617`).

WiFi and BLE
- The timer's WIFI_OFF on a full queue is lost and the timer not armed again
  (`wifi.c:55`); FR-3.3.6a (`docs/requirements.md:235`) and
  `docs/protocol.md:1142` know no exception.
- An interface that could not be taken down is logged at most (`wifi.c:352`, `366`, `466`),
  and WiFi is shown as off.
- `sta_connected` is one flag for all stations: the second one that leaves starts
  the timer against the first. A WIFI_OFF of the timer that is still queued when a station
  joins, or when WiFi has been turned off and on again, cuts it off.
- `wifi_ready` stays true after a `wifi_on` that failed, so that the next one does
  not wait for the driver (its request is then refused, and tried again).
- A link that the phone encrypts before the security timer is started is ended
  ten seconds later (`ble.c:136`): nothing cancels the timer.
- Advertising that could not be started is not tried again until the next event.
- A bonded device starts advertising slow and notes it as fast, so that a press
  of the button only prolongs it (`ble.c:359`; `docs/architecture.md:563` has it fast first).
- A full pool of keys clears all bonds, whichever peer connects; the comment
  (`ble.c:120-126`) speaks of a bonded peer.
- AT+PAIR=reset over WiFi or USB while another phone is connected and not bonded yet leaves the
  new owner the old password (`ble.c:568`).
- A chunk of firmware handled after its link sets `ota_in_progress` with nothing
  to end it (`clip_event.c:177`): the card is then never powered down. No code
  enters the state OTA, which three tables provide for.

Commands
- A command that finds the queue full, or has 256 bytes and more (the SDK allows
  512), gets no answer (`at_server.c:345`).
- A line over USB that is longer than 255 characters is cut and executed.
- The UDP peer is the sender of the last datagram and never forgotten while WiFi is on.

## 8. Not modelled

The application in `applications/clip/src` and the SDK's client are modelled as
section 1 lists. Most lines of the repository are elsewhere: `lib/opus`,
`lib/lua` and `lib/speexdsp` are third-party libraries that this program calls
(a model of a codec, of a language or of a filter would say nothing of the device),
and the samples, factory tests and boards share no code with the application.
Floating point and drawing (battery, display), pure input and output (haptic,
configuration in flash) and host tools have no behaviour that depends on the order of
steps; `config.c` is read as constants. Within modelled parts: AT commands over USB, the file
lists of a session, free space and the latch of a full card, DHCP and
coexistence, characteristics and MTU of BLE, the state callbacks of an update
other than its flag (SdCard takes `ota_in_progress` to be false). These are
listed with their component in PROJECT.json.
