# Specifications of the dehumidifier firmware

TLA+ modules for the firmware in `src/`: an ESP32 that reads two SHT3x sensors,
drives two fans, serves a web page and a WebSocket on the local network, and
takes new firmware from an update service over a WebSocket client. The program
is a handful of FreeRTOS tasks on two cores that share plain globals; most of
what can go wrong in it lies between two of them. The modules follow the code
statement by statement where tasks meet and leave out what only formats or logs.
Line numbers below are of files under `src/components/`.

## The system

| Component | State | Operations | Hard part |
|---|---|---|---|
| Session pool (`SocketSessionPool`) | stack of free slots, map from descriptor to slot | add, drain, clean, count, broadcast | two structures kept in step; broadcast and clean from other tasks |
| HTTP server (`HttpServer`) | server handle, its sockets, the pool, the queue of answers | start, stop, handshake, frame, close | only CLOSE frames drain the pool |
| WebSocket client (`WebsocketClient`, `esp_websocket_client.c`) | `_inited`, `_started`, `_connected`, event bits, the client's own task | init, deinit, start, stop, send, events | stop against its own task, failures that keep a semaphore |
| Updater (`AppUpdater`) | `_state`, write flag, digest, flash partitions | update command, one step per message | crash at any step, messages that mean something else, two commanders |
| Command engine (`CmdEngine`) | two shared buffers | read, execute and answer a command | executed by two tasks; answers are sent later; messages that end too early |
| Fan control (`humid_control_task`, `setFanMode`) | mode, thresholds, countdown, fans | set a mode; one pass a second | unlocked globals |
| Peripheral pause (`pausePeripherals`, `resumePeripherals`, `sht3x_sensor_task`) | a flag and a task state | pause, resume, sample | a handshake without a lock |
| Sensors and bus (`SHT3xSensor`, `I2cPeripherals`) | readings, one receive buffer, failure count, power stamps | init, measure, receive, power reset | two sensors share everything; a sensor may not answer |
| Daemon (`daemon_task`) | four request flags | restart, stop and reinit on request | waits for everybody to be gone |
| Wi-Fi (`Wifi`) | configuration, ring of alternative access points, counters | append, clear, next, events | ring indices, giving up |
| System data (`System`, `NvsFlash`) | one record in RAM and in NVS, a flag "to be saved", lifetimes, save count | setters, save, load | partial failure, crash, saves of several tasks at once |
| Mobile tokens | ring of tokens | set, find | ring indices |
| Start-up and time (`System::init`, `SNTP`) | what exists already, the event group | launch tasks, wait, synchronise | order kept by a delay |
| MQTT client, message pool | topics, pool of unacknowledged messages | publish, acknowledge, repeat | compiled out (`ENABLE_MQTT_TASK` is not defined) |
| Packing, display, digest, crypto, logging | small or none | | formatting and byte arithmetic |

How they meet:

* `httpd` (the server's task) and the WebSocket client's task both call
  `CmdEngine::interpretSocketMsg`, so two tasks execute commands. While an update
  is on, messages of the client go to `AppUpdater::updateLoop` instead.
* The updater pauses and resumes the peripherals, reports codes to the clients
  of the HTTP server (`handleUpdateRetCode`, a broadcast over the session pool
  from the client's task), and asks the daemon to stop the client or to restart.
* The daemon restarts only when the client is disconnected and the pool is empty;
  `System::restart` saves, pauses the peripherals and does not return.
* `setFanMode` is called by either command task; `humid_control_task` reads what
  it stored, and the readings `sht3x_sensor_task` published.
* `http_task` starts the server, and makes the client anew when its connection failed.
* `wifi_task` makes the event group on which `http_task` and `sntp_task` wait.

What makes each correct:

* pool and server: a set with a limit, no slot lost or shared over any number of starts
  and stops; who said goodbye is out, who was let in is listed, and a broadcast reaches whoever stays listed;
* client: `_connected` means a connection; a dead client is replaced; none is freed
  under its own task; an update that succeeded restarts the device;
* updater: whatever happens, what is booted is a complete image; the digest that
  is compared is the digest of the flash; an update ends;
* engine: a command uses its own arguments and gets its own answer;
* fan control: what was set takes effect; a delay ends; humidity drives the fans;
* pause and sensors: after a pause nobody is on the bus; it returns; a reading is the
  sensor's own; a hung sensor is brought back;
* Wi-Fi: the ring is a list of the last access points set; a reachable one is found;
* system data: what was set is kept, what is saved at once survives a crash, and the
  device's life is counted once;
* start-up: nobody uses what is not made yet; all tasks get going; the station uses
  what was stored.

## Modules

Each component's module is named for the class or function it models, the
actions for the operations. `MC...` modules hold constants for TLC, `..._proofs`
modules the theorems. Definitions introduced by a comment "Slip:" are
variants of the definition that follows, each with one plausible mistake; nothing
refers to them. Replacing the definition by its slip must break the property
named with it in `PROJECT.json`.

### SessionSet, SessionPool, HttpSessions

`SessionPool` is `SocketSessionPool`: `freeSlotStack` and `stackTopIndex` are the
array and its top, `fdMap` the map as a function whose domain is the live
descriptors. `HasFreeSlot` is as in the code, so a pool of `Capacity` slots holds
`Capacity - 1` sessions. `SessionSet` is what a caller sees: a set with a limit, which
holds until an emptying by one task overlaps with an addition or a removal by another
(`bounded`).

`HttpSessions` puts the server around it. `conn` says what each descriptor is to the
server. `http_task` runs `StartServer` and then the `clean()` of `HttpServer::start`. The handlers
are registered before it, so a client may come between or during it, and what it writes
are three steps: `ClearAtStart` (the map), `RefillAtStart` (the stack) and `ResetAtStart` (its
index). The daemon runs `StopHttpd` and `CleanAtStop`, which is one step because the
server's task has ended. That task runs `Accept` (with all sockets in use it closes the
least recently used one, which may be any), `Break`, and two calls of the pool:

* `addSession` is `Handshake` (the find and the check of the index), `PopSlot` and
  `InsertSession`;
* `drainSession` is `CloseFrame` (the find), `PushSlot` and `EraseSession`.

`handler` is where the task stands in a call and what it has loaded. An index or a slot
loaded before a store of `clean()` may be used after it, or loaded again. `operator[]` puts back
an entry that was cleared since the find, and the erase that follows goes through an
iterator of the freed entry (`strayed`), so the new one may stay. `torn` is history: a step
of `clean()` of start fell into a call or the other way round; the next stop makes good for it.
A call on the `std::map` itself is one step; two that overlap inside it may crash, which
is not in the model.

Closing a connection without a CLOSE frame does not tell the pool: the descriptor stays
listed (`cut`) until a client with the same descriptor comes or the pool is cleaned.
The broadcast of the updater's codes walks the map one entry at a time from the
client's task. An erase of the entry it stands on leaves it astray: it then goes on
anywhere behind or ends, which is what reading a freed node can look like short of
a crash.

### WsClient

The wrapper, the library's task and the three tasks that use them. The library's task:
`Connect`, `Receive`, the ways a connection ends (`ReadFails`, `PongTimeout`,
`EchoClose`, `WaitExpires`), `LeaveLoop`, `SetStopped`, and `TailEnds`, the lines after
`STOPPED_BIT` was set. `http_task` polls `_reinitRequired`, frees and makes the client
(`Deinit...`, `Destroy`, `InitAgain`, which may fail and then keeps the semaphore).
The server's task starts the client for an update and sends. The daemon stops client
and server and restarts. An update itself is `UpdateEnded` here, and the link is the
`linked` of `AppUpdater` there: the two meet in the fact that the client's handler is
called for each message, on the library's task.

### FlashContract, AppUpdater

`AppUpdater` has the RAM of the updater (`state`, `index`, `amount`, `newSize`,
`md5`), the flash (`content` of each partition, `boot`), the partition that is
`running`, the progress `pc` of each task executing the update command, the link
(`started`, `linked`, messages under way `rx`) and the flag for the daemon.

* The command is four steps, because `update()` blocks twice: `UpdateFirmware`
  (the test of `isUpdating`), `InitAndCheck`, `AwaitVersion`, and `SendUpdateCmd`
  or `SendUpdateCmdFailed`. Between them the handler of the client runs.
* `updateLoop` is one action per outcome of one message: `RxAlreadyLatest`,
  `RxNewVersion`, `RxBeginFailed`, `RxMismatched`, `RxTooLarge`, `RxWriteFailed`,
  `RxBlock`, `RxLastBlock`, `RxVerifyFailed`, `RxComplete`, and `RxIdle` when it
  goes to the command interpreter.
* A message is read as whatever the state expects. `AnnouncementRead` and
  `IndexRead` give what the bytes of a message of another kind can be taken for.
* `Fragment` cuts a block in two DATA events, as a short read does.
* `Reboot` may happen at any state and keeps only the flash: it stands for the
  daemon's restart, a crash and a power cut.

An image is a sequence of units and MD5 is injective on images and garbage: the
model says nothing of collisions. Units stand for bytes; sizes are counted in units.
The service answers each request, once; delay is the queue, loss is `LinkDown`.

`FlashContract` says what any updater may do to the flash: fill partitions
neither booted nor running, select a complete image, restart.

Not in the model: `esp_ota_get_next_update_partition` returning none
(198-203), which the two-OTA table excludes; the texts and percentages.

### FanControl

`setFanMode` is one step per store (`StoreField` in any order: nothing orders the
stores to plain members), then the reset of `_currentMode`, ordered after them by
the call that logs. `humid_control_task` is `Compare`, the four ways to apply a
mode, `Mark`, `Control` and `Tick`. `Mark` and `Control` load the mode again or
reuse the load of `Compare`, where the compiler may do either. Minutes and
humidity are whole numbers; `SecondsPerMinute` scales the countdown.

### PeripheralPause, Sensors

`PeripheralPause` has the flag, the task state and the sensor task's loop, with each
store of `pausePeripherals` and `resumePeripherals` a step. `Pausers` are the client's
task, in an update, and the daemon, in a restart; `Resumers` are the tasks
in which the updater gives up (`_retCode`, AppUpdater.cpp:133-135). `_statusTaskState` never leaves
`TaskEmpty`: its task is commented out. The history variables `quiet` and
`lateMark` are read by properties only.

`Sensors` extends it with what the task does between its marks: `SHT3xSensor::init`,
which repeats until the sensor acknowledges and cycles the power of both meanwhile, the
measurement and the reception, with the CRC and the one buffer both share. A power
cycle is synchronised by stamps: a sensor asks for one only when it has seen the last
(`behind`). A sensor hangs (until its power is cycled), goes, comes back, or its bytes
are garbled, at any time, `MaxFaults` times in all. Nobody else takes `Semaphore::i2c`,
so a transfer is one step. What the bus does in the task is a step of the handshake or
a stutter, which is proved.

### CmdEngine

A message is a command and what of its arguments could be read; the commands are
grouped by what `_parseJsonStringCmd` reads for them and by where `execCmd` has the
answer. A task takes a message (`TextMessage` stores the arguments into the one
`_cmdBuf`; `BinaryMessage` leaves them where the message stands), executes it and, for an
answer, writes `_strBuf` and queues a job that points to it. `SendJob`, on the server's
task, reads the buffer only then. An argument and an answer are the number of the command
they belong to. A message may end before its arguments do: a binary command of two bytes is
accepted (CmdEngine.cpp:388) and `execCmd` never looks at `argsSize`, and a JSON text may be cut in
the middle of a value. What is read then stands behind the message in the
WebSocket client's buffer, which is never cleared: `tail` says whose bytes these are, and
`MayEnd` lets them be any earlier message's or nobody's. The server's task has zeroed
memory for each frame. `rivals` is history: the unbroken series of overlapping commands each
one is part of, an answer that waits in the queue included.

### SystemData, MobileTokens

`data` is `System::_data` without the lifetimes, `flash` the blob in NVS, `wifi` and
`wifiFlash` the Wi-Fi configuration and its copy with the save count. A command changes
its field and marks (`Store`, `Mark`) or saves at once: `setFanMode` stores the mode
(`SetFanMode`), then the value that goes with it (`SetFanValue`), and saves like any other; `SetWifi` is
followed by `SaveConfig` and `SaveCount`. A save brings the lifetimes up to date, writes the blob and
takes the mark back (`WriteBlob`, `ClearMark`), each a step of its task. `_calculateMaintenance`,
which the answer to `GetDeviceInfo` calls as well, is five steps: the clock is read
(`ReadClock`), the session's known life subtracted (`TakeDifference`), the device's loaded
(`AddToLife`) and stored (`StoreLife`), and the clock's value kept (`KeepSessionLife`); another task may do
all of its own between any two. `restart` is `RestartBegins`,
`SaveMemoryData` and the pause, in which the other tasks go on. NVS can fail at every
call and be erased when it is opened; `Boot` may come at any point. `MobileTokens` is the
ring of tokens, as operators on the record that is saved. Uncalled functions
(`powerOff`, `turnWifiOn`, `toggleWifi`, `toggleDeployMode`, `setDevCapability`,
`deepSleepReset`, the group argument of a token) are left out; the bodies of
`setSensorType` and `turnDisplayOn` are commented out.

### Startup

`Program` is `app_main`, `System::init` and `_launchTasks` as a sequence of statements:
what each makes, which task it launches, and the delay of 100 ms. A launched task runs
at once. `NvsInit` may erase what is stored. `wifi_task` loads the configuration; when there is none,
or the load fails for whatever reason (NvsFlash.cpp:54-91), it makes and saves the default one
(`unread` is history: something was stored and could not be read). Then it makes the
event group and starts the driver; `http_task` and `sntp_task` wait on the group, and abort
when it does not exist; `sntp_task` looks at the clock `Trials` times and begins again.
`Reboot` keeps the flash. `hurried` is history: the delay ended before the event group
was made, as it can, since nothing but time keeps it from doing so.

### AltApList, WifiStation

`WifiStation` has the configuration `conf` of `Wifi` (the ring and the station's own
entry), the copy in the flash `saved`, the counters in RAM, and what the driver was
given. An entry is an SSID and a password; that they were set together shows as
equal names.

* A command stores the SSID, then the password (`AppendAltAp`, `AppendPass`), then head,
  next and count in any order (`Publish`: no call lies between them), for
  `SetStaSsidPass` the station's entry, and saves.
* A disconnection is one step while it only counts. From the third failure on it is
  `CountRound`, `Load`, `LoadPass`, `SetConfig` and `StoreNext`, because each reads or
  writes what a command may be changing.
* `Restart` loads the flash; it stands for any reboot or crash.

`AltApList` is what a user sees: a list, newest first, that forgets its oldest member
when full, and a saved copy. An append counts from its first store on, because
in a full ring that store overwrites the oldest member: `Alternatives` is the ring
seen from where the append will leave it.

One task executes these commands here. The driver is external: `OnStaGotIp` and
`OnStaDisconnected` happen as it likes, only a mixed entry never connects.
`_autoreconnect` is always set, since nothing calls `disconnect`; the `_started` flag is
stored right after `esp_wifi_start`, long before a first attempt can fail, and is
true throughout.

## Runs

| Run | States | Asks |
|---|---|---|
| `HttpSessions` | 3.70 million | slots accounted for and the limit kept unless `clean()` of start met a call; nobody listed who said goodbye, everybody listed who was let in; a stopped server's pool is empty; a broadcast reaches who stays |
| `AppUpdater_safety` | 2.07 million | bootable at every instant, digest follows flash, `FlashContract` |
| `AppUpdater_live` | 230 000 | every update that stays connected ends |
| `AppUpdater_two` | stops at a violation | bootable, with two tasks executing commands |
| `FanControl` | 1.33 million | what is lost is lost by an overlap; a delay ends; humidity drives the fans |
| `WifiStation` | 962 000 | the ring is a list; reconnects stay in it; what is in range is found; giving up is after all were tried |
| `WifiStation_listing` | stops at a violation | the list shown is the list |
| `WsClient` | 123 323 | `_connected` is a live connection; a dead client is noticed and replaced, never freed under its task; an update restarts the device |
| `SystemData` | 3.82 million | settings are kept or marked; saved at once means saved; a restart takes nothing back; the life is counted exactly, by one task at a time |
| `CmdEngine` | 855 727 | a command uses its own data, those of its series, or what stands behind a message that ends too early |
| `Sensors` | 340 571 | quiet while paused unless a late mark; a reading is the sensor's own; recovery; a pause returns |
| `Startup` | 56 834 | nothing used before it is made; the station is as stored, and what is stored is written over only if it could not be read; start-up ends |

Bounds, and why they are enough:

* `HttpSessions`: a pool of three slots, two of them given out, as four of five are in the
  code; three sockets and four descriptors, so that a client is let in that the
  pool has no room for, sockets are purged, and a descriptor is used again. Starts, stops and
  clients are not bounded.
* Updater, safety: versions 0 to 2, so that an update can follow an update and
  be older than what runs; image 1 takes two blocks with a short second one,
  images 0 and 2 one short block; two messages under way, so that a late one
  meets a new request. `MaxRx` is a guard of the actions that lengthen the queue
  on their own. Liveness: one version newer, of two units.
* Fan control: two setters, one fan (fans do not interact), two levels, two pairs
  of thresholds with and without a band, a minute of one second. `NoThreshold` is
  above every level as 999 is above every humidity.
* Wi-Fi: a ring of three, the least at which its two directions differ; it starts
  with one, two or three members, so that two commands or restarts (`MaxChanges`) fill
  it, overwrite its oldest and clear it. Two names. One failure instead of three moves
  on and two rounds instead of a thousand end it: two are needed for a round to be
  interrupted and another to follow.
* `WsClient`: two update commands, the second of which may come in the middle of the end
  of the first, and two updates that end with a request to the daemon.
* `SystemData`: two tasks (interchangeable, hence the symmetry) and the daemon, two commands,
  two values of each setting, one failure of NVS, one boot, one second of life; a restart
  begins only while a boot is left for it; two tokens
  and a ring of one place, so a token replaces another; the save count takes two values (`Counts`)
  instead of 2^16, so it wraps in the run.
* `CmdEngine`: four messages, so that a series of overlapping commands has a first, a last
  and one between them that meets only one of the two; two places in the queue, so that
  it is full. A message that ends too early has every earlier one behind it in some run.
* `Sensors`: two pausers and one task that resumes; two faults, so that the second sensor
  fails while the first recovers; three power cycles instead of a thousand.
* `Startup`: two starts, the first of which may end anywhere; two looks at the clock a round.

Deadlock is not checked where a bound ends the run or the device may really be done
(`WsClient` after the restart, `Sensors` when a sensor that is gone is waited for); the
other runs check it.

Fairness. A task that can go on does: FreeRTOS runs the tasks of equal priority in
turns on two cores and every loop ends in a delay. `FairSpec` of `AppUpdater` has
weak fairness for handling a message, for each step of a command begun and for
the daemon's stop; nothing makes the link come up or a command be given. That
the service answers is in the model of it (a request puts the answer in the
queue), as is that an answer is lost only with the connection. `FairSpec` of
`FanControl` has the control task only. `BusSpec` of `Sensors` has the sensor task and the
callers; a sensor need not answer, and the properties name the sensor that does not.
`FairSpec` of `WifiStation` has the command and the handler
begun, and of the driver that an attempt ends: with the access point `Near`, which stays in
range, one of infinitely many succeeds; with another, one ends by a counted reason
(an absent access point gives `NO_AP_FOUND`, a wrong password `AUTH_FAIL` or a timeout).
`Spec` of `WsClient` has the library's task, the tail of one that ends, and the three
tasks of the application, each by itself; that a task begun connects or fails is part of
it (the transport has a timeout), and that the Wi-Fi on which `start` waits comes up.
`Spec` of `Startup` has each task, the driver's report that it started, and a time server
that answers as long as it is asked.

## What the runs found

* **Two updates at once** (`AppUpdater_two`). `isUpdating()` (CmdEngine.cpp:559) is tested
  before the command blocks; two tasks pass, and the second download erases the
  partition the first selected for boot: `AlwaysBootable` fails.
* **A list that is not the list** (`WifiStation_listing`). CmdEngine.cpp:608 reads the ring modulo
  the number of entries, everything else modulo its size.

A property that holds only with an exception states it; each exception is something the
code does:

* Updater. A digest that does not match is reported as the end and leaves the state: no further
  update until a restart (AppUpdater.cpp:230-232, in `EveryUpdateEnds`). The boot partition is
  compared before the download (AppUpdater.cpp:151), so `RestoreFactory` during it is undone. A dropped
  block resumes the peripherals in the middle of a download (AppUpdater.cpp:279 with 133-134).
* Fan. A mode stored between System.cpp:777 and 794 is marked as applied without having been
  (`LostOnlyByOverlap`).
* Pause. A pause can return on an old mark of the sensor task while it samples
  (`QuietUnlessLateMark`). A resume during the wait of System.cpp:1057 calls off the pause the
  daemon waits for (`enabled` in `PauseWaitsForSensors`).
* Sensors. A sensor that stays away keeps the task in `init`: the other's reading is stale and
  nobody is told (`sampleValid` is not read), the fans go on by it, and a pause, with it an
  update or a restart, waits. After 1000 power cycles a hung sensor is not
  recovered any more. Before the first `init` is through the task state is empty, so a pause
  returns at once with the task on the bus.
* Server. A client whose connection breaks stays listed, and with it the slot; a restart
  waits for it until the server stops (`cut` in `NoGhosts`). A client that shakes hands
  before `clean()` is served and unlisted, as is one beyond the last slot. A client that comes or
  goes while `clean()` of start runs (HttpServer.cpp:267) can leave a slot both free and in use, and the
  pool one session above its limit, until the server stops (`torn` in `AccountedUnlessTorn` and
  `KeepsSessionSet`).
* Client. `stop` takes no semaphore and races `deinit`; it fails on a task that has not set
  `run`; the task's last lines overwrite the state of a client started meanwhile. A CLOSE of
  the server leaves `_connected` set, and a restart waits for ever. A PONG that does not come ends the
  client without a request for a new one. `init` returns without giving the semaphore
  when the client cannot be made: every later `init`, `deinit` and `start` times out.
* Data. A save that fails clears the mark all the same; a task that clears the mark after its
  own save takes back another's; a setting changed after the save of a restart is lost; the
  return value of `saveData` is ignored. When two tasks count the life at once, a stretch of it is
  counted twice or not at all, for good (`twice` in `LifeCounted`).
* Engine. Commands that overlap can use each other's data, and so can two that never met when a
  third overlapped both. A message of the WebSocket client that ends before its arguments do is
  executed with what stands behind it (CmdEngine.cpp:388, `tail` in `OwnData`). The binary answer to `GetSensorCapability` is sent from a stack
  that is gone; `SetHostname` writes over an answer that waits; a get command from the
  client's task dereferences a null request; answers are lost when the queue is full.
* Wi-Fi. After a clear one reconnect may still load a cleared entry (Wifi.cpp:267,
  `NextInList`); once the rounds have run out (Wifi.cpp:517) only a restart makes the station try
  again.
* Start-up. Only 100 ms keep two tasks behind the event group they wait on
  (`AbortsOnlyWhenHurried`). A configuration that is stored but cannot be read is overwritten with the
  factory's (System.cpp:45-51, `unread` in `StationAsStored`). A stored mode of station and access point is run as a station.

## Proofs

`tlapm` checks the modules ending in `_proofs`. The theorems hold for every value
of the constants under the named assumptions of the component's module.

* `HttpServer_proofs`, of the pool called by one task: `TypeOK`, `SlotsNotShared`, `SlotsAccountedFor`,
  and that it implements `SessionSet`. The invariant `Order` adds to these that the free part of
  the stack holds no slot twice; without it a pop could hand out a slot that is
  also further up. The count of sessions goes through `FiniteSetTheorems`. Of the server: all
  six properties of the run, and that the index stays on the stack even where `clean()` of start
  meets a call (`IndexInv`). The server writes stack, index and map in separate steps, so `AccountInv`
  says of what they would be with the call under way undone or finished (`SeenTop`, `SeenMap`) that
  they are in `Order`, as long as nothing is torn, and `CallInv` that what a call has loaded
  still stands. Each step is then an addition, a removal, an emptying or a stutter of `SessionSet`.
  `SocketInv` says that a server that does not serve has no sockets, that a call's client
  has one, and relates the sockets to the list; `WalkInv` that whatever is due and not yet
  sent to lies from the walk on; that a set of descriptors has a least comes from
  `WellFoundedInduction`. Of the command engine, whose answers the server's queue sends:
  `OwnData` for any number of messages. The series of overlapping commands are disjoint or
  the same, those under way are in one, and each buffer holds the data of one of that series,
  which are its commands' own or what stood behind their ends (`DataOf`).
* `WsClient_proofs`: `ConnectedIsLive`, `DeadClientIsNoticed` and `FreedWhenStopped` for any number
  of updates. The invariant says who holds the semaphore, that a task told to end was told by
  itself or by a stop, that only a started client has a task, a connection or a stop to wait
  for, and that a connection is its task's in its loop. `raced`, once true, stays, which is
  why the first race ends what can be said.
* `AppUpdater_proofs`: `TypeOK` and `DigestFollowsFlash` for any commanders;
  `AlwaysBootable` and the refinement of `FlashContract` under `SingleCommander`, the
  assumption the run with two commanders shows to be needed. The invariant
  `FlashInv` adds that the factory partition is never written, that a download
  never targets what is booted, and that a command past its check finds the
  updater idle. `DigestFollowsFlash` is itself inductive together with the type and says
  why a matching digest means a complete image. With more commanders the factory image is
  still never written, and `UpdaterBreaksOnlyTheSelected` says what goes wrong: the one step
  that takes away a bootable image is of an update that writes the partition another one
  selected in the same life.
* `FanControl_proofs`: `TypeOK` and `LostOnlyByOverlap` for any number of setters. The
  invariant says that the reset of `_currentMode` is the last store of a setter,
  that while a mode is applied without an overlap the stored mode is the one
  loaded, and that the control step runs on the mode that is marked.
* `PeripheralPause_proofs`: `TypeOK` and `QuietUnlessLateMark` for any pausers and
  resumers; the invariant ties the task state to the place of the sensor task. Then that
  each step of `Sensors` is a step of the handshake or a stutter, hence both hold on the
  bus, and `OwnReading`, from an invariant on the buffer between reception and store.
* `SystemData_proofs`: `TypeOK`, `SettingsKept`, `SavedAtOnce`, `LifeCounted`, `RestartKeeps`
  for any tasks, values, tokens, number of failures and size of the save count. `SaveInv` says that a task about to clear
  the mark has written what is set, unless it was hit; `LifeInv` that, as long as no two tasks were at the lifetimes at once, one is alone
  there, the two lives are equal until it stores its sum, and what it has computed follows
  from the clock it read (`Alone`); `RestartInv` that what is in RAM and, after the
  daemon's save, what is in flash is among the values kept since the restart began. `TypeOK`
  needs the ring of tokens to be one: `Distinct`, that no token has two places in it, in RAM,
  in flash and in every save under way. On such a ring `TokenIsSet` says what `setToken` and
  `findToken` do to each other: the token that was set is found with its state, and every
  other as before, but for the oldest when a new one takes its place.
* `WifiStation_proofs`: `TypeOK`, `MembersWhole`, `NextInList`, `GivesUpAfterAll`, and that the
  ring implements `AltApList`, for every size of the ring and limit of rounds above one. Seen from the head and count the stores have left so
  far nothing holds in the middle of an append; the invariant speaks of `NewHead` and
  `NewCount`, which no store changes. Four lemmas on the arithmetic modulo the size carry
  it: from the slot before the head every member is one further, and that slot is
  nobody's but the last of a full ring. Giving up rests on `TriedInv`: what has not been loaded
  since the last success lies, once a round was counted, between the next index and the last
  member, and a round is counted only there. A limit of one round would be reached
  before the ring was gone through; the code's is a thousand. `StationListingRightWhenFull` says when the
  list shown is the list all the same: when the ring is full or begins at its first slot.
* `Startup_proofs`: `AbortsOnlyWhenHurried` and `StationAsStored` for any number of starts,
  the power failing anywhere. `OrderInv` says for each statement of the program what the ones
  before it have made and launched; `ConfInv`, by the place of `wifi_task`, what is in the
  configuration, and that the flash is as this life found it, or erased, until the task saves, which it
  does only when nothing was stored or the load failed.

Every invariant and every action property of the runs is proved. Checked by TLC only are the
nine liveness properties, because fairness and `ENABLED` are not within the prover's reach:
`EveryUpdateEnds`, `DelayEnds`, `HumidityDrivesFan`, `FindsListed`, `ReinitHappens`,
`UpdateRestarts`, `HungSensorRecovers`, `PauseWaitsForSensors`, `StartupEnds`. So are the two
disagreements between code and comment, which are counterexamples.

## What is left

* Two tasks that append access points at once (Wifi.cpp:225): `WifiStation` has one task
  that executes these commands, and with two a member could mix two passwords.
* The MQTT client, if it is compiled in again.

## Not modelled

* The MQTT client and its message pool: `ENABLE_MQTT_TASK` is not defined, so no task starts
  it. Its `unsubscribeTopics` (MqttClient.cpp:395) walks the list it shortens.
* `Crypto.cpp` and `md5.c`: numeric code on bytes. MD5 enters as an injective function on images.
* Packing, history, the display's tables: formatting without a state that outlives a call.
  (`SensorDataPacker::dataBlock`, SensorDataPacker.cpp:65-68, fills places 1 and 2 of an array of two.)
* Logging, the wrappers of semaphores, the page and its files.
* Of Wi-Fi, the access point's own side and `deinit`, `stop`, `connect` and `disconnect`, which
  nothing calls.
