------------------------------- MODULE Startup -------------------------------
(***************************************************************************)
(* From app_main to all tasks in their loops (components/Application/      *)
(* System.cpp, Wifi, SNTP).  System::init makes what the tasks share and   *)
(* launches them one after the other; nothing but a delay of 100 ms makes  *)
(* a task wait for what an earlier one has to make.  wifi_task loads or    *)
(* makes the configuration and brings the driver up, http_task and         *)
(* sntp_task wait for the connection.  The power may go at any time.       *)
(***************************************************************************)
EXTENDS Naturals, Sequences

CONSTANTS
  NoConf,      \* nothing stored under WIFI_CONFIG_TAG
  FactoryAP,   \* "ssid", "ssidpasswd"
  UserAP,      \* an access point set in an earlier life
  Trials,      \* the trials of SNTP::sync, 10
  MaxBoots     \* bound: starts

ASSUME StartupAssumption ==
    FactoryAP # UserAP /\ Trials \in Nat \ {0} /\ MaxBoots \in Nat \ {0}

VARIABLES
  main,       \* the next statement of System::init and _launchTasks
  made,       \* what exists: "nvs", "semaphore", "bus", "group"
  tasks,      \* tasks[t]: where each launched task is
  conf,       \* Wifi's _config: mode, station, alternatives newest first
  driver,     \* what the Wi-Fi driver was configured with, or NoConf
  link,       \* "off", "starting", "trying" or "up"
  connected,  \* CONNECTED_BIT
  trials,     \* retry of SNTP::sync
  synced,     \* SNTP::_synced
  clock,      \* the time is later than 2016
  aborted,    \* a null handle was used
  flash,      \* what is stored under WIFI_CONFIG_TAG
  boots,
  atBoot,     \* history: flash when this life began
  unread,     \* history: NVS was erased, or would not give what it holds, in this life
  hurried     \* history: _launchTasks went on before wifi_task had made the event group

wifiVars == <<conf, driver, link, connected>>
sntpVars == <<trials, synced, clock>>
lifeVars == <<flash, boots, atBoot, unread, hurried>>
vars == <<main, made, tasks, wifiVars, sntpVars, aborted, lifeVars>>

Tasks == {"sensors", "wifi", "sntp", "http", "daemon", "fan"}

\* The constructor's configuration, before anything is loaded.
Constructed == [mode |-> "AP", sta |-> NoConf, alts |-> <<>>]

Life == /\ main = 1 /\ made = {} /\ tasks = [t \in Tasks |-> "absent"]
        /\ conf = Constructed /\ driver = NoConf /\ link = "off" /\ connected = FALSE
        /\ trials = 0 /\ synced = FALSE /\ aborted = FALSE
        /\ atBoot = flash /\ unread = FALSE /\ hurried = FALSE

\* A device fresh from the factory, or one that was configured, or whose list was cleared.
Init == /\ flash \in {NoConf} \cup {[mode |-> "APSTA", sta |-> UserAP, alts |-> list] :
                                      list \in {<<UserAP, FactoryAP>>, <<>>}}
        /\ Life
        /\ clock = FALSE /\ boots = 1

At(t, here) == tasks[t] = here
Go(t, there) == tasks' = [tasks EXCEPT ![t] = there]

-----------------------------------------------------------------------------
(* System::init and _launchTasks, in app_main's task.                      *)

\* Slip: NvsFlash::init comes where it is used first, after the tasks.
ProgramNvsLast == << "semaphore", "bus", "sensors", "wifi", "delay", "sntp", "delay",
                     "http", "delay", "daemon", "delay", "fan", "nvs" >>

\* Slip: the bus is made after its task was launched.
ProgramBusLate == << "nvs", "sensors", "semaphore", "bus", "wifi", "delay", "sntp", "delay",
                     "http", "delay", "daemon", "delay", "fan" >>

Program == << "nvs", "semaphore", "bus", "sensors", "wifi", "delay", "sntp", "delay",
              "http", "delay", "daemon", "delay", "fan" >>

Statement == IF main \in DOMAIN Program THEN Program[main] ELSE "end"

\* NvsFlash::init erases a partition that has no free page.
NvsInit == /\ Statement = "nvs"
           /\ made' = made \cup {"nvs"}
           /\ \/ UNCHANGED <<flash, unread>>
              \/ flash' = NoConf /\ unread' = (unread \/ flash # NoConf)
           /\ main' = main + 1
           /\ UNCHANGED <<tasks, wifiVars, sntpVars, aborted, boots, atBoot, hurried>>

\* I2cPeripherals::init takes the semaphore.
Make == /\ Statement \in {"semaphore", "bus"}
        /\ IF Statement = "bus" /\ "semaphore" \notin made
             THEN aborted' = TRUE /\ UNCHANGED made
             ELSE made' = made \cup {Statement} /\ UNCHANGED aborted
        /\ main' = main + 1
        /\ UNCHANGED <<tasks, wifiVars, sntpVars, lifeVars>>

Launch == /\ Statement \in Tasks
          /\ Go(Statement, "begin")
          /\ main' = main + 1
          /\ UNCHANGED <<made, wifiVars, sntpVars, aborted, lifeVars>>

\* Time passes, and perhaps another task gets on with it.
Delay == /\ Statement = "delay"
         /\ main' = main + 1
         /\ hurried' = (hurried \/ "group" \notin made)
         /\ UNCHANGED <<made, tasks, wifiVars, sntpVars, aborted, flash, boots, atBoot, unread>>

-----------------------------------------------------------------------------
(* wifi_task, Wifi::init and Wifi::start.                                  *)

Stored == IF "nvs" \in made THEN flash ELSE NoConf

\* NvsFlash::loadData may fail whatever is stored: it cannot be opened or read, has another
\* size than the record, or its save count has come round to zero.
LoadConfig ==
    /\ At("wifi", "begin")
    /\ \/ Stored # NoConf /\ conf' = Stored /\ Go("wifi", "mode") /\ UNCHANGED unread
       \/ /\ Go("wifi", "default") /\ unread' = (unread \/ Stored # NoConf)
          /\ UNCHANGED conf
    /\ UNCHANGED <<main, made, driver, link, connected, sntpVars, aborted>>
    /\ UNCHANGED <<flash, boots, atBoot, hurried>>

\* The station's entry without an append, and an empty list.
SetDefaultConfig ==
    /\ At("wifi", "default")
    /\ conf' = [mode |-> "APSTA", sta |-> FactoryAP, alts |-> <<>>]
    /\ Go("wifi", "station")
    /\ UNCHANGED <<main, made, driver, link, connected, sntpVars, aborted, lifeVars>>

SetStaConfig ==
    /\ At("wifi", "station")
    /\ conf' = [conf EXCEPT !.sta = FactoryAP, !.alts = <<FactoryAP>> \o @]
    /\ Go("wifi", "save")
    /\ UNCHANGED <<main, made, driver, link, connected, sntpVars, aborted, lifeVars>>

\* A save that fails is not reported.
SaveConfig ==
    /\ At("wifi", "save")
    /\ flash' \in (IF "nvs" \in made THEN {flash, conf} ELSE {flash})
    /\ Go("wifi", "mode")
    /\ UNCHANGED <<main, made, wifiVars, sntpVars, aborted, boots, atBoot, unread, hurried>>

\* Whatever was stored, the product is a station only; nothing is initialized yet.
SetWifiMode ==
    /\ At("wifi", "mode")
    /\ conf' = [conf EXCEPT !.mode = "STA"]
    /\ Go("wifi", "group")
    /\ UNCHANGED <<main, made, driver, link, connected, sntpVars, aborted, lifeVars>>

CreateGroup ==
    /\ At("wifi", "group")
    /\ made' = made \cup {"group"}
    /\ Go("wifi", "driver")
    /\ UNCHANGED <<main, wifiVars, sntpVars, aborted, lifeVars>>

\* The rest of Wifi::init: netif, event loop, driver, handlers, mode, configuration.
InitDriver ==
    /\ At("wifi", "driver")
    /\ driver' = conf
    /\ Go("wifi", "start")
    /\ UNCHANGED <<main, made, conf, link, connected, sntpVars, aborted, lifeVars>>

\* wifiOn is never cleared: the loop calls start again and finds _started.
Start ==
    /\ At("wifi", "start")
    /\ link' = "starting"
    /\ Go("wifi", "loop")
    /\ UNCHANGED <<main, made, conf, driver, connected, sntpVars, aborted, lifeVars>>

WifiTask == \/ LoadConfig \/ SetDefaultConfig \/ SetStaConfig \/ SaveConfig
            \/ SetWifiMode \/ CreateGroup \/ InitDriver \/ Start

-----------------------------------------------------------------------------
(* wifi_app_event_handler.  Which access point is tried after a failure is *)
(* the matter of WifiStation; here the station tries on.                   *)

OnStaStart ==
    /\ link = "starting" /\ link' = "trying"
    /\ UNCHANGED <<main, made, tasks, conf, driver, connected, sntpVars, aborted, lifeVars>>

OnStaGotIp ==
    /\ link = "trying" /\ link' = "up" /\ connected' = TRUE
    /\ UNCHANGED <<main, made, tasks, conf, driver, sntpVars, aborted, lifeVars>>

OnStaDisconnected ==
    /\ link = "up" /\ link' = "trying" /\ connected' = FALSE
    /\ UNCHANGED <<main, made, tasks, conf, driver, sntpVars, aborted, lifeVars>>

Events == OnStaStart \/ OnStaGotIp \/ OnStaDisconnected

-----------------------------------------------------------------------------
(* The other tasks.                                                        *)

\* A task goes on to there if what it uses exists, and the device aborts if not.
Using(t, things, there) ==
    IF things \subseteq made THEN Go(t, there) /\ UNCHANGED aborted
                             ELSE aborted' = TRUE /\ UNCHANGED tasks

\* SHT3xSensor::init; the sensors answer (Sensors has what happens when they do not).
SensorTask ==
    /\ At("sensors", "begin")
    /\ Using("sensors", {"semaphore", "bus"}, "loop")
    /\ UNCHANGED <<main, made, wifiVars, sntpVars, lifeVars>>

\* Wifi::waitConnected, which does not look whether its event group exists.
WaitConnected(t, there) ==
    /\ At(t, "begin")
    /\ "group" \in made => connected
    /\ Using(t, {"group"}, there)
    /\ UNCHANGED <<main, made, wifiVars, sntpVars, lifeVars>>

\* server.start(false), the command engine and ws.init, then the loop.
HttpTask == WaitConnected("http", "loop")

\* daemon_task and humid_control_task need nothing that is made here.
LoopAtOnce(t) ==
    /\ At(t, "begin") /\ Go(t, "loop")
    /\ UNCHANGED <<main, made, wifiVars, sntpVars, aborted, lifeVars>>

SntpInit == WaitConnected("sntp", "sync")

\* Slip: the task does not try again after a sync that failed.
SyncOnce ==
    /\ At("sntp", "sync")
    /\ IF clock \/ trials = Trials THEN synced' = clock /\ Go("sntp", "done") /\ UNCHANGED trials
       ELSE trials' = trials + 1 /\ UNCHANGED <<synced, tasks>>
    /\ UNCHANGED <<main, made, wifiVars, clock, aborted, lifeVars>>

\* One look at the clock of SNTP::sync; after the last trial waitSync begins again.
Sync ==
    /\ At("sntp", "sync")
    /\ IF clock THEN synced' = TRUE /\ Go("sntp", "done") /\ UNCHANGED trials
       ELSE trials' = (IF trials = Trials THEN 0 ELSE trials + 1) /\ UNCHANGED <<synced, tasks>>
    /\ UNCHANGED <<main, made, wifiVars, clock, aborted, lifeVars>>

SntpTask == SntpInit \/ Sync

\* The time server's answer, while the station is connected.
TimeArrives ==
    /\ At("sntp", "sync") /\ link = "up"
    /\ clock' = TRUE
    /\ UNCHANGED <<main, made, tasks, wifiVars, trials, synced, aborted, lifeVars>>

-----------------------------------------------------------------------------
\* Power lost, or the restart after an abort.  The clock may survive it.
Reboot ==
    /\ boots < MaxBoots /\ boots' = boots + 1
    /\ main' = 1 /\ made' = {} /\ tasks' = [t \in Tasks |-> "absent"]
    /\ conf' = Constructed /\ driver' = NoConf /\ link' = "off" /\ connected' = FALSE
    /\ trials' = 0 /\ synced' = FALSE /\ aborted' = FALSE
    /\ atBoot' = flash /\ unread' = FALSE /\ hurried' = FALSE
    /\ clock' \in {clock, FALSE}
    /\ UNCHANGED flash

Running == /\ ~aborted
           /\ \/ NvsInit \/ Make \/ Launch \/ Delay
              \/ WifiTask \/ Events
              \/ SensorTask \/ HttpTask \/ SntpTask \/ TimeArrives
              \/ LoopAtOnce("daemon") \/ LoopAtOnce("fan")

Next == Running \/ Reboot

\* Every task is scheduled, the driver reports that it has started, and the time server
\* answers as long as it is asked.
Fairness == /\ WF_vars(~aborted /\ (NvsInit \/ Make \/ Launch \/ Delay))
            /\ WF_vars(~aborted /\ WifiTask)
            /\ WF_vars(~aborted /\ OnStaStart)
            /\ WF_vars(~aborted /\ SensorTask)
            /\ WF_vars(~aborted /\ HttpTask)
            /\ WF_vars(~aborted /\ SntpTask)
            /\ WF_vars(~aborted /\ TimeArrives)
            /\ \A t \in {"daemon", "fan"} : WF_vars(~aborted /\ LoopAtOnce(t))

Spec == Init /\ [][Next]_vars /\ Fairness

-----------------------------------------------------------------------------
\* No task uses what does not exist yet, unless _launchTasks has outrun wifi_task: the
\* order of the statements covers the semaphore and the bus, the delay alone the event
\* group that sntp_task and http_task wait on.
AbortsOnlyWhenHurried == aborted => hurried

Expected == IF atBoot # NoConf /\ ~unread THEN atBoot
            ELSE [mode |-> "STA", sta |-> FactoryAP, alts |-> <<FactoryAP>>]

\* The driver is set up as a station, with the access points that were stored when this
\* life began; a device without any has the factory's, as the one member of the list.  A
\* start writes over what is stored only if it could not read it: wifi_task takes every
\* loadConfig that fails for a first start.
StationAsStored ==
    /\ driver # NoConf => driver = [Expected EXCEPT !.mode = "STA"]
    /\ flash # atBoot => atBoot = NoConf \/ unread

AllRun == /\ \A t \in Tasks \ {"sntp"} : tasks[t] = "loop"
          /\ tasks["sntp"] = "done" /\ synced

\* Once the connection stays, every task reaches its loop and the time is known, unless
\* the device aborted.
StartupEnds == <>[](link = "up") => <>[](AllRun \/ aborted)
==============================================================================
