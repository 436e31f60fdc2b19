---------------------------- MODULE Startup_proofs ----------------------------
(***************************************************************************)
(* Theorems about Startup for any number of trials and of starts.  Which   *)
(* statement System::init has come to says what it has made and which      *)
(* tasks it may have launched; where wifi_task stands says what the        *)
(* configuration is made of.                                               *)
(***************************************************************************)
EXTENDS Startup, TLAPS

-----------------------------------------------------------------------------
(* The order of the statements.                                            *)

Places == {"absent", "begin", "default", "station", "save", "mode", "group", "driver",
           "start", "loop", "sync", "done"}

\* What each statement makes is there for the statements after it, and a task that uses it
\* is launched by one of those; the event group is there after a delay, or it was too short.
OrderInv ==
    /\ main \in 1 .. 14 /\ tasks \in [Tasks -> Places]
    /\ main > 1 => "nvs" \in made
    /\ main > 2 => "semaphore" \in made
    /\ main > 3 => "bus" \in made
    /\ tasks["sensors"] # "absent" => main > 4
    /\ tasks["wifi"] # "absent" => main > 5
    /\ main > 6 => hurried \/ "group" \in made
    /\ tasks["sntp"] # "absent" => main > 7
    /\ tasks["http"] # "absent" => main > 9
    /\ aborted => hurried

\* The statements, by their number.
LEMMA Statements ==
  ASSUME main \in 1 .. 14
  PROVE  /\ Statement = "nvs" <=> main = 1
         /\ Statement = "semaphore" <=> main = 2
         /\ Statement = "bus" <=> main = 3
         /\ Statement = "sensors" <=> main = 4
         /\ Statement = "wifi" <=> main = 5
         /\ Statement = "delay" <=> main \in {6, 8, 10, 12}
         /\ Statement = "sntp" <=> main = 7
         /\ Statement = "http" <=> main = 9
         /\ Statement = "daemon" <=> main = 11
         /\ Statement = "fan" <=> main = 13
         /\ Statement = "end" <=> main = 14
<1>1. DOMAIN Program = 1 .. 13 BY DEF Program
<1>2. main = 14 => Statement = "end" BY <1>1 DEF Statement
<1>3. main # 14 => Statement = Program[main] BY <1>1 DEF Statement
<1>4. /\ Program[1] = "nvs" /\ Program[2] = "semaphore" /\ Program[3] = "bus"
      /\ Program[4] = "sensors" /\ Program[5] = "wifi" /\ Program[6] = "delay"
      /\ Program[7] = "sntp" /\ Program[8] = "delay" /\ Program[9] = "http"
      /\ Program[10] = "delay" /\ Program[11] = "daemon" /\ Program[12] = "delay"
      /\ Program[13] = "fan"
  BY DEF Program
<1>5. main \in {1, 2, 3, 4, 5, 6, 7, 8, 9, 10, 11, 12, 13, 14} OBVIOUS
<1> QED BY <1>2, <1>3, <1>4, <1>5

\* A task that goes on keeps the order, whatever it goes on to.
LEMMA TaskKeepsOrder ==
  ASSUME OrderInv, NEW t \in Tasks, NEW there \in Places, tasks[t] # "absent",
         tasks' = [tasks EXCEPT ![t] = there] \/ tasks' = tasks,
         UNCHANGED <<main, hurried>>, made \subseteq made', aborted' => hurried'
  PROVE  OrderInv'
<1>1. tasks' \in [Tasks -> Places] BY DEF OrderInv
<1>2. \A u \in Tasks : tasks'[u] # "absent" => tasks[u] # "absent" BY DEF OrderInv
<1> QED BY <1>1, <1>2 DEF OrderInv, Tasks

LEMMA OrderInductive == Spec => []OrderInv
<1>1. Init => OrderInv BY DEF Init, Life, OrderInv, Places, Tasks
<1>2. ASSUME OrderInv, [Next]_vars PROVE OrderInv'
  <2>1. CASE Make
    <3>1. /\ tasks' = tasks /\ hurried' = hurried /\ main' = main + 1 /\ main \in {2, 3}
      BY <1>2, <2>1, Statements DEF Make, OrderInv, lifeVars
    <3>2. made' = made \cup {Statement} /\ aborted' = aborted
      BY <1>2, <2>1, Statements DEF Make, OrderInv
    <3> QED BY <1>2, <3>1, <3>2, Statements DEF OrderInv
  <2>12. CASE NvsInit
    <3>1. /\ UNCHANGED <<tasks, hurried, aborted>> /\ main' = main + 1 /\ main = 1
          /\ made' = made \cup {"nvs"}
      BY <1>2, <2>12, Statements DEF NvsInit, OrderInv
    <3> QED BY <1>2, <3>1 DEF OrderInv
  <2>2. CASE Launch
    <3>1. /\ tasks' = [tasks EXCEPT ![Statement] = "begin"] /\ Statement \in Tasks
          /\ UNCHANGED <<made, hurried, aborted>> /\ main' = main + 1
      BY <2>2 DEF Launch, Go, lifeVars
    <3>2. tasks' \in [Tasks -> Places] BY <1>2, <3>1 DEF OrderInv, Places
    <3>3. \A u \in Tasks : tasks'[u] # "absent" => tasks[u] # "absent" \/ u = Statement
      BY <1>2, <3>1 DEF OrderInv
    <3>4. main \in {4, 5, 7, 9, 11, 13} BY <1>2, <3>1, Statements DEF OrderInv, Tasks
    <3>5. main' \in 1 .. 14 BY <3>1, <3>4
    <3>6. /\ tasks'["sensors"] # "absent" => main' > 4
          /\ tasks'["wifi"] # "absent" => main' > 5
          /\ tasks'["sntp"] # "absent" => main' > 7
          /\ tasks'["http"] # "absent" => main' > 9
      BY <1>2, <3>1, <3>3, Statements DEF OrderInv, Tasks
    <3> QED BY <1>2, <3>1, <3>2, <3>4, <3>5, <3>6 DEF OrderInv
  <2>3. CASE Delay
    <3>1. main \in {6, 8, 10, 12} BY <1>2, <2>3, Statements DEF Delay, OrderInv
    <3>2. /\ main' = main + 1 /\ UNCHANGED <<made, tasks, aborted>>
          /\ hurried => hurried'
          /\ "group" \notin made => hurried'
      BY <2>3, Zenon DEF Delay
    <3>3. main' \in 1 .. 14 /\ main' > 6 /\ main >= 6 BY <3>1, <3>2
    <3>4. hurried' \/ "group" \in made' BY <3>2
    <3>5. /\ main' > 9 \/ tasks'["http"] = "absent"
          /\ main' > 7 \/ tasks'["sntp"] = "absent"
      BY <1>2, <3>1, <3>2 DEF OrderInv
    <3> QED BY <1>2, <3>2, <3>3, <3>4, <3>5 DEF OrderInv
  <2>4. CASE WifiTask
    <3>1. /\ tasks["wifi"] # "absent" /\ UNCHANGED <<main, hurried, aborted>>
          /\ made \subseteq made'
          /\ \E there \in Places : tasks' = [tasks EXCEPT !["wifi"] = there]
      BY <2>4 DEF WifiTask, LoadConfig, SetDefaultConfig, SetStaConfig, SaveConfig, SetWifiMode,
                  CreateGroup, InitDriver, Start, At, Go, lifeVars, Places
    <3> QED BY <1>2, <3>1, TaskKeepsOrder DEF OrderInv, Tasks
  <2>5. CASE Events \/ TimeArrives
    <3>1. UNCHANGED <<main, made, tasks, aborted, hurried>>
      BY <2>5 DEF Events, OnStaStart, OnStaGotIp, OnStaDisconnected, TimeArrives, lifeVars
    <3> QED BY <1>2, <3>1 DEF OrderInv
  <2>6. CASE SensorTask
    <3>1. tasks["sensors"] # "absent" /\ UNCHANGED <<main, made, hurried>>
      BY <2>6 DEF SensorTask, At, lifeVars
    <3>2. {"semaphore", "bus"} \subseteq made BY <1>2, <3>1 DEF OrderInv
    <3>3. tasks' = [tasks EXCEPT !["sensors"] = "loop"] /\ aborted' = aborted
      BY <2>6, <3>2 DEF SensorTask, Using, Go
    <3> QED BY <1>2, <3>1, <3>3, TaskKeepsOrder DEF OrderInv, Tasks, Places
  <2>7. ASSUME NEW t \in {"sntp", "http"}, NEW there \in Places, WaitConnected(t, there)
        PROVE  OrderInv'
    <3>1. tasks[t] # "absent" /\ UNCHANGED <<main, made, hurried>>
      BY <2>7 DEF WaitConnected, At, lifeVars
    <3>2. hurried \/ "group" \in made BY <1>2, <3>1 DEF OrderInv
    <3>3. /\ tasks' = [tasks EXCEPT ![t] = there] \/ tasks' = tasks
          /\ aborted' => hurried'
      BY <1>2, <2>7, <3>1, <3>2 DEF WaitConnected, Using, Go, OrderInv
    <3> QED BY <1>2, <3>1, <3>3, TaskKeepsOrder DEF Tasks
  <2>8. CASE Sync
    <3>1. /\ tasks["sntp"] # "absent" /\ UNCHANGED <<main, made, hurried, aborted>>
          /\ tasks' = [tasks EXCEPT !["sntp"] = "done"] \/ tasks' = tasks
      BY <2>8 DEF Sync, At, Go, lifeVars
    <3> QED BY <1>2, <3>1, TaskKeepsOrder DEF OrderInv, Tasks, Places
  <2>9. ASSUME NEW t \in {"daemon", "fan"}, LoopAtOnce(t) PROVE OrderInv'
    <3>1. /\ tasks[t] # "absent" /\ UNCHANGED <<main, made, hurried, aborted>>
          /\ tasks' = [tasks EXCEPT ![t] = "loop"]
      BY <2>9 DEF LoopAtOnce, At, Go, lifeVars
    <3> QED BY <1>2, <3>1, TaskKeepsOrder DEF OrderInv, Tasks, Places
  <2>10. CASE Reboot BY <2>10 DEF Reboot, OrderInv, Places, Tasks
  <2>11. CASE UNCHANGED vars BY <1>2, <2>11 DEF vars, lifeVars, OrderInv
  <2> QED BY <1>2, <2>1, <2>2, <2>3, <2>4, <2>5, <2>6, <2>7, <2>8, <2>9, <2>10, <2>11, <2>12
          DEF Next, Running, HttpTask, SntpTask, SntpInit, Places
<1> QED BY <1>1, <1>2, PTL DEF Spec

\* For any number of starts, and wherever the power went before: no task uses what does not
\* exist yet, unless the delay of _launchTasks was too short for wifi_task.
THEOREM StartupAbortsOnlyWhenHurried == Spec => []AbortsOnlyWhenHurried
<1>1. OrderInv => AbortsOnlyWhenHurried BY DEF OrderInv, AbortsOnlyWhenHurried
<1> QED BY <1>1, OrderInductive, PTL

-----------------------------------------------------------------------------
(* The configuration.                                                      *)

Wanted == [Expected EXCEPT !.mode = "STA"]

\* What a device without a configuration makes, and what it is once the list has a member.
Fresh(list) == [mode |-> "APSTA", sta |-> FactoryAP, alts |-> list]

\* From the flash as this life found it, or from nothing, to what the driver is given.
ConfInv ==
    /\ tasks["wifi"] \in {"absent", "begin"} =>
          driver = NoConf /\ flash = IF unread THEN NoConf ELSE atBoot
    /\ tasks["wifi"] \in {"default", "station", "save"} => atBoot = NoConf \/ unread
    /\ flash # atBoot => atBoot = NoConf \/ unread
    /\ tasks["wifi"] = "station" => conf = Fresh(<<>>)
    /\ tasks["wifi"] = "save" => conf = Fresh(<<FactoryAP>>)
    /\ tasks["wifi"] = "mode" => [conf EXCEPT !.mode = "STA"] = Wanted
    /\ tasks["wifi"] \in {"group", "driver"} => conf = Wanted
    /\ driver \in {NoConf, Wanted}

LEMMA ConfInductive == Spec => []ConfInv
<1>1. Init => ConfInv BY DEF Init, Life, ConfInv, Tasks
<1>2. ASSUME OrderInv, ConfInv, [Next]_vars PROVE ConfInv'
  <2>1. "wifi" \in DOMAIN tasks BY <1>2 DEF OrderInv, Tasks
  <2>2. ASSUME UNCHANGED <<conf, driver, flash, atBoot, unread>>, tasks'["wifi"] = tasks["wifi"]
        PROVE  ConfInv'
    BY <1>2, <2>2 DEF ConfInv, Wanted, Expected
  <2>3. CASE WifiTask
    <3>1. CASE LoadConfig
      <4>1. /\ UNCHANGED <<driver, flash, atBoot>> /\ tasks["wifi"] = "begin"
            /\ driver = NoConf /\ flash = IF unread THEN NoConf ELSE atBoot
        BY <1>2, <3>1 DEF LoadConfig, At, ConfInv
      <4>2. Stored = flash BY <1>2, <4>1 DEF OrderInv, Stored
      <4>3. CASE Stored # NoConf /\ conf' = Stored /\ Go("wifi", "mode") /\ UNCHANGED unread
        <5>1. ~unread /\ atBoot # NoConf /\ conf' = atBoot /\ tasks'["wifi"] = "mode"
          BY <2>1, <4>1, <4>2, <4>3 DEF Go
        <5>2. Wanted' = [atBoot EXCEPT !.mode = "STA"]
          BY <4>1, <4>3, <5>1 DEF Wanted, Expected
        <5> QED BY <1>2, <4>1, <5>1, <5>2 DEF ConfInv
      <4>4. CASE Go("wifi", "default") /\ unread' = (unread \/ Stored # NoConf)
        <5>1. tasks'["wifi"] = "default" /\ (atBoot = NoConf \/ unread')
          BY <2>1, <4>1, <4>2, <4>4 DEF Go
        <5>2. driver' = NoConf /\ (flash' # atBoot' => atBoot' = NoConf \/ unread')
          BY <4>1, <5>1
        <5> QED BY <4>1, <5>1, <5>2 DEF ConfInv
      <4> QED BY <3>1, <4>3, <4>4 DEF LoadConfig
    <3>2. CASE SetDefaultConfig
      BY <1>2, <2>1, <3>2
         DEF SetDefaultConfig, At, Go, ConfInv, Fresh, Wanted, Expected, lifeVars
    <3>3. CASE SetStaConfig
      <4>1. /\ conf = Fresh(<<>>) /\ tasks'["wifi"] = "save"
            /\ atBoot = NoConf \/ unread
            /\ UNCHANGED <<driver, flash, atBoot, unread>>
            /\ conf' = [conf EXCEPT !.sta = FactoryAP, !.alts = <<FactoryAP>> \o @]
        BY <1>2, <2>1, <3>3 DEF SetStaConfig, At, Go, ConfInv, lifeVars
      <4>2. <<FactoryAP>> \o <<>> = <<FactoryAP>> OBVIOUS
      <4>3. conf' = Fresh(<<FactoryAP>>) BY <4>1, <4>2 DEF Fresh
      <4> QED BY <1>2, <4>1, <4>3 DEF ConfInv, Wanted, Expected
    <3>4. CASE SaveConfig
      <4>1. /\ conf = Fresh(<<FactoryAP>>) /\ tasks'["wifi"] = "mode"
            /\ atBoot = NoConf \/ unread
            /\ UNCHANGED <<conf, driver, atBoot, unread>>
        BY <1>2, <2>1, <3>4 DEF SaveConfig, At, Go, ConfInv, wifiVars
      <4>2. [conf EXCEPT !.mode = "STA"] = Wanted BY <4>1 DEF Fresh, Wanted, Expected
      <4> QED BY <1>2, <4>1, <4>2 DEF ConfInv, Wanted, Expected
    <3>5. CASE SetWifiMode
      BY <1>2, <2>1, <3>5 DEF SetWifiMode, At, Go, ConfInv, Wanted, Expected, lifeVars
    <3>6. CASE CreateGroup \/ InitDriver \/ Start
      BY <1>2, <2>1, <3>6
         DEF CreateGroup, InitDriver, Start, At, Go, ConfInv, Wanted, Expected, lifeVars, wifiVars
    <3> QED BY <2>3, <3>1, <3>2, <3>3, <3>4, <3>5, <3>6 DEF WifiTask
  <2>4. CASE Launch
    <3>1. /\ UNCHANGED <<conf, driver, flash, atBoot, unread>>
          /\ tasks' = [tasks EXCEPT ![Statement] = "begin"]
          /\ Statement = "wifi" => tasks["wifi"] = "absent"
      BY <1>2, <2>4, Statements DEF Launch, Go, wifiVars, lifeVars, OrderInv
    <3>2. CASE Statement = "wifi"
      BY <1>2, <2>1, <3>1, <3>2 DEF ConfInv, Wanted, Expected
    <3>3. CASE Statement # "wifi"
      BY <2>1, <2>2, <3>1, <3>3
    <3> QED BY <3>2, <3>3
  <2>10. CASE NvsInit
    <3>1. tasks["wifi"] = "absent" /\ tasks' = tasks /\ UNCHANGED <<conf, driver, atBoot>>
      BY <1>2, <2>10, Statements DEF NvsInit, OrderInv, wifiVars
    <3>2. driver = NoConf /\ flash = IF unread THEN NoConf ELSE atBoot BY <1>2, <3>1 DEF ConfInv
    <3>3. flash' = IF unread' THEN NoConf ELSE atBoot'
      <4>1. CASE flash' = flash /\ unread' = unread BY <3>1, <3>2, <4>1
      <4>2. CASE flash' = NoConf /\ unread' = (unread \/ flash # NoConf)
        <5>1. ~unread' => ~unread /\ flash = NoConf BY <4>2
        <5>2. ~unread' => atBoot = NoConf BY <3>2, <5>1
        <5> QED BY <3>1, <4>2, <5>2
      <4> QED BY <2>10, <4>1, <4>2 DEF NvsInit
    <3> QED BY <3>1, <3>2, <3>3 DEF ConfInv
  <2>5. CASE Make \/ Delay
    BY <2>2, <2>5 DEF Make, Delay, wifiVars, lifeVars
  <2>6. CASE Events \/ TimeArrives
    BY <2>2, <2>6
       DEF Events, OnStaStart, OnStaGotIp, OnStaDisconnected, TimeArrives, wifiVars, lifeVars
  <2>7. CASE SensorTask \/ HttpTask \/ SntpTask \/ LoopAtOnce("daemon") \/ LoopAtOnce("fan")
    <3>1. UNCHANGED <<conf, driver, flash, atBoot, unread>>
      BY <2>7 DEF SensorTask, HttpTask, SntpTask, SntpInit, Sync, WaitConnected, LoopAtOnce,
                  wifiVars, lifeVars
    <3>2. tasks'["wifi"] = tasks["wifi"]
      BY <2>1, <2>7 DEF SensorTask, HttpTask, SntpTask, SntpInit, Sync, WaitConnected, LoopAtOnce,
                        Using, Go
    <3> QED BY <2>2, <3>1, <3>2
  <2>8. CASE Reboot
    BY <2>8 DEF Reboot, ConfInv, Tasks
  <2>9. CASE UNCHANGED vars
    BY <2>2, <2>9 DEF vars, wifiVars, lifeVars
  <2> QED BY <1>2, <2>3, <2>4, <2>5, <2>6, <2>7, <2>8, <2>9, <2>10 DEF Next, Running
<1> QED BY <1>1, <1>2, OrderInductive, PTL DEF Spec

\* For any number of starts: the driver is a station's, with the access points that this
\* life found in the flash, or with the factory's if it found none or could not read them,
\* and only then does it write over them.
THEOREM StartupStationAsStored == Spec => []StationAsStored
<1>1. ConfInv => StationAsStored BY DEF ConfInv, StationAsStored, Wanted
<1> QED BY <1>1, ConfInductive, PTL
===============================================================================
