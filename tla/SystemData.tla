----------------------------- MODULE SystemData -----------------------------
(***************************************************************************)
(* The settings of System (components/Application/System.cpp), the Wi-Fi   *)
(* configuration beside them, and NvsFlash, where both are kept.  Most     *)
(* settings are only marked for saving and written by an orderly restart;  *)
(* the fan mode and the Wi-Fi configuration are saved by the command that  *)
(* sets them.  No lock guards any of it: each task's save is a sequence of *)
(* steps.  NVS replaces one value in one step, and can fail at each call.  *)
(***************************************************************************)
EXTENDS MobileTokens

CONSTANTS Task,        \* the tasks that execute commands
          Daemon,      \* daemon_task, which restarts the device
          Name, Alert, Threshold, Conf,   \* values of a setting
          Counts,      \* values the save count takes, 2 ^ 16 in the code
          MaxFails, MaxBoots, MaxClock    \* bounds

ASSUME DataAssumption ==
    /\ Daemon \notin Task
    /\ Counts \in Nat \ {0}
    /\ MaxFails \in Nat /\ MaxBoots \in Nat /\ MaxClock \in Nat

CONSTANTS DefaultName, DefaultAlert, DefaultThreshold, DefaultConf

ASSUME DefaultsAssumption ==
    /\ DefaultName \in Name /\ DefaultAlert \in Alert
    /\ DefaultThreshold \in Threshold /\ DefaultConf \in Conf

VARIABLES
    data,         \* System::_data, the lifetimes aside
    needToSave,   \* _dataNeedToSave
    flash,        \* NVS: <<>>, or <<the blob "appData">>
    wifi,         \* Wifi::_config
    wifiFlash,    \* [blob, count]: "wifiConf", as flash, and "wifiConfSC"
    at,           \* where each task stands in the operation it executes
    fanArg,       \* the fan command a task executes
    seen,         \* the save count, or the clock, a task has read
    clock,        \* seconds since the boot
    life,         \* [all, session]: allSessionsLife since the boot, _currentSessionLife
    step,         \* what a task does next about the lifetimes, once at "age" or "info"
    sum,          \* the difference, then the sum, it has computed
    fails, boots, \* counts for the bounds
    \* history, read by properties only
    hit,          \* tasks during whose save another task changed a setting
    excused,      \* a save failed or was overlapped since the last clean one
    fanFailed, wifiFailed,   \* the last save of the fan mode, of the configuration, failed
    kept,         \* the values each setting had since the restart began
    twice         \* two tasks were in _calculateMaintenance at once

ramVars   == <<data, needToSave>>
nvsVars   == <<flash, wifiFlash>>
lifeVars  == <<clock, life, step, sum>>
countVars == <<fails, boots>>
histVars  == <<hit, excused, fanFailed, wifiFailed, kept, twice>>
dataVars  == <<ramVars, nvsVars, wifi, at, fanArg, seen, lifeVars, countVars, histVars>>

Actor == Task \cup {Daemon}
FanModes == {"auto", "delay", "on", "off"}
DeployModes == {"http", "mqtt", "both"}

\* The constructors of System and of the parts of SysData.
Default ==
    [deploy |-> "http", name |-> DefaultName, pn |-> FALSE, sound |-> FALSE,
     alert |-> DefaultAlert, tokens |-> NoTokens,
     fan |-> [mode |-> "on", thr |-> DefaultThreshold, min |-> DefaultThreshold]]

TypeOK ==
    /\ DOMAIN data = DOMAIN Default
    /\ data.deploy \in DeployModes /\ data.name \in Name /\ data.alert \in Alert
    /\ data.pn \in BOOLEAN /\ data.sound \in BOOLEAN
    /\ data.fan \in [mode : FanModes, thr : Threshold, min : Threshold]
    /\ data.tokens.head \in 0 .. TokenCount - 1 /\ data.tokens.count \in 0 .. TokenCount
    /\ needToSave \in BOOLEAN
    /\ wifi \in Conf
    /\ wifiFlash.blob \in {<<c>> : c \in Conf} /\ wifiFlash.count \in 0 .. Counts - 1
    /\ at \in [Actor -> {"idle", "mark", "fan", "age", "write", "clear", "info", "wifi", "counting",
                          "test", "pause"}]
    /\ step \in [Actor -> {"clock", "difference", "load", "store", "keep"}]
    /\ hit \subseteq Actor

\* No task is at an operation that has locals.
NoLocals(fan, count, next, part) ==
    /\ fan = [t \in Task |-> Default.fan]
    /\ count = [t \in Actor |-> 0]
    /\ next = [t \in Actor |-> "clock"]
    /\ part = [t \in Actor |-> 0]

\* A device with any number of saves behind it, or a new one.
Init ==
    /\ data = Default /\ needToSave = FALSE /\ flash = <<>>
    /\ wifi = DefaultConf
    /\ wifiFlash \in [blob : {<<DefaultConf>>}, count : 1 .. Counts - 1]
    /\ at = [t \in Actor |-> "idle"]
    /\ NoLocals(fanArg, seen, step, sum)
    /\ clock = 0 /\ life = [all |-> 0, session |-> 0]
    /\ fails = 0 /\ boots = 0
    /\ hit = {} /\ excused = FALSE /\ fanFailed = FALSE /\ wifiFailed = FALSE
    /\ kept = [f \in DOMAIN Default |-> {}] /\ twice = FALSE

\* NvsFlash::loadData: with a save count, the data count as absent while it is zero.
LoadData(blob, count, default) == IF blob # <<>> /\ count # 0 THEN blob[1] ELSE default

\* What the next boot would load.
Stored == LoadData(flash, 1, Default)
StoredConf == LoadData(wifiFlash.blob, wifiFlash.count, DefaultConf)

Goto(t, place) == at' = [at EXCEPT ![t] = place]

-----------------------------------------------------------------------------
(* The setters.  The result is the settings to be.                         *)

SetDeployMode(mode) == [data EXCEPT !.deploy = mode]

SetDeviceName(name) == [data EXCEPT !.name = name]

SetAlertPnEnabled(enabled) == [data EXCEPT !.pn = enabled]

SetAlertSoundEnabled(enabled) == [data EXCEPT !.sound = enabled]

SetAlert(alert) == [data EXCEPT !.alert = alert]

SetPnToken(on, os, token) == [data EXCEPT !.tokens = SetToken(@, on, os, token)]

\* These test for a change first; the others mark the settings in any case.
IfChanged == {SetDeployMode(m) : m \in DeployModes} \cup {SetAlertPnEnabled(b) : b \in BOOLEAN}
             \cup {SetAlertSoundEnabled(b) : b \in BOOLEAN}

Always == {SetDeviceName(n) : n \in Name} \cup {SetAlert(a) : a \in Alert}
          \cup {SetPnToken(b, os, t) : b \in BOOLEAN, os \in Os, t \in Token}

\* What a change of the settings to d does to the saves and the restart under way.
Changes(d) ==
    /\ data' = d
    /\ hit' = hit \cup {u \in Actor : at[u] = "clear"}
    /\ kept' = IF at[Daemon] = "idle" THEN kept ELSE [f \in DOMAIN d |-> kept[f] \cup {d[f]}]
    /\ UNCHANGED <<excused, fanFailed, wifiFailed, twice>>

\* A setting that is written by the next save.
Store(t, d) ==
    /\ at[t] = "idle"
    /\ d \in (IfChanged \ {data}) \cup Always
    /\ Changes(d)
    /\ Goto(t, "mark")
    /\ UNCHANGED <<needToSave, nvsVars, wifi, fanArg, seen, lifeVars, countVars>>

\* Slip: a changed setting is not marked.
MarkForgotten(t) ==
    /\ at[t] = "mark"
    /\ needToSave' = (needToSave \/ t = Daemon)
    /\ Goto(t, IF t = Daemon THEN "test" ELSE "idle")
    /\ UNCHANGED <<data, nvsVars, wifi, fanArg, seen, lifeVars, countVars, histVars>>

\* _updateData(false); in the daemon it is _updateMaintenance.
Mark(t) ==
    /\ at[t] = "mark"
    /\ needToSave' = TRUE
    /\ Goto(t, IF t = Daemon THEN "test" ELSE "idle")
    /\ UNCHANGED <<data, nvsVars, wifi, fanArg, seen, lifeVars, countVars, histVars>>

\* setFanMode writes the mode, then the value that goes with it, then saves.
SetFanMode(t, arg) ==
    /\ at[t] = "idle"
    /\ Changes([data EXCEPT !.fan.mode = arg.mode])
    /\ fanArg' = [fanArg EXCEPT ![t] = arg]
    /\ Goto(t, "fan")
    /\ UNCHANGED <<needToSave, nvsVars, wifi, seen, lifeVars, countVars>>

\* What SetFanOpMode passes: a threshold, a time, or neither.
FanArgs == [mode : {"auto"}, thr : Threshold, min : {DefaultThreshold}]
           \cup [mode : {"delay"}, thr : {DefaultThreshold}, min : Threshold]
           \cup [mode : {"on", "off"}, thr : {DefaultThreshold}, min : {DefaultThreshold}]

FanChanged(t) ==
    [data EXCEPT !.fan.thr = IF fanArg[t].mode = "auto" THEN fanArg[t].thr ELSE @,
                 !.fan.min = IF fanArg[t].mode = "delay" THEN fanArg[t].min ELSE @]

\* Slip: the fan mode is saved with the other settings, at the next restart.
SetFanModeLazily(t) ==
    /\ at[t] = "fan"
    /\ Changes(FanChanged(t))
    /\ Goto(t, "mark")
    /\ UNCHANGED <<needToSave, nvsVars, wifi, fanArg, seen, lifeVars, countVars>>

SetFanValue(t) ==
    /\ at[t] = "fan"
    /\ Changes(FanChanged(t))
    /\ fanArg' = [fanArg EXCEPT ![t] = Default.fan]
    /\ Goto(t, "age")
    /\ UNCHANGED <<needToSave, nvsVars, wifi, seen, lifeVars, countVars>>

-----------------------------------------------------------------------------
(* _saveData.  The lifetimes are brought up to date first, which           *)
(* maintenance() does as well for the answer to GetDeviceInfo: the clock   *)
(* is read, the difference taken, added by a load and a store, and the     *)
(* clock's value kept.  The seconds are 32 bits wide, and the sums modulo  *)
(* 2 ^ 32, which loses nothing that is compared here.                      *)

Ageing(t) == step[t] # "clock"

AskLife(t) ==
    /\ at[t] = "idle"
    /\ Goto(t, "info")
    /\ UNCHANGED <<ramVars, nvsVars, wifi, fanArg, seen, lifeVars, countVars, histVars>>

StepFrom(t, this, next) ==
    /\ at[t] \in {"age", "info"} /\ step[t] = this
    /\ step' = [step EXCEPT ![t] = next]
    /\ UNCHANGED <<ramVars, nvsVars, wifi, fanArg, clock, countVars>>
    /\ UNCHANGED <<hit, excused, fanFailed, wifiFailed, kept>>

ReadClock(t) ==
    /\ StepFrom(t, "clock", "difference")
    /\ seen' = [seen EXCEPT ![t] = clock]
    /\ twice' = (twice \/ \E u \in Actor : Ageing(u))
    /\ UNCHANGED <<life, sum, at>>

\* Slip: the session is added as a whole each time.
AddWholeSession(t) ==
    /\ StepFrom(t, "difference", "load")
    /\ sum' = [sum EXCEPT ![t] = seen[t]]
    /\ UNCHANGED <<life, seen, at, twice>>

TakeDifference(t) ==
    /\ StepFrom(t, "difference", "load")
    /\ sum' = [sum EXCEPT ![t] = seen[t] - life.session]
    /\ UNCHANGED <<life, seen, at, twice>>

AddToLife(t) ==
    /\ StepFrom(t, "load", "store")
    /\ sum' = [sum EXCEPT ![t] = @ + life.all]
    /\ UNCHANGED <<life, seen, at, twice>>

StoreLife(t) ==
    /\ StepFrom(t, "store", "keep")
    /\ life' = [life EXCEPT !.all = sum[t]]
    /\ sum' = [sum EXCEPT ![t] = 0]
    /\ UNCHANGED <<seen, at, twice>>

KeepSessionLife(t) ==
    /\ StepFrom(t, "keep", "clock")
    /\ life' = [life EXCEPT !.session = seen[t]]
    /\ seen' = [seen EXCEPT ![t] = 0]
    /\ Goto(t, IF at[t] = "age" THEN "write" ELSE "idle")
    /\ UNCHANGED <<sum, twice>>

CalculateMaintenance(t) ==
    ReadClock(t) \/ TakeDifference(t) \/ AddToLife(t) \/ StoreLife(t) \/ KeepSessionLife(t)

\* NvsFlash::saveData up to the blob.  Nobody looks at what it returns.
WriteBlob(t) ==
    /\ at[t] = "write"
    /\ Goto(t, "clear")
    /\ \/ /\ flash' = <<data>>
          /\ excused' = FALSE /\ fanFailed' = FALSE
          /\ UNCHANGED fails
       \/ /\ fails < MaxFails
          /\ fails' = fails + 1
          /\ excused' = TRUE
          /\ fanFailed' = (fanFailed \/ t # Daemon)
          /\ UNCHANGED flash
    /\ UNCHANGED <<ramVars, wifiFlash, wifi, fanArg, seen, lifeVars, boots, hit, wifiFailed, kept, twice>>

\* The mark is taken back whether the save succeeded or not.
ClearMark(t) ==
    /\ at[t] = "clear"
    /\ needToSave' = FALSE
    /\ excused' = (excused \/ t \in hit)
    /\ hit' = hit \ {t}
    /\ Goto(t, IF t = Daemon THEN "pause" ELSE "idle")
    /\ UNCHANGED <<data, nvsVars, wifi, fanArg, seen, lifeVars, countVars, fanFailed, wifiFailed, kept, twice>>

-----------------------------------------------------------------------------
(* The Wi-Fi configuration: Wifi::saveConfig follows every change.         *)

SetWifi(t, conf) ==
    /\ at[t] = "idle"
    /\ wifi' = conf
    /\ Goto(t, "wifi")
    /\ UNCHANGED <<ramVars, nvsVars, fanArg, seen, lifeVars, countVars, histVars>>

SaveConfig(t) ==
    /\ at[t] = "wifi"
    /\ \/ /\ seen' = [seen EXCEPT ![t] = wifiFlash.count]
          /\ wifiFlash' = [wifiFlash EXCEPT !.blob = <<wifi>>]
          /\ wifiFailed' = FALSE
          /\ Goto(t, "counting")
          /\ UNCHANGED fails
       \/ /\ fails < MaxFails
          /\ fails' = fails + 1
          /\ wifiFailed' = TRUE
          /\ Goto(t, "idle")
          /\ UNCHANGED <<seen, wifiFlash>>
    /\ UNCHANGED <<ramVars, flash, wifi, fanArg, lifeVars, boots>>
    /\ UNCHANGED <<hit, excused, fanFailed, kept, twice>>

\* Slip: the save count does not come round.
NextCountUnbounded(n) == n + 1

\* The save count is a uint16_t.
NextCount(n) == (n + 1) % Counts

SaveCount(t) ==
    /\ at[t] = "counting"
    /\ wifiFlash' = [wifiFlash EXCEPT !.count = NextCount(seen[t])]
    /\ seen' = [seen EXCEPT ![t] = 0]
    /\ Goto(t, "idle")
    /\ UNCHANGED <<ramVars, flash, wifi, fanArg, lifeVars, countVars, histVars>>

-----------------------------------------------------------------------------
(* Boots, orderly and not.                                                 *)

\* System::restart, on the daemon's task: mark, save, pause the peripherals, boot.
RestartBegins ==
    /\ at[Daemon] = "idle"
    /\ Goto(Daemon, "mark")
    /\ kept' = [f \in DOMAIN data |-> {data[f]}]
    /\ UNCHANGED <<ramVars, nvsVars, wifi, fanArg, seen, lifeVars, countVars>>
    /\ UNCHANGED <<hit, excused, fanFailed, wifiFailed, twice>>

\* Slip: a restart pauses the peripherals and saves nothing.
PauseWithoutSave ==
    /\ at[Daemon] = "test"
    /\ Goto(Daemon, "pause")
    /\ UNCHANGED <<ramVars, nvsVars, wifi, fanArg, seen, lifeVars, countVars, histVars>>

SaveMemoryData ==
    /\ at[Daemon] = "test"
    /\ Goto(Daemon, IF needToSave THEN "age" ELSE "pause")
    /\ UNCHANGED <<ramVars, nvsVars, wifi, fanArg, seen, lifeVars, countVars, histVars>>

\* NvsFlash::init erases a partition without free pages.
NvsInit(erased) == flash' = IF erased THEN <<>> ELSE flash

\* System::init; the loading can fail.
LoadAll(failed, erased) ==
    /\ NvsInit(erased)
    /\ data' = IF failed \/ erased THEN Default ELSE Stored
    /\ excused' = (failed /\ ~erased)
    /\ fanFailed' = (failed /\ ~erased)

\* wifi_task: what cannot be loaded is replaced by the default configuration, and saved.
LoadConfig(failed, erased) ==
    LET found == ~failed /\ ~erased /\ wifiFlash.count # 0
        count == IF erased THEN 0 ELSE wifiFlash.count
    IN  /\ wifi' = IF found THEN StoredConf ELSE DefaultConf
        /\ wifiFlash' = IF found THEN wifiFlash
                        ELSE [blob |-> <<DefaultConf>>, count |-> NextCount(count)]
        /\ wifiFailed' = FALSE

\* A restart that is through, or the power that fails at any point.
Boot ==
    /\ boots < MaxBoots
    /\ boots' = boots + 1
    /\ \E failed, erased \in BOOLEAN :
          /\ (failed \/ erased) => fails < MaxFails
          /\ fails' = IF failed \/ erased THEN fails + 1 ELSE fails
          /\ LoadAll(failed, erased)
          /\ LoadConfig(failed, erased)
    /\ needToSave' = FALSE
    /\ at' = [t \in Actor |-> "idle"]
    /\ clock' = 0 /\ life' = [all |-> 0, session |-> 0] /\ twice' = FALSE
    /\ hit' = {} /\ kept' = [f \in DOMAIN Default |-> {}]
    /\ NoLocals(fanArg', seen', step', sum')

Tick ==
    /\ clock < MaxClock
    /\ clock' = clock + 1
    /\ UNCHANGED <<ramVars, nvsVars, wifi, at, fanArg, seen, life, step, sum, countVars, histVars>>

\* What a task has begun, it goes on with.
Continue(t) ==
    \/ Mark(t)
    \/ SetFanValue(t)
    \/ CalculateMaintenance(t)
    \/ WriteBlob(t)
    \/ ClearMark(t)
    \/ SaveConfig(t)
    \/ SaveCount(t)

Begin(t) ==
    \/ \E d \in IfChanged \cup Always : Store(t, d)
    \/ \E arg \in FanArgs : SetFanMode(t, arg)
    \/ \E conf \in Conf : SetWifi(t, conf)
    \/ AskLife(t)

Surroundings == RestartBegins \/ SaveMemoryData \/ Boot \/ Tick

Next == (\E t \in Task : Begin(t)) \/ (\E t \in Actor : Continue(t)) \/ Surroundings

Spec == Init /\ [][Next]_dataVars

-----------------------------------------------------------------------------
(* Properties.                                                             *)

\* A task has changed a setting and has not marked or saved it yet.
Pending(t) == at[t] \in {"mark", "fan", "age", "write"}

\* A changed setting is never forgotten: it is in flash, or the mark says that it has to be
\* saved, unless the last save failed or another task changed a setting between the snapshot
\* of a save and its clearing of the mark (_saveData).
SettingsKept ==
    ~excused /\ (\A t \in Task : ~Pending(t)) => needToSave \/ data = Stored

\* What setFanMode and saveConfig stored at once survives any boot, the power's failing
\* included, whatever the other tasks save or change meanwhile; the Wi-Fi configuration
\* is lost only when the 16 bits of its save count have come round to zero.
SavedAtOnce ==
    /\ ~fanFailed /\ (\A t \in Task : at[t] \notin {"fan", "age", "write"})
         => Stored.fan = data.fan
    /\ ~wifiFailed /\ (\A t \in Task : at[t] # "wifi")
         => wifiFlash.count = 0 \/ StoredConf = wifi

\* An orderly restart takes no setting back to a value older than those it had when the
\* restart began, whichever tasks change and save settings while it is under way.
RestartKeeps ==
    [][boots' # boots /\ at[Daemon] = "pause" /\ ~excused /\ fails' = fails
         => \A f \in DOMAIN data : data'[f] \in kept[f]]_dataVars

\* The life of the device is counted exactly, by however many saves and answers to
\* GetDeviceInfo, until two tasks bring it up to date at once (_calculateMaintenance): then
\* time is counted twice or not at all, for good.
LifeCounted ==
    ~twice /\ (\A t \in Actor : ~Ageing(t)) => life.all = life.session
============================================================================
