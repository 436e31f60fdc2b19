----------------------------- MODULE FanControl -----------------------------
(***************************************************************************)
(* The fan mode (components/Application/System.cpp): commands of the       *)
(* server tasks store a mode and its arguments with System::setFanMode;    *)
(* humid_control_task looks once a second whether the mode is still the    *)
(* one it applied, applies it if not, and otherwise drives the fans by     *)
(* humidity or by a countdown.  The two share plain globals: nothing locks *)
(* them, so every store and every load is a step of its own, and what the  *)
(* compiler may load once or twice is a choice.                            *)
(***************************************************************************)
EXTENDS Integers

CONSTANTS
  Setters,            \* tasks that execute SetFanOpMode
  Fans,               \* the two fans, each with its humidity sensor
  Levels,             \* humidity readings and thresholds
  Thresholds,         \* pairs <<lthr, gthr>> a command may set
  Delays,             \* minutes a command may set
  SecondsPerMinute,   \* 60
  NoThreshold,        \* 999, above every reading: _lHumid and _gHumid at first
  FirstDelay          \* 60, _fan_cd at first

ASSUME FanAssumption ==
    /\ Levels \subseteq Int
    /\ Thresholds \subseteq Levels \X Levels
    /\ Delays \subseteq Nat
    /\ SecondsPerMinute \in Nat \ {0}
    /\ NoThreshold \in Int /\ \A h \in Levels : h < NoThreshold
    /\ FirstDelay \in Nat

VARIABLES
  fm,           \* _data.fanMode
  currentMode,  \* _currentMode
  lHumid,       \* _lHumid
  gHumid,       \* _gHumid
  fanCd,        \* _fan_cd, in minutes
  second,       \* _second_elapsed
  fan,          \* fan[f]: _fan1On, _fan2On
  humid,        \* humid[f]: the last reading of sensor f
  pc,           \* where humid_control_task is in its loop
  seen,         \* the mode it loaded in this pass
  todo,         \* todo[t]: the stores setFanMode has still to do in task t
  overlapped    \* history: a store fell between a load of the mode and its marking

applied == <<lHumid, gHumid, fanCd, second, fan>>
vars == <<fm, currentMode, applied, humid, pc, seen, todo, overlapped>>

-----------------------------------------------------------------------------
Modes == {"AUTO", "DELAY", "ON", "OFF"}

\* FanMode::init(), or what NVS held: a mode and arguments some command set.
Stored == [mode : Modes, lthr : Levels, gthr : Levels, min : Delays]

Init == /\ fm \in {m \in Stored : <<m.lthr, m.gthr>> \in Thresholds}
        /\ currentMode = "UNDEFINED"
        /\ lHumid = NoThreshold /\ gHumid = NoThreshold
        /\ fanCd = FirstDelay /\ second = 0
        /\ fan = [f \in Fans |-> FALSE]
        /\ humid \in [Fans -> Levels]
        /\ pc = "compare" /\ seen = "UNDEFINED"
        /\ todo = [t \in Setters |-> {}]
        /\ overlapped = FALSE

-----------------------------------------------------------------------------
(* setFanMode: the stores to fm in the order the build chooses, then the   *)
(* call that logs, then _currentMode.                                      *)

Store(field, value) == <<field, value>>
Undefine == Store("currentMode", "UNDEFINED")

Settings ==
    {{Store("mode", "AUTO"), Store("lthr", a[1]), Store("gthr", a[2])} : a \in Thresholds}
    \cup {{Store("mode", "DELAY"), Store("min", d)} : d \in Delays}
    \cup {{Store("mode", m)} : m \in {"ON", "OFF"}}

FieldStores == UNION Settings

SetFanMode(t) ==
    /\ todo[t] = {}
    /\ \E s \in Settings : todo' = [todo EXCEPT ![t] = s \cup {Undefine}]
    /\ UNCHANGED <<fm, currentMode, applied, humid, pc, seen, overlapped>>

\* The task is between the load that found a new mode and its marking as applied.
Applying == pc \in {"apply", "applyUpper", "mark"}

StoreField(t) ==
    /\ \E w \in todo[t] \ {Undefine} :
          /\ fm' = [fm EXCEPT ![w[1]] = w[2]]
          /\ todo' = [todo EXCEPT ![t] = @ \ {w}]
    /\ overlapped' = (overlapped \/ Applying)
    /\ UNCHANGED <<currentMode, applied, humid, pc, seen>>

\* Slip: _currentMode is reset first, and the settings are stored after it.
UndefineModeFirst(t) ==
    /\ Undefine \in todo[t]
    /\ currentMode' = "UNDEFINED"
    /\ todo' = [todo EXCEPT ![t] = @ \ {Undefine}]
    /\ overlapped' = (overlapped \/ Applying)
    /\ UNCHANGED <<fm, applied, humid, pc, seen>>

UndefineMode(t) ==
    /\ todo[t] = {Undefine}
    /\ currentMode' = "UNDEFINED"
    /\ todo' = [todo EXCEPT ![t] = {}]
    /\ overlapped' = (overlapped \/ Applying)
    /\ UNCHANGED <<fm, applied, humid, pc, seen>>

-----------------------------------------------------------------------------
(* humid_control_task.                                                     *)

Compare ==
    /\ pc = "compare"
    /\ seen' = fm.mode
    /\ pc' = IF currentMode # fm.mode THEN "apply" ELSE "control"
    /\ overlapped' = (overlapped /\ currentMode = fm.mode)
    /\ UNCHANGED <<fm, currentMode, applied, humid, todo>>

ApplyAuto ==
    /\ pc = "apply" /\ seen = "AUTO"
    /\ lHumid' = fm.lthr
    /\ pc' = "applyUpper"
    /\ UNCHANGED <<fm, currentMode, gHumid, fanCd, second, fan, humid, seen, todo, overlapped>>

ApplyUpper ==
    /\ pc = "applyUpper"
    /\ gHumid' = fm.gthr
    /\ pc' = "mark"
    /\ UNCHANGED <<fm, currentMode, lHumid, fanCd, second, fan, humid, seen, todo, overlapped>>

ApplyDelay ==
    /\ pc = "apply" /\ seen = "DELAY"
    /\ fanCd' = fm.min /\ second' = 0
    /\ pc' = "mark"
    /\ UNCHANGED <<fm, currentMode, lHumid, gHumid, fan, humid, seen, todo, overlapped>>

ApplyOnOff ==
    /\ pc = "apply" /\ seen \in {"ON", "OFF"}
    /\ fan' = [f \in Fans |-> seen = "ON"]
    /\ pc' = "mark"
    /\ UNCHANGED <<fm, currentMode, lHumid, gHumid, fanCd, second, humid, seen, todo, overlapped>>

\* _currentMode = fm->mode loads the mode again, after the calls that drive the
\* fans in any case; without a call in between the build may keep the old load.
Mark ==
    /\ pc = "mark"
    /\ currentMode' \in IF seen \in {"ON", "OFF"} THEN {fm.mode} ELSE {seen, fm.mode}
    /\ pc' = "delay" /\ seen' = "UNDEFINED"
    /\ UNCHANGED <<fm, applied, humid, todo, overlapped>>

\* Slip: both thresholds are compared the same way.
ByHumiditySwapped(f) == IF humid[f] > lHumid THEN FALSE
                        ELSE IF humid[f] < gHumid THEN TRUE ELSE fan[f]

ByHumidity(f) == IF humid[f] > gHumid THEN TRUE
                 ELSE IF humid[f] < lHumid THEN FALSE ELSE fan[f]

Control ==
    /\ pc = "control"
    /\ \E m \in {seen, fm.mode} :
          fan' = CASE m = "AUTO"          -> [f \in Fans |-> ByHumidity(f)]
                   [] m = "DELAY"         -> [f \in Fans |-> fanCd > 0]
                   [] m \in {"ON", "OFF"} -> fan
    /\ pc' = "delay" /\ seen' = "UNDEFINED"
    /\ UNCHANGED <<fm, currentMode, lHumid, gHumid, fanCd, second, humid, todo, overlapped>>

\* Slip: the minute is looked for one second after the counter starts anew.
TickTooLate ==
    /\ pc = "delay"
    /\ second' = IF second + 1 = SecondsPerMinute THEN 0 ELSE second + 1
    /\ fanCd' = IF second + 1 = SecondsPerMinute + 1 /\ fanCd > 0 THEN fanCd - 1 ELSE fanCd
    /\ pc' = "compare"
    /\ UNCHANGED <<fm, currentMode, lHumid, gHumid, fan, humid, seen, todo, overlapped>>

\* Slip: the counter of seconds does not start anew.
TickWithoutReset ==
    /\ pc = "delay"
    /\ second' = second + 1
    /\ fanCd' = IF second + 1 = SecondsPerMinute /\ fanCd > 0 THEN fanCd - 1 ELSE fanCd
    /\ pc' = "compare"
    /\ UNCHANGED <<fm, currentMode, lHumid, gHumid, fan, humid, seen, todo, overlapped>>

\* The delay of a second, and the countdown, which runs in every mode.
Tick ==
    /\ pc = "delay"
    /\ second' = IF second + 1 = SecondsPerMinute THEN 0 ELSE second + 1
    /\ fanCd' = IF second + 1 = SecondsPerMinute /\ fanCd > 0 THEN fanCd - 1 ELSE fanCd
    /\ pc' = "compare"
    /\ UNCHANGED <<fm, currentMode, lHumid, gHumid, fan, humid, seen, todo, overlapped>>

HumidControlTask == Compare \/ ApplyAuto \/ ApplyUpper \/ ApplyDelay \/ ApplyOnOff
                    \/ Mark \/ Control \/ Tick

-----------------------------------------------------------------------------
\* sht3x_sensor_task publishes a new reading.
Sample(f) ==
    /\ \E h \in Levels \ {humid[f]} : humid' = [humid EXCEPT ![f] = h]
    /\ UNCHANGED <<fm, currentMode, applied, pc, seen, todo, overlapped>>

Next == \/ \E t \in Setters : SetFanMode(t) \/ StoreField(t) \/ UndefineMode(t)
        \/ HumidControlTask
        \/ \E f \in Fans : Sample(f)

Spec == Init /\ [][Next]_vars

\* The task is never blocked; commands and readings come when they come.
FairSpec == Spec /\ WF_vars(HumidControlTask)

-----------------------------------------------------------------------------
TypeOK == /\ fm \in Stored
          /\ currentMode \in Modes \cup {"UNDEFINED"}
          /\ {lHumid, gHumid} \subseteq Levels \cup {NoThreshold}
          /\ fanCd \in Nat /\ second \in 0 .. SecondsPerMinute - 1
          /\ fan \in [Fans -> BOOLEAN] /\ humid \in [Fans -> Levels]
          /\ pc \in {"compare", "apply", "applyUpper", "mark", "control", "delay"}
          /\ seen \in Modes \cup {"UNDEFINED"}
          /\ todo \in [Setters -> SUBSET (FieldStores \cup {Undefine})]
          /\ overlapped \in BOOLEAN

\* No setFanMode is under way.
Quiet == \A t \in Setters : todo[t] = {}

\* The fans, or what drives them, are what the stored mode asks for.
Applied == /\ fm.mode = "ON" => \A f \in Fans : fan[f]
           /\ fm.mode = "OFF" => \A f \in Fans : ~fan[f]
           /\ fm.mode = "AUTO" => lHumid = fm.lthr /\ gHumid = fm.gthr
           /\ fm.mode = "DELAY" => fanCd <= fm.min

\* A setting is lost in one way only: a store of setFanMode fell between the load
\* that found a new mode and the marking of it as applied.  In every other
\* interleaving of any number of setters, what is marked as applied is applied.
LostOnlyByOverlap ==
    Quiet /\ ~overlapped /\ ~Applying /\ currentMode = fm.mode => Applied

\* A delay that is set and left alone ends with the fans off, whatever races
\* there were before.
DelayEnds ==
    <>[](fm.mode = "DELAY" /\ Quiet) => <>[](\A f \in Fans : ~fan[f])

\* In automatic mode a fan whose humidity stays above the threshold in force
\* comes on and stays on.
HumidityDrivesFan ==
    \A f \in Fans :
       <>[](fm.mode = "AUTO" /\ Quiet /\ humid[f] > gHumid) => <>[]fan[f]
=============================================================================
