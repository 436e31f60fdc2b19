--------------------------- MODULE PeripheralPause ---------------------------
(***************************************************************************)
(* The pause handshake of the peripherals (components/Application/         *)
(* System.cpp).  pausePeripherals clears a flag and waits until the sensor *)
(* task says it is paused; resumePeripherals sets both back.  The sensor   *)
(* task reads the flag at the top of its loop and samples the two sensors, *)
(* or says it is paused.  All of them share two plain globals.  The        *)
(* updater pauses for a download and resumes when it fails; a restart      *)
(* pauses and does not return.                                             *)
(***************************************************************************)
EXTENDS Naturals

CONSTANTS
  Pausers,    \* tasks that pause: "ws", which runs the download, and "daemon"
  Resumers    \* tasks in which the updater gives up: "httpd", "ws"

Callers == Pausers \cup Resumers

ASSUME CallersAssumption == "daemon" \in Pausers \ Resumers

VARIABLES
  enabled,      \* _enablePeripheralTaskLoop
  taskState,    \* _sht3xSensorTaskState
  sht,          \* where sht3x_sensor_task is
  pc,           \* pc[c]: where caller c is in pausePeripherals or resumePeripherals
  rebooted,     \* esp_restart was called
  quiet,        \* history: a pause returned that no resume had undone or has undone since
  lateMark      \* history: the task marked itself paused while it was being resumed

taskVars == <<enabled, taskState, sht>>
vars == <<taskVars, pc, rebooted, quiet, lateMark>>

Init == /\ enabled = TRUE /\ taskState = "Empty" /\ sht = "init"
        /\ pc = [c \in Callers |-> "idle"]
        /\ rebooted = FALSE /\ quiet = FALSE /\ lateMark = FALSE

-----------------------------------------------------------------------------
(* sht3x_sensor_task.                                                      *)

\* Slip: the task enters its loop without saying that it runs.
SensorsInitedUnsaid == /\ sht = "init"
                       /\ sht' = "check"
                       /\ UNCHANGED <<enabled, taskState, pc, rebooted, quiet, lateMark>>

SensorsInited == /\ sht = "init"
                 /\ taskState' = "Running"
                 /\ sht' = "check"
                 /\ UNCHANGED <<enabled, pc, rebooted, quiet, lateMark>>

CheckEnabled == /\ sht = "check"
                /\ sht' = IF enabled THEN "sampling" ELSE "pausing"
                /\ UNCHANGED <<enabled, taskState, pc, rebooted, quiet, lateMark>>

\* Both sensors are read over I2C; Sensors has the steps of it.
Sampled == /\ sht = "sampling"
           /\ sht' = "delay"
           /\ UNCHANGED <<enabled, taskState, pc, rebooted, quiet, lateMark>>

\* Slip: a task that was told to pause is taken for paused already.
MarkPausedNot == /\ sht = "pausing"
                 /\ sht' = "delay"
                 /\ UNCHANGED <<enabled, taskState, pc, rebooted, quiet, lateMark>>

MarkPaused == /\ sht = "pausing"
              /\ taskState' = "Paused"
              /\ sht' = "delay"
              /\ lateMark' = (lateMark \/ enabled \/ \E c \in Callers : pc[c] = "resuming")
              /\ UNCHANGED <<enabled, pc, rebooted, quiet>>

DelayOver == /\ sht = "delay"
             /\ sht' = "check"
             /\ UNCHANGED <<enabled, taskState, pc, rebooted, quiet, lateMark>>

SensorTask == SensorsInited \/ CheckEnabled \/ Sampled \/ MarkPaused \/ DelayOver

-----------------------------------------------------------------------------
(* pausePeripherals and resumePeripherals.                                 *)

Pause(c) == /\ pc[c] = "idle"
            /\ enabled' = FALSE
            /\ pc' = [pc EXCEPT ![c] = "waiting"]
            /\ UNCHANGED <<taskState, sht, rebooted, quiet, lateMark>>

\* Slip: the wait is left out.
PauseReturnsAtOnce(c) ==
    /\ pc[c] = "waiting"
    /\ pc' = [pc EXCEPT ![c] = IF c = "daemon" THEN "paused" ELSE "idle"]
    /\ quiet' = ~enabled
    /\ UNCHANGED <<taskVars, rebooted, lateMark>>

PauseReturns(c) ==
    /\ pc[c] = "waiting"
    /\ taskState # "Running"
    /\ pc' = [pc EXCEPT ![c] = IF c = "daemon" THEN "paused" ELSE "idle"]
    /\ quiet' = ~enabled
    /\ UNCHANGED <<taskVars, rebooted, lateMark>>

ResumeState(u) ==
    /\ pc[u] = "idle"
    /\ taskState' = IF taskState = "Paused" THEN "Running" ELSE taskState
    /\ pc' = [pc EXCEPT ![u] = "resuming"]
    /\ quiet' = FALSE
    /\ UNCHANGED <<enabled, sht, rebooted, lateMark>>

ResumeEnable(u) ==
    /\ pc[u] = "resuming"
    /\ enabled' = TRUE
    /\ pc' = [pc EXCEPT ![u] = "idle"]
    /\ quiet' = FALSE
    /\ UNCHANGED <<taskState, sht, rebooted, lateMark>>

\* System::restart() after pausePeripherals.
Restart == /\ pc["daemon"] = "paused"
           /\ ~rebooted
           /\ rebooted' = TRUE
           /\ UNCHANGED <<taskVars, pc, quiet, lateMark>>

Next == /\ ~rebooted
        /\ \/ SensorTask
           \/ \E c \in Pausers : Pause(c) \/ PauseReturns(c)
           \/ \E u \in Resumers : ResumeState(u) \/ ResumeEnable(u)
           \/ Restart

Spec == Init /\ [][Next]_vars

-----------------------------------------------------------------------------
TypeOK == /\ enabled \in BOOLEAN
          /\ taskState \in {"Empty", "Running", "Paused"}
          /\ sht \in {"init", "check", "sampling", "pausing", "delay"}
          /\ pc \in [Callers -> {"idle", "waiting", "resuming", "paused"}]
          /\ rebooted \in BOOLEAN /\ quiet \in BOOLEAN /\ lateMark \in BOOLEAN
          /\ taskState = "Empty" <=> sht = "init"

\* After a pause has returned and until the next resume the sensor task is not
\* sampling, with one exception: the task marked itself paused while a resume was
\* between its two stores, or after it, on an old look at the flag.
QuietUnlessLateMark == quiet /\ ~lateMark => sht # "sampling"
=============================================================================
