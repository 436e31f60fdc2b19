------------------------------- MODULE Sensors -------------------------------
(***************************************************************************)
(* What sht3x_sensor_task does on the I2C bus (components/Sensor/TempHumid/ *)
(* SHT3xSensor.cpp, components/I2c), inside the handshake of               *)
(* PeripheralPause.  Two sensors share one receive buffer, one count of    *)
(* failures, one stamp and one power switch; a sensor that does not answer *)
(* is waited for, and the power of both is cycled meanwhile.               *)
(* No other task takes Semaphore::i2c, so a transfer is one step.          *)
(***************************************************************************)
EXTENDS PeripheralPause

CONSTANTS
  Nothing, Noise,   \* a reading not made yet, and bytes whose CRC does not match
  PowerLimit,       \* ALLOWED_PERIPHERALS_POWER_RESET_COUNT, 1000
  MaxFaults         \* bound: sensors that hang or go, and readings garbled

ASSUME BusAssumption == PowerLimit \in Nat /\ MaxFaults \in Nat /\ Nothing # Noise

Sensor == 0 .. 1   \* sht3xSensor0 and sht3xSensor1

VARIABLES
  step, cur,   \* the task's place in SHT3xSensor's functions, and for which sensor
  behind,      \* resetStamp() - _sht3xPwrResetStamp
  resets,      \* _i2cPeripheralsPowerResetCount
  fails,       \* _sht3xSampleFailCount
  rxBuf,       \* _sht3xRxBuf: whose temperature and humidity it holds
  reading,     \* reading[s]: _tempHumidData
  dev,         \* dev[s]: "ok", "hung" until its power is cycled, or "gone"
  measured,    \* the sensors that hold a measurement to be read
  faults

busVars == <<step, cur, behind, resets, fails, rxBuf, reading>>
devVars == <<dev, measured, faults>>
allVars == <<vars, busVars, devVars>>

\* beforeCreateTasks made the semaphore and the bus; the constructors cleared the readings.
BusInit ==
    /\ Init
    /\ step = "ready" /\ cur = 0 /\ behind = 0 /\ resets = 0 /\ fails = 0
    /\ rxBuf = [temp |-> Nothing, humid |-> Nothing]
    /\ reading = [s \in Sensor |-> rxBuf]
    /\ dev \in [Sensor -> {"ok", "hung", "gone"}]
    /\ measured = {} /\ faults = 0

-----------------------------------------------------------------------------
(* SHT3xSensor::init, for both at the start and after a sampling failed.   *)

\* Where the task goes when it is done with the current sensor.
NextSensor ==
    IF cur = 1 THEN step' = "done" /\ UNCHANGED cur
    ELSE cur' = 1 /\ step' = IF sht = "init" THEN "ready" ELSE "sample"

\* The address is acknowledged.
Acknowledges(s) == dev[s] = "ok"

\* I2cPeripherals::deviceReady
DeviceReady == /\ step = "ready"
               /\ step' = IF Acknowledges(cur) THEN "soft" ELSE "stamp"
               /\ UNCHANGED <<vars, cur, behind, resets, fails, rxBuf, reading, devVars>>

\* I2cPeripherals::resetPower
ResetPower ==
    IF resets >= PowerLimit THEN UNCHANGED <<resets, dev, measured>>
    ELSE /\ resets' = resets + 1
         /\ dev' = [s \in Sensor |-> IF dev[s] = "hung" THEN "ok" ELSE dev[s]]
         /\ measured' = {}

\* Slip: what reset() returns is thrown away.
ResetUnsynced ==
    /\ step = "stamp" /\ step' = "ready"
    /\ IF behind = 0 THEN ResetPower /\ behind' = 1
                     ELSE UNCHANGED <<behind, resets, dev, measured>>
    /\ UNCHANGED <<vars, cur, fails, rxBuf, reading, faults>>

\* I2cPeripherals::reset moves the stamp whether or not the power may be cycled.
ResetIfInSync ==
    /\ step = "stamp" /\ step' = "ready"
    /\ IF behind = 0 THEN ResetPower ELSE UNCHANGED <<resets, dev, measured>>
    /\ UNCHANGED <<vars, cur, behind, fails, rxBuf, reading, faults>>

\* A command arrives, or not; what masterTx returns is not looked at.
Hears(s) == Acknowledges(s)

\* A reset drops the measurement.
SoftReset == measured' = IF Hears(cur) THEN measured \ {cur} ELSE measured

InitDone == /\ step = "soft"
            /\ behind' = 0 /\ fails' = 0
            /\ SoftReset
            /\ NextSensor
            /\ UNCHANGED <<vars, resets, rxBuf, reading, dev, faults>>

-----------------------------------------------------------------------------
(* SHT3xSensor::sampleData and sht3xReadTempHumid.                         *)

\* A power reset by another task would come first with init(false); there is none.
SampleData == /\ step = "sample" /\ step' = "measure"
              /\ IF behind > 0 THEN behind' = 0 /\ fails' = 0 /\ SoftReset
                               ELSE UNCHANGED <<behind, fails, measured>>
              /\ UNCHANGED <<vars, cur, resets, rxBuf, reading, dev, faults>>

SendMeasure == /\ step = "measure" /\ step' = "read"
               /\ measured' = IF Hears(cur) THEN measured \cup {cur} ELSE measured
               /\ UNCHANGED <<vars, cur, behind, resets, fails, rxBuf, reading, dev, faults>>

Answers == Acknowledges(cur) /\ cur \in measured

Whole(s) == [temp |-> s, humid |-> s]

\* What the line can make of it: either half garbled.
Garbled(s) == {[temp |-> Noise, humid |-> s], [temp |-> s, humid |-> Noise]}

\* Slip: the return value of sht3xRxData is ignored, and what the buffer holds is checked.
ReceiveUnchecked ==
    /\ step = "read"
    /\ step' = "crc"
    /\ rxBuf' = IF Answers THEN Whole(cur) ELSE rxBuf
    /\ measured' = measured \ {cur}
    /\ UNCHANGED <<vars, cur, behind, resets, fails, reading, dev, faults>>

\* A transfer that fails leaves the buffer as it was.
Receive ==
    /\ step = "read"
    /\ \/ /\ Answers
          /\ step' = "crc"
          /\ \/ rxBuf' = Whole(cur) /\ UNCHANGED faults
             \/ faults < MaxFaults /\ faults' = faults + 1 /\ rxBuf' \in Garbled(cur)
       \/ ~Answers /\ step' = "failed" /\ UNCHANGED <<rxBuf, faults>>
    /\ measured' = measured \ {cur}
    /\ UNCHANGED <<vars, cur, behind, resets, fails, reading, dev>>

CrcMatches == rxBuf.temp # Noise /\ rxBuf.humid # Noise

CheckAndStore ==
    /\ step = "crc"
    /\ IF CrcMatches THEN reading' = [reading EXCEPT ![cur] = rxBuf] /\ NextSensor
                     ELSE step' = "failed" /\ UNCHANGED <<reading, cur>>
    /\ UNCHANGED <<vars, behind, resets, fails, rxBuf, devVars>>

\* SHT3X_RESET_ON_SAMPLE_FAIL_COUNT is 1.
SampleFailed == /\ step = "failed"
                /\ fails' = fails + 1
                /\ IF fails' = 1 THEN step' = "ready" /\ UNCHANGED cur ELSE NextSensor
                /\ UNCHANGED <<vars, behind, resets, rxBuf, reading, devVars>>

OnTheBus == \/ DeviceReady \/ ResetIfInSync \/ InitDone
            \/ SampleData \/ SendMeasure \/ Receive \/ CheckAndStore \/ SampleFailed

-----------------------------------------------------------------------------
(* The sensors.                                                            *)

Fault == faults < MaxFaults /\ faults' = faults + 1 /\ UNCHANGED <<vars, busVars>>

Hang(s) == /\ Fault /\ dev[s] = "ok"
           /\ dev' = [dev EXCEPT ![s] = "hung"] /\ measured' = measured \ {s}

Unplug(s) == /\ Fault /\ dev[s] # "gone"
             /\ dev' = [dev EXCEPT ![s] = "gone"] /\ measured' = measured \ {s}

Replug(s) == /\ dev[s] = "gone"
             /\ dev' = [dev EXCEPT ![s] = "ok"]
             /\ UNCHANGED <<vars, busVars, measured, faults>>

-----------------------------------------------------------------------------
(* The task, and the callers of the handshake.                             *)

\* The loop of sht3x_sensor_task around what it does on the bus.
TaskLoop ==
    /\ \/ step = "done" /\ (SensorsInited \/ Sampled) /\ step' = "idle" /\ cur' = 0
       \/ CheckEnabled /\ step' = (IF enabled THEN "sample" ELSE "idle") /\ UNCHANGED cur
       \/ (MarkPaused \/ DelayOver) /\ UNCHANGED <<step, cur>>
    /\ UNCHANGED <<behind, resets, fails, rxBuf, reading, devVars>>

PauseStep == /\ \/ \E c \in Pausers : Pause(c) \/ PauseReturns(c)
                \/ \E u \in Resumers : ResumeState(u) \/ ResumeEnable(u)
                \/ Restart
             /\ UNCHANGED <<busVars, devVars>>

BusNext == /\ ~rebooted
           /\ \/ OnTheBus \/ TaskLoop \/ PauseStep
              \/ \E s \in Sensor : Hang(s) \/ Unplug(s) \/ Replug(s)

\* The task is scheduled, and so are the callers once they wait or resume.  A sensor
\* need not answer.
BusFairness ==
    /\ WF_allVars(~rebooted /\ (OnTheBus \/ TaskLoop))
    /\ \A c \in Pausers : WF_allVars(~rebooted /\ PauseReturns(c) /\ UNCHANGED <<busVars, devVars>>)
    /\ \A u \in Resumers : WF_allVars(~rebooted /\ ResumeEnable(u) /\ UNCHANGED <<busVars, devVars>>)

BusSpec == BusInit /\ [][BusNext]_allVars /\ BusFairness

-----------------------------------------------------------------------------
\* What a sensor's object publishes was measured by that sensor and arrived whole,
\* although both sensors are received into one buffer and the return values of the
\* commands sent before are ignored.
OwnReading ==
    \A s \in Sensor : {reading[s].temp, reading[s].humid} \subseteq {Nothing, s}

\* A sensor that hangs is brought back by a power cycle, whichever of the two the
\* task waits for, as long as the task may sample and the limit is not reached.
HungSensorRecovers ==
    \A s \in Sensor :
       dev[s] = "hung" ~> dev[s] # "hung" \/ resets = PowerLimit \/ ~enabled \/ rebooted

\* A pause comes back unless it is called off or a sensor stays away: the task waits
\* for a sensor inside init and looks at the flag only when it is back.
PauseWaitsForSensors ==
    \A c \in Pausers :
       pc[c] = "waiting" ~> \/ pc[c] # "waiting" \/ enabled \/ rebooted
                            \/ \E s \in Sensor : \/ dev[s] = "gone"
                                                 \/ dev[s] = "hung" /\ resets = PowerLimit
==============================================================================
