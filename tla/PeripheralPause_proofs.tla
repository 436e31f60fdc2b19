------------------------ MODULE PeripheralPause_proofs ------------------------
(***************************************************************************)
(* Theorems about PeripheralPause for every set of tasks that pause and    *)
(* every set of tasks that resume, and about Sensors, which puts the steps *)
(* on the bus into it, for any limits and numbers of faults.               *)
(***************************************************************************)
EXTENDS Sensors, TLAPS

\* Without a late mark the state of the task tells the truth: while the flag is
\* set, while a resume is about to set it and while the task samples, it says
\* that the task runs.
StateTruthful ==
    ~lateMark =>
       /\ enabled /\ sht # "init" => taskState = "Running"
       /\ \A c \in Callers : pc[c] = "resuming" /\ sht # "init" => taskState = "Running"
       /\ sht = "sampling" => taskState = "Running"

IInv == /\ TypeOK
        /\ quiet => ~enabled
        /\ StateTruthful
        /\ QuietUnlessLateMark

LEMMA InitInv == Init => IInv
BY DEF Init, IInv, TypeOK, StateTruthful, QuietUnlessLateMark

LEMMA TaskStep == IInv /\ SensorTask => IInv'
<1> SUFFICES ASSUME IInv, SensorTask PROVE IInv'
  OBVIOUS
<1> USE DEF IInv, TypeOK, StateTruthful, QuietUnlessLateMark
<1>1. CASE SensorsInited BY <1>1 DEF SensorsInited
<1>2. CASE CheckEnabled BY <1>2 DEF CheckEnabled
<1>3. CASE Sampled BY <1>3 DEF Sampled
<1>4. CASE MarkPaused BY <1>4 DEF MarkPaused
<1>5. CASE DelayOver BY <1>5 DEF DelayOver
<1> QED BY <1>1, <1>2, <1>3, <1>4, <1>5 DEF SensorTask

LEMMA PauserStep ==
  ASSUME IInv, NEW c \in Pausers, Pause(c) \/ PauseReturns(c) PROVE IInv'
<1> USE DEF IInv, TypeOK, StateTruthful, QuietUnlessLateMark, taskVars
<1>1. c \in Callers BY DEF Callers
<1>2. CASE Pause(c) BY <1>1, <1>2 DEF Pause
<1>3. CASE PauseReturns(c)
  <2>1. UNCHANGED <<enabled, taskState, sht, lateMark, rebooted>> BY <1>3 DEF PauseReturns
  <2>2. TypeOK' BY <1>1, <1>3, <2>1 DEF PauseReturns
  <2>3. \A d \in Callers : pc'[d] = "resuming" => pc[d] = "resuming"
    BY <1>1, <1>3 DEF PauseReturns
  <2>4. StateTruthful' BY <2>1, <2>3
  <2>5. QuietUnlessLateMark' BY <1>3, <2>1 DEF PauseReturns
  <2> QED BY <1>3, <2>1, <2>2, <2>4, <2>5 DEF PauseReturns
<1> QED BY <1>2, <1>3

LEMMA ResumerStep ==
  ASSUME IInv, NEW u \in Resumers, ResumeState(u) \/ ResumeEnable(u) PROVE IInv'
<1> USE DEF IInv, TypeOK, StateTruthful, QuietUnlessLateMark
<1>1. u \in Callers BY DEF Callers
<1>2. CASE ResumeState(u) BY <1>1, <1>2 DEF ResumeState
<1>3. CASE ResumeEnable(u) BY <1>1, <1>3 DEF ResumeEnable
<1> QED BY <1>2, <1>3

LEMMA InductiveInvariant == Spec => []IInv
<1>1. ASSUME IInv, [Next]_vars PROVE IInv'
  <2>1. CASE UNCHANGED vars
    BY <1>1, <2>1
    DEF vars, taskVars, IInv, TypeOK, StateTruthful, QuietUnlessLateMark
  <2>2. CASE SensorTask BY <1>1, <2>2, TaskStep
  <2>3. CASE \E c \in Pausers : Pause(c) \/ PauseReturns(c) BY <1>1, <2>3, PauserStep
  <2>4. CASE \E u \in Resumers : ResumeState(u) \/ ResumeEnable(u)
    BY <1>1, <2>4, ResumerStep
  <2>5. CASE Restart
    BY <1>1, <2>5
    DEF Restart, taskVars, IInv, TypeOK, StateTruthful, QuietUnlessLateMark
  <2> QED BY <1>1, <2>1, <2>2, <2>3, <2>4, <2>5 DEF Next
<1> QED BY <1>1, InitInv, PTL DEF Spec

\* Type correctness of the handshake, for all sets of tasks.
THEOREM PauseTypeCorrect == Spec => []TypeOK
<1>1. IInv => TypeOK BY DEF IInv
<1> QED BY <1>1, InductiveInvariant, PTL

\* For any number of tasks that pause and resume: unless the sensor task marked
\* itself paused late, a pause that returned keeps it off the bus until a resume.
THEOREM PauseQuietUnlessLateMark == Spec => []QuietUnlessLateMark
<1>1. IInv => QuietUnlessLateMark BY DEF IInv
<1> QED BY <1>1, InductiveInvariant, PTL

-----------------------------------------------------------------------------
(* The handshake with the sensors on the bus.                              *)

LEMMA BusStepIsHandshakeStep == [BusNext]_allVars => [Next]_vars
<1>1. CASE UNCHANGED allVars BY <1>1 DEF allVars
<1>2. CASE OnTheBus
  BY <1>2 DEF OnTheBus, DeviceReady, ResetIfInSync, InitDone, SampleData, SendMeasure, Receive,
              CheckAndStore, SampleFailed
<1>3. CASE BusNext /\ TaskLoop BY <1>3 DEF BusNext, TaskLoop, SensorTask, Next
<1>4. CASE BusNext /\ PauseStep BY <1>4 DEF BusNext, PauseStep, Next
<1>5. ASSUME NEW s \in Sensor, Hang(s) \/ Unplug(s) \/ Replug(s) PROVE UNCHANGED vars
  BY <1>5 DEF Hang, Unplug, Replug, Fault
<1> QED BY <1>1, <1>2, <1>3, <1>4, <1>5 DEF BusNext

LEMMA BusKeepsHandshake == BusSpec => Spec
<1>1. BusInit => Init BY DEF BusInit
<1> QED BY <1>1, BusStepIsHandshakeStep, PTL DEF BusSpec, Spec

\* Whatever the sensors do, the task that serves them keeps the handshake's types and
\* stays off the bus after a pause, unless it marked itself paused late.
THEOREM BusQuietUnlessLateMark == BusSpec => [](TypeOK /\ QuietUnlessLateMark)
BY BusKeepsHandshake, PauseTypeCorrect, PauseQuietUnlessLateMark, PTL

-----------------------------------------------------------------------------
(* Readings.                                                               *)

\* What is about to be checked was received from the current sensor.
ReadingInv ==
    /\ cur \in Sensor
    /\ DOMAIN reading = Sensor
    /\ step = "crc" => rxBuf \in {Whole(cur)} \cup Garbled(cur)
    /\ OwnReading

LEMMA CheckKeepsReadings == ReadingInv /\ CheckAndStore => ReadingInv'
<1> SUFFICES ASSUME ReadingInv, CheckAndStore PROVE ReadingInv' OBVIOUS
<1>1. cur' \in Sensor /\ step' # "crc"
  BY DEF ReadingInv, CheckAndStore, NextSensor, Sensor
<1>2. CASE CrcMatches
  <2>1. rxBuf = Whole(cur) BY <1>2 DEF ReadingInv, CheckAndStore, CrcMatches, Garbled
  <2>2. reading' = [reading EXCEPT ![cur] = Whole(cur)] BY <1>2, <2>1 DEF CheckAndStore
  <2> QED BY <1>1, <2>2 DEF ReadingInv, OwnReading, Whole
<1>3. CASE ~CrcMatches BY <1>1, <1>3 DEF CheckAndStore, ReadingInv, OwnReading
<1> QED BY <1>2, <1>3

LEMMA ReadingInductive == BusSpec => []ReadingInv
<1>1. BusInit => ReadingInv BY DEF BusInit, ReadingInv, OwnReading, Sensor
<1>2. ASSUME ReadingInv, [BusNext]_allVars PROVE ReadingInv'
  <2>1. ASSUME UNCHANGED <<step, cur, rxBuf, reading>> PROVE ReadingInv'
    BY <1>2, <2>1 DEF ReadingInv, OwnReading
  <2>2. ASSUME step' # "crc", cur' \in Sensor, UNCHANGED reading PROVE ReadingInv'
    BY <1>2, <2>2 DEF ReadingInv, OwnReading
  <2>3. CASE UNCHANGED allVars BY <2>1, <2>3 DEF allVars, busVars
  <2>4. CASE DeviceReady \/ ResetIfInSync \/ InitDone \/ SampleData \/ SendMeasure \/ SampleFailed
    BY <1>2, <2>2, <2>4
       DEF DeviceReady, ResetIfInSync, InitDone, SampleData, SendMeasure, SampleFailed, NextSensor,
           Sensor, ReadingInv
  <2>5. CASE Receive
    <3>1. UNCHANGED <<cur, reading>> /\ (step' = "crc" => rxBuf' \in {Whole(cur)} \cup Garbled(cur))
      BY <2>5 DEF Receive
    <3> QED BY <1>2, <3>1 DEF ReadingInv, OwnReading, Garbled, Whole
  <2>6. CASE TaskLoop
    <3>1. UNCHANGED <<reading, rxBuf>> /\ (UNCHANGED <<step, cur>> \/ step' # "crc")
          /\ (cur' = cur \/ cur' = 0)
      BY <2>6 DEF TaskLoop
    <3> QED BY <1>2, <2>1, <2>2, <3>1 DEF ReadingInv, Sensor
  <2>7. CASE PauseStep BY <2>1, <2>7 DEF PauseStep, busVars
  <2>8. ASSUME NEW s \in Sensor, Hang(s) \/ Unplug(s) \/ Replug(s) PROVE ReadingInv'
    BY <2>1, <2>8 DEF Hang, Unplug, Replug, Fault, busVars
  <2> QED BY <1>2, <2>3, <2>4, <2>5, <2>6, <2>7, <2>8, CheckKeepsReadings DEF BusNext, OnTheBus
<1> QED BY <1>1, <1>2, PTL DEF BusSpec

\* For any number of faults: what a sensor's object publishes was measured by that
\* sensor and arrived whole.
THEOREM BusOwnReading == BusSpec => []OwnReading
<1>1. ReadingInv => OwnReading BY DEF ReadingInv
<1> QED BY <1>1, ReadingInductive, PTL
=============================================================================
