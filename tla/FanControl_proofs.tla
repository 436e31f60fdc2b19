-------------------------- MODULE FanControl_proofs --------------------------
(***************************************************************************)
(* Theorems about FanControl for every number of setters and fans, all     *)
(* readings, thresholds and delays.                                        *)
(***************************************************************************)
EXTENDS FanControl, TLAPS

\* A setFanMode under way has its last store, of _currentMode, still to do.
UndefineComesLast == \A t \in Setters : todo[t] = {} \/ Undefine \in todo[t]

\* While a mode is applied and no store interfered, what was loaded is what is
\* stored, and what was applied is what was loaded.
ApplyingFaithfully ==
    Applying /\ ~overlapped =>
       /\ seen = fm.mode
       /\ pc = "applyUpper" => seen = "AUTO" /\ lHumid = fm.lthr
       /\ pc = "mark" => Applied

\* The control step uses the mode marked as applied, if there still is one.
ControlsCurrent ==
    pc = "control" => seen \in Modes /\ currentMode \in {seen, "UNDEFINED"}

IInv == /\ TypeOK
        /\ UndefineComesLast
        /\ ApplyingFaithfully
        /\ ControlsCurrent
        /\ LostOnlyByOverlap

LEMMA StoreTypes ==
  ASSUME fm \in Stored, NEW w \in FieldStores
  PROVE  /\ [fm EXCEPT ![w[1]] = w[2]] \in Stored
         /\ w # Undefine
<1>1. CASE \E a \in Thresholds :
              w \in {Store("mode", "AUTO"), Store("lthr", a[1]), Store("gthr", a[2])}
  BY <1>1, FanAssumption DEF Store, Stored, Modes, Undefine
<1>2. CASE \E d \in Delays : w \in {Store("mode", "DELAY"), Store("min", d)}
  BY <1>2 DEF Store, Stored, Modes, Undefine
<1>3. CASE \E m \in {"ON", "OFF"} : w = Store("mode", m)
  BY <1>3 DEF Store, Stored, Modes, Undefine
<1> QED BY <1>1, <1>2, <1>3 DEF Settings, FieldStores

LEMMA InitInv == Init => IInv
<1> SUFFICES ASSUME Init PROVE IInv
  OBVIOUS
<1>1. TypeOK
  <2>1. fm \in Stored /\ humid \in [Fans -> Levels] BY DEF Init
  <2>2. /\ {lHumid, gHumid} \subseteq Levels \cup {NoThreshold}
        /\ fanCd \in Nat /\ second \in 0 .. SecondsPerMinute - 1
    BY FanAssumption DEF Init
  <2>3. fan \in [Fans -> BOOLEAN] BY DEF Init
  <2>4. todo \in [Setters -> SUBSET (FieldStores \cup {Undefine})] BY DEF Init
  <2> QED BY <2>1, <2>2, <2>3, <2>4 DEF Init, TypeOK
<1>2. currentMode # fm.mode BY DEF Init, Stored, Modes
<1> QED BY <1>1, <1>2
        DEF Init, IInv, UndefineComesLast, ApplyingFaithfully, Applying, ControlsCurrent,
            LostOnlyByOverlap

LEMMA SetterStep ==
  ASSUME IInv, NEW t \in Setters, SetFanMode(t) \/ StoreField(t) \/ UndefineMode(t)
  PROVE  IInv'
<1> USE DEF IInv
<1>1. CASE SetFanMode(t)
  <2>1. PICK s \in Settings : todo' = [todo EXCEPT ![t] = s \cup {Undefine}]
    BY <1>1 DEF SetFanMode
  <2>2. UNCHANGED <<fm, currentMode, lHumid, gHumid, fanCd, second, fan, humid, pc, seen,
                    overlapped>>
    BY <1>1 DEF SetFanMode, applied
  <2>3. todo \in [Setters -> SUBSET (FieldStores \cup {Undefine})]
    BY DEF TypeOK
  <2>4. todo' \in [Setters -> SUBSET (FieldStores \cup {Undefine})]
    <3>1. s \subseteq FieldStores BY <2>1, Zenon DEF FieldStores
    <3> QED BY <2>1, <2>3, <3>1
  <2>5. TypeOK' BY <2>2, <2>4 DEF TypeOK
  <2>6. UndefineComesLast' BY <2>1, <2>3 DEF UndefineComesLast
  <2>7. ~Quiet' BY <2>1, <2>3 DEF Quiet
  <2> QED BY <2>2, <2>5, <2>6, <2>7
          DEF ApplyingFaithfully, Applying, Applied, ControlsCurrent, LostOnlyByOverlap
<1>2. CASE StoreField(t)
  <2>1. todo \in [Setters -> SUBSET (FieldStores \cup {Undefine})] /\ fm \in Stored
    BY DEF TypeOK
  <2>2. PICK w \in todo[t] \ {Undefine} :
          /\ fm' = [fm EXCEPT ![w[1]] = w[2]]
          /\ todo' = [todo EXCEPT ![t] = @ \ {w}]
    BY <1>2 DEF StoreField
  <2>3. w \in FieldStores BY <2>1, <2>2
  <2>4. UNCHANGED <<currentMode, lHumid, gHumid, fanCd, second, fan, humid, pc, seen>>
        /\ overlapped' = (overlapped \/ Applying)
    BY <1>2 DEF StoreField, applied
  <2>5. fm' \in Stored BY <2>1, <2>2, <2>3, StoreTypes
  <2>6. todo' \in [Setters -> SUBSET (FieldStores \cup {Undefine})]
    BY <2>1, <2>2
  <2>7. overlapped' \in BOOLEAN BY <2>4 DEF Applying, TypeOK
  <2>8. TypeOK' BY <2>4, <2>5, <2>6, <2>7 DEF TypeOK
  <2>9. Undefine \in todo'[t] /\ \A u \in Setters \ {t} : todo'[u] = todo[u]
    BY <2>1, <2>2 DEF UndefineComesLast
  <2>10. UndefineComesLast' BY <2>9 DEF UndefineComesLast
  <2>11. ~Quiet' BY <2>9 DEF Quiet
  <2>12. ApplyingFaithfully' BY <2>4 DEF ApplyingFaithfully, Applying
  <2>13. ControlsCurrent' BY <2>4 DEF ControlsCurrent
  <2> QED BY <2>8, <2>10, <2>11, <2>12, <2>13 DEF LostOnlyByOverlap
<1>3. CASE UndefineMode(t)
  <2>1. UNCHANGED <<fm, lHumid, gHumid, fanCd, second, fan, humid, pc, seen>>
        /\ overlapped' = (overlapped \/ Applying) /\ currentMode' = "UNDEFINED"
        /\ todo' = [todo EXCEPT ![t] = {}]
    BY <1>3 DEF UndefineMode, applied
  <2>2. overlapped' \in BOOLEAN BY <2>1 DEF Applying, TypeOK
  <2>3. TypeOK' BY <2>1, <2>2 DEF TypeOK
  <2>4. UndefineComesLast' BY <2>1 DEF UndefineComesLast, TypeOK
  <2>5. currentMode' # fm'.mode BY <2>1 DEF TypeOK, Stored, Modes
  <2>6. ApplyingFaithfully' BY <2>1 DEF ApplyingFaithfully, Applying
  <2> QED BY <2>1, <2>3, <2>4, <2>5, <2>6 DEF ControlsCurrent, LostOnlyByOverlap
<1> QED BY <1>1, <1>2, <1>3

LEMMA TaskStep ==
  ASSUME IInv, HumidControlTask PROVE IInv'
<1> USE FanAssumption DEF IInv, UndefineComesLast, ControlsCurrent, Quiet
<1>0. fm.mode \in Modes /\ fm.lthr \in Levels /\ fm.gthr \in Levels /\ fm.min \in Nat
  BY DEF TypeOK, Stored
<1> USE DEF ApplyingFaithfully, Applying, LostOnlyByOverlap
<1>1. CASE Compare
  <2>1. TypeOK' BY <1>0, <1>1 DEF Compare, TypeOK, applied
  <2> QED BY <1>0, <1>1, <2>1 DEF Compare, applied, Applied
<1>2. CASE ApplyAuto
  <2>1. TypeOK' BY <1>0, <1>2 DEF ApplyAuto, TypeOK
  <2> QED BY <1>0, <1>2, <2>1 DEF ApplyAuto
<1>3. CASE ApplyUpper
  <2>1. TypeOK' BY <1>0, <1>3 DEF ApplyUpper, TypeOK
  <2> QED BY <1>0, <1>3, <2>1 DEF ApplyUpper, Applied
<1>4. CASE ApplyDelay
  <2>1. TypeOK' BY <1>0, <1>4 DEF ApplyDelay, TypeOK
  <2> QED BY <1>0, <1>4, <2>1 DEF ApplyDelay, Applied
<1>5. CASE ApplyOnOff
  <2>1. TypeOK' BY <1>0, <1>5 DEF ApplyOnOff, TypeOK
  <2>2. Applying /\ ~overlapped => Applied' BY <1>0, <1>5 DEF ApplyOnOff, Applied
  <2> QED BY <1>0, <1>5, <2>1, <2>2 DEF ApplyOnOff
<1>6. CASE Mark
  <2>1. TypeOK' BY <1>0, <1>6 DEF Mark, TypeOK, applied
  <2>2. Applied' <=> Applied BY <1>6 DEF Mark, Applied, applied
  <2> QED BY <1>0, <1>6, <2>1, <2>2 DEF Mark, applied
<1>7. CASE Control
  <2>1. PICK m \in {seen, fm.mode} :
          fan' = CASE m = "AUTO"          -> [f \in Fans |-> ByHumidity(f)]
                   [] m = "DELAY"         -> [f \in Fans |-> fanCd > 0]
                   [] m \in {"ON", "OFF"} -> fan
    BY <1>7 DEF Control
  <2>2. seen \in Modes /\ m \in Modes BY <1>0, <1>7 DEF Control
  <2>3. UNCHANGED <<fm, currentMode, lHumid, gHumid, fanCd, second, humid, todo,
                    overlapped>>
        /\ pc = "control" /\ pc' = "delay" /\ seen' = "UNDEFINED"
    BY <1>7 DEF Control
  <2>4. fan' \in [Fans -> BOOLEAN]
    <3>1. CASE m = "AUTO" BY <2>1, <3>1 DEF ByHumidity, TypeOK
    <3>2. CASE m = "DELAY"
      <4>1. \A f \in Fans : (fanCd > 0) \in BOOLEAN OBVIOUS
      <4> QED BY <2>1, <3>2, <4>1
    <3>3. CASE m \in {"ON", "OFF"} BY <2>1, <3>3 DEF TypeOK
    <3> QED BY <2>2, <3>1, <3>2, <3>3 DEF Modes
  <2>5. TypeOK' BY <2>3, <2>4 DEF TypeOK
  <2>6. currentMode = fm.mode => m = fm.mode
    BY <1>0, <2>3 DEF Modes
  <2>7. m = fm.mode /\ Applied => Applied' BY <2>1, <2>2, <2>3 DEF Applied
  <2> QED BY <2>3, <2>5, <2>6, <2>7
<1>8. CASE Tick
  <2>1. fanCd' \in Nat /\ fanCd' <= fanCd /\ second' \in 0 .. SecondsPerMinute - 1
    BY <1>8 DEF Tick, TypeOK
  <2>2. TypeOK' BY <1>8, <2>1 DEF Tick, TypeOK
  <2>3. Applied => Applied' BY <1>0, <1>8, <2>1 DEF Tick, Applied, TypeOK
  <2> QED BY <1>8, <2>2, <2>3 DEF Tick
<1> QED BY <1>1, <1>2, <1>3, <1>4, <1>5, <1>6, <1>7, <1>8 DEF HumidControlTask

LEMMA SampleStep ==
  ASSUME IInv, NEW f \in Fans, Sample(f) PROVE IInv'
<1>1. UNCHANGED <<fm, currentMode, lHumid, gHumid, fanCd, second, fan, pc, seen, todo,
                  overlapped>>
  BY DEF Sample, applied
<1>2. humid' \in [Fans -> Levels] BY DEF Sample, IInv, TypeOK
<1> QED BY <1>1, <1>2
        DEF IInv, TypeOK, UndefineComesLast, ApplyingFaithfully, Applying, Applied,
            ControlsCurrent, LostOnlyByOverlap, Quiet

LEMMA InductiveInvariant == Spec => []IInv
<1>1. ASSUME IInv, [Next]_vars PROVE IInv'
  <2>1. CASE UNCHANGED vars
    BY <1>1, <2>1
    DEF vars, applied, IInv, TypeOK, UndefineComesLast, ApplyingFaithfully, Applying,
        Applied, ControlsCurrent, LostOnlyByOverlap, Quiet
  <2>2. CASE \E t \in Setters : SetFanMode(t) \/ StoreField(t) \/ UndefineMode(t)
    BY <1>1, <2>2, SetterStep
  <2>3. CASE HumidControlTask BY <1>1, <2>3, TaskStep
  <2>4. CASE \E f \in Fans : Sample(f) BY <1>1, <2>4, SampleStep
  <2> QED BY <1>1, <2>1, <2>2, <2>3, <2>4 DEF Next
<1> QED BY <1>1, InitInv, PTL DEF Spec

\* Type correctness, for all fans, setters, readings, thresholds and delays.
THEOREM FanTypeCorrect == Spec => []TypeOK
<1>1. IInv => TypeOK BY DEF IInv
<1> QED BY <1>1, InductiveInvariant, PTL

\* For any number of setters: a setting is lost only if one of its stores fell
\* between the load of a new mode and its marking as applied.
THEOREM FanLostOnlyByOverlap == Spec => []LostOnlyByOverlap
<1>1. IInv => LostOnlyByOverlap BY DEF IInv
<1> QED BY <1>1, InductiveInvariant, PTL
=============================================================================
