-------------------------- MODULE WifiStation_proofs --------------------------
(***************************************************************************)
(* Theorems about WifiStation for every size of the ring, every set of     *)
(* access points and every limit.  The ring is well formed seen from where *)
(* an append will leave it, not from where its stores have left it so far; *)
(* the invariant speaks of that ring.                                      *)
(***************************************************************************)
EXTENDS WifiStation, Sequences, TLAPS

-----------------------------------------------------------------------------
(* Arithmetic of the ring.                                                 *)

LEMMA PositionInSlots ==
  ASSUME NEW h \in Slots, NEW i \in 0 .. Size
  PROVE  /\ Position(h, i) \in Slots
         /\ Position(h, i) = IF h + i < Size THEN h + i ELSE h + i - Size
BY WifiAssumption DEF Slots, Position

LEMMA BeforeInSlots ==
  ASSUME NEW h \in Slots
  PROVE  Before(h) \in Slots /\ Before(h) = IF h = 0 THEN Size - 1 ELSE h - 1
<1> USE WifiAssumption DEF Slots
<1>1. CASE h = 0
  <2>1. Before(h) = (Size - 1) % Size BY <1>1 DEF Before
  <2> QED BY <1>1, <2>1
<1>2. CASE h # 0
  <2>1. Size + h - 1 \in Size .. 2 * Size - 1 BY <1>2
  <2>2. (Size + h - 1) % Size = h - 1 BY <2>1, <1>2
  <2> QED BY <1>2, <2>2 DEF Before
<1> QED BY <1>1, <1>2

\* Seen from the slot before the head, every member is one further.
LEMMA BeforeShifts ==
  ASSUME NEW h \in Slots, NEW i \in 1 .. Size - 1
  PROVE  Position(Before(h), i) = Position(h, i - 1)
<1> USE WifiAssumption DEF Slots
<1>1. Before(h) \in Slots /\ Before(h) = IF h = 0 THEN Size - 1 ELSE h - 1
  BY BeforeInSlots
<1>2. i \in 0 .. Size /\ i - 1 \in 0 .. Size OBVIOUS
<1>3. Position(Before(h), i)
        = IF Before(h) + i < Size THEN Before(h) + i ELSE Before(h) + i - Size
  BY <1>1, <1>2, PositionInSlots
<1>4. Position(h, i - 1) = IF h + (i - 1) < Size THEN h + (i - 1) ELSE h + (i - 1) - Size
  BY <1>2, PositionInSlots
<1> QED BY <1>1, <1>3, <1>4

\* The slot before the head is no member's but the last of a full ring.
LEMMA BeforeIsFree ==
  ASSUME NEW h \in Slots, NEW i \in 0 .. Size - 2
  PROVE  Position(h, i) # Before(h)
<1> USE WifiAssumption DEF Slots
<1>1. Before(h) = IF h = 0 THEN Size - 1 ELSE h - 1 BY BeforeInSlots
<1>2. i \in 0 .. Size OBVIOUS
<1>3. Position(h, i) = IF h + i < Size THEN h + i ELSE h + i - Size
  BY <1>2, PositionInSlots
<1> QED BY <1>1, <1>3

LEMMA HeadIsFirst == ASSUME NEW h \in Slots PROVE Position(h, 0) = h
BY WifiAssumption, PositionInSlots DEF Slots
-----------------------------------------------------------------------------
(* The invariant.                                                          *)

NewHead == IF Pending("head") THEN Before(conf.head) ELSE conf.head
NewCount == IF Pending("count") THEN Grown(conf.count) ELSE conf.count

\* Where the count is going once the slot is written.
Target == IF cmd.pc = "publish" THEN NewCount ELSE conf.count

CmdInv == /\ cmd.pc \in {"pass", "publish", "staSsid", "staPass"} => cmd.ap \in APs
          /\ cmd.pc = "publish" <=> cmd.left # {}

\* The ring an append is making: all of it whole but for the password being stored.
RingInv == /\ cmd.pc = "pass" => conf.aps[NewHead].ssid = cmd.ap
           /\ \A i \in 0 .. NewCount - 1 :
                 (cmd.pc = "pass" => i # 0)
                   => \E a \in APs : conf.aps[Position(NewHead, i)] = Entry(a)

HandlerInv == /\ pc # "wait" => rounds < RoundLimit /\ link = "down"
              /\ link # "down" => rounds < RoundLimit /\ fails < FailLimit

NextInv == ~cleared =>
    /\ pc # "store" => next < Target \/ (cmd.pc = "publish" /\ "next" \in cmd.left)
    /\ pc = "store" => at < Target

SavedInv == Whole(saved, saved.head, saved.count)

IInv == TypeOK /\ CmdInv /\ RingInv /\ SavedInv /\ HandlerInv /\ NextInv

Shape == <<conf.head, conf.count, conf.aps, cmd>>

LEMMA ConfFields ==
  ASSUME TypeOK
  PROVE  /\ conf.head \in Slots /\ conf.count \in 1 .. Size
         /\ conf.aps \in [Slots -> Entries] /\ conf.sta \in Entries
         /\ cmd.ap \in Names /\ cmd.sta \in BOOLEAN /\ cmd.left \subseteq Fields
BY DEF TypeOK, WifiConfs, Commands

LEMMA NewInRange ==
  ASSUME TypeOK
  PROVE  NewHead \in Slots /\ NewCount \in 1 .. Size /\ NewCount >= conf.count
         /\ Target \in 1 .. Size /\ Target >= conf.count
BY ConfFields, BeforeInSlots, WifiAssumption DEF NewHead, NewCount, Target, Grown

\* What the ring is made of is unchanged: so is what the invariant says of it.
LEMMA RingUnchanged ==
  ASSUME CmdInv, RingInv, UNCHANGED Shape
  PROVE  CmdInv' /\ RingInv' /\ Target' = Target
<1>1. NewHead' = NewHead /\ NewCount' = NewCount
  BY DEF Shape, NewHead, NewCount, Pending
<1> QED BY <1>1 DEF CmdInv, RingInv, Target, Shape

\* The configuration wifi_task finds or makes satisfies the invariant.
THEOREM InitHolds == Init => IInv
<1> SUFFICES ASSUME Init PROVE IInv OBVIOUS
<1> USE WifiAssumption
<1>1. PICK n \in 1 .. Size : \E f \in [0 .. n - 1 -> APs] :
              conf = Filled(n, f) /\ untried = {f[i] : i \in 0 .. n - 1}
  BY DEF Init
<1>2. PICK f \in [0 .. n - 1 -> APs] :
              conf = Filled(n, f) /\ untried = {f[i] : i \in 0 .. n - 1}
  BY <1>1
<1>3. /\ conf.head = Size - n /\ conf.count = n /\ conf.sta = Entry(f[0])
      /\ conf.aps = [s \in Slots |-> Entry(IF s < Size - n THEN NoAP ELSE f[s - (Size - n)])]
  BY <1>2 DEF Filled
<1>4. Size - n \in Slots BY DEF Slots
<1>5. \A a \in Names : Entry(a) \in Entries BY DEF Entries, Entry
<1>6. conf \in WifiConfs
  <2>1. conf.aps \in [Slots -> Entries]
    <3> SUFFICES ASSUME NEW s \in Slots
                 PROVE  Entry(IF s < Size - n THEN NoAP ELSE f[s - (Size - n)]) \in Entries
      BY <1>3
    <3>1. s >= Size - n => s - (Size - n) \in 0 .. n - 1 BY DEF Slots
    <3>2. (IF s < Size - n THEN NoAP ELSE f[s - (Size - n)]) \in Names
      BY <3>1 DEF Names, Slots
    <3> QED BY <3>2, <1>5
  <2>2. conf.sta \in Entries
    <3>1. f[0] \in Names BY DEF Names
    <3> QED BY <3>1, <1>3, <1>5
  <2> QED BY <2>1, <2>2, <1>2, <1>3, <1>4 DEF WifiConfs, Filled
<1>7. cmd = Idle /\ Idle \in Commands BY DEF Init, Idle, Commands, Names, Fields
<1>8. untried \subseteq Names BY <1>2 DEF Names
<1>9. TypeOK
  <2>1. driver \in Entries BY <1>6 DEF Init, WifiConfs
  <2>2. 0 \in Slots BY DEF Slots
  <2>3. saved \in WifiConfs BY <1>6 DEF Init
  <2>4. fails \in 0 .. FailLimit /\ rounds \in 0 .. RoundLimit /\ changes \in 0 .. MaxChanges
    BY DEF Init
  <2>5. next \in Slots /\ at \in Slots /\ link = "trying" /\ pc = "wait" /\ cleared = FALSE
    BY <2>2 DEF Init
  <2> HIDE DEF Init
  <2> QED BY <2>1, <2>3, <2>4, <2>5, <1>6, <1>7, <1>8 DEF TypeOK
<1>10. Whole(conf, conf.head, conf.count)
  <2> SUFFICES ASSUME NEW i \in 0 .. n - 1
               PROVE  \E a \in APs : conf.aps[Position(conf.head, i)] = Entry(a)
    BY <1>3 DEF Whole
  <2>1. Position(Size - n, i) = Size - n + i /\ Size - n + i \in Slots
    <3>1. i \in 0 .. Size /\ Size - n + i < Size OBVIOUS
    <3>2. Position(Size - n, i) = IF Size - n + i < Size THEN Size - n + i
                                                        ELSE Size - n + i - Size
      BY <3>1, <1>4, PositionInSlots
    <3> QED BY <3>1, <3>2 DEF Slots
  <2>2. conf.aps[Position(conf.head, i)] = Entry(f[i]) BY <2>1, <1>3 DEF Slots
  <2> QED BY <2>2
<1>11. NewHead = conf.head /\ NewCount = conf.count /\ Target = conf.count
  BY <1>7 DEF NewHead, NewCount, Target, Pending, Idle
<1>12. CmdInv BY <1>7 DEF CmdInv, Idle
<1>13. RingInv BY <1>7, <1>10, <1>11 DEF RingInv, Whole, Idle
<1>14. SavedInv BY <1>10 DEF SavedInv, Init
<1>15. HandlerInv BY DEF HandlerInv, Init
<1>16. NextInv BY <1>11, <1>3 DEF NextInv, Init
<1> QED BY <1>9, <1>12, <1>13, <1>14, <1>15, <1>16 DEF IInv

-----------------------------------------------------------------------------
(* Commands.                                                               *)

LEMMA AppendKeeps ==
  ASSUME IInv, NEW a \in APs, NEW sta \in BOOLEAN, AppendAltAp(a, sta)
  PROVE  IInv'
<1> USE WifiAssumption DEF IInv
<1> DEFINE s == Before(conf.head)
<1>1. /\ conf.head \in Slots /\ conf.count \in 1 .. Size
      /\ conf.aps \in [Slots -> Entries] /\ s \in Slots
  BY ConfFields, BeforeInSlots
<1>2. /\ conf'.head = conf.head /\ conf'.count = conf.count /\ conf'.sta = conf.sta
      /\ conf'.aps = [conf.aps EXCEPT ![s] = [@ EXCEPT !.ssid = a]]
      /\ conf' \in WifiConfs
      /\ cmd' = [pc |-> "pass", ap |-> a, sta |-> sta, left |-> {}]
  <2>1. conf' = [conf EXCEPT !.aps[s].ssid = a] BY DEF AppendAltAp
  <2>2. [conf.aps[s] EXCEPT !.ssid = a] \in Entries BY <1>1 DEF Entries, Names
  <2>3. [conf.aps EXCEPT ![s] = [@ EXCEPT !.ssid = a]] \in [Slots -> Entries]
    BY <2>2, <1>1
  <2> QED BY <2>1, <2>3, <1>1 DEF AppendAltAp, TypeOK, WifiConfs
<1>3. TypeOK'
  BY <1>2 DEF AppendAltAp, Change, TypeOK, Commands, Names, ram, handler
<1>4. CmdInv' BY <1>2 DEF CmdInv
<1>5. cmd.pc = "idle" /\ cmd.left = {} BY DEF AppendAltAp, CmdInv
<1>6. NewHead = conf.head /\ NewCount = conf.count /\ Target = conf.count
  BY <1>5 DEF NewHead, NewCount, Target, Pending
<1>7. NewHead' = s /\ NewCount' = Grown(conf.count) /\ Target' = conf.count
  BY <1>2 DEF NewHead, NewCount, Target, Pending
<1>8. RingInv'
  <2>1. conf'.aps[s].ssid = a BY <1>1, <1>2 DEF Entries
  <2>2. ASSUME NEW i \in 0 .. Grown(conf.count) - 1, i # 0
        PROVE  \E b \in APs : conf'.aps[Position(s, i)] = Entry(b)
    <3>1. i \in 1 .. Size - 1 /\ i - 1 \in 0 .. conf.count - 1 /\ i - 1 \in 0 .. Size - 2
      BY <2>2, <1>1 DEF Grown
    <3>2. Position(s, i) = Position(conf.head, i - 1) BY <3>1, <1>1, BeforeShifts
    <3>3. Position(conf.head, i - 1) # s BY <3>1, <1>1, BeforeIsFree
    <3>4. Position(conf.head, i - 1) \in Slots
      BY <3>1, <1>1, PositionInSlots
    <3>5. \E b \in APs : conf.aps[Position(conf.head, i - 1)] = Entry(b)
      BY <3>1, <1>5, <1>6 DEF RingInv
    <3> QED BY <3>2, <3>3, <3>4, <3>5, <1>1, <1>2
  <2> QED BY <2>1, <2>2, <1>2, <1>7 DEF RingInv
<1>9. SavedInv' BY DEF AppendAltAp, SavedInv
<1>10. HandlerInv' BY DEF AppendAltAp, HandlerInv, ram, handler
<1>11. NextInv' BY <1>2, <1>5, <1>6, <1>7 DEF AppendAltAp, NextInv, ram, handler
<1> QED BY <1>3, <1>4, <1>8, <1>9, <1>10, <1>11

LEMMA AppendPassKeeps == ASSUME IInv, AppendPass PROVE IInv'
<1> USE WifiAssumption DEF IInv
<1> DEFINE s == Before(conf.head)
<1>1. /\ conf.head \in Slots /\ conf.count \in 1 .. Size
      /\ conf.aps \in [Slots -> Entries] /\ s \in Slots
      /\ cmd.pc = "pass" /\ cmd.ap \in APs /\ cmd \in Commands
  BY ConfFields, BeforeInSlots DEF CmdInv, AppendPass, TypeOK
<1>2. /\ conf'.head = conf.head /\ conf'.count = conf.count /\ conf'.sta = conf.sta
      /\ conf'.aps = [conf.aps EXCEPT ![s] = [@ EXCEPT !.pass = cmd.ap]]
      /\ conf' \in WifiConfs
  <2>1. conf' = [conf EXCEPT !.aps[s].pass = cmd.ap] BY DEF AppendPass
  <2>2. [conf.aps[s] EXCEPT !.pass = cmd.ap] \in Entries BY <1>1 DEF Entries, Names
  <2>3. [conf.aps EXCEPT ![s] = [@ EXCEPT !.pass = cmd.ap]] \in [Slots -> Entries]
    BY <2>2, <1>1
  <2> QED BY <2>1, <2>3, <1>1 DEF TypeOK, WifiConfs
<1>3. /\ cmd'.pc = "publish" /\ cmd'.ap = cmd.ap /\ cmd'.left = Fields
      /\ cmd' \in Commands
  BY <1>1 DEF AppendPass, Commands, Fields
<1>4. TypeOK' BY <1>2, <1>3 DEF AppendPass, TypeOK, ram, handler, history
<1>5. CmdInv' BY <1>1, <1>3 DEF CmdInv, Fields
<1>6. /\ NewHead = s /\ NewCount = Grown(conf.count) /\ Target = conf.count
      /\ NewHead' = s /\ NewCount' = Grown(conf.count)
      /\ Target' = Grown(conf.count) /\ Target' >= Target
  BY <1>1, <1>2, <1>3 DEF NewHead, NewCount, Target, Pending, Fields, Grown
<1>7. RingInv'
  <2>1. conf'.aps[Position(s, 0)] = Entry(cmd.ap)
    <3>1. Position(s, 0) = s BY <1>1, HeadIsFirst
    <3>2. conf.aps[s].ssid = cmd.ap /\ conf.aps[s] \in Entries
      BY <1>1, <1>6 DEF RingInv
    <3> QED BY <3>1, <3>2, <1>1, <1>2 DEF Entries, Entry
  <2>2. ASSUME NEW i \in 0 .. Grown(conf.count) - 1, i # 0
        PROVE  \E b \in APs : conf'.aps[Position(s, i)] = Entry(b)
    <3>1. i \in 1 .. Size - 1 /\ i - 1 \in 0 .. Size - 2
      BY <2>2, <1>1 DEF Grown
    <3>2. Position(s, i) # s BY <3>1, <1>1, BeforeShifts, BeforeIsFree
    <3>3. Position(s, i) \in Slots BY <3>1, <1>1, PositionInSlots
    <3>4. \E b \in APs : conf.aps[Position(s, i)] = Entry(b)
      BY <2>2, <1>6 DEF RingInv
    <3> QED BY <3>2, <3>3, <3>4, <1>1, <1>2
  <2> QED BY <2>1, <2>2, <1>1, <1>3, <1>6 DEF RingInv
<1>8. SavedInv' BY DEF AppendPass, SavedInv
<1>9. HandlerInv' BY DEF AppendPass, HandlerInv, ram, handler
<1>10. NextInv'
  BY <1>1, <1>3, <1>6, NewInRange DEF AppendPass, NextInv, ram, handler, history, TypeOK, Slots, Fields
<1> QED BY <1>4, <1>5, <1>7, <1>8, <1>9, <1>10

\* Each store to an index brings the ring closer to the one it is to be.
LEMMA PublishKeeps ==
  ASSUME IInv, NEW field \in Fields, Publish(field)
  PROVE  IInv' /\ NewHead' = NewHead /\ NewCount' = NewCount
<1> USE WifiAssumption DEF IInv
<1>1. /\ conf \in WifiConfs /\ conf.head \in Slots /\ conf.count \in 1 .. Size
      /\ Before(conf.head) \in Slots /\ Grown(conf.count) \in 1 .. Size
      /\ cmd.pc = "publish" /\ cmd \in Commands /\ cmd.ap \in APs /\ field \in cmd.left
  BY ConfFields, BeforeInSlots DEF CmdInv, Publish, TypeOK, Grown
<1>2. /\ conf'.aps = conf.aps /\ conf'.sta = conf.sta
      /\ conf'.head = (IF field = "head" THEN Before(conf.head) ELSE conf.head)
      /\ conf'.count = (IF field = "count" THEN Grown(conf.count) ELSE conf.count)
      /\ conf' \in WifiConfs
  <2>1. CASE field = "head"
    <3>1. conf' = [conf EXCEPT !.head = Before(conf.head)] BY <2>1 DEF Publish
    <3> QED BY <3>1, <2>1, <1>1 DEF WifiConfs
  <2>2. CASE field = "count"
    <3>1. conf' = [conf EXCEPT !.count = Grown(conf.count)] BY <2>2 DEF Publish
    <3> QED BY <3>1, <2>2, <1>1 DEF WifiConfs
  <2>3. CASE field = "next"
    <3>1. conf' = conf BY <2>3 DEF Publish
    <3> QED BY <3>1, <2>3, <1>1
  <2> QED BY <2>1, <2>2, <2>3 DEF Fields
<1>3. /\ cmd' \in Commands /\ cmd'.ap = cmd.ap /\ cmd'.left = cmd.left \ {field}
      /\ cmd'.pc \in {"publish", "staSsid", "save"}
      /\ cmd'.pc = "publish" <=> cmd.left # {field}
  BY <1>1 DEF Publish, Commands
<1>4. TypeOK'
  <2>1. next' \in Slots BY DEF Publish, TypeOK, Slots
  <2>2. cleared' \in BOOLEAN BY DEF Publish, TypeOK
  <2> QED BY <1>2, <1>3, <2>1, <2>2 DEF Publish, TypeOK, handler
<1>5. CmdInv' BY <1>1, <1>3 DEF CmdInv
<1>6. NewHead' = NewHead /\ NewCount' = NewCount /\ Target' = Target
  BY <1>1, <1>2, <1>3 DEF NewHead, NewCount, Target, Pending
<1>7. RingInv' BY <1>1, <1>2, <1>3, <1>6 DEF RingInv
<1>8. SavedInv' BY DEF Publish, SavedInv
<1>9. HandlerInv' BY DEF Publish, HandlerInv, handler
<1>10. NextInv'
  <2>1. Target \in 1 .. Size BY NewInRange
  <2>2. CASE field = "next"
    <3>1. next' = 0 /\ pc' = pc /\ at' = at BY <2>2 DEF Publish, handler
    <3>2. CASE pc = "store"
      <4>1. cleared' = cleared BY <2>2, <3>2 DEF Publish, TypeOK
      <4> QED BY <4>1, <3>1, <3>2, <1>6 DEF NextInv
    <3>3. CASE pc # "store"
      BY <2>1, <3>1, <3>3, <1>6 DEF NextInv
    <3> QED BY <3>2, <3>3
  <2>3. CASE field # "next"
    BY <2>1, <2>3, <1>1, <1>3, <1>6 DEF NextInv, Publish, handler
  <2> QED BY <2>2, <2>3
<1> QED BY <1>4, <1>5, <1>6, <1>7, <1>8, <1>9, <1>10

\* The station's entry is no part of the ring.
LEMMA SetStaKeeps ==
  ASSUME IInv, SetStaSsid \/ SetStaPass
  PROVE  IInv' /\ NewHead' = NewHead /\ NewCount' = NewCount /\ conf'.aps = conf.aps
<1> USE WifiAssumption DEF IInv
<1>1. /\ conf \in WifiConfs /\ conf.sta \in Entries
      /\ cmd.pc \in {"staSsid", "staPass"} /\ cmd \in Commands /\ cmd.ap \in APs
      /\ cmd.left = {}
  BY ConfFields DEF CmdInv, SetStaSsid, SetStaPass, TypeOK
<1>2. /\ conf'.aps = conf.aps /\ conf'.head = conf.head /\ conf'.count = conf.count
      /\ conf' \in WifiConfs
  <2>1. CASE SetStaSsid
    <3>1. conf' = [conf EXCEPT !.sta = [conf.sta EXCEPT !.ssid = cmd.ap]]
      BY <2>1 DEF SetStaSsid
    <3>2. [conf.sta EXCEPT !.ssid = cmd.ap] \in Entries BY <1>1 DEF Entries, Names
    <3> QED BY <3>1, <3>2, <1>1 DEF WifiConfs
  <2>2. CASE SetStaPass
    <3>1. conf' = [conf EXCEPT !.sta = [conf.sta EXCEPT !.pass = cmd.ap]]
      BY <2>2 DEF SetStaPass
    <3>2. [conf.sta EXCEPT !.pass = cmd.ap] \in Entries BY <1>1 DEF Entries, Names
    <3> QED BY <3>1, <3>2, <1>1 DEF WifiConfs
  <2> QED BY <2>1, <2>2
<1>3. /\ cmd' \in Commands /\ cmd'.ap = cmd.ap /\ cmd'.left = {}
      /\ cmd'.pc \in {"staPass", "save"}
  BY <1>1 DEF SetStaSsid, SetStaPass, Commands
<1>4. TypeOK'
  BY <1>2, <1>3 DEF SetStaSsid, SetStaPass, TypeOK, ram, handler, history
<1>5. CmdInv' BY <1>1, <1>3 DEF CmdInv
<1>6. NewHead' = NewHead /\ NewCount' = NewCount /\ Target' = Target
  BY <1>1, <1>2, <1>3 DEF NewHead, NewCount, Target, Pending
<1>7. RingInv' BY <1>1, <1>2, <1>3, <1>6 DEF RingInv
<1>8. SavedInv' BY DEF SetStaSsid, SetStaPass, SavedInv
<1>9. HandlerInv' BY DEF SetStaSsid, SetStaPass, HandlerInv, ram, handler
<1>10. NextInv'
  BY <1>1, <1>3, <1>6 DEF SetStaSsid, SetStaPass, NextInv, ram, handler, history
<1> QED BY <1>2, <1>4, <1>5, <1>6, <1>7, <1>8, <1>9, <1>10

LEMMA ClearKeeps == ASSUME IInv, Clear PROVE IInv'
<1> USE WifiAssumption DEF IInv
<1>1. /\ conf \in WifiConfs /\ conf.count \in 1 .. Size
      /\ cmd.pc = "idle" /\ cmd \in Commands /\ cmd.left = {}
  BY ConfFields DEF CmdInv, Clear, TypeOK
<1>2. /\ conf'.aps = conf.aps /\ conf'.head = conf.head /\ conf'.count = 1
      /\ conf' \in WifiConfs
  BY <1>1 DEF Clear, WifiConfs
<1>3. cmd' \in Commands /\ cmd'.pc = "save" /\ cmd'.left = {}
  BY <1>1 DEF Clear, Commands
<1>4. TypeOK' BY <1>2, <1>3 DEF Clear, Change, TypeOK, ram, handler
<1>5. CmdInv' BY <1>3 DEF CmdInv
<1>6. /\ NewHead = conf.head /\ NewCount = conf.count
      /\ NewHead' = conf.head /\ NewCount' = 1
  BY <1>1, <1>2, <1>3 DEF NewHead, NewCount, Pending
<1>7. RingInv' BY <1>1, <1>2, <1>3, <1>6 DEF RingInv
<1>8. SavedInv' BY DEF Clear, SavedInv
<1>9. HandlerInv' BY DEF Clear, HandlerInv, ram, handler
<1>10. NextInv' BY DEF Clear, NextInv
<1> QED BY <1>4, <1>5, <1>7, <1>8, <1>9, <1>10

LEMMA SaveKeeps == ASSUME IInv, SaveConfig PROVE IInv'
<1> USE WifiAssumption DEF IInv
<1>1. conf \in WifiConfs /\ cmd.pc = "save" /\ cmd.left = {}
  BY DEF CmdInv, SaveConfig, TypeOK
<1>2. cmd' = Idle /\ Idle \in Commands BY DEF SaveConfig, Idle, Commands, Names
<1>3. TypeOK' BY <1>1, <1>2 DEF SaveConfig, TypeOK, ram, handler, history
<1>4. CmdInv' BY <1>2 DEF CmdInv, Idle
<1>5. /\ NewHead = conf.head /\ NewCount = conf.count /\ Target = conf.count
      /\ NewHead' = conf.head /\ NewCount' = conf.count /\ Target' = conf.count
  BY <1>1, <1>2 DEF SaveConfig, Idle, NewHead, NewCount, Target, Pending
<1>6. RingInv' /\ SavedInv'
  BY <1>1, <1>2, <1>5 DEF RingInv, SavedInv, Whole, SaveConfig, Idle
<1>7. HandlerInv' BY DEF SaveConfig, HandlerInv, ram, handler
<1>8. NextInv'
  BY <1>1, <1>2, <1>5 DEF SaveConfig, NextInv, Idle, ram, handler, history
<1> QED BY <1>3, <1>4, <1>6, <1>7, <1>8

-----------------------------------------------------------------------------
(* Events, the handler, a restart.                                         *)

\* What a command and a clear leave alone keeps the parts that speak of it.
LEMMA EventKeepsRing ==
  ASSUME IInv, UNCHANGED <<conf.head, conf.count, conf.aps, cmd, saved>>
  PROVE  CmdInv' /\ RingInv' /\ SavedInv' /\ Target' = Target
BY RingUnchanged DEF IInv, Shape, SavedInv

LEMMA GotIpKeeps == ASSUME IInv, OnStaGotIp PROVE IInv'
<1> USE WifiAssumption DEF IInv
<1>1. UNCHANGED <<conf, cmd, saved, next, pc, at, cleared>> BY DEF OnStaGotIp, handler
<1>2. CmdInv' /\ RingInv' /\ SavedInv' /\ Target' = Target BY <1>1, EventKeepsRing
<1>3. untried' \subseteq Names
  <2>1. Listed \subseteq Names
    <3> SUFFICES ASSUME NEW i \in DOMAIN Alternatives PROVE Alternatives[i] \in Names
      BY DEF Listed
    <3>1. Alternatives = Ring(conf, NewHead, NewCount) BY DEF Alternatives, NewHead, NewCount
    <3>2. i \in 1 .. NewCount /\ Alternatives[i] = conf.aps[Position(NewHead, i - 1)].ssid
      BY <3>1 DEF Ring
    <3>3. NewHead \in Slots /\ NewCount \in 1 .. Size BY NewInRange
    <3>4. i - 1 \in 0 .. Size BY <3>2, <3>3
    <3>5. Position(NewHead, i - 1) \in Slots BY <3>3, <3>4, PositionInSlots
    <3> QED BY <3>2, <3>5, ConfFields DEF Entries
  <2> QED BY <2>1 DEF OnStaGotIp
<1>4. TypeOK' BY <1>1, <1>3 DEF OnStaGotIp, TypeOK
<1>5. HandlerInv' BY DEF OnStaGotIp, HandlerInv, handler
<1>6. NextInv' BY <1>1, <1>2 DEF NextInv
<1> QED BY <1>2, <1>4, <1>5, <1>6

LEMMA DisconnectedKeeps ==
  ASSUME IInv, NEW reason \in Reasons, OnStaDisconnected(reason)
  PROVE  IInv'
<1> USE WifiAssumption DEF IInv
<1>1. UNCHANGED <<conf, cmd, saved, next, rounds, driver, at, changes, cleared, untried>>
  BY DEF OnStaDisconnected, history
<1>2. CmdInv' /\ RingInv' /\ SavedInv' /\ Target' = Target BY <1>1, EventKeepsRing
<1>3. /\ pc = "wait" /\ rounds < RoundLimit /\ fails < FailLimit
      /\ fails \in 0 .. FailLimit /\ fails' \in 0 .. FailLimit
  BY DEF OnStaDisconnected, HandlerInv, TypeOK
<1>4. /\ pc' \in {"wait", "round"} /\ link' \in {"down", "trying"}
      /\ pc' = "round" => link' = "down"
      /\ link' # "down" => pc' = "wait" /\ reason # "leave"
  BY DEF OnStaDisconnected, Retry
<1>5. link' # "down" => fails' < FailLimit
  BY <1>3, <1>4 DEF OnStaDisconnected
<1>6. TypeOK' BY <1>1, <1>3, <1>4 DEF TypeOK
<1>7. HandlerInv' BY <1>1, <1>3, <1>4, <1>5 DEF HandlerInv
<1>8. NextInv' BY <1>1, <1>2, <1>3, <1>4 DEF NextInv
<1> QED BY <1>2, <1>6, <1>7, <1>8

LEMMA CountRoundKeeps == ASSUME IInv, CountRound PROVE IInv'
<1> USE WifiAssumption DEF IInv
<1>1. UNCHANGED <<conf, cmd, saved, next, fails, driver, link, at, changes, cleared, untried>>
  BY DEF CountRound, history
<1>2. CmdInv' /\ RingInv' /\ SavedInv' /\ Target' = Target BY <1>1, EventKeepsRing
<1>3. pc = "round" /\ rounds \in 0 .. RoundLimit /\ rounds < RoundLimit /\ link = "down"
  BY DEF CountRound, HandlerInv, TypeOK
<1>4. /\ rounds' \in 0 .. RoundLimit /\ pc' \in {"load", "wait"}
      /\ pc' = "load" => rounds' < RoundLimit
  BY <1>3 DEF CountRound
<1>5. TypeOK' BY <1>1, <1>4 DEF TypeOK
<1>6. HandlerInv' BY <1>1, <1>3, <1>4 DEF HandlerInv
<1>7. NextInv' BY <1>1, <1>2, <1>3, <1>4 DEF NextInv
<1> QED BY <1>2, <1>5, <1>6, <1>7

\* Loading an entry writes the station's, which is no part of the ring.
LEMMA LoadKeeps ==
  ASSUME IInv, Load \/ LoadPass
  PROVE  IInv' /\ UNCHANGED <<conf.head, conf.count, conf.aps, cmd, saved>>
<1> USE WifiAssumption DEF IInv
<1>1. /\ conf \in WifiConfs /\ conf.head \in Slots
      /\ conf.aps \in [Slots -> Entries] /\ conf.sta \in Entries
      /\ next \in Slots /\ at \in Slots
  BY ConfFields DEF TypeOK
<1>2. at' \in Slots
  <2>1. next \in 0 .. Size BY <1>1 DEF Slots
  <2> QED BY <2>1, <1>1, PositionInSlots DEF Load, LoadPass
<1>3. /\ UNCHANGED <<cmd, saved, next, fails, rounds, driver, link, changes, cleared>>
      /\ pc \in {"load", "loadPass"} /\ pc' \in {"loadPass", "config"}
      /\ untried' \subseteq untried
  BY DEF Load, LoadPass, ram, history
<1>4. /\ conf'.aps = conf.aps /\ conf'.head = conf.head /\ conf'.count = conf.count
      /\ conf' \in WifiConfs
  <2>1. conf.aps[at'] \in Entries /\ conf.aps[at] \in Entries BY <1>1, <1>2
  <2>2. CASE Load
    <3>1. conf' = [conf EXCEPT !.sta = [conf.sta EXCEPT !.ssid = conf.aps[at'].ssid]]
      BY <2>2 DEF Load
    <3>2. [conf.sta EXCEPT !.ssid = conf.aps[at'].ssid] \in Entries
      BY <1>1, <2>1 DEF Entries
    <3> QED BY <3>1, <3>2, <1>1 DEF WifiConfs
  <2>3. CASE LoadPass
    <3>1. conf' = [conf EXCEPT !.sta = [conf.sta EXCEPT !.pass = conf.aps[at].pass]]
      BY <2>3 DEF LoadPass
    <3>2. [conf.sta EXCEPT !.pass = conf.aps[at].pass] \in Entries
      BY <1>1, <2>1 DEF Entries
    <3> QED BY <3>1, <3>2, <1>1 DEF WifiConfs
  <2> QED BY <2>2, <2>3
<1>5. CmdInv' /\ RingInv' /\ SavedInv' /\ Target' = Target
  BY <1>3, <1>4, EventKeepsRing
<1>6. TypeOK' BY <1>2, <1>3, <1>4 DEF TypeOK
<1>7. HandlerInv' BY <1>3 DEF HandlerInv
<1>8. NextInv' BY <1>3, <1>5 DEF NextInv
<1> QED BY <1>3, <1>4, <1>5, <1>6, <1>7, <1>8

LEMMA SetConfigKeeps == ASSUME IInv, SetConfig PROVE IInv'
<1> USE WifiAssumption DEF IInv
<1>1. UNCHANGED <<conf, cmd, saved, next, fails, rounds, link, changes, untried>>
  BY DEF SetConfig, ram
<1>2. CmdInv' /\ RingInv' /\ SavedInv' /\ Target' = Target BY <1>1, EventKeepsRing
<1>3. conf.count \in 1 .. Size /\ next \in Slots /\ conf.sta \in Entries
      /\ Target >= conf.count /\ Target \in 1 .. Size
  BY ConfFields, NewInRange DEF TypeOK
<1>4. at' \in 0 .. conf.count - 1
  <2>1. next + 1 \in Nat BY <1>3 DEF Slots
  <2>2. (next + 1) % conf.count \in 0 .. conf.count - 1 BY <2>1, <1>3
  <2> QED BY <2>2 DEF SetConfig
<1>5. at' \in Slots /\ at' < Target BY <1>3, <1>4 DEF Slots
<1>6. pc = "config" /\ pc' = "store" /\ driver' \in Entries /\ cleared' = FALSE
  BY <1>3 DEF SetConfig
<1>7. TypeOK' BY <1>1, <1>5, <1>6 DEF TypeOK
<1>8. HandlerInv' BY <1>1, <1>6 DEF HandlerInv
<1>9. NextInv' BY <1>2, <1>5, <1>6 DEF NextInv
<1> QED BY <1>2, <1>7, <1>8, <1>9

LEMMA StoreNextKeeps == ASSUME IInv, StoreNext PROVE IInv'
<1> USE WifiAssumption DEF IInv
<1>1. UNCHANGED <<conf, cmd, saved, rounds, driver, at, changes, cleared, untried>>
  BY DEF StoreNext, history
<1>2. CmdInv' /\ RingInv' /\ SavedInv' /\ Target' = Target BY <1>1, EventKeepsRing
<1>3. /\ pc = "store" /\ pc' = "wait" /\ next' = at /\ fails' = 0
      /\ rounds < RoundLimit /\ link' = "trying"
  BY DEF StoreNext, HandlerInv, Retry
<1>4. TypeOK' BY <1>1, <1>3 DEF TypeOK
<1>5. HandlerInv' BY <1>1, <1>3 DEF HandlerInv
<1>6. NextInv' BY <1>1, <1>2, <1>3 DEF NextInv
<1> QED BY <1>2, <1>4, <1>5, <1>6

LEMMA RestartKeeps == ASSUME IInv, Restart PROVE IInv'
<1> USE WifiAssumption DEF IInv
<1>1. /\ conf' = saved /\ saved' = saved /\ saved \in WifiConfs
      /\ saved.head \in Slots /\ saved.count \in 1 .. Size
      /\ saved.aps \in [Slots -> Entries] /\ saved.sta \in Entries
  BY DEF Restart, TypeOK, WifiConfs
<1>2. cmd' = Idle /\ Idle \in Commands
  BY DEF Restart, Idle, Commands, Names
<1>3. untried' \subseteq Names
  <2> SUFFICES ASSUME NEW i \in 0 .. saved.count - 1
               PROVE  saved.aps[Position(saved.head, i)].ssid \in Names
    BY DEF Restart
  <2>1. i \in 0 .. Size BY <1>1
  <2>2. Position(saved.head, i) \in Slots BY <2>1, <1>1, PositionInSlots
  <2> QED BY <2>2, <1>1 DEF Entries
<1>4. 0 \in Slots BY DEF Slots
<1>5. TypeOK'
  <2>1. /\ next' = 0 /\ fails' = 0 /\ rounds' = 0 /\ driver' = saved.sta
        /\ link' = "trying" /\ pc' = "wait" /\ at' = 0 /\ cleared' = FALSE
        /\ changes' \in 0 .. MaxChanges
    BY DEF Restart, Change, TypeOK
  <2>2. fails' \in 0 .. FailLimit /\ rounds' \in 0 .. RoundLimit BY <2>1
  <2> QED BY <2>1, <2>2, <1>1, <1>2, <1>3, <1>4 DEF TypeOK
<1>6. CmdInv' BY <1>2 DEF CmdInv, Idle
<1>7. NewHead' = saved.head /\ NewCount' = saved.count /\ Target' = saved.count
  BY <1>1, <1>2 DEF Idle, NewHead, NewCount, Target, Pending
<1>8. RingInv' /\ SavedInv' BY <1>1, <1>2, <1>7 DEF RingInv, SavedInv, Whole, Idle
<1>9. HandlerInv' BY DEF Restart, HandlerInv
<1>10. NextInv' BY <1>1, <1>7 DEF Restart, NextInv
<1> QED BY <1>5, <1>6, <1>8, <1>9, <1>10

\* Every step of a command, of an event, of the handler and a restart keeps it.
THEOREM NextHolds == IInv /\ [Next]_vars => IInv'
<1> SUFFICES ASSUME IInv, [Next]_vars PROVE IInv' OBVIOUS
<1>1. ASSUME NEW a \in APs, NEW sta \in BOOLEAN, AppendAltAp(a, sta) PROVE IInv'
  BY <1>1, AppendKeeps
<1>2. CASE Clear BY <1>2, ClearKeeps
<1>3. CASE Command
  <2>1. CASE AppendPass BY <2>1, AppendPassKeeps
  <2>2. ASSUME NEW f \in Fields, Publish(f) PROVE IInv' BY <2>2, PublishKeeps
  <2>3. CASE SetStaSsid \/ SetStaPass BY <2>3, SetStaKeeps
  <2>4. CASE SaveConfig BY <2>4, SaveKeeps
  <2> QED BY <1>3, <2>1, <2>2, <2>3, <2>4 DEF Command, Fields
<1>4. CASE OnStaGotIp BY <1>4, GotIpKeeps
<1>5. ASSUME NEW r \in Reasons, OnStaDisconnected(r) PROVE IInv' BY <1>5, DisconnectedKeeps
<1>6. CASE Handle
  BY <1>6, CountRoundKeeps, LoadKeeps, SetConfigKeeps, StoreNextKeeps DEF Handle
<1>7. CASE Restart BY <1>7, RestartKeeps
<1>8. CASE UNCHANGED vars
  <2>1. UNCHANGED <<conf, cmd, saved>> /\ UNCHANGED <<next, fails, rounds, driver, link,
                                                    pc, at, changes, cleared, untried>>
    BY <1>8 DEF vars, ram, handler, history
  <2>2. CmdInv' /\ RingInv' /\ SavedInv' /\ Target' = Target BY <2>1, EventKeepsRing
  <2> QED BY <2>1, <2>2 DEF IInv, TypeOK, HandlerInv, NextInv
<1> QED BY <1>1, <1>2, <1>3, <1>4, <1>5, <1>6, <1>7, <1>8 DEF Next

\* The invariant gives the three the runs check.
THEOREM IInvImplies == IInv => TypeOK /\ MembersWhole /\ NextInList
<1> SUFFICES ASSUME IInv PROVE TypeOK /\ MembersWhole /\ NextInList OBVIOUS
<1>1. MembersWhole
  <2>1. ASSUME cmd.pc \notin {"pass", "publish"} PROVE Whole(conf, conf.head, conf.count)
    <3>1. NewHead = conf.head /\ NewCount = conf.count
      BY <2>1 DEF IInv, CmdInv, NewHead, NewCount, Pending
    <3> QED BY <3>1, <2>1 DEF IInv, RingInv, Whole
  <2> QED BY <2>1 DEF IInv, SavedInv, MembersWhole
<1>2. NextInList BY DEF IInv, NextInv, Target, NextInList
<1> QED BY <1>1, <1>2 DEF IInv

\* In every behaviour the configuration and the counters keep their types, every member of
\* the ring has its own password, and a reconnect takes its entry from inside the ring.
THEOREM StationInvariant == Spec => [](TypeOK /\ MembersWhole /\ NextInList)
BY InitHolds, NextHolds, IInvImplies, PTL DEF Spec

\* For every size of the ring the configuration, its copy and the counters keep their types:
\* no index leaves the ring.
THEOREM StationTypeCorrect == Spec => []TypeOK
BY StationInvariant, PTL

\* For every size of the ring: whatever commands come between its steps, a reconnect loads
\* its entry from inside the list, but for the one reconnect after a clear.
THEOREM StationNextInList == Spec => []NextInList
BY StationInvariant, PTL

\* What GetAltApSsidPassList shows is the list, of any size, when the ring is full or begins
\* at its first slot; ListingShowsList fails between the two.
THEOREM StationListingRightWhenFull ==
  Spec => [](conf.head = 0 \/ conf.count = Size => ListingShowsList)
<1>1. ASSUME IInv, conf.head = 0 \/ conf.count = Size, cmd.pc = "idle"
      PROVE  GetAltApList = Alternatives
  <2>1. /\ conf.head \in Slots /\ conf.count \in 1 .. Size
        /\ Size \in Nat /\ Slots = 0 .. Size - 1
    BY <1>1, ConfFields, WifiAssumption DEF IInv, Slots
  <2>2. Alternatives = Ring(conf, conf.head, conf.count)
    BY <1>1 DEF IInv, CmdInv, Alternatives, Pending
  <2>3. ASSUME NEW i \in 1 .. conf.count
        PROVE  (conf.head + i - 1) % conf.count = Position(conf.head, i - 1)
    <3>1. i - 1 \in 0 .. Size /\ conf.head + i - 1 = conf.head + (i - 1) BY <2>1
    <3>2. CASE conf.count = Size BY <3>1, <3>2 DEF Position
    <3>3. CASE conf.head = 0
      <4>1. Position(conf.head, i - 1) = i - 1
        <5>1. i - 1 \in 0 .. Size - 1 BY <2>1
        <5>2. Position(conf.head, i - 1) = IF conf.head + (i - 1) < Size
                THEN conf.head + (i - 1) ELSE conf.head + (i - 1) - Size
          BY <2>1, <3>1, PositionInSlots
        <5> QED BY <3>3, <5>1, <5>2, <2>1
      <4>2. (i - 1) % conf.count = i - 1 BY <2>1
      <4>3. conf.head + i - 1 = i - 1 BY <3>3
      <4> QED BY <4>1, <4>2, <4>3
    <3> QED BY <1>1, <3>2, <3>3
  <2> QED BY <2>2, <2>3 DEF GetAltApList, Ring
<1>2. IInv => (conf.head = 0 \/ conf.count = Size => ListingShowsList)
  BY <1>1 DEF ListingShowsList
<1> QED BY <1>2, InitHolds, NextHolds, PTL DEF Spec

-----------------------------------------------------------------------------
(* The ring implements the list.                                           *)

Stored == Ring(saved, saved.head, saved.count)

LEMMA RingIsList ==
  ASSUME IInv
  PROVE  /\ Alternatives = [i \in 1 .. NewCount |-> conf.aps[Position(NewHead, i - 1)].ssid]
         /\ Alternatives \in [1 .. NewCount -> APs]
<1>1. Alternatives = [i \in 1 .. NewCount |-> conf.aps[Position(NewHead, i - 1)].ssid]
  BY DEF Alternatives, Ring, NewHead, NewCount
<1>2. NewHead \in Slots /\ NewCount \in 1 .. Size BY NewInRange DEF IInv
<1>3. ASSUME NEW i \in 1 .. NewCount
      PROVE  conf.aps[Position(NewHead, i - 1)].ssid \in APs
  <2>1. i - 1 \in 0 .. NewCount - 1 BY <1>2, WifiAssumption
  <2>2. CASE cmd.pc = "pass" /\ i = 1
    <3>1. Position(NewHead, i - 1) = NewHead BY <2>2, <1>2, HeadIsFirst
    <3> QED BY <3>1, <2>2 DEF IInv, RingInv, CmdInv
  <2>3. CASE ~(cmd.pc = "pass" /\ i = 1)
    <3>1. cmd.pc = "pass" => i - 1 # 0 BY <2>3, <1>2
    <3>2. PICK a \in APs : conf.aps[Position(NewHead, i - 1)] = Entry(a)
      BY <2>1, <3>1 DEF IInv, RingInv
    <3> QED BY <3>2 DEF Entry
  <2> QED BY <2>2, <2>3
<1> QED BY <1>1, <1>3

THEOREM InitImplements == Init => List!Init
<1> SUFFICES ASSUME Init PROVE List!Init OBVIOUS
<1>1. IInv BY InitHolds
<1>2. NewHead = conf.head /\ NewCount = conf.count
  BY DEF Init, Idle, NewHead, NewCount, Pending
<1>3. Stored = Alternatives BY <1>1, <1>2, RingIsList DEF Init, Stored, Ring
<1>4. NewCount \in 1 .. Size BY <1>1, NewInRange DEF IInv
<1> QED BY <1>1, <1>3, <1>4, RingIsList DEF List!Init, List!Lists, Stored

\* An append adds in front, and a full list forgets its oldest member.
LEMMA AppendAdds ==
  ASSUME IInv, IInv', NEW a \in APs, NEW sta \in BOOLEAN, AppendAltAp(a, sta)
  PROVE  List!Add
<1> USE WifiAssumption
<1> DEFINE s == Before(conf.head)
           old == Alternatives
           kept == IF Len(old) < Size THEN old ELSE SubSeq(old, 1, Size - 1)
<1>1. /\ conf.head \in Slots /\ conf.count \in 1 .. Size
      /\ conf.aps \in [Slots -> Entries] /\ s \in Slots
      /\ cmd.pc = "idle" /\ cmd.left = {}
  BY ConfFields, BeforeInSlots DEF IInv, AppendAltAp, CmdInv
<1>2. /\ conf'.aps = [conf.aps EXCEPT ![s] = [@ EXCEPT !.ssid = a]]
      /\ conf'.head = conf.head /\ conf'.count = conf.count
      /\ cmd'.pc = "pass" /\ saved' = saved
  BY <1>1 DEF AppendAltAp, IInv, TypeOK, WifiConfs
<1>3. /\ NewHead = conf.head /\ NewCount = conf.count
      /\ NewHead' = s /\ NewCount' = Grown(conf.count)
  BY <1>1, <1>2 DEF NewHead, NewCount, Pending
<1>4. /\ old = [i \in 1 .. conf.count |-> conf.aps[Position(conf.head, i - 1)].ssid]
      /\ old \in Seq(APs) /\ Len(old) = conf.count
  BY <1>1, <1>3, RingIsList
<1>5. /\ kept \in Seq(APs) /\ Len(kept) = Grown(conf.count) - 1
      /\ \A i \in 1 .. Len(kept) : kept[i] = old[i]
  <2>1. Size \in Nat /\ Size > 1 /\ conf.count \in Nat /\ conf.count <= Size BY <1>1
  <2>2. CASE conf.count < Size
    <3>1. kept = old /\ Grown(conf.count) = conf.count + 1 BY <1>4, <2>2 DEF Grown
    <3> HIDE DEF old, kept
    <3> QED BY <3>1, <1>4, <2>1
  <2>3. CASE conf.count = Size
    <3>1. kept = SubSeq(old, 1, Size - 1) /\ Grown(conf.count) = Size
      BY <1>4, <2>1, <2>3 DEF Grown
    <3> HIDE DEF old, kept
    <3> QED BY <3>1, <1>4, <2>1, <2>3
  <2> QED BY <2>1, <2>2, <2>3
<1>6. Alternatives' = [i \in 1 .. Grown(conf.count) |-> conf'.aps[Position(s, i - 1)].ssid]
  BY <1>2, <1>3 DEF Alternatives, Ring, NewHead, NewCount
<1>7. ASSUME NEW i \in 1 .. Grown(conf.count)
      PROVE  (<<a>> \o kept)[i] = conf'.aps[Position(s, i - 1)].ssid
  <2>1. CASE i = 1
    <3>1. Position(s, i - 1) = s BY <2>1, <1>1, HeadIsFirst
    <3>2. conf'.aps[s].ssid = a BY <1>1, <1>2 DEF Entries
    <3> HIDE DEF kept
    <3> QED BY <3>1, <3>2, <2>1, <1>5
  <2>2. CASE i # 1
    <3>1. /\ i - 1 \in 1 .. Size - 1 /\ i - 2 \in 0 .. Size - 2 /\ i - 1 \in 1 .. conf.count
          /\ i - 1 \in 1 .. Grown(conf.count) - 1
      BY <2>2, <1>1 DEF Grown
    <3>2. Position(s, i - 1) = Position(conf.head, (i - 1) - 1)
      BY <3>1, <1>1, BeforeShifts
    <3>3. (i - 1) - 1 = i - 2 BY <3>1
    <3>4. Position(conf.head, i - 2) # s /\ Position(conf.head, i - 2) \in Slots
      BY <3>1, <1>1, BeforeIsFree, PositionInSlots
    <3>5. conf'.aps[Position(s, i - 1)] = conf.aps[Position(conf.head, i - 2)]
      BY <3>2, <3>3, <3>4, <1>1, <1>2
    <3>6. old[i - 1] = conf.aps[Position(conf.head, i - 2)].ssid
      BY <3>1, <3>3, <1>4
    <3>7. kept[i - 1] = old[i - 1] BY <3>1, <1>5
    <3>8. (<<a>> \o kept)[i] = kept[i - 1]
      <4> HIDE DEF kept
      <4> QED BY <3>1, <1>5, <2>2
    <3> QED BY <3>5, <3>6, <3>7, <3>8
  <2> QED BY <2>1, <2>2
<1>8. <<a>> \o kept \in Seq(APs) /\ Len(<<a>> \o kept) = Grown(conf.count)
  <2> HIDE DEF kept
  <2> QED BY <1>1, <1>5 DEF Grown
<1>9. Alternatives' = <<a>> \o kept
  <2> HIDE DEF kept
  <2> QED BY <1>6, <1>7, <1>8
<1>10. UNCHANGED Stored BY <1>2 DEF Stored
<1> QED BY <1>9, <1>10 DEF List!Add, Stored

LEMMA ClearKeepsNewest == ASSUME IInv, IInv', Clear PROVE List!KeepNewest
<1>1. /\ cmd.pc = "idle" /\ cmd.left = {} /\ cmd'.pc = "save" /\ cmd'.left = {}
      /\ conf.count \in 1 .. Size /\ conf'.count = 1
      /\ conf'.head = conf.head /\ conf'.aps = conf.aps /\ saved' = saved
  BY ConfFields DEF IInv, CmdInv, Clear, TypeOK, WifiConfs, Commands
<1>2. /\ NewHead = conf.head /\ NewCount = conf.count
      /\ NewHead' = conf.head /\ NewCount' = 1
  BY <1>1 DEF NewHead, NewCount, Pending
<1>3. /\ Alternatives = [i \in 1 .. conf.count |-> conf.aps[Position(conf.head, i - 1)].ssid]
      /\ Alternatives \in Seq(APs)
  BY <1>1, <1>2, RingIsList, WifiAssumption
<1>4. Alternatives' = [i \in 1 .. 1 |-> conf.aps[Position(conf.head, i - 1)].ssid]
  BY <1>1, <1>2 DEF Alternatives, Ring, NewHead, NewCount
<1>5. Head(Alternatives) = conf.aps[Position(conf.head, 1 - 1)].ssid
  BY <1>1, <1>3, WifiAssumption
<1>6. Alternatives' = <<Head(Alternatives)>> BY <1>4, <1>5
<1>7. UNCHANGED Stored BY <1>1 DEF Stored
<1> QED BY <1>6, <1>7 DEF List!KeepNewest, Stored

LEMMA SaveSaves == ASSUME IInv, SaveConfig PROVE List!Save
<1>1. /\ cmd.pc = "save" /\ cmd.left = {} /\ cmd' = Idle
      /\ saved' = conf /\ conf' = conf
  BY DEF IInv, CmdInv, SaveConfig
<1>2. /\ NewHead = conf.head /\ NewCount = conf.count
      /\ NewHead' = conf.head /\ NewCount' = conf.count
  BY <1>1 DEF Idle, NewHead, NewCount, Pending
<1>3. Alternatives = Ring(conf, conf.head, conf.count)
  BY <1>2 DEF Alternatives, NewHead, NewCount
<1>4. Alternatives' = Ring(conf, conf.head, conf.count)
  BY <1>1, <1>2 DEF Alternatives, NewHead, NewCount, Ring
<1>5. Stored' = Ring(conf, conf.head, conf.count) BY <1>1 DEF Stored, Ring
<1> QED BY <1>3, <1>4, <1>5 DEF List!Save, Stored

LEMMA RestartRestores == ASSUME IInv, Restart PROVE List!Restart
<1>1. conf' = saved /\ saved' = saved /\ cmd' = Idle BY DEF Restart
<1>2. NewHead' = saved.head /\ NewCount' = saved.count
  BY <1>1 DEF Idle, NewHead, NewCount, Pending
<1>3. Alternatives' = Stored
  BY <1>1, <1>2 DEF Alternatives, NewHead, NewCount, Ring, Stored
<1> QED BY <1>1, <1>3 DEF List!Restart, Stored, Ring

\* The stores of an append after its first, and what the event task does, do not show.
LEMMA Hidden ==
  ASSUME NewHead' = NewHead, NewCount' = NewCount, conf'.aps = conf.aps, saved' = saved
  PROVE  UNCHANGED <<Alternatives, Stored>>
BY DEF Alternatives, NewHead, NewCount, Ring, Stored

LEMMA AppendPassHidden == ASSUME IInv, AppendPass PROVE UNCHANGED <<Alternatives, Stored>>
<1> USE WifiAssumption
<1> DEFINE s == Before(conf.head)
<1>1. /\ conf \in WifiConfs /\ conf.aps \in [Slots -> Entries] /\ s \in Slots
      /\ cmd.pc = "pass" /\ cmd \in Commands
  BY ConfFields, BeforeInSlots DEF IInv, TypeOK, AppendPass
<1>2. /\ conf'.aps = [conf.aps EXCEPT ![s] = [@ EXCEPT !.pass = cmd.ap]]
      /\ conf'.head = conf.head /\ conf'.count = conf.count
      /\ cmd'.left = Fields /\ saved' = saved
  BY <1>1 DEF AppendPass, WifiConfs, Commands, Fields
<1>3. /\ NewHead = s /\ NewCount = Grown(conf.count)
      /\ NewHead' = s /\ NewCount' = Grown(conf.count)
  BY <1>1, <1>2 DEF NewHead, NewCount, Pending, Fields
<1>4. \A t \in Slots : conf'.aps[t].ssid = conf.aps[t].ssid
  BY <1>1, <1>2 DEF Entries
<1>5. ASSUME NEW i \in 1 .. Grown(conf.count) PROVE Position(s, i - 1) \in Slots
  <2>1. conf.count \in 1 .. Size BY ConfFields DEF IInv
  <2>2. i - 1 \in 0 .. Size BY <2>1 DEF Grown
  <2> QED BY <2>2, <1>1, PositionInSlots
<1>6. /\ Alternatives = [i \in 1 .. Grown(conf.count) |-> conf.aps[Position(s, i - 1)].ssid]
      /\ Alternatives' = [i \in 1 .. Grown(conf.count) |-> conf'.aps[Position(s, i - 1)].ssid]
  BY <1>3 DEF Alternatives, NewHead, NewCount, Ring
<1> QED BY <1>2, <1>4, <1>5, <1>6 DEF Stored

\* Every step of the station is a step of the list or hidden from it.
THEOREM StepImplements ==
  IInv /\ IInv' /\ [Next]_vars => [List!Next]_<<Alternatives, Stored>>
<1> SUFFICES ASSUME IInv, IInv', [Next]_vars
             PROVE  [List!Next]_<<Alternatives, Stored>>
  OBVIOUS
<1>1. ASSUME NEW a \in APs, NEW sta \in BOOLEAN, AppendAltAp(a, sta) PROVE List!Next
  BY <1>1, AppendAdds DEF List!Next
<1>2. CASE Clear BY <1>2, ClearKeepsNewest DEF List!Next
<1>3. CASE Command
  <2>1. CASE AppendPass BY <2>1, AppendPassHidden
  <2>2. ASSUME NEW f \in Fields, Publish(f)
        PROVE  UNCHANGED <<Alternatives, Stored>>
    <3>1. conf'.aps = conf.aps
      BY <2>2 DEF Publish, Fields, IInv, TypeOK, WifiConfs
    <3>2. saved' = saved BY <2>2 DEF Publish
    <3> QED BY <2>2, <3>1, <3>2, PublishKeeps, Hidden
  <2>3. CASE SetStaSsid \/ SetStaPass
    <3>1. saved' = saved BY <2>3 DEF SetStaSsid, SetStaPass
    <3> QED BY <2>3, <3>1, SetStaKeeps, Hidden
  <2>4. CASE SaveConfig BY <2>4, SaveSaves DEF List!Next
  <2> QED BY <1>3, <2>1, <2>2, <2>3, <2>4 DEF Command, Fields
<1>4. ASSUME UNCHANGED <<conf.head, conf.count, conf.aps, cmd, saved>>
      PROVE  UNCHANGED <<Alternatives, Stored>>
  <2>1. NewHead' = NewHead /\ NewCount' = NewCount
    BY <1>4 DEF NewHead, NewCount, Pending
  <2> QED BY <1>4, <2>1, Hidden
<1>5. CASE OnStaGotIp BY <1>5, <1>4 DEF OnStaGotIp
<1>6. ASSUME NEW r \in Reasons, OnStaDisconnected(r)
      PROVE  UNCHANGED <<Alternatives, Stored>>
  BY <1>6, <1>4 DEF OnStaDisconnected
<1>7. CASE Handle
  <2>1. CASE Load \/ LoadPass BY <2>1, <1>4, LoadKeeps
  <2>2. CASE CountRound \/ SetConfig \/ StoreNext
    BY <2>2, <1>4 DEF CountRound, SetConfig, StoreNext
  <2> QED BY <1>7, <2>1, <2>2 DEF Handle
<1>8. CASE Restart BY <1>8, RestartRestores DEF List!Next
<1>9. CASE UNCHANGED vars BY <1>9, <1>4 DEF vars
<1> QED BY <1>1, <1>2, <1>3, <1>5, <1>6, <1>7, <1>8, <1>9 DEF Next

\* The ring of the code is the list its users were promised, whatever the interleaving of
\* a command with the event task and wherever a restart falls.
THEOREM RingImplementsList == Spec => ImplementsAltApList
BY InitHolds, NextHolds, InitImplements, StepImplements, PTL
DEF Spec, ImplementsAltApList, List!Spec, Stored
-----------------------------------------------------------------------------
(* Giving up.  A round is counted at the last member of the ring; the one  *)
(* that begins there ends there too.  What the round under way has not     *)
(* loaded yet lies between the next index and the last member.             *)

\* Every member not loaded since the last success has its place in lo .. hi.
Within(lo, hi) ==
    \A u \in untried : \E i \in lo .. hi : u = conf.aps[Position(conf.head, i)].ssid

\* While the list is unchanged since the last success: what is untried is in the ring,
\* and once a round was counted, in the part the index has not come to again.
TriedInv == untried # {} =>
    /\ cmd.pc \notin {"pass", "publish"}
    /\ Within(0, conf.count - 1)
    /\ rounds >= 1 =>
         /\ pc \in {"wait", "round"} => Within(next, conf.count - 2)
         /\ pc = "load" => /\ next < conf.count
                           /\ IF next = conf.count - 1 THEN Within(0, conf.count - 1)
                                                       ELSE Within(next, conf.count - 2)
         /\ pc \in {"loadPass", "config"} =>
              next < conf.count /\ Within((next + 1) % conf.count, conf.count - 2)
         /\ pc = "store" => Within(at, conf.count - 2)

\* A success makes every member untried again.
LEMMA GotIpKeepsTried == ASSUME IInv, TriedInv, OnStaGotIp PROVE TriedInv'
<1>1. /\ UNCHANGED <<conf, cmd, pc>> /\ rounds' = 0
      /\ untried' = IF cmd.pc \in {"pass", "publish"} THEN {} ELSE Listed
  BY DEF OnStaGotIp, handler
<1>2. ASSUME cmd.pc \notin {"pass", "publish"}
      PROVE  \A u \in Listed : \E i \in 0 .. conf.count - 1 :
                u = conf.aps[Position(conf.head, i)].ssid
  <2>1. NewHead = conf.head /\ NewCount = conf.count /\ conf.count \in 1 .. Size
    BY <1>2, ConfFields DEF IInv, CmdInv, NewHead, NewCount, Pending
  <2>2. Alternatives = [i \in 1 .. conf.count |-> conf.aps[Position(conf.head, i - 1)].ssid]
    BY <2>1, RingIsList
  <2>3. ASSUME NEW i \in DOMAIN Alternatives
        PROVE  \E k \in 0 .. conf.count - 1 :
                  Alternatives[i] = conf.aps[Position(conf.head, k)].ssid
    <3>1. /\ i \in 1 .. conf.count
          /\ Alternatives[i] = conf.aps[Position(conf.head, i - 1)].ssid
      BY <2>2
    <3>2. i - 1 \in 0 .. conf.count - 1 BY <3>1, <2>1, WifiAssumption
    <3> QED BY <3>1, <3>2
  <2> QED BY <2>3 DEF Listed
<1> QED BY <1>1, <1>2 DEF TriedInv, Within

\* The round that is counted at the last member begins with every member before it.
LEMMA CountRoundKeepsTried ==
  ASSUME IInv, TriedInv, CountRound
  PROVE  TriedInv' /\ (GivesUp => untried = {})
<1>1. /\ UNCHANGED <<conf, cmd, next, untried>> /\ pc = "round"
      /\ rounds' = IF next = conf.count - 1 THEN rounds + 1 ELSE rounds
      /\ pc' = IF rounds' < RoundLimit THEN "load" ELSE "wait"
  BY DEF CountRound, history
<1>2. /\ next \in Nat /\ conf.count \in Nat \ {0} /\ rounds \in Nat /\ rounds < RoundLimit
      /\ RoundLimit \in Nat /\ RoundLimit > 1
  BY <1>1, ConfFields, WifiAssumption DEF IInv, TypeOK, HandlerInv, Slots
<1>3. ASSUME untried # {}, rounds >= 1
      PROVE  Within(next, conf.count - 2) /\ next < conf.count - 1
  <2>1. Within(next, conf.count - 2) BY <1>1, <1>3 DEF TriedInv
  <2>2. \E i \in next .. conf.count - 2 : TRUE BY <2>1, <1>3 DEF Within
  <2> QED BY <2>1, <2>2, <1>2
<1>4. GivesUp => untried = {} BY <1>1, <1>2, <1>3 DEF GivesUp
<1>5. ASSUME untried # {} PROVE TriedInv'
  <2>1. Within(0, conf.count - 1) /\ cmd.pc \notin {"pass", "publish"}
    BY <1>5 DEF TriedInv
  <2>2. CASE rounds = 0 /\ next = conf.count - 1
    <3>1. rounds' = 1 /\ pc' = "load" /\ next < conf.count BY <1>1, <1>2, <2>2
    <3> QED BY <1>1, <2>1, <2>2, <3>1 DEF TriedInv, Within
  <2>3. CASE rounds = 0 /\ next # conf.count - 1
    BY <1>1, <2>1, <2>3 DEF TriedInv, Within
  <2>4. CASE rounds >= 1
    <3>1. Within(next, conf.count - 2) /\ next < conf.count - 1 BY <1>3, <1>5, <2>4
    <3>2. rounds' = rounds /\ pc' = "load" BY <1>1, <1>2, <3>1
    <3>3. next < conf.count /\ next # conf.count - 1 BY <1>2, <3>1
    <3> QED BY <1>1, <2>1, <3>1, <3>2, <3>3 DEF TriedInv, Within
  <2> QED BY <1>2, <2>2, <2>3, <2>4
<1>6. untried = {} => TriedInv' BY <1>1 DEF TriedInv
<1> QED BY <1>4, <1>5, <1>6

\* The member loaded is the first of the part that is left, or the last of the ring.
LEMMA LoadKeepsTried == ASSUME IInv, TriedInv, Load PROVE TriedInv'
<1> DEFINE loaded == conf.aps[Position(conf.head, next)].ssid
<1>1. /\ UNCHANGED <<conf.head, conf.count, conf.aps, cmd, next, rounds>>
      /\ pc = "load" /\ pc' = "loadPass" /\ untried' = untried \ {loaded}
  <2>1. UNCHANGED <<conf.head, conf.count, conf.aps, cmd>> BY LoadKeeps
  <2> QED BY <2>1 DEF Load, ram
<1>2. next \in Nat /\ conf.count \in Nat \ {0}
  BY ConfFields, WifiAssumption DEF IInv, TypeOK, Slots
<1>3. ASSUME untried # {}, Within(0, conf.count - 1) PROVE Within(0, conf.count - 1)'
  BY <1>1, <1>3 DEF Within
<1>4. ASSUME untried' # {}, rounds >= 1
      PROVE  /\ next < conf.count
             /\ \A u \in untried' : \E i \in (next + 1) % conf.count .. conf.count - 2 :
                   u = conf.aps[Position(conf.head, i)].ssid
  <2>1. untried # {} BY <1>1, <1>4
  <2>2. CASE next = conf.count - 1
    <3>1. Within(0, conf.count - 1) BY <1>1, <1>4, <2>1, <2>2 DEF TriedInv
    <3>2. (next + 1) % conf.count = 0 BY <1>2, <2>2
    <3>3. \A i \in 0 .. conf.count - 1 : i # next => i \in 0 .. conf.count - 2
      BY <1>2, <2>2
    <3> QED BY <1>1, <1>2, <2>2, <3>1, <3>2, <3>3 DEF Within
  <2>3. CASE next # conf.count - 1
    <3>1. Within(next, conf.count - 2) /\ next < conf.count
      BY <1>1, <1>4, <2>1, <2>3 DEF TriedInv
    <3>2. (next + 1) % conf.count = next + 1 BY <1>2, <2>3, <3>1
    <3>3. \A i \in next .. conf.count - 2 : i # next => i \in next + 1 .. conf.count - 2
      BY <1>2
    <3> QED BY <1>1, <3>1, <3>2, <3>3 DEF Within
  <2> QED BY <2>2, <2>3
<1>5. untried' # {} => untried # {} BY <1>1
<1> HIDE DEF loaded
<1> QED BY <1>1, <1>3, <1>4, <1>5 DEF TriedInv, Within

\* What leaves the ring, the round and the index alone leaves the untried where they are.
LEMMA AsideKeepsTried ==
  ASSUME TriedInv, UNCHANGED <<conf.head, conf.count, conf.aps, next, rounds, untried>>,
         cmd.pc \notin {"pass", "publish"} => cmd'.pc \notin {"pass", "publish"},
         \/ UNCHANGED <<pc, at>>
         \/ {pc, pc'} \subseteq {"wait", "round"}
         \/ {pc, pc'} \subseteq {"loadPass", "config"}
  PROVE  TriedInv'
BY DEF TriedInv, Within

THEOREM TriedInductive == Spec => []TriedInv
<1>1. Init => TriedInv
  <2> SUFFICES ASSUME Init PROVE TriedInv OBVIOUS
  <2>1. PICK n \in 1 .. Size : \E f \in [0 .. n - 1 -> APs] :
                conf = Filled(n, f) /\ untried = {f[i] : i \in 0 .. n - 1}
    BY DEF Init
  <2>2. PICK f \in [0 .. n - 1 -> APs] :
                conf = Filled(n, f) /\ untried = {f[i] : i \in 0 .. n - 1}
    BY <2>1
  <2>3. ASSUME NEW i \in 0 .. n - 1
        PROVE  f[i] = conf.aps[Position(conf.head, i)].ssid
    <3>1. i \in 0 .. Size /\ Size - n \in Slots /\ Size - n + i \in Slots /\ Size - n + i < Size
      BY WifiAssumption DEF Slots
    <3>2. Position(Size - n, i) = Size - n + i BY <3>1, PositionInSlots
    <3>3. conf.head = Size - n /\ conf.aps[Size - n + i] = Entry(f[i])
      BY <2>2, <3>1, WifiAssumption DEF Filled, Slots
    <3> QED BY <3>2, <3>3 DEF Entry
  <2>4. conf.count = n BY <2>2 DEF Filled
  <2>5. Within(0, conf.count - 1) BY <2>2, <2>3, <2>4 DEF Within
  <2> QED BY <2>5 DEF Init, TriedInv, Idle
<1>2. ASSUME IInv, TriedInv, [Next]_vars PROVE TriedInv'
  <2>1. ASSUME NEW a \in APs, NEW sta \in BOOLEAN, AppendAltAp(a, sta) PROVE TriedInv'
    BY <2>1 DEF AppendAltAp, TriedInv
  <2>2. CASE Clear BY <2>2 DEF Clear, TriedInv
  <2>3. CASE Command
    <3>1. CASE AppendPass \/ \E f \in Fields : Publish(f)
      BY <1>2, <3>1 DEF AppendPass, Publish, TriedInv, history
    <3>2. CASE SetStaSsid \/ SetStaPass
      <4>1. UNCHANGED <<conf.head, conf.count, conf.aps>>
        BY <1>2, <3>2 DEF SetStaSsid, SetStaPass, IInv, TypeOK, WifiConfs
      <4>2. cmd'.pc \in {"staPass", "save"}
        BY <1>2, <3>2 DEF SetStaSsid, SetStaPass, IInv, TypeOK, Commands
      <4>3. UNCHANGED <<next, rounds, untried, pc, at>>
        BY <3>2 DEF SetStaSsid, SetStaPass, ram, history, handler
      <4> QED BY <1>2, <4>1, <4>2, <4>3, AsideKeepsTried
    <3>3. CASE SaveConfig
      BY <1>2, <3>3, AsideKeepsTried DEF SaveConfig, Idle, ram, history, handler
    <3> QED BY <2>3, <3>1, <3>2, <3>3 DEF Command, Fields
  <2>4. ASSUME NEW r \in Reasons, OnStaDisconnected(r) PROVE TriedInv'
    BY <1>2, <2>4, AsideKeepsTried DEF OnStaDisconnected, history
  <2>5. CASE LoadPass
    <3>1. UNCHANGED <<conf.head, conf.count, conf.aps>> BY <1>2, <2>5, LoadKeeps
    <3> QED BY <1>2, <2>5, <3>1, AsideKeepsTried DEF LoadPass, ram, history
  <2>6. CASE SetConfig
    BY <1>2, <2>6 DEF SetConfig, TriedInv, Within, ram
  <2>7. CASE StoreNext
    BY <1>2, <2>7 DEF StoreNext, TriedInv, Within, history
  <2>8. CASE Restart
    <3>1. /\ conf' = saved /\ cmd' = Idle /\ rounds' = 0
          /\ untried' = {saved.aps[Position(saved.head, i)].ssid : i \in 0 .. saved.count - 1}
      BY <2>8 DEF Restart
    <3> QED BY <3>1 DEF TriedInv, Within, Idle
  <2>9. CASE UNCHANGED vars
    BY <1>2, <2>9, AsideKeepsTried DEF vars, ram, history, handler
  <2> QED BY <1>2, <2>1, <2>2, <2>3, <2>4, <2>5, <2>6, <2>7, <2>8, <2>9,
             GotIpKeepsTried, CountRoundKeepsTried, LoadKeepsTried DEF Next, Handle
<1> QED BY <1>1, <1>2, InitHolds, NextHolds, PTL DEF Spec

\* For every size of the ring and every limit of more than one round: when the station
\* gives up, every member of the list was loaded since the last success, unless a command
\* changed the list meanwhile.
THEOREM StationGivesUpAfterAll == Spec => GivesUpAfterAll
<1>1. ASSUME IInv, TriedInv, [Next]_vars, GivesUp PROVE untried = {}
  <2>1. rounds' # rounds /\ rounds' # 0 BY <1>1, WifiAssumption DEF GivesUp
  <2>2. CASE CountRound BY <1>1, <2>2, CountRoundKeepsTried
  <2>3. CASE ~CountRound
    BY <1>1, <2>1, <2>3 DEF Next, AppendAltAp, Clear, Command, AppendPass, Publish, SetStaSsid,
       SetStaPass, SaveConfig, OnStaGotIp, OnStaDisconnected, Handle, Load, LoadPass, SetConfig,
       StoreNext, Restart, vars, ram
  <2> QED BY <2>2, <2>3
<1>2. Spec => []IInv BY InitHolds, NextHolds, PTL DEF Spec
<1> QED BY <1>1, <1>2, TriedInductive, PTL DEF Spec, GivesUpAfterAll
===============================================================================
