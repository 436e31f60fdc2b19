----------------------------- MODULE WifiStation -----------------------------
(***************************************************************************)
(* The station side of Wifi (components/Wifi/Wifi.cpp): the ring of        *)
(* alternative access points and the policy that goes through it when the  *)
(* connection fails.  Commands change the ring in the task of the server,  *)
(* disconnections are handled in the event task, and nothing locks the     *)
(* configuration between them: each copies an entry in two steps, SSID and *)
(* password, and stores its indices one by one.                            *)
(***************************************************************************)
EXTENDS Integers

CONSTANTS
  APs,          \* access points a user may name, each with its own password
  NoAP,         \* an entry never written
  Near,         \* the one that stays in range, for liveness; the others come and go
  Size,         \* ALTERNATIVE_AP_LIST_SIZE, 5
  FailLimit,    \* TRY_OTHER_AP_AFTER_FAIL_COUNT, 3
  RoundLimit,   \* MAX_ALT_APS_TRY_ROUND, 1000
  MaxChanges    \* bound: commands and restarts

ASSUME WifiAssumption ==
    /\ NoAP \notin APs /\ Near \in APs
    /\ Size \in Nat /\ Size > 1
    /\ FailLimit \in Nat \ {0} /\ RoundLimit \in Nat /\ RoundLimit > 1
    /\ MaxChanges \in Nat

VARIABLES
  conf,     \* _config: the ring (head, count, aps) and the station's entry sta
  saved,    \* _config as the flash holds it
  next,     \* _nextAltApIndex
  fails,    \* _connectionFailCount
  rounds,   \* _altApsConnectionFailRound
  driver,   \* the entry the Wi-Fi driver was configured with
  link,     \* "trying", "up" or "down"
  pc, at,   \* onStaDisconnected: its next step, and the index it holds
  cmd,      \* the command the server's task executes
  changes,  \* commands and restarts so far
  cleared,  \* history: the list was cleared after next was computed
  untried   \* history: members of an unchanged list not loaded since the last success

ram == <<next, fails, rounds>>
handler == <<pc, at>>
history == <<cleared, untried>>
vars == <<conf, saved, ram, driver, link, handler, cmd, changes, history>>

-----------------------------------------------------------------------------
Slots == 0 .. Size - 1
Entry(a) == [ssid |-> a, pass |-> a]
Idle == [pc |-> "idle", ap |-> NoAP, sta |-> FALSE, left |-> {}]

\* Slip: the head moves the wrong way.
BeforeForward(h) == (h + 1) % Size

Before(h) == (Size + h - 1) % Size
Position(h, i) == (h + i) % Size

\* Slip: the count is not bounded.
GrownPastTheEnd(n) == n + 1

Grown(n) == IF n < Size THEN n + 1 ELSE n

\* The ring of configuration c as a list, newest first, from head h and with n members.
Ring(c, h, n) == [i \in 1 .. n |-> c.aps[Position(h, i - 1)].ssid]

\* An append counts from its first store on, which may overwrite the oldest member.
Pending(field) == cmd.pc = "pass" \/ field \in cmd.left
Alternatives == Ring(conf, IF Pending("head") THEN Before(conf.head) ELSE conf.head,
                           IF Pending("count") THEN Grown(conf.count) ELSE conf.count)
Listed == {Alternatives[i] : i \in DOMAIN Alternatives}

\* What wifi_task finds in the flash or, at a first boot, makes: the ring n appends have
\* filled, f[0] the newest.  A full one may start anywhere; where does not matter.
Filled(n, f) ==
    [head |-> Size - n, count |-> n, sta |-> Entry(f[0]),
     aps |-> [s \in Slots |-> Entry(IF s < Size - n THEN NoAP ELSE f[s - (Size - n)])]]

Init == /\ \E n \in 1 .. Size : \E f \in [0 .. n - 1 -> APs] :
              conf = Filled(n, f) /\ untried = {f[i] : i \in 0 .. n - 1}
        /\ saved = conf
        /\ next = 0 /\ fails = 0 /\ rounds = 0
        /\ driver = conf.sta /\ link = "trying"
        /\ pc = "wait" /\ at = 0
        /\ cmd = Idle
        /\ changes = 0
        /\ cleared = FALSE

-----------------------------------------------------------------------------
(* Commands, in the task of the server: AppendAltApSsidPass, SetStaSsidPass *)
(* (an append, then the station's entry) and ClearAltApSsidPassList.  Each  *)
(* ends by saving the configuration.                                        *)

Change == changes < MaxChanges /\ changes' = changes + 1

AppendAltAp(a, sta) ==
    /\ cmd.pc = "idle" /\ Change
    /\ conf' = [conf EXCEPT !.aps[Before(conf.head)].ssid = a]
    /\ cmd' = [pc |-> "pass", ap |-> a, sta |-> sta, left |-> {}]
    /\ untried' = {}
    /\ UNCHANGED <<saved, ram, driver, link, handler, cleared>>

\* Slip: the password goes to the entry that was the newest.
AppendPassAtOldHead ==
    /\ cmd.pc = "pass"
    /\ conf' = [conf EXCEPT !.aps[conf.head].pass = cmd.ap]
    /\ cmd' = [cmd EXCEPT !.pc = "publish", !.left = {"head", "next", "count"}]
    /\ UNCHANGED <<saved, ram, driver, link, handler, changes, history>>

AppendPass ==
    /\ cmd.pc = "pass"
    /\ conf' = [conf EXCEPT !.aps[Before(conf.head)].pass = cmd.ap]
    /\ cmd' = [cmd EXCEPT !.pc = "publish", !.left = {"head", "next", "count"}]
    /\ UNCHANGED <<saved, ram, driver, link, handler, changes, history>>

\* The stores to the indices, in an order the build chooses.
Publish(field) ==
    /\ cmd.pc = "publish" /\ field \in cmd.left
    /\ conf' = CASE field = "head"  -> [conf EXCEPT !.head = Before(@)]
                 [] field = "count" -> [conf EXCEPT !.count = Grown(@)]
                 [] field = "next"  -> conf
    /\ next' = IF field = "next" THEN 0 ELSE next
    /\ cleared' = (cleared /\ (field = "next" => pc = "store"))
    /\ cmd' = [cmd EXCEPT !.left = @ \ {field},
                          !.pc = IF cmd.left # {field} THEN "publish"
                                 ELSE IF cmd.sta THEN "staSsid" ELSE "save"]
    /\ UNCHANGED <<saved, fails, rounds, driver, link, handler, changes, untried>>

SetStaSsid ==
    /\ cmd.pc = "staSsid"
    /\ conf' = [conf EXCEPT !.sta.ssid = cmd.ap]
    /\ cmd' = [cmd EXCEPT !.pc = "staPass"]
    /\ UNCHANGED <<saved, ram, driver, link, handler, changes, history>>

SetStaPass ==
    /\ cmd.pc = "staPass"
    /\ conf' = [conf EXCEPT !.sta.pass = cmd.ap]
    /\ cmd' = [cmd EXCEPT !.pc = "save"]
    /\ UNCHANGED <<saved, ram, driver, link, handler, changes, history>>

\* next stays where it was.
Clear ==
    /\ cmd.pc = "idle" /\ Change
    /\ conf' = [conf EXCEPT !.count = 1]
    /\ cmd' = [cmd EXCEPT !.pc = "save"]
    /\ cleared' = TRUE /\ untried' = {}
    /\ UNCHANGED <<saved, ram, driver, link, handler>>

SaveConfig ==
    /\ cmd.pc = "save"
    /\ saved' = conf
    /\ cmd' = Idle
    /\ UNCHANGED <<conf, ram, driver, link, handler, changes, history>>

-----------------------------------------------------------------------------
(* Events of the driver.                                                   *)

\* An access point takes its own password only.
OnStaGotIp ==
    /\ pc = "wait" /\ link = "trying" /\ driver.ssid = driver.pass
    /\ link' = "up"
    /\ fails' = 0 /\ rounds' = 0
    /\ untried' = IF cmd.pc \in {"pass", "publish"} THEN {} ELSE Listed
    /\ UNCHANGED <<conf, saved, next, driver, handler, cmd, changes, cleared>>

\* "counted" stands for HANDSHAKE_TIMEOUT, AUTH_FAIL and NO_AP_FOUND, "leave" for
\* ASSOC_LEAVE, after which nothing tries again.
Reasons == {"counted", "other", "leave"}

Retry == IF rounds < RoundLimit THEN "trying" ELSE "down"

\* Short of the limit the handler touches nothing the other task sees: one step.
OnStaDisconnected(reason) ==
    /\ pc = "wait" /\ link # "down"
    /\ fails' = IF reason = "counted" THEN fails + 1 ELSE fails
    /\ pc' = IF reason # "leave" /\ fails' >= FailLimit THEN "round" ELSE "wait"
    /\ link' = IF reason = "leave" \/ pc' = "round" THEN "down" ELSE Retry
    /\ UNCHANGED <<conf, saved, next, rounds, driver, at, cmd, changes, history>>

\* Slip: every load counts as a round.
CountRoundEachLoad ==
    /\ pc = "round"
    /\ rounds' = rounds + 1
    /\ pc' = IF rounds' < RoundLimit THEN "load" ELSE "wait"
    /\ UNCHANGED <<conf, saved, next, fails, driver, link, at, cmd, changes, history>>

CountRound ==
    /\ pc = "round"
    /\ rounds' = IF next = conf.count - 1 THEN rounds + 1 ELSE rounds
    /\ pc' = IF rounds' < RoundLimit THEN "load" ELSE "wait"
    /\ UNCHANGED <<conf, saved, next, fails, driver, link, at, cmd, changes, history>>

\* loadNextAltSsidPassword: the SSID, the password, the driver, then the next index.
Load ==
    /\ pc = "load"
    /\ at' = Position(conf.head, next)
    /\ conf' = [conf EXCEPT !.sta.ssid = conf.aps[at'].ssid]
    /\ untried' = untried \ {conf.aps[at'].ssid}
    /\ pc' = "loadPass"
    /\ UNCHANGED <<saved, ram, driver, link, cmd, changes, cleared>>

LoadPass ==
    /\ pc = "loadPass"
    /\ conf' = [conf EXCEPT !.sta.pass = conf.aps[at].pass]
    /\ pc' = "config"
    /\ UNCHANGED <<saved, ram, driver, link, at, cmd, changes, history>>

\* Slip: the index goes round the slots, not the members.
SetConfigModuloSlots ==
    /\ pc = "config"
    /\ driver' = conf.sta
    /\ at' = (next + 1) % Size
    /\ pc' = "store"
    /\ cleared' = FALSE
    /\ UNCHANGED <<conf, saved, ram, link, cmd, changes, untried>>

\* The index is read a moment after the entry; each pair of values that can give is also
\* the pair of one moment, as an append stores next before sta.
SetConfig ==
    /\ pc = "config"
    /\ driver' = conf.sta
    /\ at' = (next + 1) % conf.count
    /\ pc' = "store"
    /\ cleared' = FALSE
    /\ UNCHANGED <<conf, saved, ram, link, cmd, changes, untried>>

\* Slip: the index is not advanced.
StoreNextForgotten ==
    /\ pc = "store"
    /\ fails' = 0
    /\ link' = Retry
    /\ pc' = "wait"
    /\ UNCHANGED <<conf, saved, next, rounds, driver, at, cmd, changes, history>>

StoreNext ==
    /\ pc = "store"
    /\ next' = at /\ fails' = 0
    /\ link' = Retry
    /\ pc' = "wait"
    /\ UNCHANGED <<conf, saved, rounds, driver, at, cmd, changes, history>>

Handle == CountRound \/ Load \/ LoadPass \/ SetConfig \/ StoreNext

-----------------------------------------------------------------------------
(* A restart, asked for or not: the configuration is loaded from the flash. *)
Restart ==
    /\ Change
    /\ conf' = saved
    /\ next' = 0 /\ fails' = 0 /\ rounds' = 0
    /\ driver' = saved.sta /\ link' = "trying"
    /\ pc' = "wait" /\ at' = 0
    /\ cmd' = Idle
    /\ cleared' = FALSE
    /\ untried' = {saved.aps[Position(saved.head, i)].ssid : i \in 0 .. saved.count - 1}
    /\ UNCHANGED <<saved>>

Command == AppendPass \/ (\E f \in {"head", "next", "count"} : Publish(f))
           \/ SetStaSsid \/ SetStaPass \/ SaveConfig

Next == \/ \E a \in APs, sta \in BOOLEAN : AppendAltAp(a, sta)
        \/ Clear
        \/ Command
        \/ OnStaGotIp
        \/ \E r \in Reasons : OnStaDisconnected(r)
        \/ Handle
        \/ Restart

Spec == Init /\ [][Next]_vars

\* Tasks run on.  An attempt ends: with Near, when it is tried again and again, some
\* attempt succeeds; with an absent access point or a wrong password, by a counted reason.
FairSpec == /\ Spec
            /\ WF_vars(Command) /\ WF_vars(Handle)
            /\ SF_vars(OnStaGotIp /\ driver = Entry(Near))
            /\ WF_vars(link = "trying" /\ driver # Entry(Near) /\ OnStaDisconnected("counted"))

-----------------------------------------------------------------------------
(* Properties.                                                             *)

Names == APs \cup {NoAP}
Entries == [ssid : Names, pass : Names]
WifiConfs == [head : Slots, count : 1 .. Size, aps : [Slots -> Entries], sta : Entries]

\* Every member of the ring of c is an access point with its own password.
Whole(c, h, n) == \A i \in 0 .. n - 1 : \E a \in APs : c.aps[Position(h, i)] = Entry(a)

Fields == {"head", "next", "count"}
Commands == [pc : {"idle", "pass", "publish", "staSsid", "staPass", "save"},
             ap : Names, sta : BOOLEAN, left : SUBSET Fields]

\* Each variable keeps its type: indices stay in the ring, counters within their limits.
TypeOK ==
    /\ conf \in WifiConfs /\ saved \in WifiConfs
    /\ next \in Slots /\ fails \in 0 .. FailLimit /\ rounds \in 0 .. RoundLimit
    /\ driver \in Entries /\ link \in {"trying", "up", "down"}
    /\ pc \in {"wait", "round", "load", "loadPass", "config", "store"} /\ at \in Slots
    /\ cmd \in Commands
    /\ changes \in 0 .. MaxChanges
    /\ cleared \in BOOLEAN /\ untried \subseteq Names

\* Every member of the ring has its own password: in the flash always, as a restart may
\* come at any moment; in RAM whenever no append is storing (Wifi.cpp:222-242).
MembersWhole ==
    /\ Whole(saved, saved.head, saved.count)
    /\ cmd.pc \notin {"pass", "publish"} => Whole(conf, conf.head, conf.count)

\* The ring is the list it stands for, whatever the event task does between the stores of
\* an append, and a restart brings back what the last finished command left.
List == INSTANCE AltApList
          WITH list <- Alternatives, stored <- Ring(saved, saved.head, saved.count)
ImplementsAltApList == List!Spec

\* A reconnect takes its entry from the list: outside the stores of an append, the next
\* index is inside the ring, except once after a clear, which leaves it where it was.
NextInList == cmd.pc # "publish" /\ ~cleared /\ pc # "store" => next < conf.count

\* The station gives up only when every member of the list has been loaded since the last
\* success, unless a command changed the list meanwhile.
GivesUp == rounds < RoundLimit /\ rounds' = RoundLimit
GivesUpAfterAll == [][GivesUp => untried = {}]_vars

\* An access point that stays in range and in the list is found, or another one is: the
\* station is connected again and again, unless its rounds ran out or it left the network.
GaveUp == rounds = RoundLimit
Left == link = "down" /\ pc = "wait"
FindsListed == <>[](Near \in Listed) => []<>(link = "up" \/ GaveUp \/ Left)

\* What GetAltApSsidPassList replies (CmdEngine.cpp:606-613), at a moment no command is
\* changing the ring, is the circular list that altApsHead is the head of (Wifi.h:58-60).
GetAltApList == [i \in 1 .. conf.count |-> conf.aps[(conf.head + i - 1) % conf.count].ssid]
ListingShowsList == cmd.pc = "idle" => GetAltApList = Alternatives
==============================================================================
