------------------------------ MODULE CmdEngine ------------------------------
(***************************************************************************)
(* CmdEngine (components/CmdEngine/CmdEngine.cpp).  The server's task and  *)
(* the WebSocket client's task interpret messages with the same two        *)
(* buffers: _cmdBuf for the arguments read from a JSON command, _strBuf    *)
(* for the text of an answer.  An answer is not sent by the handler: a job *)
(* in the server's queue holds a pointer to it (HttpServer::_ws_send).     *)
(* The WebSocket client hands over a message where it received it, with    *)
(* whatever earlier bytes stand behind it.  What a command stores is       *)
(* SystemData's business; here an argument and an answer are the number of *)
(* the command they belong to, or 0 for bytes that were no command's.      *)
(***************************************************************************)
EXTENDS Integers, Sequences

CONSTANTS MaxCommands,   \* bound: messages in a run
          MaxJobs        \* places in the queue of httpd_queue_work

ASSUME EngineAssumption == MaxCommands \in Nat /\ MaxJobs \in Nat \ {0}

VARIABLES
    work,       \* what each task is at, or Idle
    cmdBuf,     \* the command whose arguments _cmdBuf holds
    strBuf,     \* the command whose text _strBuf holds
    jobs,       \* the answers that wait to be sent
    updating,   \* _appUpdater.isUpdating()
    count,      \* messages taken so far
    tail,       \* for each command, the one whose bytes stand where its own end too early;
                \* itself if it is whole
    \* history, read by properties only
    rivals,     \* for each command, the unbroken series of commands it is part of
    last        \* the last effect: [id, shown], the command and whose data it used

engineVars == <<work, cmdBuf, strBuf, jobs, updating, count, tail, rivals, last>>

Task == {"httpd", "wsc"}
Idle == [id |-> 0, stage |-> "idle", does |-> "none", from |-> "none", own |-> FALSE]

-----------------------------------------------------------------------------
(* The commands, by what _parseJsonStringCmd reads for them.               *)

FanMode == {"SetFanOpMode"}
Names == {"SetHostname", "SetDeviceName"}
Networks == {"SetStaSsidPass", "SetApSsidPass", "AppendAltApSsidPass"}
DeployMode == {"SetSystemDeployMode"}
SensorTypes == {"SetSensorType"}
Switches == {"TurnOnDisplay", "TurnOnAutoAdjustDisplay"}
AlertSwitches == {"SetAlertEnableConfig"}
AlertLimits == {"SetSensorAlertConfig"}
PnToken == {"SetPNToken"}
TokenCheck == {"CheckPNTokenEnabled"}
DebugFlag == {"SetDebugFlag"}

\* A value that is missing is read as zero, once the first is there.
TakesZero == FanMode \cup AlertLimits

\* The first value is in the buffer by the time the next is found missing.
WritesEarly == TakesZero \cup SensorTypes \cup AlertSwitches \cup PnToken \cup TokenCheck

WithArgs == Names \cup Networks \cup DeployMode \cup Switches \cup DebugFlag \cup WritesEarly

\* The values of a message: all of those the command has, the first of them, or none.
Parsed(key, values) == key \in WithArgs => values = "all" \/ (values = "first" /\ key \in TakesZero)

WritesArgs(key, values) ==
    key \in WithArgs /\ (values = "all" \/ (values = "first" /\ key \in WritesEarly))

-----------------------------------------------------------------------------
(* The commands, by where execCmd has the answer: the shared text, memory  *)
(* that stays, the stack of the handler, or no answer.                     *)

SensorData == {"GetSensorData"}
FanState == {"GetFanOpMode"}
DeviceInfo == {"GetDeviceInfo"}
Texts == {"GetUID", "GetIdfVersion", "GetFirmwareVersion", "GetHostname", "GetDeviceName"}
Deploy == {"GetSystemDeployMode"}
Capability == {"GetSensorCapability"}
Credentials == {"GetStaSsidPass", "GetApSsidPass"}
AltAps == {"GetAltApSsidPassList"}
AlertConfig == {"GetAlertConfig"}

InJsonOnly == DeviceInfo \cup AltAps \cup AlertConfig \cup TokenCheck
InBoth == FanState \cup Credentials

Gets == SensorData \cup Texts \cup Deploy \cup Capability \cup InJsonOnly \cup InBoth

Source(key, fmt) ==
    CASE key \in InBoth \/ (key \in Gets /\ fmt = "json") -> "text"
      [] key \in SensorData \cup Texts \cup Deploy /\ fmt = "binary" -> "kept"
      [] key \in Capability /\ fmt = "binary" -> "stack"
      [] OTHER -> "none"

Sets == FanMode \cup Names \cup Networks \cup DeployMode \cup SensorTypes \cup Switches
        \cup AlertSwitches \cup AlertLimits \cup PnToken \cup DebugFlag

WithoutArgs == {"UpdateFirmware", "Restart", "RestoreFactory", "ClearAltApSsidPassList"}

Keys == Gets \cup Sets \cup WithoutArgs

Does(key, fmt) ==
    CASE key = "UpdateFirmware" -> "update"
      [] key = "SetHostname" -> "hostname"
      [] key \in Sets \ {"SetHostname"} -> "set"
      [] Source(key, fmt) # "none" -> "answer"
      [] OTHER -> "none"

-----------------------------------------------------------------------------
(* The state.                                                              *)

Id == 0 .. MaxCommands

\* What a boot leaves of the five variables.
Booted(tasks, args, text, queue, busy) ==
    /\ tasks = [t \in Task |-> Idle]
    /\ args = 0 /\ text = 0 /\ queue = <<>> /\ busy = FALSE

EngineInit ==
    /\ Booted(work, cmdBuf, strBuf, jobs, updating)
    /\ count = 0
    /\ tail = [id \in Id |-> id]
    /\ rivals = [id \in Id |-> {}]
    /\ last = [id |-> 0, shown |-> 0]

UnderWay == {work[t].id : t \in Task} \cup {jobs[n].id : n \in DOMAIN jobs}

\* A new command id joins those under way, and with them all that they have met.
Meets(id) ==
    LET group == {id} \cup UNION {rivals[c] \cup {c} : c \in UnderWay \ {0}}
    IN  rivals' = [c \in Id |-> IF c \in group THEN group ELSE rivals[c]]

-----------------------------------------------------------------------------
(* interpretSocketMsg.                                                     *)

\* While an update is under way, what the WebSocket client receives is the updater's.
Takes(t) == work[t] = Idle /\ count < MaxCommands /\ ~(t = "wsc" /\ updating)

Start(t, does, from, own) ==
    work' = [work EXCEPT ![t] = IF does = "none" THEN Idle
                                ELSE [id |-> count + 1, stage |-> "exec", does |-> does,
                                      from |-> from, own |-> own]]

\* A message with arguments may end before they do.  The server gives each frame zeroed
\* memory of its own; the client's buffer is never cleared, and what stands behind a
\* message in it is what the memory has held since any earlier one.
MayEnd(t, early) ==
    \/ UNCHANGED tail
    \/ /\ t = "wsc" /\ early
       /\ \E c \in 0 .. count : tail' = [tail EXCEPT ![count + 1] = c]

TextMessage(t, key, values, fmt) ==
    /\ Takes(t)
    /\ MayEnd(t, WritesArgs(key, values))
    /\ count' = count + 1
    /\ Meets(count + 1)
    /\ cmdBuf' = IF WritesArgs(key, values) THEN tail'[count + 1] ELSE cmdBuf
    /\ Start(t, IF Parsed(key, values) THEN Does(key, fmt) ELSE "none",
             Source(key, fmt), key \notin WithArgs)
    /\ UNCHANGED <<strBuf, jobs, updating, last>>

\* The size of its arguments is passed on, and bounds what they are read from.
Bounded == {"SetHostname"}

\* The server takes text frames only.  A binary message needs the two bytes of its key; its
\* arguments are read where it stands, whether it has them or not.
BinaryMessage(key) ==
    /\ Takes("wsc")
    /\ MayEnd("wsc", key \in WithArgs \ Bounded)
    /\ count' = count + 1
    /\ Meets(count + 1)
    /\ Start("wsc", Does(key, "binary"), Source(key, "binary"), TRUE)
    /\ UNCHANGED <<cmdBuf, strBuf, jobs, updating, last>>

-----------------------------------------------------------------------------
(* execCmd.                                                                *)

At(t, stage, does) == work[t].stage = stage /\ work[t].does = does

\* Whose arguments the command finds at args.
ArgsOf(t) == IF work[t].own THEN tail[work[t].id] ELSE cmdBuf

Finish(t) == work' = [work EXCEPT ![t] = Idle]

SetCommand(t) ==
    /\ At(t, "exec", "set")
    /\ last' = [id |-> work[t].id, shown |-> ArgsOf(t)]
    /\ Finish(t)
    /\ UNCHANGED <<cmdBuf, strBuf, jobs, updating, count, tail, rivals>>

\* The name is made a string in the buffer of the answers.
HostnameText(t) ==
    /\ At(t, "exec", "hostname")
    /\ strBuf' = ArgsOf(t)
    /\ work' = [work EXCEPT ![t].stage = "text"]
    /\ UNCHANGED <<cmdBuf, jobs, updating, count, tail, rivals, last>>

SetHostname(t) ==
    /\ At(t, "text", "hostname")
    /\ last' = [id |-> work[t].id, shown |-> strBuf]
    /\ Finish(t)
    /\ UNCHANGED <<cmdBuf, strBuf, jobs, updating, count, tail, rivals>>

UpdateFirmware(t) ==
    /\ At(t, "exec", "update")
    /\ updating' = TRUE
    /\ Finish(t)
    /\ UNCHANGED <<cmdBuf, strBuf, jobs, count, tail, rivals, last>>

UpdateEnds ==
    /\ updating
    /\ updating' = FALSE
    /\ UNCHANGED <<work, cmdBuf, strBuf, jobs, count, tail, rivals, last>>

\* Slip: the answer is handed over before its text is written.
AnswerBeforeText(t) ==
    /\ At(t, "exec", "answer")
    /\ work' = [work EXCEPT ![t].stage = "text"]
    /\ UNCHANGED <<cmdBuf, strBuf, jobs, updating, count, tail, rivals, last>>

AnswerText(t) ==
    /\ At(t, "exec", "answer")
    /\ strBuf' = IF work[t].from = "text" THEN ArgsOf(t) ELSE strBuf
    /\ work' = [work EXCEPT ![t].stage = "text"]
    /\ UNCHANGED <<cmdBuf, jobs, updating, count, tail, rivals, last>>

\* replyMessage, on the server's task: a job, unless the queue is full.
Reply ==
    /\ At("httpd", "text", "answer")
    /\ jobs' = IF Len(jobs) < MaxJobs
                 THEN Append(jobs, [id |-> work["httpd"].id, from |-> work["httpd"].from])
                 ELSE jobs
    /\ Finish("httpd")
    /\ UNCHANGED <<cmdBuf, strBuf, updating, count, tail, rivals, last>>

\* On the WebSocket client's task there is no request to reply to: _ws_send reads through
\* a null pointer, and the device boots.
ReplyToNobody ==
    /\ At("wsc", "text", "answer")
    /\ Booted(work', cmdBuf', strBuf', jobs', updating')
    /\ UNCHANGED <<count, tail, rivals, last>>

\* The server's task sends between two messages; the handler's stack is gone by then.
SendJob ==
    /\ jobs # <<>> /\ work["httpd"] = Idle
    /\ jobs' = Tail(jobs)
    /\ LET job == Head(jobs)
       IN  last' = CASE job.from = "text"  -> [id |-> job.id, shown |-> strBuf]
                     [] job.from = "kept"  -> [id |-> job.id, shown |-> job.id]
                     [] job.from = "stack" -> last
    /\ UNCHANGED <<work, cmdBuf, strBuf, updating, count, tail, rivals>>

Values == {"all", "first", "none"}
Formats == {"json", "binary"}

OnWebsocketFrame ==
    \E key \in Keys, values \in Values, fmt \in Formats : TextMessage("httpd", key, values, fmt)

OnRxData ==
    \/ \E key \in Keys, values \in Values, fmt \in Formats : TextMessage("wsc", key, values, fmt)
    \/ \E key \in Keys : BinaryMessage(key)

Execute(t) ==
    SetCommand(t) \/ HostnameText(t) \/ SetHostname(t) \/ UpdateFirmware(t) \/ AnswerText(t)

EngineNext ==
    \/ OnWebsocketFrame \/ OnRxData
    \/ \E t \in Task : Execute(t)
    \/ Reply \/ ReplyToNobody \/ SendJob \/ UpdateEnds

EngineSpec == EngineInit /\ [][EngineNext]_engineVars

-----------------------------------------------------------------------------
(* Properties.                                                             *)

\* What a command and those it overlapped with brought, themselves or behind them.
DataOf(id) == UNION {{c, tail[c]} : c \in {id} \cup rivals[id]}

\* A command stores its own arguments, and an answer from the shared text is the answer to
\* its own question, with two exceptions.  In an unbroken series of commands that overlap,
\* the data are those of one of the series: a buffer never hands on what was left in it from
\* before (_cmdBuf and _strBuf are never cleared, and the answer is read only when its job
\* runs).  And a message of the WebSocket client that ends too early is taken with the bytes
\* behind it.
OwnData == last.shown \in DataOf(last.id)
==============================================================================
