----------------------------- MODULE AppUpdater -----------------------------
(***************************************************************************)
(* AppUpdater (components/AppUpdater/AppUpdater.cpp): the firmware update  *)
(* over the WebSocket client.  A command starts it; the update service     *)
(* answers a version request, then one block per request; every message    *)
(* of the service goes to updateLoop, which takes it for whatever the      *)
(* state expects.  Blocks are written to the next OTA partition; when all  *)
(* announced bytes are there the service is asked for the digest of the    *)
(* image, and a match makes the partition the one to boot.                 *)
(*                                                                         *)
(* A unit is one piece of an image: <<version, position>>.  Indices and    *)
(* sizes count units; the MD5 state is the sequence of units digested.     *)
(* A reply of the service is queued when the request is sent, so the queue *)
(* rx is the delay of the network and of the service together.             *)
(***************************************************************************)
EXTENDS Integers, Sequences

CONSTANTS
  MaxVersion,    \* newest image the service may offer; the factory image is 0
  Size,          \* Size[v]: units in the image of version v
  BlockSize,     \* UPDATE_RX_DATA_BLOCK_SIZE
  Commanders,    \* tasks that execute the update command: "httpd", "ws"
  MaxRx          \* bound on the messages under way to the device

Versions == 0 .. MaxVersion

ASSUME UpdaterAssumption ==
    /\ MaxVersion \in Nat
    /\ Size \in [Versions -> Nat \ {0}]
    /\ BlockSize \in Nat \ {0}
    /\ Commanders \subseteq {"httpd", "ws"}
    /\ MaxRx \in Nat

VARIABLES
  state,     \* _state
  index,     \* _writeFlag.index
  amount,    \* _writeFlag.amount
  newSize,   \* _newVersionSize
  md5,       \* _md5Contex, and _md5Result once finished: the units digested
  report,    \* the last code _retCode gave to the monitoring clients
  paused,    \* the peripherals are paused for the update
  content,   \* content[p]: the units in flash partition p
  boot,      \* the configured boot partition
  running,   \* the partition this firmware runs from
  pc,        \* pc[t]: where commander t is in CmdEngine's UpdateFirmware
  started,   \* the WebSocket client runs
  linked,    \* it is connected to the service
  rx,        \* messages of the service, oldest first
  wsStopReq, \* _hasWebsocketClientStopRequest
  served     \* the version the service named last (external)

ramVars   == <<state, index, amount, newSize, md5, report, paused>>
flashVars == <<content, boot>>
linkVars  == <<started, linked, rx>>
vars == <<ramVars, flashVars, running, pc, linkVars, wsStopReq, served>>

-----------------------------------------------------------------------------
(* Images and partitions.  The board has the two-OTA partition table.      *)

Partitions == {"factory", "ota_0", "ota_1"}
Garbage    == <<0, 0>>
Units      == Versions \X Nat

Image(v)   == [i \in 1 .. Size[v] |-> <<v, i>>]
IsImage(c) == \E v \in Versions : c = Image(v)

\* esp_ota_get_next_update_partition(NULL)
NextUpdatePartition(p) == IF p = "ota_0" THEN "ota_1" ELSE "ota_0"
UpdatePartition == NextUpdatePartition(running)

\* _currentVersion: FIRMWARE_VERSION of the image that runs.
CurrentVersion == content[running][1][1]

-----------------------------------------------------------------------------
(* Messages of the service.  Every message has the fields of all kinds:    *)
(* index and data are what it is as a block.  Only a block carries an      *)
(* index on purpose; the data of the others are bytes of no image.         *)

Message(kind, v, i, d) == [kind |-> kind, ver |-> v, index |-> i, data |-> d]
VersionInfo(v)  == Message("version", v, 0, <<Garbage>>)
Block(i, d)     == Message("block", 0, i, d)
VerifyBits(v)   == Message("bits", v, 0, <<Garbage>>)
Remainder(n)    == Message("remainder", 0, 0, [k \in 1 .. n |-> Garbage])

\* Service (external): the block of at most a units from position i on.
ServedBlock(i, a) ==
    LET last == IF i + a < Size[served] THEN i + a ELSE Size[served]
    IN  Block(i, SubSeq(Image(served), i + 1, last))

\* What updateLoop reads from a message: version and size where it waits for
\* the version, the index where it waits for data.  A message of another kind
\* can read as anything; the values that make a difference are enumerated.
AnnouncementRead(m) == IF m.kind = "version" THEN {<<m.ver, Size[m.ver]>>}
                       ELSE Versions \X {Size[v] : v \in Versions}
IndexRead(m) == IF m.kind = "block" THEN {m.index} ELSE {index, index + 1}

-----------------------------------------------------------------------------
(* Initial state: the factory image runs, both OTA partitions are blank.   *)

Init == /\ state = "IDLE" /\ index = 0 /\ amount = 0 /\ newSize = 0
        /\ md5 = <<>> /\ report = "NONE" /\ paused = FALSE
        /\ content = [p \in Partitions |-> IF p = "factory" THEN Image(0) ELSE <<>>]
        /\ boot = "factory" /\ running = "factory"
        /\ pc = [t \in Commanders |-> "idle"]
        /\ started = FALSE /\ linked = FALSE /\ rx = <<>>
        /\ wsStopReq = FALSE /\ served = 0

-----------------------------------------------------------------------------
(* The update command, step by step: it blocks on the WebSocket client and *)
(* on Wi-Fi, so the message handler of the client runs in between.         *)

\* case UpdateFirmware: the test of isUpdating.  Commands of the service reach
\* the interpreter only while no update is on.
UpdateFirmware(t) ==
    /\ pc[t] = "idle"
    /\ state = "IDLE"
    /\ t = "ws" => linked
    /\ pc' = [pc EXCEPT ![t] = "starting"]
    /\ UNCHANGED <<ramVars, flashVars, running, linkVars, wsStopReq, served>>

\* Slip: the partition check is left out.
CheckNothing(t) ==
    /\ pc[t] = "starting"
    /\ started' = TRUE
    /\ state' = "IDLE"
    /\ pc' = [pc EXCEPT ![t] = "checked"]
    /\ UNCHANGED <<index, amount, newSize, md5, report, paused, flashVars,
                   running, linked, rx, wsStopReq, served>>

\* init() and _beforeUpdateCheck().
InitAndCheck(t) ==
    /\ pc[t] = "starting"
    /\ started' = TRUE
    /\ state' = "IDLE"
    /\ \/ /\ boot = running
          /\ pc' = [pc EXCEPT ![t] = "checked"]
          /\ UNCHANGED <<report, paused>>
       \/ /\ boot # running
          /\ pc' = [pc EXCEPT ![t] = "idle"]
          /\ report' = "OTA_RUNNING_PARTITION_NOT_BOOT"
          /\ paused' = FALSE
    /\ UNCHANGED <<index, amount, newSize, md5, flashVars, running, linked, rx,
                   wsStopReq, served>>

\* update() after Wifi::waitConnected returned.
AwaitVersion(t) ==
    /\ pc[t] = "checked"
    /\ state' = "WAIT_VERSION_INFO"
    /\ pc' = [pc EXCEPT ![t] = "sending"]
    /\ UNCHANGED <<index, amount, newSize, md5, report, paused, flashVars,
                   running, linkVars, wsStopReq, served>>

\* _sendUpdateCmd() succeeded; the service will answer with some version.
SendUpdateCmd(t) ==
    /\ pc[t] = "sending"
    /\ linked
    /\ Len(rx) < MaxRx
    /\ \E v \in Versions : /\ served' = v
                           /\ rx' = Append(rx, VersionInfo(v))
    /\ pc' = [pc EXCEPT ![t] = "idle"]
    /\ UNCHANGED <<ramVars, flashVars, running, started, linked, wsStopReq>>

\* _sendUpdateCmd() gave up: no connection.
SendUpdateCmdFailed(t) ==
    /\ pc[t] = "sending"
    /\ ~linked
    /\ state' = "IDLE"
    /\ pc' = [pc EXCEPT ![t] = "idle"]
    /\ UNCHANGED <<index, amount, newSize, md5, report, paused, flashVars,
                   running, linkVars, wsStopReq, served>>

-----------------------------------------------------------------------------
(* updateLoop: one action per outcome of one message.                      *)

\* The task of the client is not executing a command of its own.
Receiving ==
    /\ "ws" \in Commanders => pc["ws"] = "idle"
    /\ UNCHANGED <<running, pc, started, linked, served>>

\* _onUpdateEnded(false, true), then _retCode(code) of a failure: the daemon is
\* asked to stop the client and the peripherals resume.
Fail(code) == /\ wsStopReq' = TRUE
              /\ report' = code
              /\ paused' = FALSE

\* WAIT_VERSION_INFO: the offered version is not newer.
RxAlreadyLatest(m) ==
    /\ Receiving
    /\ state = "WAIT_VERSION_INFO"
    /\ \E a \in AnnouncementRead(m) : a[1] <= CurrentVersion
    /\ state' = "IDLE"
    /\ Fail("ALREADY_LATEST")
    /\ rx' = Tail(rx)
    /\ UNCHANGED <<index, amount, newSize, md5, flashVars>>

\* A newer version: peripherals pause, ota_begin erases the partition, the
\* first block is asked for.
RxNewVersion(m) ==
    /\ Receiving
    /\ state = "WAIT_VERSION_INFO"
    /\ \E a \in AnnouncementRead(m) : /\ a[1] > CurrentVersion
                                      /\ newSize' = a[2]
    /\ paused' = TRUE
    /\ content' = [content EXCEPT ![UpdatePartition] = <<>>]
    /\ index' = 0
    /\ amount' = BlockSize
    /\ md5' = <<>>
    /\ state' = "WAIT_DATA"
    /\ rx' = Append(Tail(rx), ServedBlock(0, BlockSize))
    /\ UNCHANGED <<report, boot, wsStopReq>>

\* ota_begin failed, with the partition erased or not.
RxBeginFailed(m) ==
    /\ Receiving
    /\ state = "WAIT_VERSION_INFO"
    /\ \E a \in AnnouncementRead(m) : /\ a[1] > CurrentVersion
                                      /\ newSize' = a[2]
    /\ \E c \in {content[UpdatePartition], <<>>} :
          content' = [content EXCEPT ![UpdatePartition] = c]
    /\ state' = "IDLE"
    /\ Fail("OTA_BEGIN_FAILED")
    /\ rx' = Tail(rx)
    /\ UNCHANGED <<index, amount, md5, boot>>

\* Slip: a block is digested before its index is looked at.
RxMismatchedDigested(m) ==
    /\ Receiving
    /\ state = "WAIT_DATA"
    /\ \E i \in IndexRead(m) : i # index
    /\ report' = "RXDATA_MISMATCHED_WITH_REQUIRED"
    /\ paused' = FALSE
    /\ md5' = md5 \o m.data
    /\ rx' = Tail(rx)
    /\ UNCHANGED <<state, index, amount, newSize, flashVars, wsStopReq>>

\* WAIT_DATA: not the required index.  The message is dropped, the state stays,
\* and _retCode resumes the peripherals.
RxMismatched(m) ==
    /\ Receiving
    /\ state = "WAIT_DATA"
    /\ \E i \in IndexRead(m) : i # index
    /\ report' = "RXDATA_MISMATCHED_WITH_REQUIRED"
    /\ paused' = FALSE
    /\ rx' = Tail(rx)
    /\ UNCHANGED <<state, index, amount, newSize, md5, flashVars, wsStopReq>>

\* The block fits the request and the announced size.
RequiredBlock(m) == /\ index \in IndexRead(m)
                    /\ index + Len(m.data) <= newSize

RxTooLarge(m) ==
    /\ Receiving
    /\ state = "WAIT_DATA"
    /\ index \in IndexRead(m)
    /\ index + Len(m.data) > newSize
    /\ state' = "IDLE"
    /\ Fail("RXDATA_SIZE_LARGER_THAN_EXPECTED")
    /\ rx' = Tail(rx)
    /\ UNCHANGED <<index, amount, newSize, md5, flashVars>>

\* The block is digested, but ota_write fails having written part of it or
\* nothing; the ota_end that follows can fail too.
RxWriteFailed(m) ==
    /\ Receiving
    /\ state = "WAIT_DATA"
    /\ RequiredBlock(m)
    /\ md5' = md5 \o m.data
    /\ \E n \in 0 .. Len(m.data) :
          content' = [content EXCEPT ![UpdatePartition] = @ \o SubSeq(m.data, 1, n)]
    /\ state' = "IDLE"
    /\ \E code \in {"OTA_WRITE_FAILED", "OTA_END_FAILED"} : Fail(code)
    /\ rx' = Tail(rx)
    /\ UNCHANGED <<index, amount, newSize, boot>>

\* Slip: a short block is taken for the answer of the service to the next
\* request as well, so nothing more is asked for.
RxBlockNoRequest(m) ==
    /\ Receiving
    /\ state = "WAIT_DATA"
    /\ RequiredBlock(m)
    /\ index + Len(m.data) # newSize
    /\ md5' = md5 \o m.data
    /\ content' = [content EXCEPT ![UpdatePartition] = @ \o m.data]
    /\ index' = index + Len(m.data)
    /\ amount' = IF newSize - index' < BlockSize THEN newSize - index' ELSE amount
    /\ report' = "DOWNLOAD_PROGRESS"
    /\ rx' = IF Len(m.data) < amount THEN Tail(rx)
             ELSE Append(Tail(rx), ServedBlock(index', amount'))
    /\ UNCHANGED <<state, newSize, paused, boot, wsStopReq>>

\* Written, and more to come: the next block is asked for.
RxBlock(m) ==
    /\ Receiving
    /\ state = "WAIT_DATA"
    /\ RequiredBlock(m)
    /\ index + Len(m.data) # newSize
    /\ md5' = md5 \o m.data
    /\ content' = [content EXCEPT ![UpdatePartition] = @ \o m.data]
    /\ index' = index + Len(m.data)
    /\ amount' = IF newSize - index' < BlockSize THEN newSize - index' ELSE amount
    /\ report' = "DOWNLOAD_PROGRESS"
    /\ rx' = Append(Tail(rx), ServedBlock(index', amount'))
    /\ UNCHANGED <<state, newSize, paused, boot, wsStopReq>>

\* REQUIRE_VERIFY_BIT_CMD, SIZE_MAX in the code: no index, a request for the digest.
RequireVerifyBitCmd == -1

\* Written, and complete: the digest is finished and asked for.
RxLastBlock(m) ==
    /\ Receiving
    /\ state = "WAIT_DATA"
    /\ RequiredBlock(m)
    /\ index + Len(m.data) = newSize
    /\ md5' = md5 \o m.data
    /\ content' = [content EXCEPT ![UpdatePartition] = @ \o m.data]
    /\ index' = RequireVerifyBitCmd
    /\ amount' = RequireVerifyBitCmd
    /\ report' = "DOWNLOAD_PROGRESS"
    /\ state' = "WAIT_VERIFY_BITS"
    /\ rx' = Append(Tail(rx), VerifyBits(served))
    /\ UNCHANGED <<newSize, paused, boot, wsStopReq>>

\* Slip: any answer to the request for the digest will do.
VerifiedByAnswer(m) == m.kind = "bits"

\* _verifyData: MD5 keeps images apart, and other bytes match no digest.
Verified(m) == /\ m.kind = "bits"
               /\ md5 = Image(m.ver)

\* WAIT_VERIFY_BITS: no match.  The update is reported ended; the state stays.
RxVerifyFailed(m) ==
    /\ Receiving
    /\ state = "WAIT_VERIFY_BITS"
    /\ ~Verified(m)
    /\ Fail("MD5_CHECK_FAILED")
    /\ rx' = Tail(rx)
    /\ UNCHANGED <<state, index, amount, newSize, md5, flashVars>>

\* Match: _onRxDataComplete.  ota_end and the switch of the boot partition can
\* each fail, and the switch is tried whatever ota_end returned.
RxComplete(m, ended, switched) ==
    /\ Receiving
    /\ state = "WAIT_VERIFY_BITS"
    /\ Verified(m)
    /\ boot' = IF switched THEN UpdatePartition ELSE boot
    /\ state' = "IDLE"
    /\ wsStopReq' = TRUE
    /\ report' = CASE ~switched           -> "OTA_SET_BOOT_PATITION_FAILED"
                   [] switched /\ ~ended  -> "OTA_END_FAILED"
                   [] switched /\ ended   -> "UPDATE_OK"
    /\ paused' = IF ended /\ switched THEN paused ELSE FALSE
    /\ rx' = Tail(rx)
    /\ UNCHANGED <<index, amount, newSize, md5, content>>

\* IDLE: the message goes to the command interpreter.  What it may be read as
\* there is an action of the commander "ws".
RxIdle(m) ==
    /\ Receiving
    /\ state = "IDLE"
    /\ rx' = Tail(rx)
    /\ UNCHANGED <<ramVars, flashVars, wsStopReq>>

UpdateLoop(m) ==
    \/ RxAlreadyLatest(m) \/ RxNewVersion(m) \/ RxBeginFailed(m)
    \/ RxMismatched(m) \/ RxTooLarge(m) \/ RxWriteFailed(m)
    \/ RxBlock(m) \/ RxLastBlock(m) \/ RxVerifyFailed(m)
    \/ \E ended, switched \in BOOLEAN : RxComplete(m, ended, switched)
    \/ RxIdle(m)

Receive == rx # <<>> /\ UpdateLoop(Head(rx))

-----------------------------------------------------------------------------
(* Around the updater.                                                     *)

\* One message in two DATA events (a short read of the socket): onRxData hands
\* each part to the interpreter as a message of its own.
Fragment ==
    /\ rx # <<>>
    /\ Head(rx).kind = "block"
    /\ Len(rx) < MaxRx
    /\ \E n \in 1 .. Len(Head(rx).data) - 1 :
          rx' = <<Block(Head(rx).index, SubSeq(Head(rx).data, 1, n)),
                  Remainder(Len(Head(rx).data) - n)>> \o Tail(rx)
    /\ UNCHANGED <<ramVars, flashVars, running, pc, started, linked, wsStopReq, served>>

LinkUp == /\ started /\ ~linked
          /\ linked' = TRUE
          /\ UNCHANGED <<ramVars, flashVars, running, pc, started, rx, wsStopReq, served>>

\* Slip: the loss of the connection is noticed by the client object only.
LinkDownUnnoticed ==
    /\ started
    /\ started' = FALSE /\ rx' = <<>>
    /\ UNCHANGED <<ramVars, flashVars, running, pc, linked, wsStopReq, served>>

\* The connection is lost or cannot be made: http_task sets the client up anew,
\* and nothing of the updater hears of it.
LinkDown == /\ started
            /\ started' = FALSE /\ linked' = FALSE /\ rx' = <<>>
            /\ UNCHANGED <<ramVars, flashVars, running, pc, wsStopReq, served>>

\* daemon_task: _hasWebsocketClientStopRequest.
StopWebsocketClient ==
    /\ wsStopReq
    /\ wsStopReq' = FALSE
    /\ started' = FALSE /\ linked' = FALSE /\ rx' = <<>>
    /\ UNCHANGED <<ramVars, flashVars, running, pc, served>>

\* System::restoreFactory, a command like any other.
RestoreFactory(t) ==
    /\ pc[t] = "idle"
    /\ t = "ws" => linked /\ state = "IDLE"
    /\ boot' = "factory"
    /\ UNCHANGED <<ramVars, content, running, pc, linkVars, wsStopReq, served>>

\* A restart by the daemon, a crash or a power cut: only flash survives.
Reboot == /\ running' = boot
          /\ state' = "IDLE" /\ index' = 0 /\ amount' = 0 /\ newSize' = 0
          /\ md5' = <<>> /\ report' = "NONE" /\ paused' = FALSE
          /\ pc' = [t \in Commanders |-> "idle"]
          /\ started' = FALSE /\ linked' = FALSE /\ rx' = <<>>
          /\ wsStopReq' = FALSE
          /\ UNCHANGED <<flashVars, served>>

Command(t) == \/ InitAndCheck(t) \/ AwaitVersion(t)
              \/ SendUpdateCmd(t) \/ SendUpdateCmdFailed(t)

Next == \/ \E t \in Commanders : UpdateFirmware(t) \/ Command(t) \/ RestoreFactory(t)
        \/ Receive
        \/ Fragment \/ LinkUp \/ LinkDown \/ StopWebsocketClient \/ Reboot

Spec == Init /\ [][Next]_vars

\* The tasks run: a command started goes on, a message there is handled, the
\* daemon serves its requests.  The link and the service promise nothing more.
Fairness == /\ WF_vars(Receive)
            /\ WF_vars(StopWebsocketClient)
            /\ \A t \in Commanders : WF_vars(Command(t))

FairSpec == Spec /\ Fairness
-----------------------------------------------------------------------------
(* Properties.                                                             *)

Codes == {"NONE", "UPDATE_OK", "ALREADY_LATEST", "OTA_RUNNING_PARTITION_NOT_BOOT",
          "OTA_SET_BOOT_PATITION_FAILED", "OTA_BEGIN_FAILED", "OTA_END_FAILED",
          "OTA_WRITE_FAILED", "RXDATA_MISMATCHED_WITH_REQUIRED",
          "RXDATA_SIZE_LARGER_THAN_EXPECTED", "MD5_CHECK_FAILED", "DOWNLOAD_PROGRESS"}

Messages == [kind : {"version", "block", "bits", "remainder"}, ver : Versions,
             index : Int, data : Seq(Units)]

TypeOK == /\ state \in {"IDLE", "WAIT_VERSION_INFO", "WAIT_DATA", "WAIT_VERIFY_BITS"}
          /\ index \in Int /\ amount \in Int /\ newSize \in Nat
          /\ md5 \in Seq(Units)
          /\ report \in Codes
          /\ paused \in BOOLEAN
          /\ content \in [Partitions -> Seq(Units)]
          /\ boot \in Partitions /\ running \in Partitions
          /\ pc \in [Commanders -> {"idle", "starting", "checked", "sending"}]
          /\ started \in BOOLEAN /\ linked \in BOOLEAN
          /\ rx \in Seq(Messages)
          /\ linked => started
          /\ rx # <<>> => linked
          /\ wsStopReq \in BOOLEAN
          /\ served \in Versions

\* At every instant, and so after a crash or a power cut at any instant, the
\* boot partition and the running one hold a complete image of one version:
\* whatever the service, the network and the flash do, the device can start.
AlwaysBootable == IsImage(content[boot]) /\ IsImage(content[running])

\* The digest in progress is the digest of what is in flash, and the write index
\* is its length: a block that is dropped, cut in two or answered late is
\* neither digested without being written nor counted twice.
DigestFollowsFlash ==
    /\ state \in {"WAIT_DATA", "WAIT_VERIFY_BITS"} => md5 = content[UpdatePartition]
    /\ state = "WAIT_DATA" => index = Len(md5) /\ index <= newSize
    /\ state = "WAIT_VERIFY_BITS" => Len(md5) = newSize

\* The updater keeps the contract: it fills a partition that is neither booted
\* nor running, and selects for boot only a complete image (or the factory one).
Contract == INSTANCE FlashContract WITH Images <- {Image(v) : v \in Versions}

KeepsFlashContract == Contract!Spec

\* An update that is on and stays connected comes to an end, with fragments,
\* late and misread messages, or reports a wrong digest.
EveryUpdateEnds ==
    state # "IDLE" ~> \/ state = "IDLE"
                      \/ ~linked
                      \/ report = "MD5_CHECK_FAILED"
=============================================================================
