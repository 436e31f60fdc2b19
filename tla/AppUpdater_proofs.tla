--------------------------- MODULE AppUpdater_proofs ---------------------------
(***************************************************************************)
(* Theorems about AppUpdater for every number of versions, every image     *)
(* size, every block size and every bound on the messages under way.       *)
(***************************************************************************)
EXTENDS AppUpdater, SequenceTheorems, TLAPS

\* The types, and what the digest and the write index say of the flash: a block
\* can be appended with its type only because the index is a length.
DataInv == TypeOK /\ DigestFollowsFlash

-----------------------------------------------------------------------------
(* What the operators return.                                              *)

LEMMA ImageType ==
  ASSUME NEW v \in Versions
  PROVE  /\ Image(v) \in Seq(Units)
         /\ Len(Image(v)) = Size[v]
         /\ Size[v] \in Nat \ {0}
         /\ \A i \in 1 .. Size[v] : Image(v)[i] = <<v, i>>
<1>1. Size[v] \in Nat \ {0} BY UpdaterAssumption
<1>2. Image(v) \in [1 .. Size[v] -> Units]
  BY <1>1 DEF Image, Units
<1>3. Image(v) \in Seq(Units) BY <1>1, <1>2, SeqDef
<1>4. Len(Image(v)) = Size[v] BY <1>1, <1>2, <1>3, LenProperties
<1> QED BY <1>1, <1>3, <1>4 DEF Image

LEMMA GarbageType == Garbage \in Units
BY UpdaterAssumption DEF Garbage, Units, Versions

LEMMA VersionInfoType ==
  ASSUME NEW v \in Versions PROVE VersionInfo(v) \in Messages
<1>1. <<Garbage>> \in Seq(Units) BY GarbageType
<1> QED BY <1>1 DEF VersionInfo, Message, Messages

LEMMA VerifyBitsType ==
  ASSUME NEW v \in Versions PROVE VerifyBits(v) \in Messages
<1>1. <<Garbage>> \in Seq(Units) BY GarbageType
<1> QED BY <1>1 DEF VerifyBits, Message, Messages

LEMMA ZeroIsVersion == 0 \in Versions
BY UpdaterAssumption DEF Versions

LEMMA BlockType ==
  ASSUME NEW i \in Int, NEW d \in Seq(Units) PROVE Block(i, d) \in Messages
BY ZeroIsVersion DEF Block, Message, Messages

LEMMA RemainderType ==
  ASSUME NEW n \in Nat PROVE Remainder(n) \in Messages
<1>1. [k \in 1 .. n |-> Garbage] \in Seq(Units) BY GarbageType, SeqDef
<1> QED BY <1>1, ZeroIsVersion DEF Remainder, Message, Messages

LEMMA ServedBlockType ==
  ASSUME served \in Versions, NEW i \in Nat, NEW a \in Int
  PROVE  ServedBlock(i, a) \in Messages
<1> DEFINE last == IF i + a < Size[served] THEN i + a ELSE Size[served]
<1>1. Size[served] \in Nat \ {0} /\ \A k \in 1 .. Size[served] : Image(served)[k] \in Units
  <2>1. /\ Size[served] \in Nat \ {0}
        /\ \A k \in 1 .. Size[served] : Image(served)[k] = <<served, k>>
    BY ImageType
  <2>2. \A k \in 1 .. Size[served] : <<served, k>> \in Units
    BY <2>1 DEF Units
  <2> QED BY <2>1, <2>2
<1>2. last \in Int /\ last <= Size[served] BY <1>1
<1> HIDE DEF last
<1>3. SubSeq(Image(served), i + 1, last) \in Seq(Units)
  <2>1. \A k \in i + 1 .. last : Image(served)[k] \in Units BY <1>1, <1>2
  <2> QED BY <1>2, <2>1, SubSeqProperties
<1> DEFINE d == SubSeq(Image(served), i + 1, last)
<1>4. Block(i, d) \in Messages
  <2> HIDE DEF d
  <2>1. d \in Seq(Units) BY <1>3 DEF d
  <2>2. i \in Int OBVIOUS
  <2> QED BY <2>1, <2>2, BlockType
<1> QED BY <1>4 DEF ServedBlock, last

LEMMA AnnouncementType ==
  ASSUME NEW m \in Messages, NEW a \in AnnouncementRead(m)
  PROVE  a[2] \in Nat
<1>1. \A v \in Versions : Size[v] \in Nat BY UpdaterAssumption
<1>2. m.ver \in Versions BY DEF Messages
<1> QED BY <1>1, <1>2 DEF AnnouncementRead

LEMMA PartitionType == UpdatePartition \in Partitions \ {"factory"}
BY DEF UpdatePartition, NextUpdatePartition, Partitions

-----------------------------------------------------------------------------
(* The command.                                                            *)

LEMMA CommandKeepsData ==
  ASSUME DataInv, NEW t \in Commanders,
         UpdateFirmware(t) \/ Command(t) \/ RestoreFactory(t)
  PROVE  DataInv'
<1> USE DEF DataInv, vars, ramVars, flashVars, linkVars
<1>1. CASE UpdateFirmware(t)
  BY <1>1 DEF UpdateFirmware, TypeOK, DigestFollowsFlash, UpdatePartition
<1>2. CASE InitAndCheck(t)
  BY <1>2 DEF InitAndCheck, TypeOK, DigestFollowsFlash, UpdatePartition, Codes
<1>3. CASE AwaitVersion(t)
  BY <1>3 DEF AwaitVersion, TypeOK, DigestFollowsFlash, UpdatePartition
<1>4. CASE SendUpdateCmd(t)
  <2>1. \A v \in Versions : Append(rx, VersionInfo(v)) \in Seq(Messages)
    BY VersionInfoType DEF TypeOK
  <2>2. rx' \in Seq(Messages) /\ served' \in Versions BY <1>4, <2>1 DEF SendUpdateCmd
  <2> QED BY <1>4, <2>2 DEF SendUpdateCmd, TypeOK, DigestFollowsFlash, UpdatePartition
<1>5. CASE SendUpdateCmdFailed(t)
  BY <1>5 DEF SendUpdateCmdFailed, TypeOK, DigestFollowsFlash, UpdatePartition
<1>6. CASE RestoreFactory(t)
  BY <1>6 DEF RestoreFactory, TypeOK, DigestFollowsFlash, UpdatePartition, Partitions
<1> QED BY <1>1, <1>2, <1>3, <1>4, <1>5, <1>6 DEF Command

-----------------------------------------------------------------------------
(* The messages of the service.                                            *)

\* What a block writes and what it digests stay equal.
LEMMA WritingKeepsData ==
  ASSUME DataInv, state = "WAIT_DATA", NEW d \in Seq(Units)
  PROVE  /\ md5 \o d \in Seq(Units)
         /\ Len(md5 \o d) = index + Len(d)
         /\ [content EXCEPT ![UpdatePartition] = @ \o d] \in [Partitions -> Seq(Units)]
         /\ [content EXCEPT ![UpdatePartition] = @ \o d][UpdatePartition] = md5 \o d
<1>1. md5 \in Seq(Units) /\ content \in [Partitions -> Seq(Units)]
  BY DEF DataInv, TypeOK
<1>2. md5 = content[UpdatePartition] /\ index = Len(md5)
  BY DEF DataInv, DigestFollowsFlash
<1>3. md5 \o d \in Seq(Units) /\ Len(md5 \o d) = Len(md5) + Len(d)
  BY <1>1, ConcatProperties
<1> QED BY <1>1, <1>2, <1>3, PartitionType

LEMMA RxTypes ==
  ASSUME DataInv, rx # <<>>
  PROVE  /\ Head(rx) \in Messages
         /\ Tail(rx) \in Seq(Messages)
         /\ \A e \in Messages : Append(Tail(rx), e) \in Seq(Messages)
         /\ linked /\ started
         /\ Head(rx).data \in Seq(Units) /\ Len(Head(rx).data) \in Nat
         /\ Head(rx).ver \in Versions
<1>1. rx \in Seq(Messages) /\ linked /\ started BY DEF DataInv, TypeOK
<1>2. Head(rx) \in Messages /\ Tail(rx) \in Seq(Messages)
  BY <1>1, HeadTailProperties
<1>3. \A e \in Messages : Append(Tail(rx), e) \in Seq(Messages)
  BY <1>2, AppendProperties
<1>4. Head(rx).data \in Seq(Units) /\ Head(rx).ver \in Versions
  BY <1>2 DEF Messages
<1>5. Len(Head(rx).data) \in Nat BY <1>4, LenProperties
<1> QED BY <1>1, <1>2, <1>3, <1>4, <1>5

LEMMA ReceiveKeepsData ==
  ASSUME DataInv, Receive PROVE DataInv'
<1> DEFINE m == Head(rx)
<1>1. /\ rx # <<>> /\ m \in Messages /\ Tail(rx) \in Seq(Messages)
      /\ \A e \in Messages : Append(Tail(rx), e) \in Seq(Messages)
      /\ linked /\ started
      /\ m.data \in Seq(Units) /\ Len(m.data) \in Nat
      /\ m.ver \in Versions
  BY RxTypes DEF Receive
<1>2. UpdateLoop(m) BY DEF Receive
<1> HIDE DEF m
<1>3. BlockSize \in Nat BY UpdaterAssumption
<1> USE DEF flashVars, ramVars, Receiving
<1>4. CASE RxAlreadyLatest(m)
  BY <1>1, <1>4 DEF RxAlreadyLatest, Fail, DataInv, TypeOK, DigestFollowsFlash, Codes
<1>5. CASE RxNewVersion(m)
  <2>1. newSize' \in Nat BY <1>1, <1>5, AnnouncementType DEF RxNewVersion
  <2>2. ServedBlock(0, BlockSize) \in Messages
    BY <1>3, ServedBlockType DEF DataInv, TypeOK
  <2>3. rx' \in Seq(Messages) BY <1>1, <1>5, <2>2 DEF RxNewVersion
  <2>4. /\ content' \in [Partitions -> Seq(Units)]
        /\ content'[UpdatePartition] = <<>>
        /\ UpdatePartition' = UpdatePartition
    BY <1>5, PartitionType, EmptySeq DEF RxNewVersion, DataInv, TypeOK, UpdatePartition
  <2>5. TypeOK'
    BY <1>1, <1>3, <1>5, <2>1, <2>3, <2>4 DEF RxNewVersion, DataInv, TypeOK
  <2>6. DigestFollowsFlash'
    BY <1>5, <2>1, <2>4 DEF RxNewVersion, DigestFollowsFlash
  <2> QED BY <2>5, <2>6 DEF DataInv
<1>6. CASE RxBeginFailed(m)
  <2>1. newSize' \in Nat BY <1>1, <1>6, AnnouncementType DEF RxBeginFailed
  <2>2. PICK c \in {content[UpdatePartition], <<>>} :
          content' = [content EXCEPT ![UpdatePartition] = c]
    BY <1>6 DEF RxBeginFailed
  <2>3. c \in Seq(Units)
    BY PartitionType, EmptySeq DEF DataInv, TypeOK
  <2>4. content' \in [Partitions -> Seq(Units)]
    BY <2>2, <2>3 DEF DataInv, TypeOK
  <2> QED BY <1>1, <1>6, <2>1, <2>4
          DEF RxBeginFailed, Fail, DataInv, TypeOK, DigestFollowsFlash, Codes
<1>7. CASE RxMismatched(m)
  BY <1>1, <1>7
  DEF RxMismatched, DataInv, TypeOK, DigestFollowsFlash, Codes, UpdatePartition
<1>8. CASE RxTooLarge(m)
  BY <1>1, <1>8 DEF RxTooLarge, Fail, DataInv, TypeOK, DigestFollowsFlash, Codes
<1>9. CASE RxWriteFailed(m)
  <2>1. \A n \in 0 .. Len(m.data) : SubSeq(m.data, 1, n) \in Seq(Units)
    <3>1. \A n \in 0 .. Len(m.data) : \A k \in 1 .. n : m.data[k] \in Units
      BY <1>1, ElementOfSeq
    <3> QED BY <1>1, <3>1, SubSeqProperties
  <2>2. state = "WAIT_DATA" BY <1>9 DEF RxWriteFailed
  <2>3. content' \in [Partitions -> Seq(Units)] /\ md5' \in Seq(Units)
    BY <1>1, <1>9, <2>1, <2>2, WritingKeepsData DEF RxWriteFailed
  <2> QED BY <1>1, <1>9, <2>3
          DEF RxWriteFailed, Fail, DataInv, TypeOK, DigestFollowsFlash, Codes
<1>10. CASE RxBlock(m)
  <2>1. /\ md5' \in Seq(Units) /\ Len(md5') = index'
        /\ content' \in [Partitions -> Seq(Units)]
        /\ content'[UpdatePartition] = md5'
    BY <1>1, <1>10, WritingKeepsData DEF RxBlock
  <2>2. index' \in Nat /\ index' <= newSize
    BY <1>10, <2>1, LenProperties DEF RxBlock, RequiredBlock
  <2>3. amount' \in Int BY <1>3, <1>10, <2>2 DEF RxBlock, DataInv, TypeOK
  <2>4. rx' \in Seq(Messages)
    <3>1. ServedBlock(index', amount') \in Messages
      BY <2>2, <2>3, ServedBlockType DEF DataInv, TypeOK
    <3> QED BY <1>1, <1>10, <3>1 DEF RxBlock
  <2>5. TypeOK'
    <3>1. /\ report' \in Codes
          /\ UNCHANGED <<state, newSize, paused, boot, wsStopReq, running, pc,
                         started, linked, served>>
      BY <1>10 DEF RxBlock, Codes
    <3> QED BY <1>1, <2>1, <2>2, <2>3, <2>4, <3>1 DEF DataInv, TypeOK
  <2>6. DigestFollowsFlash'
    BY <1>10, <2>1, <2>2 DEF RxBlock, DigestFollowsFlash, UpdatePartition
  <2> QED BY <2>5, <2>6 DEF DataInv
<1>11. CASE RxLastBlock(m)
  <2>1. /\ md5' \in Seq(Units) /\ Len(md5') = newSize'
        /\ content' \in [Partitions -> Seq(Units)]
        /\ content'[UpdatePartition] = md5'
    BY <1>1, <1>11, WritingKeepsData DEF RxLastBlock
  <2>2. rx' \in Seq(Messages)
    <3>1. VerifyBits(served) \in Messages BY VerifyBitsType DEF DataInv, TypeOK
    <3> QED BY <1>1, <1>11, <3>1 DEF RxLastBlock
  <2>3. TypeOK'
    BY <1>1, <1>11, <2>1, <2>2 DEF RxLastBlock, DataInv, TypeOK, Codes, RequireVerifyBitCmd
  <2>4. DigestFollowsFlash'
    BY <1>11, <2>1 DEF RxLastBlock, DigestFollowsFlash, UpdatePartition
  <2> QED BY <2>3, <2>4 DEF DataInv
<1>12. CASE RxVerifyFailed(m)
  BY <1>1, <1>12
  DEF RxVerifyFailed, Fail, DataInv, TypeOK, DigestFollowsFlash, Codes, UpdatePartition
<1>13. CASE \E ended, switched \in BOOLEAN : RxComplete(m, ended, switched)
  <2> PICK ended \in BOOLEAN, switched \in BOOLEAN : RxComplete(m, ended, switched)
    BY <1>13
  <2>1. boot' \in Partitions /\ report' \in Codes /\ paused' \in BOOLEAN
    BY PartitionType DEF RxComplete, DataInv, TypeOK, Codes
  <2> QED BY <1>1, <2>1 DEF RxComplete, DataInv, TypeOK, DigestFollowsFlash
<1>14. CASE RxIdle(m)
  BY <1>1, <1>14 DEF RxIdle, DataInv, TypeOK, DigestFollowsFlash
<1> QED
  BY <1>2, <1>4, <1>5, <1>6, <1>7, <1>8, <1>9, <1>10, <1>11, <1>12, <1>13, <1>14
  DEF UpdateLoop

-----------------------------------------------------------------------------
(* Around the updater.                                                     *)

LEMMA FragmentKeepsData ==
  ASSUME DataInv, Fragment PROVE DataInv'
<1> DEFINE m == Head(rx)
<1>1. /\ rx # <<>> /\ m \in Messages /\ Tail(rx) \in Seq(Messages)
      /\ linked /\ started /\ m.data \in Seq(Units) /\ Len(m.data) \in Nat
      /\ m.index \in Int
  BY RxTypes DEF Fragment, Messages
<1>2. PICK n \in 1 .. Len(m.data) - 1 :
        rx' = <<Block(m.index, SubSeq(m.data, 1, n)), Remainder(Len(m.data) - n)>> \o Tail(rx)
  BY DEF Fragment
<1>3. SubSeq(m.data, 1, n) \in Seq(Units)
  <2>1. \A k \in 1 .. n : m.data[k] \in Units BY <1>1, ElementOfSeq
  <2> QED BY <1>1, <2>1, SubSeqProperties
<1> DEFINE first == Block(m.index, SubSeq(m.data, 1, n))
           rest  == Remainder(Len(m.data) - n)
<1>4. first \in Messages BY <1>1, <1>3, BlockType
<1>5. rest \in Messages BY <1>1, RemainderType
<1> HIDE DEF m, first, rest
<1>6. <<first, rest>> \in Seq(Messages) BY <1>4, <1>5
<1>7. <<first, rest>> \o Tail(rx) \in Seq(Messages) BY <1>1, <1>6, ConcatProperties
<1>8. rx' \in Seq(Messages) BY <1>2, <1>7 DEF first, rest
<1>9. UNCHANGED <<ramVars, flashVars, running, pc, started, linked, wsStopReq, served>>
  BY DEF Fragment
<1> QED BY <1>1, <1>8, <1>9
        DEF DataInv, TypeOK, DigestFollowsFlash, UpdatePartition, ramVars, flashVars

LEMMA EnvironmentKeepsData ==
  ASSUME DataInv, LinkUp \/ LinkDown \/ StopWebsocketClient \/ Reboot
  PROVE  DataInv'
<1> USE DEF DataInv, TypeOK, DigestFollowsFlash, UpdatePartition, ramVars, flashVars
<1>0. <<>> \in Seq(Messages) /\ <<>> \in Seq(Units) BY EmptySeq
<1>1. CASE LinkUp BY <1>1 DEF LinkUp
<1>2. CASE LinkDown BY <1>0, <1>2 DEF LinkDown
<1>3. CASE StopWebsocketClient BY <1>0, <1>3 DEF StopWebsocketClient
<1>4. CASE Reboot
  <2>1. /\ index' \in Int /\ amount' \in Int /\ newSize' \in Nat
        /\ state' = "IDLE" /\ paused' = FALSE /\ wsStopReq' = FALSE
        /\ started' = FALSE /\ linked' = FALSE
    BY ONLY <1>4 DEF Reboot
  <2>2. md5' \in Seq(Units) /\ rx' \in Seq(Messages) /\ rx' = <<>>
    BY <1>0, <1>4 DEF Reboot
  <2>3. pc' \in [Commanders -> {"idle", "starting", "checked", "sending"}]
    BY <1>4 DEF Reboot
  <2>4. report' \in Codes BY <1>4 DEF Reboot, Codes
  <2>5. /\ content' \in [Partitions -> Seq(Units)] /\ boot' \in Partitions
        /\ running' \in Partitions /\ served' \in Versions
    BY <1>4 DEF Reboot
  <2> QED BY ONLY <2>1, <2>2, <2>3, <2>4, <2>5 DEF DataInv, TypeOK, DigestFollowsFlash
<1> QED BY <1>1, <1>2, <1>3, <1>4

LEMMA InitData == Init => DataInv
<1> SUFFICES ASSUME Init PROVE DataInv
  OBVIOUS
<1>1. Image(0) \in Seq(Units) BY ImageType, ZeroIsVersion
<1>2. content \in [Partitions -> Seq(Units)]
  BY <1>1, EmptySeq DEF Init
<1>3. <<>> \in Seq(Messages) /\ <<>> \in Seq(Units) BY EmptySeq
<1>4. index \in Int /\ amount \in Int /\ newSize \in Nat /\ report \in Codes
  BY DEF Init, Codes
<1>5. md5 \in Seq(Units) /\ rx \in Seq(Messages) /\ rx = <<>> BY <1>3 DEF Init
<1>6. pc \in [Commanders -> {"idle", "starting", "checked", "sending"}] BY DEF Init
<1>7. boot \in Partitions /\ running \in Partitions /\ served \in Versions
  BY ZeroIsVersion DEF Init, Partitions
<1>8. TypeOK BY <1>2, <1>4, <1>5, <1>6, <1>7 DEF Init, TypeOK
<1> QED BY <1>8 DEF Init, DataInv, DigestFollowsFlash

LEMMA NextKeepsData == DataInv /\ [Next]_vars => DataInv'
<1> SUFFICES ASSUME DataInv, [Next]_vars PROVE DataInv'
  OBVIOUS
<1>1. CASE UNCHANGED vars
  BY <1>1 DEF vars, ramVars, flashVars, linkVars, DataInv, TypeOK, DigestFollowsFlash,
              UpdatePartition
<1>2. CASE \E t \in Commanders : UpdateFirmware(t) \/ Command(t) \/ RestoreFactory(t)
  BY <1>2, CommandKeepsData
<1>3. CASE Receive BY <1>3, ReceiveKeepsData
<1>4. CASE Fragment BY <1>4, FragmentKeepsData
<1>5. CASE LinkUp \/ LinkDown \/ StopWebsocketClient \/ Reboot
  BY <1>5, EnvironmentKeepsData
<1> QED BY <1>1, <1>2, <1>3, <1>4, <1>5 DEF Next

\* Type correctness, for every number of tasks that execute commands.
THEOREM UpdaterTypeCorrect == Spec => []TypeOK
<1>1. DataInv => TypeOK BY DEF DataInv
<1> QED BY <1>1, InitData, NextKeepsData, PTL DEF Spec

\* For all images, block sizes and interleavings, two command tasks included: the
\* digest in progress is that of the bytes in flash and the index is their number.
THEOREM UpdaterDigestFollowsFlash == Spec => []DigestFollowsFlash
<1>1. DataInv => DigestFollowsFlash BY DEF DataInv
<1> QED BY <1>1, InitData, NextKeepsData, PTL DEF Spec

-----------------------------------------------------------------------------
(* The flash.  With one task that executes commands nothing is written to  *)
(* the partition that is booted next, so a reboot finds an image there.    *)

SingleCommander == \A t, u \in Commanders : t = u

\* While an update is on, or about to be switched on by a command that passed the
\* partition check, the partition it writes is not the one to boot.
TargetNotBooted ==
    /\ state # "IDLE" => boot # UpdatePartition
    /\ \A t \in Commanders : pc[t] = "checked" => boot # UpdatePartition

\* A command on its way to switch an update on finds none on: with a second task
\* it would not.
StartsFromIdle ==
    \A t \in Commanders : pc[t] \in {"starting", "checked"} => state = "IDLE"

FlashInv == /\ DataInv
            /\ content["factory"] = Image(0)
            /\ AlwaysBootable
            /\ TargetNotBooted
            /\ StartsFromIdle

LEMMA FactoryImage == IsImage(Image(0))
BY ZeroIsVersion DEF IsImage

LEMMA CommandKeepsFlash ==
  ASSUME SingleCommander, FlashInv, NEW t \in Commanders,
         UpdateFirmware(t) \/ Command(t) \/ RestoreFactory(t)
  PROVE  FlashInv'
<1> USE DEF FlashInv, vars, ramVars, flashVars, linkVars
<1>1. DataInv' BY CommandKeepsData
<1>2. \A u \in Commanders : u = t BY DEF SingleCommander
<1>3. pc \in [Commanders -> {"idle", "starting", "checked", "sending"}]
  BY DEF DataInv, TypeOK
<1> USE DEF AlwaysBootable, IsImage, TargetNotBooted, StartsFromIdle, UpdatePartition
<1>4. CASE UpdateFirmware(t) BY <1>1, <1>2, <1>3, <1>4 DEF UpdateFirmware
<1>5. CASE InitAndCheck(t)
  <2>1. running # UpdatePartition BY DEF NextUpdatePartition
  <2> QED BY <1>1, <1>2, <1>3, <1>5, <2>1 DEF InitAndCheck
<1>6. CASE AwaitVersion(t) BY <1>1, <1>2, <1>3, <1>6 DEF AwaitVersion
<1>7. CASE SendUpdateCmd(t) BY <1>1, <1>2, <1>3, <1>7 DEF SendUpdateCmd
<1>8. CASE SendUpdateCmdFailed(t) BY <1>1, <1>2, <1>3, <1>8 DEF SendUpdateCmdFailed
<1>9. CASE RestoreFactory(t)
  <2>1. boot' = "factory" /\ content' = content /\ state' = state /\ pc' = pc
        /\ running' = running
    BY <1>9 DEF RestoreFactory
  <2>2. AlwaysBootable' BY <2>1, FactoryImage
  <2>3. TargetNotBooted' BY <2>1 DEF NextUpdatePartition
  <2> QED BY <1>1, <2>1, <2>2, <2>3
<1> QED BY <1>4, <1>5, <1>6, <1>7, <1>8, <1>9 DEF Command

LEMMA ReceiveKeepsFlash ==
  ASSUME FlashInv, Receive PROVE FlashInv'
<1> DEFINE m == Head(rx)
<1>1. DataInv' BY ReceiveKeepsData DEF FlashInv
<1>2. UpdateLoop(m) BY DEF Receive
<1>3. m \in Messages BY RxTypes DEF Receive, FlashInv
<1> HIDE DEF m
<1>4. /\ content["factory"] = Image(0) /\ AlwaysBootable
      /\ content \in [Partitions -> Seq(Units)]
      /\ boot \in Partitions /\ running \in Partitions
      /\ running # UpdatePartition /\ UpdatePartition \in Partitions \ {"factory"}
      /\ state # "IDLE" => boot # UpdatePartition
  BY PartitionType
  DEF FlashInv, DataInv, TypeOK, TargetNotBooted, UpdatePartition, NextUpdatePartition
<1>5. ASSUME state # "IDLE", UNCHANGED <<boot, running, pc>>,
             \E c : content' = [content EXCEPT ![UpdatePartition] = c]
      PROVE  FlashInv'
  <2>1. content'["factory"] = Image(0) BY <1>4, <1>5
  <2>2. AlwaysBootable' BY <1>4, <1>5 DEF AlwaysBootable
  <2>3. TargetNotBooted' BY <1>4, <1>5 DEF TargetNotBooted, UpdatePartition
  <2>4. StartsFromIdle' BY <1>5 DEF FlashInv, StartsFromIdle
  <2> QED BY <1>1, <2>1, <2>2, <2>3, <2>4 DEF FlashInv
<1>6. ASSUME UNCHANGED <<boot, running, pc, content>>,
             state' \in {state, "IDLE"}
      PROVE  FlashInv'
  BY <1>1, <1>4, <1>6
  DEF FlashInv, AlwaysBootable, IsImage, TargetNotBooted, StartsFromIdle, UpdatePartition
<1> USE DEF Receiving, flashVars, ramVars
<1>7. CASE RxAlreadyLatest(m) BY <1>6, <1>7 DEF RxAlreadyLatest
<1>8. CASE RxNewVersion(m) BY <1>5, <1>8 DEF RxNewVersion
<1>9. CASE RxBeginFailed(m) BY <1>5, <1>9 DEF RxBeginFailed
<1>10. CASE RxMismatched(m) BY <1>6, <1>10 DEF RxMismatched
<1>11. CASE RxTooLarge(m) BY <1>6, <1>11 DEF RxTooLarge
<1>12. CASE RxWriteFailed(m) BY <1>5, <1>12 DEF RxWriteFailed
<1>13. CASE RxBlock(m) BY <1>5, <1>13 DEF RxBlock
<1>14. CASE RxLastBlock(m) BY <1>5, <1>14 DEF RxLastBlock
<1>15. CASE RxVerifyFailed(m) BY <1>6, <1>15 DEF RxVerifyFailed
<1>16. CASE \E ended, switched \in BOOLEAN : RxComplete(m, ended, switched)
  <2> PICK ended \in BOOLEAN, switched \in BOOLEAN : RxComplete(m, ended, switched)
    BY <1>16
  <2>1. /\ content' = content /\ running' = running /\ pc' = pc
        /\ state' = "IDLE" /\ state = "WAIT_VERIFY_BITS"
        /\ boot' \in {boot, UpdatePartition}
        /\ md5 = Image(m.ver)
    BY DEF RxComplete, Verified
  <2>2. IsImage(content[UpdatePartition])
    BY <1>3, <2>1 DEF FlashInv, DataInv, DigestFollowsFlash, IsImage, Messages
  <2>3. AlwaysBootable' BY <1>4, <2>1, <2>2 DEF AlwaysBootable
  <2>4. \A t \in Commanders : pc[t] \notin {"starting", "checked"}
    BY <2>1 DEF FlashInv, StartsFromIdle
  <2> QED BY <1>1, <1>4, <2>1, <2>3, <2>4 DEF FlashInv, TargetNotBooted, StartsFromIdle
<1>17. CASE RxIdle(m) BY <1>6, <1>17 DEF RxIdle
<1> QED
  BY <1>2, <1>7, <1>8, <1>9, <1>10, <1>11, <1>12, <1>13, <1>14, <1>15, <1>16, <1>17
  DEF UpdateLoop

LEMMA EnvironmentKeepsFlash ==
  ASSUME FlashInv, Fragment \/ LinkUp \/ LinkDown \/ StopWebsocketClient \/ Reboot
  PROVE  FlashInv'
<1>1. DataInv' BY FragmentKeepsData, EnvironmentKeepsData DEF FlashInv
<1> USE DEF FlashInv, AlwaysBootable, TargetNotBooted, StartsFromIdle, UpdatePartition,
            ramVars, flashVars
<1>2. CASE Fragment BY <1>1, <1>2 DEF Fragment, IsImage
<1>3. CASE LinkUp BY <1>1, <1>3 DEF LinkUp, IsImage
<1>4. CASE LinkDown BY <1>1, <1>4 DEF LinkDown, IsImage
<1>5. CASE StopWebsocketClient BY <1>1, <1>5 DEF StopWebsocketClient, IsImage
<1>6. CASE Reboot BY <1>1, <1>6 DEF Reboot, IsImage
<1> QED BY <1>2, <1>3, <1>4, <1>5, <1>6

LEMMA NextKeepsFlash ==
  ASSUME SingleCommander, FlashInv, [Next]_vars PROVE FlashInv'
<1>1. CASE UNCHANGED vars
  BY <1>1, NextKeepsData
  DEF vars, ramVars, flashVars, linkVars, FlashInv, AlwaysBootable, IsImage,
      TargetNotBooted, StartsFromIdle, UpdatePartition
<1>2. CASE \E t \in Commanders : UpdateFirmware(t) \/ Command(t) \/ RestoreFactory(t)
  BY <1>2, CommandKeepsFlash
<1>3. CASE Receive BY <1>3, ReceiveKeepsFlash
<1>4. CASE Fragment \/ LinkUp \/ LinkDown \/ StopWebsocketClient \/ Reboot
  BY <1>4, EnvironmentKeepsFlash
<1> QED BY <1>1, <1>2, <1>3, <1>4 DEF Next

LEMMA InitFlash == Init => FlashInv
<1> SUFFICES ASSUME Init PROVE FlashInv
  OBVIOUS
<1>1. content["factory"] = Image(0) BY DEF Init, Partitions
<1>2. AlwaysBootable BY <1>1, FactoryImage DEF Init, AlwaysBootable
<1> QED BY <1>1, <1>2, InitData DEF Init, FlashInv, TargetNotBooted, StartsFromIdle

\* With one command task: at every instant the boot partition and the running one
\* hold a complete image, for all images, sizes, failures and restarts.
THEOREM UpdaterAlwaysBootable ==
  ASSUME SingleCommander PROVE Spec => []AlwaysBootable
<1>1. FlashInv => AlwaysBootable BY DEF FlashInv
<1>2. FlashInv /\ [Next]_vars => FlashInv' BY NextKeepsFlash
<1> QED BY <1>1, <1>2, InitFlash, PTL DEF Spec

-----------------------------------------------------------------------------
(* Any number of tasks that execute commands.                              *)

\* What every reboot can fall back to.
FactoryKept == content["factory"] = Image(0)

\* The step that leaves something else than an image where the device starts is one of an
\* update that writes the partition another has selected.
BreaksOnlyTheSelected ==
    [][AlwaysBootable /\ ~AlwaysBootable' =>
         boot = UpdatePartition /\ state \in {"WAIT_VERSION_INFO", "WAIT_DATA"}]_vars

\* What a message does to the flash: it is left alone, the update partition is written, or it
\* is selected with an image in it.
LEMMA ReceiveWrites ==
  ASSUME DataInv, Receive
  PROVE  /\ running' = running
         /\ \/ UNCHANGED flashVars
            \/ /\ boot' = boot /\ state \in {"WAIT_VERSION_INFO", "WAIT_DATA"}
               /\ \E c : content' = [content EXCEPT ![UpdatePartition] = c]
            \/ /\ content' = content
               /\ boot' = UpdatePartition /\ IsImage(content[UpdatePartition])
<1> DEFINE m == Head(rx)
<1>1. UpdateLoop(m) BY DEF Receive
<1>2. m.ver \in Versions BY RxTypes DEF Receive
<1> HIDE DEF m
<1> USE DEF Receiving, flashVars, ramVars
<1>3. CASE RxAlreadyLatest(m) BY <1>3 DEF RxAlreadyLatest
<1>4. CASE RxNewVersion(m) BY <1>4 DEF RxNewVersion
<1>5. CASE RxBeginFailed(m) BY <1>5 DEF RxBeginFailed
<1>6. CASE RxMismatched(m) BY <1>6 DEF RxMismatched
<1>7. CASE RxTooLarge(m) BY <1>7 DEF RxTooLarge
<1>8. CASE RxWriteFailed(m) BY <1>8 DEF RxWriteFailed
<1>9. CASE RxBlock(m) BY <1>9 DEF RxBlock
<1>10. CASE RxLastBlock(m) BY <1>10 DEF RxLastBlock
<1>11. CASE RxVerifyFailed(m) BY <1>11 DEF RxVerifyFailed
<1>12. CASE \E ended, switched \in BOOLEAN : RxComplete(m, ended, switched)
  <2> PICK ended \in BOOLEAN, switched \in BOOLEAN : RxComplete(m, ended, switched)
    BY <1>12
  <2>1. /\ content' = content /\ running' = running /\ state = "WAIT_VERIFY_BITS"
        /\ boot' \in {boot, UpdatePartition} /\ md5 = Image(m.ver)
    BY DEF RxComplete, Verified
  <2>2. IsImage(content[UpdatePartition])
    BY <1>2, <2>1 DEF DataInv, DigestFollowsFlash, IsImage
  <2> QED BY <2>1, <2>2
<1>13. CASE RxIdle(m) BY <1>13 DEF RxIdle
<1> QED
  BY <1>1, <1>3, <1>4, <1>5, <1>6, <1>7, <1>8, <1>9, <1>10, <1>11, <1>12, <1>13
  DEF UpdateLoop

\* What any step does to the flash.
LEMMA NextWrites ==
  ASSUME DataInv, [Next]_vars
  PROVE  \/ UNCHANGED <<flashVars, running>>
         \/ Receive
         \/ content' = content /\ running' = running /\ boot' = "factory"
         \/ content' = content /\ running' = boot /\ boot' = boot
<1> USE DEF vars, ramVars, flashVars
<1>1. CASE UNCHANGED vars BY <1>1
<1>2. ASSUME NEW t \in Commanders, UpdateFirmware(t) \/ Command(t) PROVE UNCHANGED <<flashVars, running>>
  BY <1>2 DEF UpdateFirmware, Command, InitAndCheck, AwaitVersion, SendUpdateCmd,
              SendUpdateCmdFailed
<1>3. ASSUME NEW t \in Commanders, RestoreFactory(t)
      PROVE  content' = content /\ running' = running /\ boot' = "factory"
  BY <1>3 DEF RestoreFactory
<1>4. CASE Fragment BY <1>4 DEF Fragment
<1>5. CASE LinkUp \/ LinkDown \/ StopWebsocketClient
  BY <1>5 DEF LinkUp, LinkDown, StopWebsocketClient
<1>6. CASE Reboot BY <1>6 DEF Reboot
<1> QED BY <1>1, <1>2, <1>3, <1>4, <1>5, <1>6 DEF Next

\* For any number of tasks that execute commands, the factory image is never written: the
\* device can be restored to it whatever updates did to each other.
THEOREM UpdaterKeepsFactory == Spec => []FactoryKept
<1>1. Init => FactoryKept BY DEF Init, FactoryKept, Partitions
<1>2. DataInv /\ FactoryKept /\ [Next]_vars => FactoryKept'
  <2> SUFFICES ASSUME DataInv, FactoryKept, [Next]_vars PROVE FactoryKept'
    OBVIOUS
  <2>1. content \in [Partitions -> Seq(Units)] BY DEF DataInv, TypeOK
  <2>2. UpdatePartition \in Partitions \ {"factory"} BY PartitionType
  <2>3. content' = content \/ \E c : content' = [content EXCEPT ![UpdatePartition] = c]
    <3>1. CASE Receive BY <3>1, ReceiveWrites DEF flashVars
    <3> QED BY <3>1, NextWrites DEF flashVars
  <2>4. content'["factory"] = content["factory"] BY <2>1, <2>2, <2>3 DEF Partitions
  <2> QED BY <2>4 DEF FactoryKept
<1> QED BY <1>1, <1>2, InitData, NextKeepsData, PTL DEF Spec

\* For any number of tasks that execute commands: a partition the device starts from is damaged
\* by nothing but an update that writes what another update has selected in the same life.
THEOREM UpdaterBreaksOnlyTheSelected == Spec => BreaksOnlyTheSelected
<1>1. ASSUME DataInv, FactoryKept, [Next]_vars, AlwaysBootable, ~AlwaysBootable'
      PROVE  boot = UpdatePartition /\ state \in {"WAIT_VERSION_INFO", "WAIT_DATA"}
  <2>1. IsImage(content["factory"]) BY <1>1, FactoryImage DEF FactoryKept
  <2>2. content \in [Partitions -> Seq(Units)] /\ boot \in Partitions /\ running \in Partitions
    BY <1>1 DEF DataInv, TypeOK
  <2>3. running # UpdatePartition BY DEF UpdatePartition, NextUpdatePartition
  <2> USE DEF AlwaysBootable, flashVars
  <2>4. CASE UNCHANGED <<flashVars, running>> BY <1>1, <2>4 DEF IsImage
  <2>5. CASE content' = content /\ running' = running /\ boot' = "factory"
    BY <1>1, <2>1, <2>5 DEF IsImage
  <2>6. CASE content' = content /\ running' = boot /\ boot' = boot
    BY <1>1, <2>6 DEF IsImage
  <2>7. CASE Receive
    <3>1. CASE UNCHANGED flashVars BY <1>1, <2>7, <3>1, ReceiveWrites DEF IsImage
    <3>2. CASE /\ boot' = boot /\ state \in {"WAIT_VERSION_INFO", "WAIT_DATA"}
               /\ \E c : content' = [content EXCEPT ![UpdatePartition] = c]
      <4>1. boot # UpdatePartition => AlwaysBootable'
        BY <1>1, <2>2, <2>3, <2>7, <3>2, ReceiveWrites DEF IsImage
      <4> QED BY <1>1, <3>2, <4>1
    <3>3. CASE content' = content /\ boot' = UpdatePartition /\ IsImage(content[UpdatePartition])
      BY <1>1, <2>7, <3>3, ReceiveWrites DEF IsImage
    <3> QED BY <1>1, <2>7, <3>1, <3>2, <3>3, ReceiveWrites
  <2> QED BY <1>1, <2>4, <2>5, <2>6, <2>7, NextWrites
<1>2. DataInv /\ FactoryKept /\ [Next]_vars =>
        [AlwaysBootable /\ ~AlwaysBootable' =>
           boot = UpdatePartition /\ state \in {"WAIT_VERSION_INFO", "WAIT_DATA"}]_vars
  BY <1>1
<1> QED BY <1>2, InitData, NextKeepsData, UpdaterKeepsFactory, PTL DEF Spec, BreaksOnlyTheSelected

-----------------------------------------------------------------------------
(* Every step is a step of the flash contract, or leaves the flash alone.  *)

LEMMA ReceiveRefines ==
  ASSUME FlashInv, Receive
  PROVE  \/ Contract!Fill(UpdatePartition)
         \/ Contract!Select(UpdatePartition)
         \/ UNCHANGED <<content, boot, running>>
<1> DEFINE m == Head(rx)
<1>1. UpdateLoop(m) BY DEF Receive
<1>2. m \in Messages BY RxTypes DEF Receive, FlashInv
<1> HIDE DEF m
<1>3. /\ content \in [Partitions -> Seq(Units)]
      /\ UpdatePartition \in Partitions /\ running # UpdatePartition
      /\ state # "IDLE" => boot # UpdatePartition
  BY PartitionType
  DEF FlashInv, DataInv, TypeOK, TargetNotBooted, UpdatePartition, NextUpdatePartition
<1>4. ASSUME state # "IDLE", UNCHANGED <<boot, running>>,
             \E c : content' = [content EXCEPT ![UpdatePartition] = c]
      PROVE  Contract!Fill(UpdatePartition)
  BY <1>3, <1>4 DEF Contract!Fill
<1> USE DEF Receiving, flashVars, ramVars
<1>5. CASE RxAlreadyLatest(m) \/ RxMismatched(m) \/ RxTooLarge(m) \/ RxVerifyFailed(m)
           \/ RxIdle(m)
  BY <1>5 DEF RxAlreadyLatest, RxMismatched, RxTooLarge, RxVerifyFailed, RxIdle
<1>6. CASE RxNewVersion(m) BY <1>4, <1>6 DEF RxNewVersion
<1>7. CASE RxBeginFailed(m) BY <1>4, <1>7 DEF RxBeginFailed
<1>8. CASE RxWriteFailed(m) BY <1>4, <1>8 DEF RxWriteFailed
<1>9. CASE RxBlock(m) BY <1>4, <1>9 DEF RxBlock
<1>10. CASE RxLastBlock(m) BY <1>4, <1>10 DEF RxLastBlock
<1>11. CASE \E ended, switched \in BOOLEAN : RxComplete(m, ended, switched)
  <2> PICK ended \in BOOLEAN, switched \in BOOLEAN : RxComplete(m, ended, switched)
    BY <1>11
  <2>1. /\ content' = content /\ running' = running
        /\ boot' = boot \/ boot' = UpdatePartition
        /\ content[UpdatePartition] = Image(m.ver)
    BY DEF RxComplete, Verified, FlashInv, DataInv, DigestFollowsFlash
  <2>2. m.ver \in Versions BY <1>2 DEF Messages
  <2> QED BY <2>1, <2>2 DEF Contract!Select
<1> QED BY <1>1, <1>5, <1>6, <1>7, <1>8, <1>9, <1>10, <1>11 DEF UpdateLoop

LEMMA NextRefines ==
  ASSUME FlashInv, [Next]_vars
  PROVE  [Contract!Next]_(Contract!flash)
<1> USE DEF Contract!Next, Contract!flash
<1>1. CASE UNCHANGED vars BY <1>1 DEF vars, flashVars
<1>2. ASSUME NEW t \in Commanders, UpdateFirmware(t) \/ Command(t)
      PROVE  UNCHANGED Contract!flash
  BY <1>2
  DEF Command, UpdateFirmware, InitAndCheck, AwaitVersion, SendUpdateCmd,
      SendUpdateCmdFailed, flashVars, ramVars
<1>3. ASSUME NEW t \in Commanders, RestoreFactory(t)
      PROVE  Contract!Select("factory")
  BY <1>3, ZeroIsVersion DEF RestoreFactory, Contract!Select, FlashInv
<1>4. CASE Receive BY <1>4, ReceiveRefines, PartitionType
<1>5. CASE Fragment \/ LinkUp \/ LinkDown \/ StopWebsocketClient
  BY <1>5 DEF Fragment, LinkUp, LinkDown, StopWebsocketClient, flashVars
<1>6. CASE Reboot BY <1>6 DEF Reboot, Contract!Restart, flashVars
<1>7. "factory" \in Partitions BY DEF Partitions
<1> QED BY <1>1, <1>2, <1>3, <1>4, <1>5, <1>6, <1>7 DEF Next

\* With one command task the updater keeps the flash contract: it fills only a
\* partition that is neither booted nor running, and selects only complete images.
THEOREM UpdaterKeepsFlashContract ==
  ASSUME SingleCommander PROVE Spec => KeepsFlashContract
<1>1. Init => Contract!Init
  BY FactoryImage, ZeroIsVersion DEF Init, Contract!Init, Partitions
<1>2. FlashInv /\ [Next]_vars => FlashInv' BY NextKeepsFlash
<1>3. FlashInv /\ [Next]_vars => [Contract!Next]_(Contract!flash) BY NextRefines
<1> QED BY <1>1, <1>2, <1>3, InitFlash, PTL DEF Spec, KeepsFlashContract, Contract!Spec
=============================================================================
