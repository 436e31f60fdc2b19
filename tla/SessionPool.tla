----------------------------- MODULE SessionPool -----------------------------
(***************************************************************************)
(* SocketSessionPool (components/MessageProtocol/SocketSessionPool.cpp):   *)
(* the descriptors of the WebSocket clients that finished their handshake, *)
(* kept in a map from descriptor to slot.  Slot numbers come from a stack  *)
(* of free slots, an array with a top index that moves up on a pop and     *)
(* down on a push: the free slots are the entries at top and above.        *)
(***************************************************************************)
EXTENDS Integers, FiniteSets

CONSTANTS Capacity,   \* SESSION_POOL_CAPACITY
          Fds         \* socket descriptors lwIP can hand out

ASSUME CapacityAssumption == Capacity \in Nat \ {0}

VARIABLES freeSlotStack,   \* _freeSlotStack
          stackTopIndex,   \* _stackTopIndex
          fdMap            \* _fdMap, a function from the live descriptors to slots

poolVars == <<freeSlotStack, stackTopIndex, fdMap>>

Slots == 0 .. Capacity - 1

TypeOK == /\ freeSlotStack \in [Slots -> Slots]
          /\ stackTopIndex \in Slots
          /\ DOMAIN fdMap \subseteq Fds
          /\ fdMap \in [DOMAIN fdMap -> Slots]

-----------------------------------------------------------------------------
(* The free-slot stack.                                                    *)

InitFreeSlotStack == /\ freeSlotStack' = [i \in Slots |-> i]
                     /\ stackTopIndex' = 0

\* Slip: the last slot is given out as well, and the index leaves the stack.
HasFreeSlotToTheLast == stackTopIndex < Capacity

HasFreeSlot == stackTopIndex < Capacity - 1

\* _popFreeSlot where _hasFreeSlot holds: the only place it is called.  The index
\* it and _pushFreeSlot go by is the one they loaded, top.
PopFreeSlot(top) == /\ stackTopIndex' = top + 1
                    /\ UNCHANGED freeSlotStack

\* A slot pushed on a full stack is dropped without a word.
PushFreeSlot(top, slot) ==
    IF top > 0
    THEN /\ freeSlotStack' = [freeSlotStack EXCEPT ![top - 1] = slot]
         /\ stackTopIndex' = top - 1
    ELSE UNCHANGED <<freeSlotStack, stackTopIndex>>

-----------------------------------------------------------------------------
(* The map.                                                                *)

\* _fdMap[socketFd] = slot
SetSlot(fd, slot) ==
    fdMap' = [x \in DOMAIN fdMap \cup {fd} |-> IF x = fd THEN slot ELSE fdMap[x]]

EraseFd(fd) == fdMap' = [x \in DOMAIN fdMap \ {fd} |-> fdMap[x]]

ClearMap == fdMap' = [fd \in {} |-> 0]

-----------------------------------------------------------------------------
(* The interface, as one task calls it.                                    *)

Init == /\ freeSlotStack = [i \in Slots |-> i]
        /\ stackTopIndex = 0
        /\ fdMap = [fd \in {} |-> 0]

AddSession(fd) ==
    /\ fd \notin DOMAIN fdMap
    /\ HasFreeSlot
    /\ SetSlot(fd, freeSlotStack[stackTopIndex])
    /\ PopFreeSlot(stackTopIndex)

\* addSession returns false: the descriptor is known, or no slot is left.
RefuseSession(fd) ==
    /\ fd \in DOMAIN fdMap \/ ~HasFreeSlot
    /\ UNCHANGED poolVars

DrainSession(fd) ==
    IF fd \in DOMAIN fdMap
    THEN /\ PushFreeSlot(stackTopIndex, fdMap[fd])
         /\ EraseFd(fd)
    ELSE UNCHANGED poolVars

\* Slip: the map is emptied and the stack keeps its index.
CleanMapOnly == /\ ClearMap
                /\ UNCHANGED <<freeSlotStack, stackTopIndex>>

Clean == /\ ClearMap
         /\ InitFreeSlotStack

SessionCount == Cardinality(DOMAIN fdMap)

Next == \/ \E fd \in Fds : AddSession(fd) \/ RefuseSession(fd) \/ DrainSession(fd)
        \/ Clean

Spec == Init /\ [][Next]_poolVars

-----------------------------------------------------------------------------
FreeSlots == {freeSlotStack[i] : i \in stackTopIndex .. Capacity - 1}
UsedSlots == {fdMap[fd] : fd \in DOMAIN fdMap}

\* No two live sessions share a slot, however often descriptors come, go and
\* come back (addSession and drainSession keep two structures in step).
SlotsNotShared ==
    \A a, b \in DOMAIN fdMap : fdMap[a] = fdMap[b] => a = b

\* No slot is lost and none is both free and in use: the stack's index counts
\* the live sessions, so the guard of _pushFreeSlot never drops a slot and
\* the pool's room does not shrink over a long run.
SlotsAccountedFor ==
    /\ FreeSlots \cup UsedSlots = Slots
    /\ FreeSlots \cap UsedSlots = {}
    /\ stackTopIndex = SessionCount

\* Called by one task, the pool keeps the promise of SessionSet.  The stack gives
\* out one slot fewer than it has, so the limit is Capacity - 1.
BoundedSet == INSTANCE SessionSet WITH live <- DOMAIN fdMap, bounded <- TRUE,
                                       Limit <- Capacity - 1

ImplementsSessionSet == BoundedSet!Spec
=============================================================================
