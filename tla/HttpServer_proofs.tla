------------------------- MODULE HttpServer_proofs -------------------------
(***************************************************************************)
(* Theorems about SessionPool, for every capacity and every set of         *)
(* descriptors, and about HttpSessions on top of it, for every number of   *)
(* clients.  The pool's invariant of the runs is not inductive by itself:  *)
(* a pop removes one slot from the free ones only if the free part of the  *)
(* stack names no slot twice, and a push is never dropped only if the      *)
(* index counts the sessions: Order says that of any stack, index and map. *)
(* In the server the two structures are written in separate steps, so      *)
(* Order is kept of what they would be with the call under way undone or   *)
(* finished, and only until the clean() of start meets a call; that the    *)
(* index stays on the stack holds even then.  On top come an invariant     *)
(* that ties the pool to the sockets, and one for the walk of a broadcast. *)
(* The last part is about CmdEngine, whose queue of answers is the         *)
(* server's, for any number of messages and places in the queue.           *)
(***************************************************************************)
EXTENDS HttpSessions, CmdEngine, FiniteSetTheorems, WellFoundedInduction, TLAPS

-----------------------------------------------------------------------------
(* The pool.                                                               *)

FreeOf(stack, top) == {stack[i] : i \in top .. Capacity - 1}
UsedOf(map) == {map[fd] : fd \in DOMAIN map}

\* A stack, its index and a map that are in step: no slot is named twice in the free
\* part of the stack, and the index counts the sessions.
Order(stack, top, map) ==
    /\ stack \in [Slots -> Slots] /\ top \in Slots
    /\ DOMAIN map \subseteq Fds /\ map \in [DOMAIN map -> Slots]
    /\ \A i, j \in top .. Capacity - 1 : stack[i] = stack[j] => i = j
    /\ \A a, b \in DOMAIN map : map[a] = map[b] => a = b
    /\ FreeOf(stack, top) \cup UsedOf(map) = Slots
    /\ FreeOf(stack, top) \cap UsedOf(map) = {}
    /\ IsFiniteSet(DOMAIN map) /\ top = Cardinality(DOMAIN map)

WithSlot(map, fd, slot) ==
    [x \in DOMAIN map \cup {fd} |-> IF x = fd THEN slot ELSE map[x]]
WithoutFd(map, fd) == [x \in DOMAIN map \ {fd} |-> map[x]]

\* An emptied pool is in order: every slot is free, once.
LEMMA EmptyOrder == Order([i \in Slots |-> i], 0, [fd \in {} |-> 0])
<1> USE CapacityAssumption DEF Slots
<1> DEFINE stack == [i \in Slots |-> i]
           map   == [fd \in {} |-> 0]
<1>1. stack \in [Slots -> Slots] /\ 0 \in Slots OBVIOUS
<1>2. DOMAIN map = {} /\ map \in [DOMAIN map -> Slots] OBVIOUS
<1>3. \A i, j \in 0 .. Capacity - 1 : stack[i] = stack[j] => i = j OBVIOUS
<1>4. FreeOf(stack, 0) = Slots /\ UsedOf(map) = {} BY DEF FreeOf, UsedOf
<1>5. IsFiniteSet(DOMAIN map) /\ 0 = Cardinality(DOMAIN map) BY <1>2, FS_EmptySet
<1> QED BY <1>1, <1>2, <1>3, <1>4, <1>5 DEF Order

\* A pop hands out a slot nobody has, and leaves the others free.
LEMMA AddOrder ==
  ASSUME NEW stack, NEW top, NEW map, NEW fd \in Fds,
         Order(stack, top, map), fd \notin DOMAIN map, top < Capacity - 1
  PROVE  Order(stack, top + 1, WithSlot(map, fd, stack[top]))
<1> USE CapacityAssumption DEF Slots
<1> DEFINE slot == stack[top]
           after == WithSlot(map, fd, slot)
<1>1. /\ stack \in [Slots -> Slots] /\ top \in Nat /\ top \in Slots /\ top + 1 \in Slots
      /\ Capacity \in Nat
  BY DEF Order
<1>2. slot \in Slots /\ slot \in FreeOf(stack, top) BY <1>1 DEF FreeOf
<1>3. /\ DOMAIN after = DOMAIN map \cup {fd}
      /\ after[fd] = slot
      /\ \A x \in DOMAIN map : after[x] = map[x]
  BY DEF WithSlot
<1>4. DOMAIN after \subseteq Fds /\ after \in [DOMAIN after -> Slots]
  BY <1>2, <1>3 DEF WithSlot, Order
<1>5. \A i, j \in top + 1 .. Capacity - 1 : stack[i] = stack[j] => i = j
  BY <1>1 DEF Order
<1>6. FreeOf(stack, top + 1) = FreeOf(stack, top) \ {slot} BY <1>1 DEF Order, FreeOf
<1>7. UsedOf(after) = UsedOf(map) \cup {slot} BY <1>3 DEF UsedOf
<1>8. \A a, b \in DOMAIN after : after[a] = after[b] => a = b
  BY <1>2, <1>3 DEF Order, UsedOf
<1>9. IsFiniteSet(DOMAIN after) /\ top + 1 = Cardinality(DOMAIN after)
  <2>1. IsFiniteSet(DOMAIN map) /\ top = Cardinality(DOMAIN map) BY DEF Order
  <2> QED BY <1>3, <2>1, FS_AddElement
<1>10. /\ FreeOf(stack, top + 1) \cup UsedOf(after) = Slots
       /\ FreeOf(stack, top + 1) \cap UsedOf(after) = {}
  BY <1>2, <1>6, <1>7 DEF Order
<1> QED BY <1>1, <1>4, <1>5, <1>8, <1>9, <1>10 DEF Order

\* A drained descriptor gives its slot back: the push is never the dropped one.
LEMMA DrainOrder ==
  ASSUME NEW stack, NEW top, NEW map, NEW fd \in DOMAIN map, Order(stack, top, map)
  PROVE  /\ top > 0
         /\ Order([stack EXCEPT ![top - 1] = map[fd]], top - 1, WithoutFd(map, fd))
<1> USE CapacityAssumption DEF Slots
<1> DEFINE slot  == map[fd]
           under == top - 1
           pushed == [stack EXCEPT ![under] = slot]
           after == WithoutFd(map, fd)
<1>1. IsFiniteSet(DOMAIN map) /\ top = Cardinality(DOMAIN map) BY DEF Order
<1>2. top \in Nat /\ top > 0 BY <1>1, FS_EmptySet, FS_CardinalityType
<1>3. /\ stack \in [Slots -> Slots] /\ Capacity \in Nat
      /\ top \in Slots /\ under \in Slots
      /\ DOMAIN after = DOMAIN map \ {fd}
      /\ \A x \in DOMAIN after : after[x] = map[x]
  BY <1>2 DEF Order, WithoutFd
<1>4. slot \in Slots /\ slot \in UsedOf(map) /\ slot \notin FreeOf(stack, top)
  BY DEF Order, UsedOf
<1>5. /\ pushed[under] = slot
      /\ \A i \in top .. Capacity - 1 : pushed[i] = stack[i]
      /\ under .. Capacity - 1 = {under} \cup (top .. Capacity - 1)
  <2>1. pushed[under] = slot BY <1>3
  <2>2. \A i \in top .. Capacity - 1 : pushed[i] = stack[i] BY <1>2, <1>3
  <2>3. under .. Capacity - 1 = {under} \cup (top .. Capacity - 1) BY <1>2, <1>3
  <2> QED BY <2>1, <2>2, <2>3
<1>6. pushed \in [Slots -> Slots] BY <1>3, <1>4
<1> HIDE DEF pushed
<1>7. \A i, j \in under .. Capacity - 1 : pushed[i] = pushed[j] => i = j
  BY <1>3, <1>4, <1>5 DEF Order, FreeOf
<1>8. FreeOf(pushed, under) = FreeOf(stack, top) \cup {slot}
  <2>1. FreeOf(pushed, under) = {pushed[i] : i \in {under} \cup (top .. Capacity - 1)}
    BY <1>5 DEF FreeOf
  <2>2. FreeOf(pushed, under) = {slot} \cup {pushed[i] : i \in top .. Capacity - 1}
    BY <1>5, <2>1
  <2>3. {pushed[i] : i \in top .. Capacity - 1} = FreeOf(stack, top)
    BY <1>5 DEF FreeOf
  <2> QED BY <2>2, <2>3
<1>9. UsedOf(after) = UsedOf(map) \ {slot} BY <1>3 DEF Order, UsedOf
<1>10. \A a, b \in DOMAIN after : after[a] = after[b] => a = b BY <1>3 DEF Order
<1>11. IsFiniteSet(DOMAIN after) /\ under = Cardinality(DOMAIN after)
  BY <1>1, <1>3, FS_RemoveElement
<1>12. /\ FreeOf(pushed, under) \cup UsedOf(after) = Slots
       /\ FreeOf(pushed, under) \cap UsedOf(after) = {}
  BY <1>4, <1>8, <1>9 DEF Order
<1>13. DOMAIN after \subseteq Fds /\ after \in [DOMAIN after -> Slots]
  BY <1>3 DEF Order, WithoutFd
<1>14. Order(pushed, under, after)
  BY <1>3, <1>6, <1>7, <1>10, <1>11, <1>12, <1>13 DEF Order
<1> QED BY <1>2, <1>14 DEF pushed

IInv == Order(freeSlotStack, stackTopIndex, fdMap)

LEMMA InductiveInvariant == Spec => []IInv
<1> USE DEF IInv
<1>1. Init => IInv BY EmptyOrder DEF Init
<1>2. ASSUME IInv, [Next]_poolVars PROVE IInv'
  <2>1. CASE UNCHANGED poolVars BY <1>2, <2>1 DEF poolVars
  <2>2. CASE Clean BY <2>2, EmptyOrder DEF Clean, ClearMap, InitFreeSlotStack
  <2>3. ASSUME NEW fd \in Fds, AddSession(fd) PROVE IInv'
    <3>1. /\ fd \notin DOMAIN fdMap /\ stackTopIndex < Capacity - 1
          /\ freeSlotStack' = freeSlotStack /\ stackTopIndex' = stackTopIndex + 1
          /\ fdMap' = WithSlot(fdMap, fd, freeSlotStack[stackTopIndex])
      BY <2>3 DEF AddSession, HasFreeSlot, PopFreeSlot, SetSlot, WithSlot
    <3>2. Order(freeSlotStack, stackTopIndex + 1,
                WithSlot(fdMap, fd, freeSlotStack[stackTopIndex]))
      BY <1>2, <3>1, AddOrder
    <3> QED BY <3>1, <3>2
  <2>4. ASSUME NEW fd \in Fds, RefuseSession(fd) PROVE IInv'
    BY <1>2, <2>4 DEF RefuseSession, poolVars
  <2>5. ASSUME NEW fd \in Fds, DrainSession(fd) PROVE IInv'
    <3>1. CASE fd \in DOMAIN fdMap
      <4>1. /\ stackTopIndex > 0
            /\ Order([freeSlotStack EXCEPT ![stackTopIndex - 1] = fdMap[fd]],
                     stackTopIndex - 1, WithoutFd(fdMap, fd))
        BY <1>2, <3>1, DrainOrder
      <4>2. /\ freeSlotStack' = [freeSlotStack EXCEPT ![stackTopIndex - 1] = fdMap[fd]]
            /\ stackTopIndex' = stackTopIndex - 1
            /\ fdMap' = WithoutFd(fdMap, fd)
        BY <2>5, <3>1, <4>1 DEF DrainSession, PushFreeSlot, EraseFd, WithoutFd
      <4> QED BY <4>1, <4>2
    <3>2. CASE fd \notin DOMAIN fdMap
      BY <1>2, <2>5, <3>2 DEF DrainSession, poolVars
    <3> QED BY <3>1, <3>2
  <2> QED BY <1>2, <2>1, <2>2, <2>3, <2>4, <2>5 DEF Next
<1> QED BY <1>1, <1>2, PTL DEF Spec

\* The variables keep their types: the index stays within the stack, so neither
\* a pop nor a push reads or writes outside the array.
THEOREM PoolTypeCorrect == Spec => []TypeOK
<1>1. IInv => TypeOK BY DEF IInv, Order, TypeOK
<1> QED BY <1>1, InductiveInvariant, PTL

\* For every capacity: no two live sessions share a slot.
THEOREM PoolSlotsNotShared == Spec => []SlotsNotShared
<1>1. IInv => SlotsNotShared BY DEF IInv, Order, SlotsNotShared
<1> QED BY <1>1, InductiveInvariant, PTL

LEMMA OrderAccounts == IInv => SlotsAccountedFor
BY DEF IInv, Order, SlotsAccountedFor, FreeSlots, UsedSlots, FreeOf, UsedOf, SessionCount

\* For every capacity: no slot is lost, none is both free and in use, and the
\* index of the stack is the number of live sessions.
THEOREM PoolSlotsAccountedFor == Spec => []SlotsAccountedFor
BY OrderAccounts, InductiveInvariant, PTL

\* For every capacity the pool implements the bounded set, with room for one
\* session fewer than it has slots.
THEOREM PoolImplementsSessionSet == Spec => ImplementsSessionSet
<1>1. Init => BoundedSet!Init BY DEF Init, BoundedSet!Init
<1>2. ASSUME IInv, [Next]_poolVars PROVE [BoundedSet!Next]_<<DOMAIN fdMap, TRUE>>
  <2> USE DEF BoundedSet!Next
  <2>1. CASE UNCHANGED poolVars BY <2>1 DEF poolVars
  <2>2. CASE Clean BY <2>2 DEF Clean, ClearMap, BoundedSet!Empty
  <2>3. ASSUME NEW fd \in Fds, AddSession(fd) PROVE BoundedSet!Add(fd)
    <3>1. /\ fd \notin DOMAIN fdMap
          /\ DOMAIN fdMap' = DOMAIN fdMap \cup {fd}
          /\ stackTopIndex < Capacity - 1
      BY <2>3 DEF AddSession, HasFreeSlot, SetSlot
    <3>2. stackTopIndex = Cardinality(DOMAIN fdMap) BY <1>2 DEF IInv, Order
    <3>3. BoundedSet!Cardinality(DOMAIN fdMap) = Cardinality(DOMAIN fdMap)
      BY DEF BoundedSet!Cardinality, Cardinality
    <3> QED BY <3>1, <3>2, <3>3 DEF BoundedSet!Add
  <2>4. ASSUME NEW fd \in Fds, RefuseSession(fd) PROVE UNCHANGED DOMAIN fdMap
    BY <2>4 DEF RefuseSession, poolVars
  <2>5. ASSUME NEW fd \in Fds, DrainSession(fd) PROVE BoundedSet!Remove(fd)
    <3>1. CASE fd \in DOMAIN fdMap BY <2>5, <3>1 DEF DrainSession, EraseFd, BoundedSet!Remove
    <3>2. CASE fd \notin DOMAIN fdMap
      BY <2>5, <3>2 DEF DrainSession, poolVars, BoundedSet!Remove
    <3> QED BY <3>1, <3>2
  <2> QED BY <1>2, <2>1, <2>2, <2>3, <2>4, <2>5 DEF Next
<1> QED BY <1>1, <1>2, InductiveInvariant, PTL DEF Spec, ImplementsSessionSet, BoundedSet!Spec

-----------------------------------------------------------------------------
(* The index and the slots in the server, whoever meets whom.              *)

HandlerOK ==
    /\ handler \in [next : {"none", "pop", "insert", "push", "erase"}, fd : Fds \cup {NoFd},
                    top : Slots, slot : Slots, strayed : BOOLEAN]
    /\ handler.next # "none" => handler.fd \in Fds /\ Serving
    /\ handler.next = "none" => handler = Idling
    /\ handler.next = "pop" => handler.top < Capacity - 1 /\ stackTopIndex <= handler.top

IndexInv == TypeOK /\ HandlerOK

LEMMA BeginsKeepsIndex ==
  ASSUME IndexInv, NEW fd \in Fds, NEW next \in {"pop", "push"}, Begins(next, fd), Serving,
         UNCHANGED <<poolVars, server>>, next = "pop" => stackTopIndex < Capacity - 1
  PROVE  IndexInv'
<1> USE CapacityAssumption DEF Slots, IndexInv
<1>1. TypeOK' BY DEF TypeOK, poolVars
<1>2. freeSlotStack[stackTopIndex] \in Slots /\ stackTopIndex \in Slots BY DEF TypeOK
<1>3. handler' = [next |-> next, fd |-> fd, top |-> stackTopIndex,
                  slot |-> freeSlotStack[stackTopIndex], strayed |-> FALSE]
  BY DEF Begins
<1>4. /\ handler' \in [next : {"none", "pop", "insert", "push", "erase"}, fd : Fds \cup {NoFd},
                       top : Slots, slot : Slots, strayed : BOOLEAN]
      /\ handler'.next = next /\ handler'.fd = fd /\ handler'.top = stackTopIndex
  BY <1>2, <1>3
<1>5. Serving' /\ stackTopIndex' = stackTopIndex BY DEF Serving, Cleaning, poolVars
<1>6. stackTopIndex <= stackTopIndex BY <1>2
<1> QED BY <1>1, <1>4, <1>5, <1>6 DEF HandlerOK

LEMMA ReturnKeepsIndex ==
  ASSUME IndexInv, handler' = Idling, TypeOK' PROVE IndexInv'
<1> USE CapacityAssumption DEF Slots
<1> QED BY DEF IndexInv, HandlerOK, Idling

LEMMA PopKeepsIndex == ASSUME IndexInv, PopSlot PROVE IndexInv'
<1> USE CapacityAssumption DEF Slots, IndexInv
<1>0. PICK top \in {handler.top, stackTopIndex} :
        /\ PopFreeSlot(top)
        /\ \E slot \in {handler.slot, freeSlotStack[top]} :
             handler' = [handler EXCEPT !.next = "insert", !.slot = slot]
  BY DEF PopSlot
<1>1. PICK slot \in {handler.slot, freeSlotStack[top]} :
        handler' = [handler EXCEPT !.next = "insert", !.slot = slot]
  BY <1>0
<1>2. handler.next = "pop" /\ server' = server /\ fdMap' = fdMap BY DEF PopSlot
<1>3. top \in Slots /\ top < Capacity - 1
  BY <1>0, <1>2 DEF HandlerOK, TypeOK
<1>4. slot \in Slots BY <1>1, <1>3 DEF HandlerOK, TypeOK
<1>5. TypeOK' BY <1>0, <1>2, <1>3 DEF TypeOK, PopFreeSlot
<1>6. /\ handler' \in [next : {"none", "pop", "insert", "push", "erase"}, fd : Fds \cup {NoFd},
                       top : Slots, slot : Slots, strayed : BOOLEAN]
      /\ handler'.next = "insert" /\ handler'.fd = handler.fd
  BY <1>1, <1>4 DEF HandlerOK
<1>7. Serving' /\ handler.fd \in Fds BY <1>2 DEF HandlerOK, Serving, Cleaning
<1> QED BY <1>5, <1>6, <1>7 DEF HandlerOK

LEMMA PushKeepsIndex == ASSUME IndexInv, PushSlot PROVE IndexInv'
<1> USE CapacityAssumption DEF Slots, IndexInv
<1> DEFINE fd   == handler.fd
           slot == IF fd \in Listed THEN fdMap[fd] ELSE 0
<1>1. /\ handler.next = "push" /\ server' = server
      /\ SetSlot(fd, slot)
      /\ handler' = [handler EXCEPT !.next = "erase", !.strayed = fd \notin Listed]
  BY DEF PushSlot
<1>2. fd \in Fds /\ Serving /\ slot \in Slots
  BY <1>1 DEF HandlerOK, TypeOK, Listed
<1>3. PICK top \in {handler.top, stackTopIndex} : PushFreeSlot(top, slot) BY DEF PushSlot
<1>4. top \in Slots BY <1>3 DEF HandlerOK, TypeOK
<1> HIDE DEF slot
<1>5. freeSlotStack' \in [Slots -> Slots] /\ stackTopIndex' \in Slots
  BY <1>2, <1>3, <1>4 DEF PushFreeSlot, TypeOK
<1>6. DOMAIN fdMap' \subseteq Fds /\ fdMap' \in [DOMAIN fdMap' -> Slots]
  BY <1>1, <1>2 DEF SetSlot, TypeOK
<1>7. /\ handler' \in [next : {"none", "pop", "insert", "push", "erase"}, fd : Fds \cup {NoFd},
                       top : Slots, slot : Slots, strayed : BOOLEAN]
      /\ handler'.next = "erase" /\ handler'.fd = handler.fd
  BY <1>1 DEF HandlerOK
<1>8. Serving' BY <1>1, <1>2 DEF Serving, Cleaning
<1> QED BY <1>2, <1>5, <1>6, <1>7, <1>8 DEF HandlerOK, TypeOK

LEMMA IndexInductive == HttpSpec => []IndexInv
<1> USE CapacityAssumption DEF Slots
<1>1. HttpInit => IndexInv
  BY DEF HttpInit, Init, IndexInv, TypeOK, HandlerOK, Idling
<1>2. ASSUME IndexInv, [HttpNext]_httpVars PROVE IndexInv'
  <2>1. CASE UNCHANGED httpVars
    BY <1>2, <2>1 DEF httpVars, poolVars, IndexInv, TypeOK, HandlerOK, Serving, Cleaning
  <2>2. CASE StartServer
    BY <1>2, <2>2 DEF StartServer, poolVars, IndexInv, TypeOK, HandlerOK, Serving, Cleaning
  <2>3. CASE ClearAtStart
    BY <1>2, <2>3 DEF ClearAtStart, ClearMap, IndexInv, TypeOK, HandlerOK, Serving, Cleaning
  <2>4. CASE RefillAtStart
    BY <1>2, <2>4 DEF RefillAtStart, IndexInv, TypeOK, HandlerOK, Serving, Cleaning
  <2>5. CASE ResetAtStart
    <3>1. TypeOK' BY <1>2, <2>5 DEF ResetAtStart, IndexInv, TypeOK
    <3>2. handler.top \in Slots /\ stackTopIndex' = 0 /\ handler' = handler /\ Serving'
      BY <1>2, <2>5 DEF ResetAtStart, IndexInv, HandlerOK, Serving
    <3> QED BY <1>2, <3>1, <3>2 DEF IndexInv, HandlerOK
  <2>6. CASE StopHttpd
    <3>1. TypeOK' /\ handler' = Idling
      BY <1>2, <2>6 DEF StopHttpd, poolVars, IndexInv, TypeOK
    <3> QED BY <1>2, <3>1, ReturnKeepsIndex
  <2>7. CASE CleanAtStop
    <3>1. handler = Idling BY <1>2, <2>7 DEF CleanAtStop, IndexInv, HandlerOK, Serving, Cleaning
    <3>2. TypeOK' BY <2>7 DEF CleanAtStop, Clean, ClearMap, InitFreeSlotStack, TypeOK
    <3> QED BY <1>2, <2>7, <3>1, <3>2, ReturnKeepsIndex DEF CleanAtStop
  <2>8. CASE (\E fd \in Fds : Accept(fd) \/ Break(fd))
             \/ BeginBroadcast \/ BroadcastStep \/ BroadcastAstray
    <3>1. UNCHANGED <<poolVars, server, handler>>
      BY <2>8 DEF Accept, Break, BeginBroadcast, BroadcastStep, BroadcastAstray
    <3> QED BY <1>2, <3>1 DEF poolVars, IndexInv, TypeOK, HandlerOK, Serving, Cleaning
  <2>9. ASSUME NEW fd \in Fds, Handshake(fd) PROVE IndexInv'
    <3>1. UNCHANGED <<poolVars, server>> /\ Serving BY <2>9 DEF Handshake, Ready
    <3>2. CASE UNCHANGED handler
      BY <1>2, <3>1, <3>2 DEF poolVars, IndexInv, TypeOK, HandlerOK, Serving, Cleaning
    <3>3. CASE Begins("pop", fd) /\ HasFreeSlot
      BY <1>2, <3>1, <3>3, BeginsKeepsIndex DEF HasFreeSlot
    <3> QED BY <2>9, <3>2, <3>3 DEF Handshake
  <2>10. ASSUME NEW fd \in Fds, CloseFrame(fd) PROVE IndexInv'
    <3>1. UNCHANGED <<poolVars, server>> /\ Serving BY <2>10 DEF CloseFrame, Ready
    <3>2. CASE UNCHANGED handler
      BY <1>2, <3>1, <3>2 DEF poolVars, IndexInv, TypeOK, HandlerOK, Serving, Cleaning
    <3>3. CASE Begins("push", fd) BY <1>2, <3>1, <3>3, BeginsKeepsIndex
    <3> QED BY <2>10, <3>2, <3>3 DEF CloseFrame
  <2>11. CASE InsertSession
    <3>1. /\ handler.fd \in Fds /\ handler.slot \in Slots
          /\ SetSlot(handler.fd, handler.slot)
          /\ UNCHANGED <<freeSlotStack, stackTopIndex>> /\ handler' = Idling
      BY <1>2, <2>11 DEF InsertSession, IndexInv, HandlerOK
    <3>2. TypeOK' BY <1>2, <3>1 DEF IndexInv, TypeOK, SetSlot
    <3> QED BY <1>2, <3>1, <3>2, ReturnKeepsIndex
  <2>12. CASE EraseSession
    <3>1. /\ EraseFd(handler.fd) \/ UNCHANGED fdMap
          /\ UNCHANGED <<freeSlotStack, stackTopIndex>> /\ handler' = Idling
      BY <2>12 DEF EraseSession
    <3>2. TypeOK' BY <1>2, <3>1 DEF IndexInv, TypeOK, EraseFd
    <3> QED BY <1>2, <3>1, <3>2, ReturnKeepsIndex
  <2> QED BY <1>2, <2>1, <2>2, <2>3, <2>4, <2>5, <2>6, <2>7, <2>8, <2>9, <2>10, <2>11, <2>12,
             PopKeepsIndex, PushKeepsIndex DEF HttpNext
<1> QED BY <1>1, <1>2, PTL DEF HttpSpec

\* Whatever clients and tasks do, and even where the clean() of start meets a session
\* coming or going, the index never leaves the array of the stack.
THEOREM ServerIndexOnStack == HttpSpec => []TypeOK
<1>1. IndexInv => TypeOK BY DEF IndexInv
<1> QED BY <1>1, IndexInductive, PTL

-----------------------------------------------------------------------------
(* The accounts.  A session counts from the insert, and a slot popped for  *)
(* it until then counts as free; a session being drained counts no more    *)
(* once its slot is pushed.  Seen so, stack, index and map stay in order   *)
(* until a clean() of start meets a call.                                  *)

SeenTop == IF handler.next = "insert" THEN stackTopIndex - 1 ELSE stackTopIndex
SeenMap == IF handler.next = "erase" THEN WithoutFd(fdMap, handler.fd) ELSE fdMap

\* What a call has found and loaded is still so.
CallInv ==
    /\ handler.next = "pop" => /\ handler.fd \notin Listed /\ handler.top = stackTopIndex
                               /\ handler.slot = freeSlotStack[stackTopIndex]
    /\ handler.next = "insert" => /\ handler.fd \notin Listed /\ SeenTop < Capacity - 1
                                  /\ handler.slot = freeSlotStack[SeenTop]
    /\ handler.next = "push" => handler.fd \in Listed /\ handler.top = stackTopIndex
    /\ handler.next = "erase" => handler.fd \in Listed /\ ~handler.strayed

AccountInv ==
    ~torn =>
      /\ ~Cleaning => Order(freeSlotStack, SeenTop, SeenMap) /\ CallInv
      /\ Cleaning => handler = Idling /\ fdMap = [fd \in {} |-> 0]
      /\ server = "refilled" => freeSlotStack = [i \in Slots |-> i]

\* Nobody in a call: what is seen is what is there.
LEMMA SeenWhenIdling ==
  ASSUME handler.next \notin {"insert", "erase"} PROVE SeenTop = stackTopIndex /\ SeenMap = fdMap
BY DEF SeenTop, SeenMap

LEMMA IdlingKeepsAccounts ==
  ASSUME handler' = Idling, Order(freeSlotStack', stackTopIndex', fdMap'), ~Cleaning'
  PROVE  AccountInv'
<1>1. handler'.next = "none" BY DEF Idling
<1>2. SeenTop' = stackTopIndex' /\ SeenMap' = fdMap' BY <1>1 DEF SeenTop, SeenMap
<1> QED BY <1>1, <1>2 DEF AccountInv, CallInv, Cleaning

LEMMA PopKeepsAccounts ==
  ASSUME IndexInv, AccountInv, PopSlot, ~torn' PROVE AccountInv'
<1>1. handler.next = "pop" /\ server' = server /\ ~torn /\ ~Cleaning /\ fdMap' = fdMap
  BY DEF PopSlot
<1>2. /\ Order(freeSlotStack, stackTopIndex, fdMap) /\ handler.fd \notin Listed
      /\ handler.top = stackTopIndex /\ handler.slot = freeSlotStack[stackTopIndex]
      /\ stackTopIndex < Capacity - 1 /\ stackTopIndex \in Slots
  BY <1>1 DEF AccountInv, CallInv, SeenTop, SeenMap, IndexInv, HandlerOK, TypeOK
<1>3. /\ stackTopIndex' = stackTopIndex + 1 /\ freeSlotStack' = freeSlotStack
      /\ handler' = [handler EXCEPT !.next = "insert", !.slot = freeSlotStack[stackTopIndex]]
  BY <1>2 DEF PopSlot, PopFreeSlot
<1>4. /\ handler'.next = "insert" /\ handler'.fd = handler.fd
      /\ handler'.slot = freeSlotStack[stackTopIndex]
  BY <1>3 DEF IndexInv, HandlerOK
<1>5. SeenTop' = stackTopIndex /\ SeenMap' = fdMap
  BY <1>1, <1>2, <1>3, <1>4, CapacityAssumption DEF SeenTop, SeenMap, Slots
<1>6. CallInv' BY <1>1, <1>2, <1>3, <1>4, <1>5 DEF CallInv, Listed
<1> QED BY <1>1, <1>2, <1>3, <1>5, <1>6 DEF AccountInv, Cleaning

LEMMA InsertKeepsAccounts ==
  ASSUME IndexInv, AccountInv, InsertSession, ~torn'
  PROVE  /\ AccountInv'
         /\ handler.fd \in Fds /\ handler.fd \notin Listed /\ Listed' = Listed \cup {handler.fd}
         /\ Cardinality(Listed) < Capacity - 1
<1>1. /\ handler.next = "insert" /\ server' = server /\ ~torn /\ ~Cleaning
      /\ handler' = Idling
      /\ fdMap' = WithSlot(fdMap, handler.fd, handler.slot)
      /\ UNCHANGED <<freeSlotStack, stackTopIndex>>
  BY DEF InsertSession, SetSlot, WithSlot
<1>2. /\ Order(freeSlotStack, stackTopIndex - 1, fdMap) /\ handler.fd \notin Listed
      /\ handler.slot = freeSlotStack[stackTopIndex - 1] /\ stackTopIndex - 1 < Capacity - 1
      /\ handler.fd \in Fds /\ stackTopIndex \in Nat
  BY <1>1, CapacityAssumption
     DEF AccountInv, CallInv, SeenTop, SeenMap, IndexInv, HandlerOK, TypeOK, Slots
<1>3. Order(freeSlotStack, (stackTopIndex - 1) + 1,
            WithSlot(fdMap, handler.fd, freeSlotStack[stackTopIndex - 1]))
  BY <1>2, AddOrder DEF Listed
<1>4. (stackTopIndex - 1) + 1 = stackTopIndex BY <1>2
<1>5. Order(freeSlotStack', stackTopIndex', fdMap') BY <1>1, <1>2, <1>3, <1>4
<1>6. AccountInv' BY <1>1, <1>5, IdlingKeepsAccounts DEF Cleaning
<1>7. Cardinality(Listed) < Capacity - 1 BY <1>2 DEF Order, Listed
<1> QED BY <1>1, <1>2, <1>6, <1>7 DEF WithSlot, Listed

LEMMA PushKeepsAccounts ==
  ASSUME IndexInv, AccountInv, PushSlot, ~torn'
  PROVE  AccountInv' /\ Listed' = Listed
<1> DEFINE fd == handler.fd
<1>1. handler.next = "push" /\ server' = server /\ ~torn /\ ~Cleaning BY DEF PushSlot
<1>2. /\ Order(freeSlotStack, stackTopIndex, fdMap) /\ fd \in DOMAIN fdMap
      /\ handler.top = stackTopIndex
  BY <1>1 DEF AccountInv, CallInv, SeenTop, SeenMap, Listed
<1>3. /\ stackTopIndex > 0
      /\ Order([freeSlotStack EXCEPT ![stackTopIndex - 1] = fdMap[fd]],
               stackTopIndex - 1, WithoutFd(fdMap, fd))
  BY <1>2, DrainOrder
<1>4. /\ freeSlotStack' = [freeSlotStack EXCEPT ![stackTopIndex - 1] = fdMap[fd]]
      /\ stackTopIndex' = stackTopIndex - 1
      /\ handler' = [handler EXCEPT !.next = "erase", !.strayed = FALSE]
      /\ DOMAIN fdMap' = DOMAIN fdMap
      /\ \A x \in DOMAIN fdMap : fdMap'[x] = fdMap[x]
  BY <1>2, <1>3 DEF PushSlot, PushFreeSlot, SetSlot, Listed
<1>5. handler'.next = "erase" /\ handler'.fd = fd /\ handler'.strayed = FALSE
  BY <1>4 DEF IndexInv, HandlerOK
<1>6. SeenTop' = stackTopIndex - 1 /\ SeenMap' = WithoutFd(fdMap, fd)
  BY <1>4, <1>5 DEF SeenTop, SeenMap, WithoutFd
<1>7. CallInv' BY <1>2, <1>4, <1>5 DEF CallInv, Listed
<1> QED BY <1>1, <1>3, <1>4, <1>6, <1>7 DEF AccountInv, Cleaning, Listed

LEMMA EraseKeepsAccounts ==
  ASSUME IndexInv, AccountInv, EraseSession, ~torn'
  PROVE  AccountInv' /\ Listed' = Listed \ {handler.fd}
<1>1. handler.next = "erase" /\ server' = server /\ ~torn /\ ~Cleaning BY DEF EraseSession
<1>2. /\ Order(freeSlotStack, stackTopIndex, WithoutFd(fdMap, handler.fd))
      /\ ~handler.strayed
  BY <1>1 DEF AccountInv, CallInv, SeenTop, SeenMap
<1>3. /\ fdMap' = WithoutFd(fdMap, handler.fd) /\ handler' = Idling
      /\ UNCHANGED <<freeSlotStack, stackTopIndex>>
  BY <1>2 DEF EraseSession, EraseFd, WithoutFd
<1>4. AccountInv' BY <1>1, <1>2, <1>3, IdlingKeepsAccounts DEF Cleaning
<1> QED BY <1>3, <1>4 DEF WithoutFd, Listed

\* A call that begins has found what is so.
LEMMA BeginKeepsAccounts ==
  ASSUME IndexInv, AccountInv, handler = Idling, NEW fd \in Fds, NEW next \in {"pop", "push"},
         Begins(next, fd), UNCHANGED <<poolVars, server>>, ~torn, ~Cleaning,
         next = "pop" => fd \notin Listed, next = "push" => fd \in Listed
  PROVE  AccountInv'
<1>1. handler.next = "none" BY DEF Idling
<1>2. Order(freeSlotStack, stackTopIndex, fdMap)
  BY <1>1, SeenWhenIdling DEF AccountInv
<1>3. /\ handler'.next = next /\ handler'.fd = fd /\ handler'.top = stackTopIndex
      /\ handler'.slot = freeSlotStack[stackTopIndex]
  BY DEF Begins
<1>4. SeenTop' = stackTopIndex /\ SeenMap' = fdMap
  BY <1>3 DEF SeenTop, SeenMap, poolVars
<1>5. CallInv' BY <1>3 DEF CallInv, poolVars, Listed
<1> QED BY <1>2, <1>4, <1>5 DEF AccountInv, Cleaning, poolVars

LEMMA AccountInductive == HttpSpec => []AccountInv
<1>1. HttpInit => AccountInv
  <2> SUFFICES ASSUME HttpInit PROVE AccountInv OBVIOUS
  <2>1. handler.next = "none" /\ ~Cleaning /\ server # "refilled"
    BY DEF HttpInit, Idling, Cleaning
  <2>2. Order(freeSlotStack, stackTopIndex, fdMap) BY EmptyOrder DEF HttpInit, Init
  <2> QED BY <2>1, <2>2, SeenWhenIdling DEF AccountInv, CallInv
<1>2. ASSUME IndexInv, AccountInv, [HttpNext]_httpVars PROVE AccountInv'
  <2> SUFFICES ASSUME ~torn' PROVE AccountInv' BY DEF AccountInv
  <2>1. CASE UNCHANGED httpVars
    BY <1>2, <2>1 DEF httpVars, poolVars, AccountInv, CallInv, SeenTop, SeenMap, Cleaning, Listed
  <2>2. CASE StartServer \/ StopHttpd \/ (\E fd \in Fds : Accept(fd) \/ Break(fd))
             \/ BeginBroadcast \/ BroadcastStep \/ BroadcastAstray
    <3>1. /\ UNCHANGED <<poolVars, handler, torn>>
          /\ (server' \in {"registered", "halted"} /\ ~Cleaning) \/ server' = server
      BY <2>2 DEF StartServer, StopHttpd, Accept, Break, BeginBroadcast, BroadcastStep,
                  BroadcastAstray, Cleaning
    <3>2. (Cleaning <=> Cleaning') /\ (server' = "refilled" => server = "refilled")
      BY <3>1 DEF Cleaning
    <3> QED BY <1>2, <3>1, <3>2 DEF poolVars, AccountInv, CallInv, SeenTop, SeenMap, Listed
  <2>3. CASE ClearAtStart
    BY <2>3 DEF ClearAtStart, ClearMap, AccountInv, Cleaning
  <2>4. CASE RefillAtStart
    BY <1>2, <2>4 DEF RefillAtStart, AccountInv, Cleaning
  <2>5. CASE ResetAtStart
    <3>1. /\ handler' = Idling /\ ~Cleaning' /\ stackTopIndex' = 0
          /\ fdMap' = [fd \in {} |-> 0] /\ freeSlotStack' = [i \in Slots |-> i]
      BY <1>2, <2>5 DEF ResetAtStart, AccountInv, Cleaning
    <3> QED BY <3>1, EmptyOrder, IdlingKeepsAccounts
  <2>6. CASE CleanAtStop
    <3>1. handler = Idling BY <1>2, <2>6 DEF CleanAtStop, IndexInv, HandlerOK, Serving, Cleaning
    <3>2. /\ handler' = Idling /\ ~Cleaning' /\ stackTopIndex' = 0
          /\ fdMap' = [fd \in {} |-> 0] /\ freeSlotStack' = [i \in Slots |-> i]
      BY <2>6, <3>1 DEF CleanAtStop, Clean, ClearMap, InitFreeSlotStack, Cleaning
    <3> QED BY <3>2, EmptyOrder, IdlingKeepsAccounts
  <2>7. ASSUME NEW fd \in Fds, Handshake(fd) PROVE AccountInv'
    <3>1. UNCHANGED <<poolVars, server>> /\ handler = Idling /\ ~torn /\ ~Cleaning
      BY <2>7 DEF Handshake, Ready
    <3>2. CASE UNCHANGED handler
      BY <1>2, <3>1, <3>2 DEF poolVars, AccountInv, CallInv, SeenTop, SeenMap, Cleaning, Listed
    <3>3. CASE Begins("pop", fd) /\ fd \notin Listed
      BY <1>2, <3>1, <3>3, BeginKeepsAccounts
    <3> QED BY <2>7, <3>2, <3>3 DEF Handshake
  <2>8. ASSUME NEW fd \in Fds, CloseFrame(fd) PROVE AccountInv'
    <3>1. UNCHANGED <<poolVars, server>> /\ handler = Idling /\ ~torn /\ ~Cleaning
      BY <2>8 DEF CloseFrame, Ready
    <3>2. CASE UNCHANGED handler
      BY <1>2, <3>1, <3>2 DEF poolVars, AccountInv, CallInv, SeenTop, SeenMap, Cleaning, Listed
    <3>3. CASE Begins("push", fd) /\ fd \in Listed
      BY <1>2, <3>1, <3>3, BeginKeepsAccounts
    <3> QED BY <2>8, <3>2, <3>3 DEF CloseFrame
  <2> QED BY <1>2, <2>1, <2>2, <2>3, <2>4, <2>5, <2>6, <2>7, <2>8, PopKeepsAccounts,
             InsertKeepsAccounts, PushKeepsAccounts, EraseKeepsAccounts DEF HttpNext
<1> QED BY <1>1, <1>2, IndexInductive, PTL DEF HttpSpec

LEMMA TornIsBoolean == HttpSpec => [](torn \in BOOLEAN)
<1>1. HttpInit => torn \in BOOLEAN BY DEF HttpInit
<1>2. torn \in BOOLEAN /\ [HttpNext]_httpVars => (torn \in BOOLEAN)'
  BY DEF HttpNext, httpVars, StartServer, ClearAtStart, RefillAtStart, ResetAtStart, StopHttpd,
         CleanAtStop, Accept, Break, Handshake, CloseFrame, PopSlot, InsertSession, PushSlot,
         EraseSession, BeginBroadcast, BroadcastStep, BroadcastAstray
<1> QED BY <1>1, <1>2, PTL DEF HttpSpec

\* A step that may meet another either leaves the mark of a meeting alone or sets it.
LEMMA OverlapsKeepTorn ==
  ASSUME torn \in BOOLEAN,
         \/ RefillAtStart \/ ResetAtStart \/ PopSlot \/ InsertSession \/ PushSlot \/ EraseSession
         \/ \E fd \in Fds : Handshake(fd) \/ CloseFrame(fd)
  PROVE  torn' = torn \/ torn' = TRUE
<1> QED BY DEF RefillAtStart, ResetAtStart, PopSlot, InsertSession, PushSlot, EraseSession,
                    Handshake, CloseFrame

\* Between the calls of the server's task no slot is lost and none is both free and in
\* use, whatever clients, tasks and restarts do, unless the clean() of start met a call.
THEOREM ServerAccountedUnlessTorn == HttpSpec => []AccountedUnlessTorn
<1>1. AccountInv => AccountedUnlessTorn
  <2> SUFFICES ASSUME AccountInv, handler = Idling, ~Cleaning, ~torn PROVE SlotsAccountedFor
    BY DEF AccountedUnlessTorn
  <2>1. handler.next = "none" BY DEF Idling
  <2>2. IInv BY <2>1, SeenWhenIdling DEF AccountInv, IInv
  <2> QED BY <2>2, OrderAccounts
<1> QED BY <1>1, AccountInductive, PTL

\* The pool as the server's tasks use it implements the bounded set: the limit holds
\* from every clean() that meets no call to the next one that does.
THEOREM ServerKeepsSessionSet == HttpSpec => KeepsSessionSet
<1>1. HttpInit => ServerSet!Init BY DEF HttpInit, Init, ServerSet!Init, Listed
<1>2. ASSUME torn \in BOOLEAN, IndexInv, AccountInv, [HttpNext]_httpVars
      PROVE  [ServerSet!Next]_<<Listed, ~torn>>
  <2> USE DEF ServerSet!Next
  <2>1. CASE UNCHANGED httpVars BY <2>1 DEF httpVars, poolVars, Listed
  <2>2. CASE StartServer \/ StopHttpd \/ (\E fd \in Fds : Accept(fd) \/ Break(fd))
             \/ BeginBroadcast \/ BroadcastStep \/ BroadcastAstray
    <3>1. UNCHANGED <<poolVars, torn>>
      BY <2>2 DEF StartServer, StopHttpd, Accept, Break, BeginBroadcast, BroadcastStep,
                  BroadcastAstray
    <3> QED BY <3>1 DEF poolVars, Listed
  <2>3. CASE ClearAtStart \/ CleanAtStop
    <3>1. Listed' = {} BY <2>3 DEF ClearAtStart, CleanAtStop, Clean, ClearMap, Listed
    <3> QED BY <3>1 DEF ServerSet!Empty
  <2>4. ASSUME RefillAtStart \/ ResetAtStart \/ PopSlot
                 \/ \E fd \in Fds : Handshake(fd) \/ CloseFrame(fd)
        PROVE  UNCHANGED <<Listed, ~torn>> \/ ServerSet!Overlap
    <3>1. fdMap' = fdMap
      BY <2>4 DEF RefillAtStart, ResetAtStart, PopSlot, Handshake, CloseFrame, poolVars
    <3>2. torn' = torn \/ torn' = TRUE BY <1>2, <2>4, OverlapsKeepTorn
    <3>3. CASE torn' = torn BY <3>1, <3>3 DEF Listed
    <3>4. CASE torn' = TRUE BY <3>1, <3>4 DEF Listed, ServerSet!Overlap
    <3> QED BY <3>2, <3>3, <3>4
  <2>5. CASE InsertSession
    <3>1. SetSlot(handler.fd, handler.slot) /\ handler.fd \in Fds /\ (~torn' => ~torn)
      BY <1>2, <2>5 DEF InsertSession, IndexInv, HandlerOK
    <3>2. Listed' = Listed \cup {handler.fd} BY <3>1 DEF SetSlot, Listed
    <3>3. CASE torn'
      <4>1. CASE handler.fd \in Listed
        <5>1. Listed' = Listed BY <3>2, <4>1
        <5>2. torn' = TRUE BY <3>3, <1>2, <2>5, OverlapsKeepTorn
        <5> QED BY <5>1, <5>2 DEF ServerSet!Overlap
      <4>2. CASE handler.fd \notin Listed BY <3>1, <3>2, <3>3, <4>2 DEF ServerSet!Add
      <4> QED BY <4>1, <4>2
    <3>4. CASE ~torn'
      <4>1. handler.fd \notin Listed /\ Cardinality(Listed) < Capacity - 1
        BY <1>2, <2>5, <3>4, InsertKeepsAccounts
      <4>2. ServerSet!Cardinality(Listed) = Cardinality(Listed)
        BY DEF ServerSet!Cardinality, Cardinality
      <4> QED BY <3>1, <3>2, <3>4, <4>1, <4>2 DEF ServerSet!Add
    <3> QED BY <3>3, <3>4
  <2>6. CASE PushSlot
    <3>1. CASE torn'
      <4>1. /\ handler.fd \in Fds /\ Listed' = Listed \cup {handler.fd}
        BY <1>2, <2>6 DEF PushSlot, SetSlot, Listed, IndexInv, HandlerOK
      <4>2. torn' = TRUE BY <3>1, <1>2, <2>6, OverlapsKeepTorn
      <4>3. CASE handler.fd \in Listed BY <4>1, <4>2, <4>3 DEF ServerSet!Overlap
      <4>4. CASE handler.fd \notin Listed BY <3>1, <4>1, <4>4 DEF ServerSet!Add
      <4> QED BY <4>3, <4>4
    <3>2. CASE ~torn'
      <4>1. Listed' = Listed /\ torn' = torn
        BY <1>2, <2>6, <3>2, PushKeepsAccounts, OverlapsKeepTorn
      <4> QED BY <4>1
    <3> QED BY <3>1, <3>2
  <2>7. CASE EraseSession
    <3>1. /\ handler.fd \in Fds /\ (~torn' => ~torn)
          /\ Listed' = Listed \ {handler.fd} \/ Listed' = Listed
      BY <1>2, <2>7 DEF EraseSession, EraseFd, Listed, IndexInv, HandlerOK
    <3>2. CASE Listed' = Listed \ {handler.fd} BY <3>1, <3>2 DEF ServerSet!Remove
    <3>3. CASE Listed' = Listed
      <4>1. torn' = torn \/ torn' = TRUE BY <1>2, <2>7, OverlapsKeepTorn
      <4> QED BY <3>3, <4>1 DEF ServerSet!Overlap
    <3> QED BY <3>1, <3>2, <3>3
  <2> QED BY <1>2, <2>1, <2>2, <2>3, <2>4, <2>5, <2>6, <2>7 DEF HttpNext
<1> QED BY <1>1, <1>2, TornIsBoolean, IndexInductive, AccountInductive, PTL
        DEF HttpSpec, KeepsSessionSet, ServerSet!Spec

-----------------------------------------------------------------------------
(* The pool and the sockets.                                               *)

\* A server that does not serve has no socket open.
ClosedWhenHalted == ~Serving => \A fd \in Fds : conn[fd] = "none"

\* Who comes is no client of the server yet, who goes still is.
CallSocket ==
    /\ handler.next \in {"pop", "insert"} => conn[handler.fd] = "http"
    /\ handler.next \in {"push", "erase"} => conn[handler.fd] = "ws"

SocketInv ==
    /\ conn \in [Fds -> {"none", "http", "ws"}]
    /\ Listed \subseteq Fds
    /\ ClosedWhenHalted
    /\ CallSocket
    /\ NoGhosts
    /\ ListedUnlessRefused
    /\ StoppedIsEmpty

LEMMA CleanEmpties == Clean \/ ClearMap => Listed' = {}
BY DEF Clean, ClearMap, Listed

LEMMA IdlingHasNoSocket == handler = Idling => CallSocket
BY DEF Idling, CallSocket

\* A handshake with a descriptor the pool knows, or without a slot, ends at once.
LEMMA HandshakeKeepsSockets ==
  ASSUME SocketInv, NEW fd \in Fds, Handshake(fd) PROVE SocketInv'
<1> USE DEF SocketInv
<1>1. /\ Serving /\ server' = server /\ Listed' = Listed /\ conn[fd] = "http"
      /\ handler = Idling
  BY DEF Handshake, Ready, poolVars, Listed
<1>2. CASE Begins("pop", fd) /\ UNCHANGED <<conn, cut, unlisted>>
  <2>1. CallSocket' BY <1>1, <1>2 DEF CallSocket, Begins
  <2> QED BY <1>1, <1>2, <2>1 DEF ClosedWhenHalted, NoGhosts, ListedUnlessRefused,
                                  StoppedIsEmpty, Serving, Cleaning
<1>3. CASE /\ Joins(fd) /\ handler' = handler
           /\ unlisted' = IF fd \in Listed THEN unlisted ELSE unlisted \cup {fd}
  <2>1. /\ conn' = [conn EXCEPT ![fd] = "ws"]
        /\ cut' = cut \ {fd}
    BY <1>3 DEF Joins
  <2>2. conn' \in [Fds -> {"none", "http", "ws"}] BY <2>1
  <2>3. ClosedWhenHalted' BY <1>1 DEF ClosedWhenHalted, Serving, Cleaning
  <2>4. CallSocket' BY <1>1, <1>3 DEF CallSocket, Idling
  <2>5. NoGhosts' BY <1>1, <2>1 DEF NoGhosts
  <2>6. ListedUnlessRefused' BY <1>1, <1>3, <2>1 DEF ListedUnlessRefused
  <2> QED BY <1>1, <2>2, <2>3, <2>4, <2>5, <2>6 DEF StoppedIsEmpty
<1> QED BY <1>2, <1>3 DEF Handshake

\* The new client is in the pool when its handler returns.
LEMMA InsertKeepsSockets ==
  ASSUME IndexInv, SocketInv, InsertSession PROVE SocketInv'
<1> USE DEF SocketInv
<1> DEFINE fd == handler.fd
<1>1. /\ fd \in Fds /\ Serving /\ server' = server /\ handler' = Idling
      /\ conn' = [conn EXCEPT ![fd] = "ws"] /\ cut' = cut \ {fd} /\ unlisted' = unlisted
      /\ Listed' = Listed \cup {fd}
  BY DEF InsertSession, IndexInv, HandlerOK, Joins, SetSlot, Listed
<1>2. conn' \in [Fds -> {"none", "http", "ws"}] /\ Listed' \subseteq Fds BY <1>1
<1>3. ClosedWhenHalted' BY <1>1 DEF ClosedWhenHalted, Serving, Cleaning
<1>4. CallSocket' BY <1>1 DEF CallSocket, Idling
<1>5. NoGhosts' BY <1>1 DEF NoGhosts
<1>6. ListedUnlessRefused' BY <1>1 DEF ListedUnlessRefused
<1>7. StoppedIsEmpty' BY <1>1 DEF StoppedIsEmpty, Serving, Cleaning
<1> QED BY <1>2, <1>3, <1>4, <1>5, <1>6, <1>7

LEMMA CloseFrameKeepsSockets ==
  ASSUME SocketInv, NEW fd \in Fds, CloseFrame(fd) PROVE SocketInv'
<1> USE DEF SocketInv
<1>1. /\ Serving /\ server' = server /\ Listed' = Listed /\ conn[fd] = "ws" /\ cut' = cut
      /\ handler = Idling
  BY DEF CloseFrame, Ready, poolVars, Listed
<1>2. CASE Begins("push", fd) /\ UNCHANGED <<conn, unlisted>>
  <2>1. CallSocket' BY <1>1, <1>2 DEF CallSocket, Begins
  <2> QED BY <1>1, <1>2, <2>1 DEF ClosedWhenHalted, NoGhosts, ListedUnlessRefused,
                                  StoppedIsEmpty, Serving, Cleaning
<1>3. CASE /\ fd \notin Listed /\ handler' = handler
           /\ conn' = [conn EXCEPT ![fd] = "none"] /\ unlisted' = unlisted \ {fd}
  <2>1. conn' \in [Fds -> {"none", "http", "ws"}] BY <1>3
  <2>2. ClosedWhenHalted' BY <1>1 DEF ClosedWhenHalted, Serving, Cleaning
  <2>3. CallSocket' BY <1>1, <1>3 DEF CallSocket, Idling
  <2>4. NoGhosts' BY <1>1, <1>3 DEF NoGhosts
  <2>5. ListedUnlessRefused' BY <1>1, <1>3 DEF ListedUnlessRefused
  <2> QED BY <1>1, <2>1, <2>2, <2>3, <2>4, <2>5 DEF StoppedIsEmpty
<1> QED BY <1>2, <1>3 DEF CloseFrame

\* The client is gone; a descriptor the erase missed is named by cut.
LEMMA EraseKeepsSockets ==
  ASSUME IndexInv, SocketInv, EraseSession PROVE SocketInv'
<1> USE DEF SocketInv
<1> DEFINE fd == handler.fd
<1>1. /\ fd \in Fds /\ Serving /\ server' = server /\ handler' = Idling
      /\ conn' = [conn EXCEPT ![fd] = "none"] /\ unlisted' = unlisted \ {fd}
      /\ cut' = cut \cup ({fd} \cap Listed')
      /\ Listed' = Listed \ {fd} \/ Listed' = Listed
  BY DEF EraseSession, IndexInv, HandlerOK, EraseFd, Listed
<1>2. conn' \in [Fds -> {"none", "http", "ws"}] /\ Listed' \subseteq Fds BY <1>1
<1>3. ClosedWhenHalted' BY <1>1 DEF ClosedWhenHalted, Serving, Cleaning
<1>4. CallSocket' BY <1>1 DEF CallSocket, Idling
<1>5. NoGhosts' BY <1>1 DEF NoGhosts
<1>6. ListedUnlessRefused' BY <1>1 DEF ListedUnlessRefused
<1>7. StoppedIsEmpty' BY <1>1 DEF StoppedIsEmpty, Serving, Cleaning
<1> QED BY <1>2, <1>3, <1>4, <1>5, <1>6, <1>7

\* Sockets that end without a CLOSE frame, whether broken or purged for another:
\* the pool keeps their descriptors, and cut names them.
LEMMA ClosesKeepsSockets ==
  ASSUME SocketInv, UNCHANGED <<poolVars, server, handler>>, Ready,
         NEW gone \in SUBSET Fds, Closes(gone),
         conn' \in [Fds -> {"none", "http", "ws"}],
         \A x \in gone : conn'[x] # "ws",
         \A x \in Fds \ gone : conn'[x] = conn[x] \/ (conn[x] = "none" /\ conn'[x] = "http")
  PROVE  SocketInv'
<1> USE DEF SocketInv
<1>1. /\ Listed' = Listed /\ server' = server /\ Serving /\ handler' = Idling
      /\ cut' = cut \cup (gone \cap Listed)
      /\ unlisted' = unlisted \ gone
  BY DEF Closes, poolVars, Listed, Ready
<1>2. ClosedWhenHalted' BY <1>1 DEF ClosedWhenHalted, Serving, Cleaning
<1>3. NoGhosts' BY <1>1 DEF NoGhosts
<1>4. ListedUnlessRefused' BY <1>1 DEF ListedUnlessRefused
<1>5. StoppedIsEmpty' BY <1>1 DEF StoppedIsEmpty
<1>6. CallSocket' BY <1>1 DEF CallSocket, Idling
<1> QED BY <1>1, <1>2, <1>3, <1>4, <1>5, <1>6

LEMMA AcceptKeepsSockets ==
  ASSUME SocketInv, NEW fd \in Fds, Accept(fd) PROVE SocketInv'
<1>1. PICK purged \in SUBSET Open :
        /\ conn' = [x \in Fds |-> IF x = fd THEN "http"
                                  ELSE IF x \in purged THEN "none" ELSE conn[x]]
        /\ Closes(purged)
  BY DEF Accept
<1>2. /\ UNCHANGED <<poolVars, server, handler>> /\ Ready /\ conn[fd] = "none"
      /\ purged \in SUBSET Fds
  BY DEF Accept, Open
<1>3. /\ conn' \in [Fds -> {"none", "http", "ws"}]
      /\ \A x \in purged : conn'[x] # "ws"
      /\ \A x \in Fds \ purged : conn'[x] = conn[x] \/ (conn[x] = "none" /\ conn'[x] = "http")
  BY <1>1, <1>2 DEF SocketInv
<1> QED BY <1>1, <1>2, <1>3, ClosesKeepsSockets

LEMMA BreakKeepsSockets ==
  ASSUME SocketInv, NEW fd \in Fds, Break(fd) PROVE SocketInv'
<1>1. /\ UNCHANGED <<poolVars, server, handler>> /\ Ready /\ {fd} \in SUBSET Fds
      /\ Closes({fd}) /\ conn' = [conn EXCEPT ![fd] = "none"]
  BY DEF Break
<1>2. /\ conn' \in [Fds -> {"none", "http", "ws"}]
      /\ \A x \in {fd} : conn'[x] # "ws"
      /\ \A x \in Fds \ {fd} : conn'[x] = conn[x] \/ (conn[x] = "none" /\ conn'[x] = "http")
  BY <1>1 DEF SocketInv
<1> QED BY ONLY SocketInv, <1>1, <1>2, ClosesKeepsSockets

\* The stack's writes, and the broadcast, leave the map's descriptors and the sockets alone;
\* a push may put its own client's descriptor back.
LEMMA InnerKeepsSockets ==
  ASSUME IndexInv, SocketInv,
         RefillAtStart \/ ResetAtStart \/ PopSlot \/ PushSlot
           \/ BeginBroadcast \/ BroadcastStep \/ BroadcastAstray
  PROVE  SocketInv'
<1> USE DEF SocketInv
<1>1. UNCHANGED <<conn, cut, unlisted>> /\ (Serving <=> Serving')
      /\ (server' = "stopped" => server = "stopped")
  BY DEF RefillAtStart, ResetAtStart, PopSlot, PushSlot, BeginBroadcast, BroadcastStep,
         BroadcastAstray, Serving, Cleaning
<1>2. CASE PushSlot
  <2>1. /\ handler.next = "push" /\ handler.fd \in Fds /\ Serving /\ server' = server
        /\ Listed' = Listed \cup {handler.fd} /\ conn[handler.fd] = "ws"
        /\ handler'.next = "erase" /\ handler'.fd = handler.fd
    BY <1>2 DEF PushSlot, IndexInv, HandlerOK, SetSlot, Listed, CallSocket
  <2>2. CallSocket' BY <1>1, <2>1 DEF CallSocket
  <2>3. StoppedIsEmpty' BY <2>1 DEF StoppedIsEmpty, Serving, Cleaning
  <2> QED BY <1>1, <2>1, <2>2, <2>3 DEF ClosedWhenHalted, NoGhosts, ListedUnlessRefused
<1>3. CASE ~PushSlot
  <2>1. Listed' = Listed
    BY <1>3 DEF RefillAtStart, ResetAtStart, PopSlot, BeginBroadcast, BroadcastStep,
                BroadcastAstray, poolVars, Listed
  <2>2. CASE PopSlot
    <3>1. handler.next = "pop" /\ handler'.next = "insert" /\ handler'.fd = handler.fd
      BY <2>2 DEF PopSlot, IndexInv, HandlerOK
    <3> QED BY <1>1, <2>1, <3>1 DEF CallSocket, ClosedWhenHalted, NoGhosts,
                                    ListedUnlessRefused, StoppedIsEmpty
  <2>3. CASE ~PopSlot
    <3>1. handler' = handler
      BY <1>3, <2>3 DEF RefillAtStart, ResetAtStart, BeginBroadcast, BroadcastStep,
                        BroadcastAstray
    <3> QED BY <1>1, <2>1, <3>1 DEF CallSocket, ClosedWhenHalted, NoGhosts,
                                    ListedUnlessRefused, StoppedIsEmpty
  <2> QED BY <2>2, <2>3
<1> QED BY <1>2, <1>3

LEMMA SocketInductive == HttpSpec => []SocketInv
<1>1. HttpInit => SocketInv
  BY IdlingHasNoSocket
     DEF HttpInit, Init, SocketInv, Listed, ClosedWhenHalted, NoGhosts, ListedUnlessRefused,
         StoppedIsEmpty, Serving
<1>2. ASSUME IndexInv, SocketInv, [HttpNext]_httpVars PROVE SocketInv'
  <2> USE DEF SocketInv
  <2>1. CASE UNCHANGED httpVars
    BY <1>2, <2>1 DEF httpVars, poolVars, Listed, ClosedWhenHalted, NoGhosts, CallSocket,
                      ListedUnlessRefused, StoppedIsEmpty, Serving, Cleaning
  <2>2. CASE StartServer
    BY <1>2, <2>2 DEF StartServer, poolVars, Listed, ClosedWhenHalted, NoGhosts, CallSocket,
                      ListedUnlessRefused, StoppedIsEmpty, Serving, Cleaning
  <2>3. CASE ClearAtStart
    <3>1. /\ Listed' = {} /\ server' = "cleared" /\ conn' = conn /\ handler' = handler
          /\ unlisted' = unlisted \cup (Listed \cap {fd \in Fds : conn[fd] = "ws"})
      BY <2>3, CleanEmpties DEF ClearAtStart
    <3>2. ListedUnlessRefused' BY <1>2, <3>1 DEF ListedUnlessRefused
    <3> QED BY <1>2, <3>1, <3>2 DEF ClosedWhenHalted, CallSocket, NoGhosts, StoppedIsEmpty,
                                    Serving, Cleaning
  <2>4. CASE StopHttpd
    <3>1. /\ Listed' = Listed /\ server' = "halted" /\ cut' = Listed /\ handler' = Idling
          /\ conn' = [fd \in Fds |-> "none"]
      BY <2>4 DEF StopHttpd, poolVars, Listed
    <3>2. CallSocket' BY <3>1 DEF CallSocket, Idling
    <3> QED BY <1>2, <3>1, <3>2 DEF ClosedWhenHalted, NoGhosts, ListedUnlessRefused,
                                    StoppedIsEmpty
  <2>5. CASE CleanAtStop
    <3>1. /\ Listed' = {} /\ server = "halted" /\ server' = "stopped"
          /\ conn' = conn /\ handler' = handler
      BY <2>5, CleanEmpties DEF CleanAtStop
    <3> QED BY <1>2, <3>1 DEF ClosedWhenHalted, CallSocket, NoGhosts, ListedUnlessRefused,
                              StoppedIsEmpty, Serving, Cleaning
  <2> QED BY <1>2, <2>1, <2>2, <2>3, <2>4, <2>5, AcceptKeepsSockets, BreakKeepsSockets,
             HandshakeKeepsSockets, InsertKeepsSockets, CloseFrameKeepsSockets,
             EraseKeepsSockets, InnerKeepsSockets DEF HttpNext
<1> QED BY <1>1, <1>2, IndexInductive, PTL DEF HttpSpec

\* For any number of clients: a descriptor in the pool is a client's, or that of a
\* connection that ended without a CLOSE frame or while start emptied the pool.
THEOREM ServerNoGhosts == HttpSpec => []NoGhosts
<1>1. SocketInv => NoGhosts BY DEF SocketInv
<1> QED BY <1>1, SocketInductive, PTL

\* For any number of clients: one that is not in the pool was refused, or came
\* before the server's clean().
THEOREM ServerListedUnlessRefused == HttpSpec => []ListedUnlessRefused
<1>1. SocketInv => ListedUnlessRefused BY DEF SocketInv
<1> QED BY <1>1, SocketInductive, PTL

\* A server that was stopped leaves nobody in the pool.
THEOREM ServerStoppedIsEmpty == HttpSpec => []StoppedIsEmpty
<1>1. SocketInv => StoppedIsEmpty BY DEF SocketInv
<1> QED BY <1>1, SocketInductive, PTL

-----------------------------------------------------------------------------
(* The walk of a broadcast.                                                *)

LEMMA HasLeast ==
  ASSUME NEW S, S \subseteq Nat, S # {}
  PROVE  \E x \in S : \A y \in S : x <= y
<1> DEFINE Less == {ss \in Nat \X Nat : ss[1] < ss[2]}
<1>1. IsWellFoundedOn(Less, Nat) BY NatLessThanWellFounded DEF OpToRel
<1>2. \A x, y \in Nat : y < x => <<y, x>> \in Less OBVIOUS
<1> HIDE DEF Less
<1>3. PICK x \in S : \A y \in S : ~ (<<y, x>> \in Less) BY <1>1, WFMin
<1>4. \A y \in S : ~ (y < x) BY <1>2, <1>3
<1> QED BY <1>4

\* First is the least of a set of descriptors, or the end of the map.
LEMMA FirstIsLeast ==
  ASSUME NEW S, S \subseteq Nat
  PROVE  \/ S = {} /\ First(S) = NoFd
         \/ First(S) \in S /\ \A y \in S : First(S) <= y
BY HasLeast DEF First

\* Who the broadcast owes is in the pool, and still ahead of the walk.
WalkInv ==
    /\ walkAt \in Nat \cup {NoFd}
    /\ walkAt # NoFd /\ ~walkLost =>
         /\ walkOwed \subseteq Listed
         /\ \A x \in walkOwed : walkAt <= x

\* Losing the descriptors gone from the pool does not lose who is still owed.
LEMMA ErasedKeepsWalk ==
  ASSUME WalkInv, NEW gone, Erased(gone), Listed \ gone \subseteq Listed' PROVE WalkInv'
<1>1. CASE walkLost' BY <1>1 DEF WalkInv, Erased
<1>2. CASE ~walkLost'
  <2>1. ~walkLost /\ walkOwed' = walkOwed \ gone /\ walkAt' = walkAt BY <1>2 DEF Erased
  <2> QED BY <2>1 DEF WalkInv
<1> QED BY <1>1, <1>2

LEMMA BroadcastStepKeepsWalk ==
  ASSUME SocketInv, WalkInv, BroadcastStep
  PROVE  /\ WalkInv'
         /\ walkAt' = NoFd => walkOwed' = {}
<1>1. /\ walkAt # NoFd /\ ~walkLost /\ walkAt \in Nat
      /\ walkOwed' = walkOwed \ {walkAt}
      /\ walkAt' = First(After(walkAt))
      /\ walkLost' = walkLost /\ Listed' = Listed
      /\ Listed \subseteq Nat
  BY FdsAssumption DEF WalkInv, BroadcastStep, poolVars, Listed, SocketInv
<1>2. walkOwed' \subseteq After(walkAt)
  <2> SUFFICES ASSUME NEW x \in walkOwed' PROVE x \in After(walkAt) OBVIOUS
  <2>1. x \in Listed /\ x \in Nat /\ walkAt <= x /\ x # walkAt BY <1>1 DEF WalkInv
  <2>2. walkAt < x BY <1>1, <2>1
  <2> QED BY <2>1, <2>2 DEF After
<1>3. After(walkAt) \subseteq Nat /\ After(walkAt) \subseteq Listed BY <1>1 DEF After
<1>4. CASE After(walkAt) = {} /\ walkAt' = NoFd
  BY <1>1, <1>2, <1>4 DEF WalkInv
<1>5. CASE walkAt' \in After(walkAt) /\ \A y \in After(walkAt) : walkAt' <= y
  <2>1. walkAt' \in Nat /\ walkAt' # NoFd BY <1>3, <1>5 DEF NoFd
  <2> QED BY <1>1, <1>2, <1>3, <1>5, <2>1 DEF WalkInv
<1> QED BY <1>1, <1>3, <1>4, <1>5, FirstIsLeast

LEMMA WalkInductive == HttpSpec => []WalkInv
<1>1. HttpInit => WalkInv BY DEF HttpInit, WalkInv
<1>2. ASSUME SocketInv, WalkInv, [HttpNext]_httpVars PROVE WalkInv'
  <2>1. CASE UNCHANGED httpVars
    BY <1>2, <2>1 DEF httpVars, walkVars, poolVars, WalkInv, Listed
  <2>2. CASE ClearAtStart \/ CleanAtStop
    BY <1>2, <2>2, ErasedKeepsWalk DEF ClearAtStart, CleanAtStop
  <2>3. CASE EraseSession
    <3>1. Listed \ {handler.fd} \subseteq Listed' /\ Erased({handler.fd})
      BY <2>3 DEF EraseSession, EraseFd, Listed
    <3> QED BY <1>2, <3>1, ErasedKeepsWalk
  <2>4. CASE InsertSession \/ PushSlot
    <3>1. Listed \subseteq Listed' /\ UNCHANGED walkVars
      BY <2>4 DEF InsertSession, PushSlot, SetSlot, Listed
    <3> QED BY <1>2, <3>1 DEF walkVars, WalkInv
  <2>5. CASE StartServer \/ RefillAtStart \/ ResetAtStart \/ StopHttpd \/ PopSlot
               \/ \E fd \in Fds : Accept(fd) \/ Break(fd) \/ Handshake(fd) \/ CloseFrame(fd)
    <3>1. UNCHANGED <<fdMap, walkVars>>
      BY <2>5 DEF StartServer, RefillAtStart, ResetAtStart, StopHttpd, PopSlot, Accept, Break,
                  Handshake, CloseFrame, poolVars
    <3> QED BY <1>2, <3>1 DEF walkVars, WalkInv, Listed
  <2>6. CASE BeginBroadcast
    <3>1. /\ walkAt' = First(Listed) /\ walkOwed' = Listed /\ Listed' = Listed
          /\ Listed \subseteq Nat
      BY <1>2, <2>6, FdsAssumption DEF BeginBroadcast, poolVars, Listed, SocketInv
    <3> QED BY <3>1, FirstIsLeast DEF WalkInv
  <2>7. CASE BroadcastStep BY <1>2, <2>7, BroadcastStepKeepsWalk
  <2>8. CASE BroadcastAstray
    <3>1. After(walkAt) \subseteq Nat
      BY <1>2, FdsAssumption DEF After, SocketInv
    <3> QED BY <1>2, <2>8, <3>1 DEF BroadcastAstray, WalkInv
  <2> QED BY <1>2, <2>1, <2>2, <2>3, <2>4, <2>5, <2>6, <2>7, <2>8 DEF HttpNext
<1> QED BY <1>1, <1>2, SocketInductive, PTL DEF HttpSpec

\* For any number of clients a broadcast reaches everybody who is in the pool from its
\* beginning to its end, unless the entry it stands on is erased.
THEOREM ServerBroadcastReachesListed == HttpSpec => BroadcastReachesListed
<1> DEFINE Reaches == walkAt # NoFd /\ walkAt' = NoFd /\ ~walkLost => walkOwed' = {}
<1>1. ASSUME SocketInv, WalkInv, [HttpNext]_httpVars PROVE [Reaches]_httpVars
  <2>1. CASE BroadcastStep BY <1>1, <2>1, BroadcastStepKeepsWalk
  <2>2. CASE BroadcastAstray BY <2>2 DEF BroadcastAstray
  <2>3. CASE BeginBroadcast BY <2>3 DEF BeginBroadcast
  <2>4. ASSUME ~BroadcastStep, ~BroadcastAstray, ~BeginBroadcast, HttpNext
        PROVE  walkAt' = walkAt
    BY <2>4 DEF HttpNext, StartServer, ClearAtStart, RefillAtStart, ResetAtStart, StopHttpd,
                CleanAtStop, Accept, Break, Handshake, CloseFrame, PopSlot, InsertSession,
                PushSlot, EraseSession, Erased, walkVars
  <2> QED BY <1>1, <2>1, <2>2, <2>3, <2>4
<1>2. HttpSpec => [][Reaches]_httpVars
  BY <1>1, SocketInductive, WalkInductive, PTL DEF HttpSpec
<1> QED BY <1>2 DEF BroadcastReachesListed

-----------------------------------------------------------------------------
(* Commands and their answers (CmdEngine).  The invariant: the commands    *)
(* fall into disjoint groups, those under way are in one, and what a       *)
(* command or a queued answer will read from a shared buffer is what its   *)
(* own group brought.                                                      *)

Stages == {"idle", "exec", "text"}
Job == [id : Id \ {0}, from : {"text", "kept", "stack"}]

WorkType == [id : Id, stage : Stages, does : {"none", "update", "hostname", "set", "answer"},
             from : {"none", "text", "kept", "stack"}, own : BOOLEAN]

Types ==
    /\ work \in [Task -> WorkType]
    /\ \A t \in Task : /\ work[t].stage = "idle" <=> work[t].id = 0
                       /\ work[t].does = "answer" => work[t].from # "none"
    /\ jobs \in Seq(Job)
    /\ count \in 0 .. MaxCommands
    /\ rivals \in [Id -> SUBSET Id]
    /\ tail \in [Id -> Id]
    /\ last.id \in 0 .. count

\* Groups are disjoint, and made of messages that have come.
Groups ==
    \A c \in Id :
        /\ rivals[c] \subseteq 1 .. count
        /\ rivals[c] # {} => c \in rivals[c]
        /\ \A d \in rivals[c] : rivals[d] = rivals[c]

\* What is under way is one group.
OneGroup ==
    /\ \A a \in UnderWay \ {0} : a \in rivals[a]
    /\ \A a, b \in UnderWay \ {0} : rivals[a] = rivals[b]

\* The buffers hold what concerns those who will read them.
Buffers ==
    /\ \A t \in Task : work[t].stage = "exec" /\ ~work[t].own => cmdBuf \in DataOf(work[t].id)
    /\ \A t \in Task : work[t].stage = "text" /\ (work[t].does = "hostname" \/ work[t].from = "text")
                         => strBuf \in DataOf(work[t].id)
    /\ \A n \in DOMAIN jobs : jobs[n].from = "text" => strBuf \in DataOf(jobs[n].id)

EngineInv == Types /\ Groups /\ OneGroup /\ Buffers /\ OwnData

LEMMA JobsAreJobs ==
  ASSUME Types PROVE \A n \in DOMAIN jobs : jobs[n] \in Job
BY DEF Types

\* The same of the next state, where tail and rivals have their new values.
DataAfter(id) == UNION {{c, tail'[c]} : c \in {id} \cup rivals'[id]}

BuffersAfter ==
    /\ \A t \in Task : work'[t].stage = "exec" /\ ~work'[t].own => cmdBuf' \in DataAfter(work'[t].id)
    /\ \A t \in Task : work'[t].stage = "text" /\ (work'[t].does = "hostname" \/ work'[t].from = "text")
                         => strBuf' \in DataAfter(work'[t].id)
    /\ \A n \in DOMAIN jobs' : jobs'[n].from = "text" => strBuf' \in DataAfter(jobs'[n].id)

LEMMA AfterIsNext ==
  /\ BuffersAfter => Buffers'
  /\ last'.shown \in DataAfter(last'.id) => OwnData'
BY DEF BuffersAfter, DataAfter, Buffers, DataOf, OwnData

LEMMA DataStays ==
  ASSUME UNCHANGED <<tail, rivals>> PROVE \A c : DataAfter(c) = DataOf(c)
BY DEF DataAfter, DataOf

\* What is under way reads the data of the same group.
LEMMA OneData ==
  ASSUME OneGroup, NEW a \in UnderWay \ {0}, NEW b \in UnderWay \ {0}
  PROVE  DataOf(a) = DataOf(b)
<1>1. a \in rivals[a] /\ b \in rivals[b] /\ rivals[a] = rivals[b] BY DEF OneGroup
<1>2. {a} \cup rivals[a] = {b} \cup rivals[b] BY <1>1
<1> QED BY <1>2 DEF DataOf

LEMMA UnderWayIsId ==
  ASSUME Types PROVE UnderWay \subseteq Id
<1>1. \A t \in Task : work[t].id \in Id BY DEF Types, WorkType
<1>2. \A n \in DOMAIN jobs : jobs[n].id \in Id BY JobsAreJobs DEF Job
<1> QED BY <1>1, <1>2 DEF UnderWay

LEMMA UnderWayHasCome ==
  ASSUME Types, Groups, OneGroup PROVE UnderWay \subseteq 0 .. count
<1>1. \A a \in UnderWay \ {0} : a \in Id /\ a \in rivals[a] BY UnderWayIsId DEF OneGroup
<1>2. \A a \in UnderWay \ {0} : a \in 1 .. count BY <1>1 DEF Groups
<1> QED BY <1>2 DEF Types

\* A new message joins the group of those under way; the groups stay disjoint, and none
\* loses a member.
LEMMA MeetsJoins ==
  ASSUME Types, Groups, OneGroup, count < MaxCommands, Meets(count + 1)
  PROVE  /\ rivals' \in [Id -> SUBSET Id]
         /\ \A c \in Id : /\ rivals[c] \subseteq rivals'[c]
                          /\ rivals'[c] \subseteq 1 .. count + 1
                          /\ rivals'[c] # {} => c \in rivals'[c]
                          /\ \A d \in rivals'[c] : rivals'[d] = rivals'[c]
         /\ count + 1 \in rivals'[count + 1]
         /\ \A a \in UnderWay \ {0} : rivals'[a] = rivals'[count + 1]
<1> DEFINE group == {count + 1} \cup UNION {rivals[c] \cup {c} : c \in UnderWay \ {0}}
<1>1. rivals' = [c \in Id |-> IF c \in group THEN group ELSE rivals[c]]
  BY DEF Meets
<1>2. count \in Nat /\ MaxCommands \in Nat /\ count + 1 \in Id /\ 0 \notin 1 .. count + 1
  BY EngineAssumption DEF Types, Id
<1>3. UnderWay \subseteq Id BY UnderWayIsId
<1>4. \A a \in UnderWay \ {0} : a \in rivals[a] /\ rivals[a] \subseteq group /\ a \in group
  BY DEF OneGroup
<1>5. \A c \in group : c = count + 1 \/ \E a \in UnderWay \ {0} : c \in rivals[a]
  BY <1>4
<1>6. group \subseteq 1 .. count + 1
  <2>1. \A a \in UnderWay \ {0} : rivals[a] \subseteq 1 .. count BY <1>3 DEF Groups
  <2>2. 1 .. count \subseteq 1 .. count + 1 /\ count + 1 \in 1 .. count + 1 BY <1>2
  <2>3. \A c \in group : c \in 1 .. count + 1 BY <1>5, <2>1, <2>2
  <2> QED BY <2>3
<1>7. \A c \in Id : rivals[c] \subseteq 1 .. count /\ 1 .. count \subseteq 1 .. count + 1
                    /\ count + 1 \notin rivals[c]
  BY <1>2 DEF Groups
<1>8. ASSUME NEW c \in group \cap Id PROVE rivals[c] \subseteq group
  <2>1. CASE c = count + 1
    <3>1. rivals[c] = {} BY <1>7, <2>1 DEF Groups
    <3> QED BY <3>1
  <2>2. CASE \E a \in UnderWay \ {0} : c \in rivals[a]
    BY <1>3, <1>4, <2>2 DEF Groups
  <2> QED BY <1>5, <2>1, <2>2
\* A group that is not this one has no member in it.
<1>9. ASSUME NEW c \in Id \ group, NEW d \in rivals[c] PROVE d \notin group
  <2>1. SUFFICES ASSUME d \in group PROVE FALSE OBVIOUS
  <2>2. d # count + 1 /\ d \in Id BY <1>7, <1>6, <2>1 DEF Types
  <2>3. PICK a \in UnderWay \ {0} : d \in rivals[a] BY <1>5, <2>1, <2>2
  <2>4. rivals[a] = rivals[c] /\ c \in rivals[c] BY <1>3, <2>3 DEF Groups
  <2> QED BY <1>4, <2>4
<1> HIDE DEF group
<1>10. group \subseteq Id /\ count + 1 \in group
  <2>1. count + 1 \in group BY DEF group
  <2> QED BY <1>2, <1>6, <2>1, EngineAssumption DEF Id
<1>11. rivals' \in [Id -> SUBSET Id] BY <1>1, <1>10 DEF Types
<1>12. ASSUME NEW c \in Id
       PROVE  /\ rivals[c] \subseteq rivals'[c]
              /\ rivals'[c] \subseteq 1 .. count + 1
              /\ rivals'[c] # {} => c \in rivals'[c]
              /\ \A d \in rivals'[c] : rivals'[d] = rivals'[c]
  <2>1. CASE c \in group
    <3>1. rivals'[c] = group BY <1>1, <2>1
    <3>2. \A d \in group : rivals'[d] = group BY <1>1, <1>10
    <3> QED BY <1>6, <1>8, <2>1, <3>1, <3>2
  <2>2. CASE c \notin group
    <3>1. rivals'[c] = rivals[c] BY <1>1, <2>2
    <3>2. \A d \in rivals[c] : d \in Id /\ rivals'[d] = rivals[d]
      BY <1>1, <1>9, <2>2 DEF Types
    <3> QED BY <1>7, <3>1, <3>2 DEF Groups
  <2> QED BY <2>1, <2>2
<1>13. count + 1 \in rivals'[count + 1] BY <1>1, <1>2, <1>10
<1>14. \A a \in UnderWay \ {0} : rivals'[a] = rivals'[count + 1]
  BY <1>1, <1>2, <1>3, <1>4, <1>10
<1> QED BY <1>11, <1>12, <1>13, <1>14

-----------------------------------------------------------------------------
(* Commands that come.                                                     *)

\* Every argument a command will read has been read from its message.
LEMMA ParsedIsWritten ==
  ASSUME NEW key, NEW values, Parsed(key, values), key \in WithArgs
  PROVE  WritesArgs(key, values)
BY DEF Parsed, WritesArgs, WritesEarly

LEMMA CommandKinds ==
  ASSUME NEW key, NEW fmt
  PROVE  /\ Does(key, fmt) \in {"none", "update", "hostname", "set", "answer"}
         /\ Source(key, fmt) \in {"none", "text", "kept", "stack"}
         /\ Does(key, fmt) = "answer" => Source(key, fmt) # "none"
<1>1. Source(key, fmt) \in {"none", "text", "kept", "stack"} BY DEF Source
<1> QED BY <1>1 DEF Does

\* A message that comes, whatever the command does with it.
LEMMA MessageKeeps ==
  ASSUME EngineInv, NEW t \in Task, NEW does, NEW from, NEW own \in BOOLEAN,
         does \in {"none", "update", "hostname", "set", "answer"},
         from \in {"none", "text", "kept", "stack"},
         does = "answer" => from # "none",
         work[t] = Idle, count < MaxCommands, count' = count + 1,
         Meets(count + 1), Start(t, does, from, own),
         tail' \in [Id -> Id], \A c \in Id \ {count + 1} : tail'[c] = tail[c],
         cmdBuf' = tail'[count + 1] \/ (cmdBuf' = cmdBuf /\ (does = "none" \/ own)),
         UNCHANGED <<strBuf, jobs, last>>
  PROVE  EngineInv'
<1>1. Types /\ Groups /\ OneGroup /\ Buffers /\ OwnData BY DEF EngineInv
<1>2. count \in Nat /\ count + 1 \in Id \ {0} /\ count + 1 \in 0 .. MaxCommands
  BY <1>1, EngineAssumption DEF Types, Id
<1> DEFINE new == IF does = "none" THEN Idle
                  ELSE [id |-> count + 1, stage |-> "exec", does |-> does,
                        from |-> from, own |-> own]
<1>3. work' = [work EXCEPT ![t] = new] BY DEF Start
<1>4. new \in WorkType /\ (new.stage = "idle" <=> new.id = 0)
      /\ (new.does = "answer" => new.from # "none")
      /\ new.stage # "text" /\ new.id \in {0, count + 1}
  <2>1. CASE does = "none"
    <3>1. new = Idle BY <2>1
    <3> HIDE DEF new
    <3>2. 0 \in Id BY EngineAssumption DEF Id
    <3> QED BY <3>1, <3>2 DEF Idle, WorkType, Stages
  <2>2. CASE does # "none"
    <3>1. /\ new.id = count + 1 /\ new.stage = "exec" /\ new.does = does
          /\ new.from = from /\ new.own = own
          /\ new = [id |-> new.id, stage |-> new.stage, does |-> new.does,
                    from |-> new.from, own |-> new.own]
      BY <2>2
    <3> HIDE DEF new
    <3>2. new \in WorkType BY <1>2, <3>1 DEF WorkType, Stages
    <3> QED BY <1>2, <3>1, <3>2
  <2> QED BY <2>1, <2>2
<1>5. /\ rivals' \in [Id -> SUBSET Id]
      /\ \A c \in Id : rivals[c] \subseteq rivals'[c]
      /\ count + 1 \in rivals'[count + 1]
      /\ \A a \in UnderWay \ {0} : rivals'[a] = rivals'[count + 1]
  BY <1>1, MeetsJoins
<1>6. Groups' BY <1>1, MeetsJoins DEF Groups
<1>7. work'[t] = new /\ \A u \in Task \ {t} : work'[u] = work[u]
  BY <1>1, <1>3 DEF Types
<1> HIDE DEF new
<1>8. Types'
  <2>1. last'.id \in 0 .. count' BY <1>1, <1>2 DEF Types
  <2> QED BY <1>1, <1>2, <1>3, <1>4, <1>5, <1>7, <2>1 DEF Types
<1>9. UnderWay' \subseteq UnderWay \cup {0, count + 1}
  BY <1>4, <1>7 DEF UnderWay
<1>10. UnderWay \subseteq Id BY <1>1, UnderWayIsId
<1>11. OneGroup'
  <2>1. \A a \in UnderWay' \ {0} : rivals'[a] = rivals'[count + 1] BY <1>5, <1>9
  <2>2. \A a \in UnderWay' \ {0} : a \in rivals'[a]
    BY <1>1, <1>5, <1>9, <1>10 DEF OneGroup
  <2> QED BY <2>1, <2>2 DEF OneGroup
\* The data of a message that was there stay with its group.
<1>17. ASSUME NEW c \in Id \ {count + 1} PROVE DataOf(c) \subseteq DataAfter(c)
  <2>1. rivals[c] \subseteq Id \ {count + 1} BY <1>1, <1>2 DEF Groups, Types
  <2>2. \A d \in {c} \cup rivals[c] : tail'[d] = tail[d] /\ d \in {c} \cup rivals'[c]
    BY <1>5, <2>1
  <2> QED BY <2>2 DEF DataOf, DataAfter
<1>18. \A c \in UnderWay : c \in Id \ {count + 1}
  <2>1. \A a \in UnderWay \ {0} : a \in 1 .. count BY <1>1, <1>10 DEF OneGroup, Groups
  <2> QED BY <1>2, <1>10, <2>1
<1>12. ASSUME NEW u \in Task, work'[u].stage = "exec", ~work'[u].own
       PROVE  cmdBuf' \in DataAfter(work'[u].id)
  <2>1. CASE u = t
    <3>1. does # "none" /\ ~own /\ work'[u].id = count + 1
      BY <1>7, <1>12, <2>1 DEF new, Idle
    <3>2. cmdBuf' = tail'[count + 1] BY <3>1
    <3> QED BY <3>1, <3>2 DEF DataAfter
  <2>2. CASE u # t
    <3>1. work[u].stage = "exec" /\ ~work[u].own /\ work'[u] = work[u] BY <1>7, <1>12, <2>2
    <3>2. cmdBuf \in DataOf(work[u].id) BY <1>1, <3>1 DEF Buffers
    <3>3. work[u].id \in UnderWay \ {0} BY <1>1, <3>1 DEF UnderWay, Types
    <3>4. CASE cmdBuf' = cmdBuf BY <1>17, <1>18, <3>1, <3>2, <3>3, <3>4
    <3>5. CASE cmdBuf' = tail'[count + 1]
      <4>1. count + 1 \in rivals'[work[u].id] BY <1>5, <3>3
      <4> QED BY <3>1, <3>5, <4>1 DEF DataAfter
    <3> QED BY <3>4, <3>5
  <2> QED BY <2>1, <2>2
<1>13. ASSUME NEW u \in Task, work'[u].stage = "text",
              work'[u].does = "hostname" \/ work'[u].from = "text"
       PROVE  strBuf' \in DataAfter(work'[u].id)
  <2>1. u # t /\ work'[u] = work[u] BY <1>4, <1>7, <1>13
  <2>2. strBuf \in DataOf(work[u].id) BY <1>1, <1>13, <2>1 DEF Buffers
  <2>3. work[u].id \in UnderWay BY DEF UnderWay
  <2>4. strBuf \in DataAfter(work[u].id) BY <1>17, <1>18, <2>2, <2>3
  <2> QED BY <2>1, <2>4
<1>14. ASSUME NEW n \in DOMAIN jobs', jobs'[n].from = "text"
       PROVE  strBuf' \in DataAfter(jobs'[n].id)
  <2>1. jobs[n].id \in UnderWay BY DEF UnderWay
  <2>2. strBuf \in DataOf(jobs[n].id) BY <1>1, <1>14 DEF Buffers
  <2>3. strBuf \in DataAfter(jobs[n].id) BY <1>17, <1>18, <2>1, <2>2
  <2> QED BY <2>3
<1>15. Buffers' BY <1>12, <1>13, <1>14, AfterIsNext DEF BuffersAfter
<1>16. OwnData'
  <2>1. last.id \in Id \ {count + 1}
    <3>1. last.id \in 0 .. count /\ count \in 0 .. MaxCommands BY <1>1 DEF Types
    <3>2. \A k \in 0 .. count : k \in 0 .. MaxCommands /\ k # count + 1
      BY <1>2, <3>1, EngineAssumption
    <3> QED BY <3>1, <3>2 DEF Id
  <2>2. last.shown \in DataAfter(last.id) BY <1>1, <1>17, <2>1 DEF OwnData
  <2> QED BY <2>2, AfterIsNext
<1> QED BY <1>6, <1>8, <1>11, <1>15, <1>16 DEF EngineInv

\* A message is whole, or what stands behind its end is an earlier one's.
LEMMA TailsKept ==
  ASSUME Types, count < MaxCommands, NEW t, NEW early, MayEnd(t, early)
  PROVE  tail' \in [Id -> Id] /\ \A c \in Id \ {count + 1} : tail'[c] = tail[c]
<1>1. tail \in [Id -> Id] /\ 0 .. count \subseteq Id
  BY EngineAssumption DEF Types, Id
<1>2. CASE tail' = tail BY <1>1, <1>2
<1>3. CASE \E c \in 0 .. count : tail' = [tail EXCEPT ![count + 1] = c]
  <2>1. PICK c \in 0 .. count : tail' = [tail EXCEPT ![count + 1] = c] BY <1>3
  <2>2. c \in Id BY <1>1
  <2> QED BY <1>1, <2>1, <2>2
<1> QED BY <1>2, <1>3 DEF MayEnd

LEMMA TextMessageKeeps ==
  ASSUME EngineInv, NEW t \in Task, NEW key, NEW values, NEW fmt,
         TextMessage(t, key, values, fmt)
  PROVE  EngineInv'
<1> DEFINE does == IF Parsed(key, values) THEN Does(key, fmt) ELSE "none"
           from == Source(key, fmt)
           own == key \notin WithArgs
<1>1. /\ does \in {"none", "update", "hostname", "set", "answer"}
      /\ from \in {"none", "text", "kept", "stack"}
      /\ does = "answer" => from # "none"
      /\ own \in BOOLEAN
  BY CommandKinds
<1>2. /\ work[t] = Idle /\ count < MaxCommands /\ count' = count + 1
      /\ Meets(count + 1) /\ Start(t, does, from, own)
      /\ cmdBuf' = IF WritesArgs(key, values) THEN tail'[count + 1] ELSE cmdBuf
      /\ UNCHANGED <<strBuf, jobs, last>>
  BY DEF TextMessage, Takes
<1>4. tail' \in [Id -> Id] /\ \A c \in Id \ {count + 1} : tail'[c] = tail[c]
  BY <1>2, TailsKept DEF TextMessage, EngineInv
<1>3. cmdBuf' = tail'[count + 1] \/ (cmdBuf' = cmdBuf /\ (does = "none" \/ own))
  BY <1>2, ParsedIsWritten
<1> HIDE DEF does, from, own
<1> QED BY <1>1, <1>2, <1>3, <1>4, MessageKeeps

LEMMA BinaryMessageKeeps ==
  ASSUME EngineInv, NEW key, BinaryMessage(key) PROVE EngineInv'
<1>1. /\ work["wsc"] = Idle /\ count < MaxCommands /\ count' = count + 1
      /\ Meets(count + 1) /\ Start("wsc", Does(key, "binary"), Source(key, "binary"), TRUE)
      /\ UNCHANGED <<cmdBuf, strBuf, jobs, last>>
  BY DEF BinaryMessage, Takes
<1>2. tail' \in [Id -> Id] /\ \A c \in Id \ {count + 1} : tail'[c] = tail[c]
  BY <1>1, TailsKept DEF BinaryMessage, EngineInv
<1> QED BY <1>1, <1>2, CommandKinds, MessageKeeps DEF Task

-----------------------------------------------------------------------------
(* Commands that are executed.                                             *)

\* A step that starts nothing keeps the groups.
LEMMA GroupsKept ==
  ASSUME EngineInv, UNCHANGED <<rivals, tail, count>>, UnderWay' \subseteq UnderWay \cup {0}
  PROVE  Groups' /\ OneGroup'
BY DEF EngineInv, Groups, OneGroup

LEMMA ArgsAreOwn ==
  ASSUME EngineInv, NEW t \in Task, work[t].stage = "exec"
  PROVE  /\ work[t].id \in UnderWay \ {0} /\ work[t].id \in Id
         /\ work[t].id \in 0 .. count
         /\ ArgsOf(t) \in DataOf(work[t].id)
<1>1. work[t].id \in UnderWay \ {0} /\ work[t].id \in Id
  BY DEF EngineInv, Types, UnderWay, WorkType
<1>2. tail[work[t].id] \in DataOf(work[t].id) BY DEF DataOf
<1>3. work[t].id \in 0 .. count BY <1>1, UnderWayHasCome DEF EngineInv
<1> QED BY <1>1, <1>2, <1>3 DEF EngineInv, Buffers, ArgsOf

\* A command that is through leaves nothing behind.
LEMMA FinishKeeps ==
  ASSUME EngineInv, NEW t \in Task, Finish(t), UNCHANGED <<cmdBuf, strBuf, jobs, count, tail, rivals>>,
         last'.id \in 0 .. count, OwnData'
  PROVE  EngineInv'
<1>1. work'[t] = Idle /\ \A u \in Task \ {t} : work'[u] = work[u]
  BY DEF Finish, EngineInv, Types
<1>2. Idle \in WorkType /\ Idle.stage = "idle" /\ Idle.id = 0 /\ Idle.does = "none"
  <2>1. 0 \in Id BY EngineAssumption DEF Id
  <2> QED BY <2>1 DEF Idle, WorkType, Stages
<1>3. Types' BY <1>1, <1>2 DEF EngineInv, Types, Finish
<1>4. UnderWay' \subseteq UnderWay \cup {0} BY <1>1, <1>2 DEF UnderWay
<1>5. Buffers'
  <2>1. BuffersAfter BY <1>1, <1>2, DataStays DEF EngineInv, Buffers, BuffersAfter
  <2> QED BY <2>1, AfterIsNext
<1> QED BY <1>3, <1>4, <1>5, GroupsKept DEF EngineInv

\* The text of one command overwrites that of another only in its own group.
LEMMA TextKeeps ==
  ASSUME EngineInv, NEW t \in Task, work[t].stage = "exec",
         work' = [work EXCEPT ![t].stage = "text"],
         strBuf' = ArgsOf(t) \/ (strBuf' = strBuf /\ work[t].does = "answer"
                                   /\ work[t].from # "text"),
         UNCHANGED <<cmdBuf, jobs, count, tail, rivals, last>>
  PROVE  EngineInv'
<1>1. /\ work'[t] = [work[t] EXCEPT !.stage = "text"]
      /\ \A u \in Task \ {t} : work'[u] = work[u]
  BY DEF EngineInv, Types
<1>2. /\ work[t] \in WorkType
      /\ work'[t] \in WorkType /\ work'[t].id = work[t].id /\ work'[t].does = work[t].does
      /\ work'[t].from = work[t].from /\ work'[t].stage = "text"
  BY <1>1 DEF EngineInv, Types, WorkType, Stages
<1>3. work[t].id \in UnderWay \ {0} /\ ArgsOf(t) \in DataOf(work[t].id) BY ArgsAreOwn
<1>4. Types' BY <1>1, <1>2, <1>3 DEF EngineInv, Types
<1>5. UnderWay' = UnderWay BY <1>1, <1>2 DEF UnderWay
<1>6. \A a \in UnderWay \ {0} : DataOf(a) = DataOf(work[t].id)
  BY <1>3, OneData DEF EngineInv
<1>11. \A c : DataAfter(c) = DataOf(c) BY DataStays
<1>7. \A u \in Task : work[u].stage = "text" => work[u].id \in UnderWay \ {0}
  BY DEF EngineInv, Types, UnderWay
<1>8. \A n \in DOMAIN jobs : jobs[n].id \in UnderWay \ {0}
  BY JobsAreJobs DEF EngineInv, Job, UnderWay
<1>9. Buffers'
  <2>1. \A u \in Task : work'[u].stage = "exec" => work'[u] = work[u]
    BY <1>1, <1>2
  <2>2. CASE strBuf' = ArgsOf(t)
    <3>1. BuffersAfter
      BY <1>1, <1>2, <1>3, <1>6, <1>7, <1>8, <1>11, <2>1, <2>2 DEF EngineInv, Buffers, BuffersAfter
    <3> QED BY <3>1, AfterIsNext
  <2>3. CASE strBuf' = strBuf /\ work[t].does = "answer" /\ work[t].from # "text"
    <3>1. BuffersAfter
      BY <1>1, <1>2, <1>11, <2>1, <2>3 DEF EngineInv, Buffers, BuffersAfter
    <3> QED BY <3>1, AfterIsNext
  <2> QED BY <2>2, <2>3
<1>10. OwnData' BY <1>11, AfterIsNext DEF EngineInv, OwnData
<1> QED BY <1>4, <1>5, <1>9, <1>10, GroupsKept DEF EngineInv

LEMMA ReplyKeeps ==
  ASSUME EngineInv, Reply PROVE EngineInv'
<1> DEFINE job == [id |-> work["httpd"].id, from |-> work["httpd"].from]
<1>1. /\ work["httpd"].stage = "text" /\ work["httpd"].does = "answer" /\ Finish("httpd")
      /\ jobs' = Append(jobs, job) \/ jobs' = jobs
      /\ UNCHANGED <<cmdBuf, strBuf, count, tail, rivals, last>> /\ "httpd" \in Task
  BY DEF Reply, At, Task
<1>2. job \in Job /\ work["httpd"].id \in UnderWay
  BY <1>1 DEF EngineInv, Types, WorkType, Job, UnderWay
<1>3. /\ work' = [work EXCEPT !["httpd"] = Idle]
      /\ \A u \in Task : work'[u] = IF u = "httpd" THEN Idle ELSE work[u]
  BY <1>1 DEF Finish, EngineInv, Types
<1>4. job.from = "text" => strBuf \in DataOf(job.id)
  BY <1>1 DEF EngineInv, Buffers
<1> HIDE DEF job
<1>5. jobs \in Seq(Job) BY DEF EngineInv, Types
<1>6. jobs' \in Seq(Job) /\ \A n \in DOMAIN jobs' : jobs'[n] = job
                                \/ (n \in DOMAIN jobs /\ jobs'[n] = jobs[n])
  BY <1>1, <1>2, <1>5
<1>7. Idle \in WorkType /\ Idle.stage = "idle" /\ Idle.id = 0 /\ Idle.does = "none"
  <2>1. 0 \in Id BY EngineAssumption DEF Id
  <2> QED BY <2>1 DEF Idle, WorkType, Stages
<1>8. Types' BY <1>1, <1>3, <1>6, <1>7 DEF EngineInv, Types
<1>9. UnderWay' \subseteq UnderWay \cup {0}
  <2>1. job.id \in UnderWay BY <1>2 DEF job
  <2> QED BY <1>3, <1>6, <1>7, <2>1 DEF UnderWay
<1>12. \A c : DataAfter(c) = DataOf(c) BY <1>1, DataStays
<1>10. Buffers'
  <2>1. BuffersAfter BY <1>1, <1>3, <1>4, <1>6, <1>7, <1>12 DEF EngineInv, Buffers, BuffersAfter
  <2> QED BY <2>1, AfterIsNext
<1>11. OwnData' BY <1>1, <1>12, AfterIsNext DEF EngineInv, OwnData
<1> QED BY <1>1, <1>8, <1>9, <1>10, <1>11, GroupsKept DEF EngineInv

LEMMA SendJobKeeps ==
  ASSUME EngineInv, SendJob PROVE EngineInv'
<1> DEFINE job == Head(jobs)
<1>1. /\ jobs # <<>> /\ jobs' = Tail(jobs) /\ jobs \in Seq(Job)
      /\ UNCHANGED <<work, cmdBuf, strBuf, count, tail, rivals>>
  BY DEF SendJob, EngineInv, Types
<1>2. /\ job \in Job /\ 1 \in DOMAIN jobs /\ job = jobs[1]
      /\ jobs' \in Seq(Job)
      /\ \A n \in DOMAIN jobs' : n + 1 \in DOMAIN jobs /\ jobs'[n] = jobs[n + 1]
  BY <1>1
<1>3. job.id \in 0 .. count /\ job.id \in DataOf(job.id)
  <2>1. job.id \in UnderWay BY <1>2 DEF UnderWay
  <2> QED BY <2>1, UnderWayHasCome DEF EngineInv, DataOf
<1>8. \A c : DataAfter(c) = DataOf(c) BY <1>1, DataStays
<1>4. last'.id \in 0 .. count /\ OwnData'
  <2>1. CASE job.from = "text"
    <3>1. last' = [id |-> job.id, shown |-> strBuf] BY <2>1 DEF SendJob
    <3>2. strBuf \in DataOf(job.id) BY <1>2, <2>1 DEF EngineInv, Buffers
    <3> QED BY <1>1, <1>3, <1>8, <3>1, <3>2, AfterIsNext
  <2>2. CASE job.from = "kept"
    <3>1. last' = [id |-> job.id, shown |-> job.id] BY <2>2 DEF SendJob
    <3> QED BY <1>3, <1>8, <3>1, AfterIsNext
  <2>3. CASE job.from = "stack"
    <3>1. last' = last BY <2>3 DEF SendJob
    <3> QED BY <1>1, <1>8, <3>1, AfterIsNext DEF EngineInv, OwnData, Types
  <2> QED BY <1>2, <2>1, <2>2, <2>3 DEF Job
<1> HIDE DEF job
<1>5. Types' BY <1>1, <1>2, <1>4 DEF EngineInv, Types
<1>6. UnderWay' \subseteq UnderWay \cup {0}
  BY <1>1, <1>2 DEF UnderWay
<1>7. Buffers'
  <2>1. BuffersAfter BY <1>1, <1>2, <1>8 DEF EngineInv, Buffers, BuffersAfter
  <2> QED BY <2>1, AfterIsNext
<1> QED BY <1>1, <1>4, <1>5, <1>6, <1>7, GroupsKept DEF EngineInv

\* A boot leaves nothing under way.
LEMMA BootedIsKept ==
  ASSUME EngineInv, Booted(work', cmdBuf', strBuf', jobs', updating'),
         UNCHANGED <<count, tail, rivals, last>>
  PROVE  EngineInv'
<1>1. work' = [t \in Task |-> Idle] /\ jobs' = <<>> BY DEF Booted
<1>2. Idle \in WorkType /\ Idle.stage = "idle" /\ Idle.id = 0 /\ Idle.does = "none"
  <2>1. 0 \in Id BY EngineAssumption DEF Id
  <2> QED BY <2>1 DEF Idle, WorkType, Stages
<1>3. Types' BY <1>1, <1>2 DEF EngineInv, Types
<1>4. UnderWay' \subseteq UnderWay \cup {0} BY <1>1, <1>2 DEF UnderWay
<1>5. Buffers' BY <1>1, <1>2 DEF Buffers
<1>6. OwnData' BY DEF EngineInv, OwnData, DataOf
<1> QED BY <1>3, <1>4, <1>5, <1>6, GroupsKept DEF EngineInv

LEMMA EngineInductive == EngineSpec => []EngineInv
<1>1. EngineInit => EngineInv
  <2> SUFFICES ASSUME EngineInit PROVE EngineInv OBVIOUS
  <2>1. /\ work = [t \in Task |-> Idle] /\ jobs = <<>> /\ count = 0
        /\ tail = [id \in Id |-> id]
        /\ rivals = [id \in Id |-> {}] /\ last = [id |-> 0, shown |-> 0]
    BY DEF EngineInit, Booted
  <2>2. 0 \in Id /\ 0 \in 0 .. MaxCommands BY EngineAssumption DEF Id
  <2>3. Idle \in WorkType /\ Idle.stage = "idle" /\ Idle.id = 0 /\ Idle.does = "none"
    BY <2>2 DEF Idle, WorkType, Stages
  <2>4. Types BY <2>1, <2>2, <2>3 DEF Types
  <2>5. UnderWay \subseteq {0} BY <2>1, <2>3 DEF UnderWay
  <2>6. OwnData
    <3>1. last.id = 0 /\ last.shown = 0 BY <2>1
    <3>2. 0 \in DataOf(0) BY DEF DataOf
    <3> QED BY <3>1, <3>2 DEF OwnData
  <2> QED BY <2>1, <2>3, <2>4, <2>5, <2>6 DEF EngineInv, Groups, OneGroup, Buffers
<1>2. ASSUME EngineInv, [EngineNext]_engineVars PROVE EngineInv'
  <2>1. ASSUME UNCHANGED <<work, cmdBuf, strBuf, jobs, count, tail, rivals, last>> PROVE EngineInv'
    BY <1>2, <2>1 DEF EngineInv, Types, Groups, OneGroup, UnderWay, Buffers, OwnData, DataOf
  <2>2. CASE UNCHANGED engineVars BY <2>1, <2>2 DEF engineVars
  <2>3. CASE OnWebsocketFrame \/ OnRxData
    BY <1>2, <2>3, TextMessageKeeps, BinaryMessageKeeps DEF OnWebsocketFrame, OnRxData, Task
  <2>4. ASSUME NEW t \in Task, SetCommand(t) PROVE EngineInv'
    <3>1. work[t].stage = "exec" /\ Finish(t) /\ last' = [id |-> work[t].id, shown |-> ArgsOf(t)]
          /\ UNCHANGED <<cmdBuf, strBuf, jobs, count, tail, rivals>>
      BY <2>4 DEF SetCommand, At
    <3>2. \A c : DataAfter(c) = DataOf(c) BY <3>1, DataStays
    <3>3. last'.id \in 0 .. count /\ OwnData' BY <1>2, <3>1, <3>2, ArgsAreOwn, AfterIsNext
    <3> QED BY <1>2, <3>1, <3>3, FinishKeeps
  <2>5. ASSUME NEW t \in Task, HostnameText(t) PROVE EngineInv'
    BY <1>2, <2>5, TextKeeps DEF HostnameText, At
  <2>6. ASSUME NEW t \in Task, SetHostname(t) PROVE EngineInv'
    <3>1. /\ work[t].stage = "text" /\ work[t].does = "hostname" /\ Finish(t)
          /\ last' = [id |-> work[t].id, shown |-> strBuf]
          /\ UNCHANGED <<cmdBuf, strBuf, jobs, count, tail, rivals>>
      BY <2>6 DEF SetHostname, At
    <3>2. strBuf \in DataOf(work[t].id) BY <1>2, <3>1 DEF EngineInv, Buffers
    <3>4. work[t].id \in 0 .. count BY <1>2, UnderWayHasCome DEF EngineInv, UnderWay
    <3>5. \A c : DataAfter(c) = DataOf(c) BY <3>1, DataStays
    <3>3. last'.id \in 0 .. count /\ OwnData' BY <3>1, <3>2, <3>4, <3>5, AfterIsNext
    <3> QED BY <1>2, <3>1, <3>3, FinishKeeps
  <2>7. ASSUME NEW t \in Task, UpdateFirmware(t) PROVE EngineInv'
    <3>1. Finish(t) /\ UNCHANGED <<cmdBuf, strBuf, jobs, count, tail, rivals, last>>
      BY <2>7 DEF UpdateFirmware
    <3>2. last'.id \in 0 .. count /\ OwnData' BY <1>2, <3>1 DEF EngineInv, OwnData, Types, DataOf
    <3> QED BY <1>2, <3>1, <3>2, FinishKeeps
  <2>8. ASSUME NEW t \in Task, AnswerText(t) PROVE EngineInv'
    BY <1>2, <2>8, TextKeeps DEF AnswerText, At
  <2>9. CASE ReplyToNobody BY <1>2, <2>9, BootedIsKept DEF ReplyToNobody
  <2>10. CASE UpdateEnds BY <2>1, <2>10 DEF UpdateEnds
  <2> QED BY <1>2, <2>2, <2>3, <2>4, <2>5, <2>6, <2>7, <2>8, <2>9, <2>10, ReplyKeeps,
             SendJobKeeps DEF EngineNext, Execute
<1> QED BY <1>1, <1>2, PTL DEF EngineSpec

\* For any number of messages and any queue: what a command stores and what an answer shows
\* came with the command, or with one of the unbroken series of overlaps it is part of; only
\* a message of the WebSocket client that ends too early takes other bytes, those behind it.
THEOREM EngineOwnData == EngineSpec => []OwnData
<1>1. EngineInv => OwnData BY DEF EngineInv
<1> QED BY <1>1, EngineInductive, PTL
=============================================================================
