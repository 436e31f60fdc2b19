---------------------------- MODULE HttpSessions ----------------------------
(***************************************************************************)
(* HttpServer (components/MessageProtocol/HttpServer.cpp) and its pool of  *)
(* sessions.  Four tasks meet here: http_task starts the server, the       *)
(* server's own task runs the handlers and the queue of deferred sends,    *)
(* the WebSocket client's task broadcasts the codes of an update, and the  *)
(* daemon stops the server.  The socket table is the HTTP server's of      *)
(* ESP-IDF: it closes connections without telling the pool.                *)
(*                                                                         *)
(* start() empties the pool when clients may already come, so the parts of *)
(* addSession, drainSession and clean() that write are steps of their own. *)
(* A call on the std::map is one step: two that overlap leave a map with   *)
(* the effect of both, in one order or the other, or crash.                *)
(***************************************************************************)
EXTENDS SessionPool

CONSTANT MaxNumOfClients   \* constructor argument of HttpServer

ASSUME FdsAssumption == Fds \subseteq Nat
ASSUME ClientsAssumption == MaxNumOfClients \in Nat

VARIABLES server,     \* "stopped", "registered", then the writes of clean(): "cleared" (the map),
                      \* "refilled" (the stack), then "running"; "halted" (its task has ended)
          conn,       \* what each descriptor is to the server: "none", "http", "ws"
          handler,    \* where the server's task stands in addSession or drainSession
          walkAt,     \* where broadcastMessage stands in the map, or NoFd
          \* history, read by properties only
          walkOwed,   \* descriptors in the pool ever since the broadcast began, not yet sent to
          walkLost,   \* the entry the broadcast stands on was erased under it
          cut,        \* listed descriptors whose connection ended without a CLOSE frame, or
                      \* with one whose erase met the clear of start
          unlisted,   \* clients the pool had no room for, or that came before its clean()
          torn        \* the clean() of start met an addSession or drainSession under way

walkVars == <<walkAt, walkOwed, walkLost>>
httpVars == <<poolVars, walkVars, server, conn, handler, cut, unlisted, torn>>

NoFd == -1

\* next: what the handler does next; top: the index it loaded; slot: the slot it
\* loaded or popped; strayed: its iterator is that of an entry clear() freed.
Idling == [next |-> "none", fd |-> NoFd, top |-> 0, slot |-> 0, strayed |-> FALSE]

MaxOpenSockets == IF MaxNumOfClients > Capacity THEN Capacity ELSE MaxNumOfClients

Open == {fd \in Fds : conn[fd] # "none"}
Listed == DOMAIN fdMap

HttpInit ==
    /\ Init
    /\ server = "stopped"
    /\ conn = [fd \in Fds |-> "none"]
    /\ handler = Idling
    /\ walkAt = NoFd /\ walkOwed = {} /\ walkLost = FALSE
    /\ cut = {} /\ unlisted = {} /\ torn = FALSE

Cleaning == server \in {"cleared", "refilled"}
Serving == server \in {"registered", "running"} \/ Cleaning

\* What the pool's loss of descriptors gone does to a broadcast under way.
Erased(gone) ==
    /\ walkLost' = (walkLost \/ walkAt \in gone)
    /\ walkOwed' = IF walkLost' THEN {} ELSE walkOwed \ gone
    /\ UNCHANGED walkAt

-----------------------------------------------------------------------------
(* http_task and daemon_task.                                              *)

\* HttpServer::start up to the registered handlers: clients may come from here on.
StartServer ==
    /\ server = "stopped"
    /\ server' = "registered"
    /\ UNCHANGED <<poolVars, walkVars, conn, handler, cut, unlisted, torn>>

\* The clean() that follows in start: who shook hands already is forgotten.
ClearAtStart ==
    /\ server = "registered"
    /\ server' = "cleared"
    /\ ClearMap
    /\ Erased(Listed)
    /\ unlisted' = unlisted \cup (Listed \cap {fd \in Fds : conn[fd] = "ws"})
    /\ cut' = {}
    /\ torn' = (handler # Idling)
    /\ UNCHANGED <<freeSlotStack, stackTopIndex, conn, handler>>

\* The loop of _initFreeSlotStack, then its last statement.
RefillAtStart ==
    /\ server = "cleared"
    /\ server' = "refilled"
    /\ freeSlotStack' = [i \in Slots |-> i]
    /\ torn' = (torn \/ handler # Idling)
    /\ UNCHANGED <<stackTopIndex, fdMap, walkVars, conn, handler, cut, unlisted>>

ResetAtStart ==
    /\ server = "refilled"
    /\ server' = "running"
    /\ stackTopIndex' = 0
    /\ torn' = (torn \/ handler # Idling)
    /\ UNCHANGED <<freeSlotStack, fdMap, walkVars, conn, handler, cut, unlisted>>

\* HttpServer::stop: httpd_stop lets the server's task finish what it is at, ends it
\* and closes its sockets.
StopHttpd ==
    /\ server = "running" /\ handler = Idling
    /\ server' = "halted"
    /\ conn' = [fd \in Fds |-> "none"]
    /\ cut' = Listed
    /\ unlisted' = {}
    /\ UNCHANGED <<poolVars, walkVars, handler, torn>>

\* Slip: the pool is not cleaned when the server stops.
ForgetAtStop ==
    /\ server = "halted"
    /\ server' = "stopped"
    /\ UNCHANGED <<poolVars, walkVars, conn, handler, cut, unlisted, torn>>

\* The clean() of stop has the pool to itself.
CleanAtStop ==
    /\ server = "halted"
    /\ server' = "stopped"
    /\ Clean
    /\ Erased(Listed)
    /\ cut' = {}
    /\ torn' = FALSE
    /\ UNCHANGED <<conn, handler, unlisted>>

-----------------------------------------------------------------------------
(* The server's task: connections.                                         *)

\* A connection ends without a CLOSE frame; the pool is not told.
Closes(fds) ==
    /\ cut' = cut \cup (fds \cap Listed)
    /\ unlisted' = unlisted \ fds

\* The server's task does one thing at a time.
Ready == Serving /\ handler = Idling

\* accept; with all sockets in use the least recently used one is closed for it,
\* which may be any: requests in between decide.
Accept(fd) ==
    /\ Ready /\ conn[fd] = "none"
    /\ \E purged \in SUBSET Open :
         /\ IF Cardinality(Open) < MaxOpenSockets THEN purged = {} ELSE Cardinality(purged) = 1
         /\ conn' = [x \in Fds |-> IF x = fd THEN "http"
                                   ELSE IF x \in purged THEN "none" ELSE conn[x]]
         /\ Closes(purged)
    /\ UNCHANGED <<poolVars, walkVars, server, handler, torn>>

\* A connection breaks, a POST cannot be read (57), a frame cannot be read or
\* stored (107, 117, 125): the server closes the socket.
Break(fd) ==
    /\ Ready /\ conn[fd] # "none"
    /\ conn' = [conn EXCEPT ![fd] = "none"]
    /\ Closes({fd})
    /\ UNCHANGED <<poolVars, walkVars, server, handler, torn>>

\* A call finds what it looked for in the pool and loads what it will go by.
Begins(next, fd) ==
    handler' = [next |-> next, fd |-> fd, top |-> stackTopIndex,
                slot |-> freeSlotStack[stackTopIndex], strayed |-> FALSE]

\* The handler returns and the client is one of the server's, listed or not.
\* A descriptor the pool still holds from a connection that was cut serves it.
Joins(fd) ==
    /\ conn' = [conn EXCEPT ![fd] = "ws"]
    /\ cut' = cut \ {fd}

\* Slip: only a server that counts as started lists its clients.
HandshakeWhenStarted(fd) ==
    /\ Ready /\ conn[fd] = "http"
    /\ IF fd \notin Listed /\ HasFreeSlot /\ server = "running"
       THEN /\ Begins("pop", fd)
            /\ UNCHANGED <<conn, cut, unlisted>>
       ELSE /\ Joins(fd)
            /\ unlisted' = IF fd \in Listed \/ HasFreeSlot THEN unlisted ELSE unlisted \cup {fd}
            /\ UNCHANGED handler
    /\ UNCHANGED <<poolVars, walkVars, server, torn>>

\* _http_ws_handler on the handshake, addSession up to its checks.
Handshake(fd) ==
    /\ Ready /\ conn[fd] = "http"
    /\ IF fd \notin Listed /\ HasFreeSlot
       THEN /\ Begins("pop", fd)
            /\ UNCHANGED <<conn, cut, unlisted>>
       ELSE /\ Joins(fd)
            /\ unlisted' = IF fd \in Listed THEN unlisted ELSE unlisted \cup {fd}
            /\ UNCHANGED handler
    /\ torn' = (torn \/ Cleaning)
    /\ UNCHANGED <<poolVars, walkVars, server>>

\* _popFreeSlot is a load of the index, one of the slot and a store of the index;
\* what clean() wrote since the loads may be read, or overwritten.
PopSlot ==
    /\ handler.next = "pop"
    /\ \E top \in {handler.top, stackTopIndex} :
         /\ PopFreeSlot(top)
         /\ \E slot \in {handler.slot, freeSlotStack[top]} :
              handler' = [handler EXCEPT !.next = "insert", !.slot = slot]
    /\ torn' = (torn \/ Cleaning)
    /\ UNCHANGED <<fdMap, walkVars, server, conn, cut, unlisted>>

InsertSession ==
    /\ handler.next = "insert"
    /\ SetSlot(handler.fd, handler.slot)
    /\ Joins(handler.fd)
    /\ handler' = Idling
    /\ torn' = (torn \/ Cleaning)
    /\ UNCHANGED <<freeSlotStack, stackTopIndex, walkVars, server, unlisted>>

\* Slip: the CLOSE frame is logged and the session stays.
CloseFrameLogged(fd) ==
    /\ Ready /\ conn[fd] = "ws"
    /\ conn' = [conn EXCEPT ![fd] = "none"]
    /\ unlisted' = unlisted \ {fd}
    /\ UNCHANGED <<poolVars, walkVars, server, handler, cut, torn>>

\* _http_ws_handler on a CLOSE frame, drainSession up to its find; the server closes
\* the socket when the handler returns.
CloseFrame(fd) ==
    /\ Ready /\ conn[fd] = "ws"
    /\ IF fd \in Listed
       THEN /\ Begins("push", fd)
            /\ UNCHANGED <<conn, unlisted>>
       ELSE /\ conn' = [conn EXCEPT ![fd] = "none"]
            /\ unlisted' = unlisted \ {fd}
            /\ UNCHANGED handler
    /\ torn' = (torn \/ Cleaning)
    /\ UNCHANGED <<poolVars, walkVars, server, cut>>

\* operator[] puts a descriptor that was cleared away since the find back, at slot 0.
PushSlot ==
    LET fd   == handler.fd
        slot == IF fd \in Listed THEN fdMap[fd] ELSE 0
    IN /\ handler.next = "push"
       /\ SetSlot(fd, slot)
       /\ \E top \in {handler.top, stackTopIndex} : PushFreeSlot(top, slot)
       /\ handler' = [handler EXCEPT !.next = "erase", !.strayed = fd \notin Listed]
       /\ torn' = (torn \/ Cleaning)
       /\ UNCHANGED <<walkVars, server, conn, cut, unlisted>>

\* Erasing through the iterator of an entry that was freed may leave the new one.
EraseSession ==
    LET fd == handler.fd
    IN /\ handler.next = "erase"
       /\ EraseFd(fd) \/ (handler.strayed /\ UNCHANGED fdMap)
       /\ Erased({fd})
       /\ conn' = [conn EXCEPT ![fd] = "none"]
       /\ cut' = cut \cup ({fd} \cap Listed')
       /\ unlisted' = unlisted \ {fd}
       /\ handler' = Idling
       /\ torn' = (torn \/ Cleaning)
       /\ UNCHANGED <<freeSlotStack, stackTopIndex, server>>

-----------------------------------------------------------------------------
(* broadcastMessage, in the task of the WebSocket client.                  *)

\* Slip: the walk goes on from the entry after the next.
After2(fd) == {x \in Listed : \E y \in Listed : fd < y /\ y < x}

\* The entries of the map behind fd: a std::map is walked in the order of its keys.
After(fd) == {x \in Listed : fd < x}

First(fds) == IF fds = {} THEN NoFd ELSE CHOOSE x \in fds : \A y \in fds : x <= y

BeginBroadcast ==
    /\ walkAt = NoFd /\ Listed # {}
    /\ walkAt' = First(Listed)
    /\ walkOwed' = Listed
    /\ UNCHANGED <<poolVars, walkLost, server, conn, handler, cut, unlisted, torn>>

\* Send to the entry and go to the next.
BroadcastStep ==
    /\ walkAt # NoFd /\ ~walkLost
    /\ walkOwed' = walkOwed \ {walkAt}
    /\ walkAt' = First(After(walkAt))
    /\ UNCHANGED <<poolVars, walkLost, server, conn, handler, cut, unlisted, torn>>

\* The entry was erased: the walk may go on anywhere behind it, or end.
BroadcastAstray ==
    /\ walkAt # NoFd /\ walkLost
    /\ walkAt' \in After(walkAt) \cup {NoFd}
    /\ walkLost' = (walkAt' # NoFd)
    /\ UNCHANGED <<poolVars, walkOwed, server, conn, handler, cut, unlisted, torn>>

-----------------------------------------------------------------------------
HttpNext == \/ StartServer \/ ClearAtStart \/ RefillAtStart \/ ResetAtStart
            \/ StopHttpd \/ CleanAtStop
            \/ \E fd \in Fds : Accept(fd) \/ Break(fd) \/ Handshake(fd) \/ CloseFrame(fd)
            \/ PopSlot \/ InsertSession \/ PushSlot \/ EraseSession
            \/ BeginBroadcast \/ BroadcastStep \/ BroadcastAstray

HttpSpec == HttpInit /\ [][HttpNext]_httpVars

-----------------------------------------------------------------------------
\* Between the calls of the server's task no slot is lost and none is both free and
\* in use, however the calls, the clean()s and the restarts of the server follow
\* each other.  The exception is an addSession or a drainSession that the clean() of
\* start met: a slot popped before it and inserted after it is free and in use until
\* the server stops.
AccountedUnlessTorn == handler = Idling /\ ~Cleaning /\ ~torn => SlotsAccountedFor

\* The server keeps the limit of the set of sessions over any number of starts and
\* stops, except from a clean() of start that met a session coming or going to the
\* next stop.
ServerSet == INSTANCE SessionSet WITH live <- Listed, bounded <- ~torn,
                                      Limit <- Capacity - 1

KeepsSessionSet == ServerSet!Spec

\* The pool holds nobody who said goodbye: a descriptor in it is a WebSocket
\* client's, or that of a connection that was cut, or was drained while start emptied
\* the pool.  System::restart waits for an empty pool (System.cpp:841).
NoGhosts == \A fd \in Listed : conn[fd] = "ws" \/ fd \in cut

\* A WebSocket client that is not in the pool, and so gets no word of an update,
\* was refused for want of a slot or came before the clean() of start.
ListedUnlessRefused == \A fd \in Fds : conn[fd] = "ws" => fd \in Listed \cup unlisted

\* A server that was stopped leaves nobody in the pool for a restart to wait for.
StoppedIsEmpty == server = "stopped" => Listed = {}

\* A broadcast reaches everybody in the pool from its beginning to its end, as
\* long as nobody erases the entry it stands on.
BroadcastReachesListed ==
    [][walkAt # NoFd /\ walkAt' = NoFd /\ ~walkLost => walkOwed' = {}]_httpVars
=============================================================================
