--------------------------- MODULE WsClient_proofs ---------------------------
(***************************************************************************)
(* Theorems about WsClient for any number of updates.  No property of the  *)
(* run is inductive: that `connected' is a live connection's rests on what *)
(* run, the stop in progress and the library's task are to each other, and *)
(* that on who holds the semaphore.                                        *)
(***************************************************************************)
EXTENDS WsClient, TLAPS

Tearing == http \in {"stopping", "destroy"}
Stopping == daemon = "stopping"

\* start and deinit have the semaphore to themselves; what deinit destroys was told to end.
OneHolder ==
    /\ inited = made
    /\ httpd = "wifi" => sem = "httpd" /\ ~started
    /\ Tearing => sem = "http" /\ (raced \/ (~run /\ task # "created"))
    /\ daemon = "stale" => raced

\* STOPPED_BIT is the last task's, and a task told to end was told by itself or by a stop.
TaskEnds ==
    /\ stoppedBit => task = "none"
    /\ state = "closing" => quiet
    /\ task = "loop" /\ ~run => early \/ raced \/ Stopping \/ http = "stopping"

\* A client that counts as started has a task on its way, or is being stopped.
DeadIsExcused ==
    started /\ ~Stopping /\ http # "stopping" =>
       task = "created" \/ (task = "loop" /\ run) \/ early \/ quiet \/ raced

\* Only a started client has a task, a connection or a stop to wait for.
StartedInOrder ==
    ~raced => /\ task # "none" => started
              /\ Stopping => started /\ ~run /\ task # "created" /\ http # "stopping"
              /\ connected => started

\* A connection outlives neither its task nor its turn in the loop.
ConnectedInOrder ==
    ~raced /\ ~overlapped =>
       /\ tail => task = "none"
       /\ connected /\ ~quiet /\ ~Stopping /\ http # "stopping"
            => state \in {"connected", "closing"} /\ task = "loop" /\ run

Inv == OneHolder /\ TaskEnds /\ DeadIsExcused /\ StartedInOrder /\ ConnectedInOrder

LEMMA InitInv == Init => Inv
BY DEF Init, Inv, OneHolder, TaskEnds, DeadIsExcused, StartedInOrder, ConnectedInOrder,
       Tearing, Stopping

\* What Dispatch does to the wrapper, for each of the three events.
LEMMA Events ==
  ASSUME NEW error
  PROVE  /\ Dispatch("CONNECTED", error) => connected' = TRUE /\ quiet' = quiet
         /\ Dispatch("DISCONNECTED", error) =>
              connected' = FALSE /\ quiet' = (quiet \/ error # "tcp")
         /\ Dispatch("CLOSED", error) => connected' = connected /\ quiet' = quiet
         /\ Abort(error) =>
              /\ state' = "wait"
              /\ connected' = FALSE /\ quiet' = (quiet \/ error # "tcp")
BY DEF Dispatch, Abort, EventHandler, OnConnected, OnDisconnected

LEMMA LibraryKeeps == Inv /\ LibraryTask => Inv'
<1> USE Events DEF Inv, OneHolder, TaskEnds, DeadIsExcused, StartedInOrder, ConnectedInOrder,
                   Tearing, Stopping, wrapVars, reqVars, appVars, histVars
<1> SUFFICES ASSUME Inv, LibraryTask PROVE Inv' OBVIOUS
<1>1. CASE TaskBegins BY <1>1 DEF TaskBegins, HasTransport, Endpoint, Config
<1>2. CASE Connect BY <1>2 DEF Connect, Serving
<1>3. CASE ReadFails BY <1>3 DEF ReadFails, Serving
<1>4. CASE PongTimeout BY <1>4 DEF PongTimeout, Serving
<1>5. CASE Receive BY <1>5 DEF Receive, Serving
<1>6. CASE WaitExpires BY <1>6 DEF WaitExpires, Serving
<1>7. CASE EchoClose BY <1>7 DEF EchoClose, Serving
<1>8. CASE LeaveLoop BY <1>8 DEF LeaveLoop
<1>9. CASE SetStopped BY <1>9 DEF SetStopped
<1>10. CASE TailEnds BY <1>10 DEF TailEnds
<1> QED BY <1>1, <1>2, <1>3, <1>4, <1>5, <1>6, <1>7, <1>8, <1>9, <1>10 DEF LibraryTask

LEMMA HttpKeeps == Inv /\ HttpTask => Inv'
<1> USE DEF Inv, OneHolder, TaskEnds, DeadIsExcused, StartedInOrder, ConnectedInOrder,
            Tearing, Stopping, libVars, wrapVars, reqVars, histVars
<1> SUFFICES ASSUME Inv, HttpTask PROVE Inv' OBVIOUS
<1>1. CASE PollReinit BY <1>1 DEF PollReinit
<1>2. CASE Deinit BY <1>2 DEF Deinit
<1>3. CASE DeinitStopped BY <1>3 DEF DeinitStopped
<1>4. CASE Destroy BY <1>4 DEF Destroy
<1>5. CASE InitAgain BY <1>5 DEF InitAgain, NewClient
<1> QED BY <1>1, <1>2, <1>3, <1>4, <1>5 DEF HttpTask

LEMMA HttpdKeeps == Inv /\ HttpdTask => Inv'
<1> USE Events DEF Inv, OneHolder, TaskEnds, DeadIsExcused, StartedInOrder, ConnectedInOrder,
                   Tearing, Stopping, libVars, wrapVars, reqVars, histVars
<1> SUFFICES ASSUME Inv, HttpdTask PROVE Inv' OBVIOUS
<1>1. CASE UpdateCommand BY <1>1 DEF UpdateCommand
<1>2. CASE StartTakes BY <1>2 DEF StartTakes
<1>3. CASE StartClient
  <2>1. CASE ~UNCHANGED <<task, stoppedBit, closeSent, started, quiet, closed, early>>
    BY <1>3, <2>1 DEF StartClient
  <2>2. CASE UNCHANGED <<task, stoppedBit, closeSent, started, quiet, closed, early>>
    BY <1>3, <2>2 DEF StartClient
  <2> QED BY <1>3, <2>1, <2>2 DEF StartClient
<1>4. CASE SendWaits BY <1>4 DEF SendWaits
<1>5. CASE SendWrites BY <1>5 DEF SendWrites
<1>6. CASE SendFails BY <1>6 DEF SendFails
<1> QED BY <1>1, <1>2, <1>3, <1>4, <1>5, <1>6 DEF HttpdTask

LEMMA DaemonKeeps == Inv /\ (DaemonTask \/ RestartCommand) => Inv'
<1> USE DEF Inv, OneHolder, TaskEnds, DeadIsExcused, StartedInOrder, ConnectedInOrder,
            Tearing, Stopping, libVars, wrapVars, appVars, histVars
<1> SUFFICES ASSUME Inv, DaemonTask \/ RestartCommand PROVE Inv' OBVIOUS
<1>1. CASE DaemonLooks BY <1>1 DEF DaemonLooks
<1>2. CASE DaemonStopsServer BY <1>2 DEF DaemonStopsServer
<1>3. CASE DaemonStop BY <1>3 DEF DaemonStop
<1>4. CASE DaemonStopped BY <1>4 DEF DaemonStopped
<1>5. CASE DaemonStale BY <1>5 DEF DaemonStale
<1>6. CASE RestartCommand BY <1>6 DEF RestartCommand
<1> QED BY <1>1, <1>2, <1>3, <1>4, <1>5, <1>6 DEF DaemonTask

LEMMA StutterKeeps == Inv /\ UNCHANGED wsVars => Inv'
BY DEF Inv, OneHolder, TaskEnds, DeadIsExcused, StartedInOrder, ConnectedInOrder, Tearing,
       Stopping, wsVars, libVars, wrapVars, appVars, histVars

LEMMA Inductive == Spec => []Inv
<1>1. Inv /\ [Next]_wsVars => Inv'
  BY LibraryKeeps, HttpKeeps, HttpdKeeps, DaemonKeeps, StutterKeeps DEF Next
<1> QED BY InitInv, <1>1, PTL DEF Spec

\* _connected, which a restart waits to be cleared (System.cpp:841), is a live
\* connection's, but for the exceptions the property names, for any number of updates.
THEOREM ClientConnectedIsLive == Spec => []ConnectedIsLive
<1>1. Inv => ConnectedIsLive
  BY DEF Inv, ConnectedInOrder, ConnectedIsLive, Stopping
<1> QED BY <1>1, Inductive, PTL

\* A client that counts as started and has lost its task does not stay so unnoticed.
THEOREM ClientDeadIsNoticed == Spec => []DeadClientIsNoticed
<1>1. Inv => DeadClientIsNoticed
  BY DEF Inv, DeadIsExcused, DeadClientIsNoticed, Stopping
<1> QED BY <1>1, Inductive, PTL

\* http_task frees a client under the task that serves it only in the two races named.
THEOREM ClientFreedWhenStopped == Spec => FreedWhenStopped
<1> DEFINE Freed == made /\ ~made' => task # "loop" \/ early \/ raced'
<1>1. Inv /\ Next => Freed
  <2> SUFFICES ASSUME Inv, Next, made, ~made' PROVE task # "loop" \/ early \/ raced'
    OBVIOUS
  <2>1. Destroy \/ InitAgain
    BY DEF Next, LibraryTask, HttpTask, HttpdTask, DaemonTask, TaskBegins, Connect, ReadFails,
           PongTimeout, Receive, WaitExpires, EchoClose, LeaveLoop, SetStopped, TailEnds,
           PollReinit, Deinit, DeinitStopped, UpdateCommand, StartTakes, StartClient, SendWaits,
           SendWrites, SendFails, DaemonLooks, DaemonStopsServer, DaemonStop, DaemonStopped,
           DaemonStale, RestartCommand, libVars
  <2>2. CASE Destroy
    BY <2>2 DEF Destroy, Inv, OneHolder, TaskEnds, Tearing, Stopping
  <2>3. CASE InitAgain
    BY <2>3 DEF InitAgain, Inv, OneHolder
  <2> QED BY <2>1, <2>2, <2>3
<1>2. Inv /\ [Next]_wsVars => [Freed]_wsVars BY <1>1
<1> QED BY <1>2, Inductive, PTL DEF Spec, FreedWhenStopped
=============================================================================
