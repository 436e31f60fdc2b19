------------------------------ MODULE WsClient ------------------------------
(***************************************************************************)
(* WebsocketClient (components/MessageProtocol/WebsocketClient.cpp) on the *)
(* esp_websocket_client library (managed_components).  Four tasks share    *)
(* one client: http_task makes it and makes it anew after a lost           *)
(* connection, the HTTP server's task starts it for an update and sends,   *)
(* daemon_task stops it and restarts the device, and the library's task    *)
(* serves the connection.  Only init, deinit and start take the semaphore. *)
(***************************************************************************)
EXTENDS Naturals

CONSTANTS MaxUpdates,   \* bound: update commands that arrive
          MaxEnds       \* bound: updates that end with a request to the daemon

ASSUME BoundsAssumption == MaxUpdates \in Nat /\ MaxEnds \in Nat

VARIABLES
    \* the library's client
    made,         \* _client points to a client, and its event group exists
    run, state,   \* client->run, client->state
    stoppedBit, closeSent,   \* STOPPED_BIT and CLOSE_FRAME_SENT_BIT
    task,         \* the library's task: "none", "created", "loop", "leaving"
    tail,         \* a task that set STOPPED_BIT and has its last lines to run
    \* the wrapper
    inited, started, connected, reinit,   \* _inited, _started, _connected, _reinitRequired
    connBit,      \* WSC_CONNECTED_BIT
    sem,          \* who holds _wscSemaphore: "free", "http", "httpd", or "lost"
    \* the tasks of the application
    http, httpd, daemon,                  \* where each stands
    stopReq, serverStopReq, rebootReq,    \* the requests to the daemon
    serverUp, restarted,
    updates, ends,                        \* counts for the bounds
    \* history, read by properties only
    quiet,        \* the connection ended in a way that asks for no new client
    closed,       \* the server closed it and the TCP connection as well
    early,        \* the library's task told itself to end before http_task came for it
    raced,        \* a stop met another stop, or a task that had not set run yet
    late,         \* a client was started when a restart was due
    overlapped    \* a client was started again with the tail of its last task to run

libVars  == <<made, run, state, stoppedBit, closeSent, task, tail>>
wrapVars == <<inited, started, connected, reinit, connBit, sem>>
reqVars  == <<stopReq, serverStopReq, rebootReq, serverUp, restarted>>
appVars  == <<http, httpd, daemon, updates, ends>>
histVars == <<quiet, closed, early, raced, late, overlapped>>
wsVars   == <<libVars, wrapVars, reqVars, appVars, histVars>>

\* What esp_websocket_client_set_config keeps of the wrapper's configuration.
Config == [uri |-> [scheme |-> "ws", port |-> 4040], disable_auto_reconnect |-> TRUE,
           disable_pingpong_discon |-> FALSE]

StoredConfig == [auto_reconnect |-> ~Config.disable_auto_reconnect,
                 pingpong |-> ~Config.disable_pingpong_discon]

Endpoint == Config.uri

\* esp_websocket_client_create_transport knows two schemes.
HasTransport == Endpoint.scheme \in {"ws", "wss"}

\* After line 705 of System.cpp: the first init made the client, or kept the semaphore.
Init ==
    /\ inited \in BOOLEAN /\ made = inited
    /\ sem = IF inited THEN "free" ELSE "lost"
    /\ run = FALSE /\ state = "unknown" /\ stoppedBit = FALSE /\ closeSent = FALSE
    /\ task = "none" /\ tail = FALSE
    /\ started = FALSE /\ connected = FALSE /\ reinit = FALSE /\ connBit = FALSE
    /\ http = "poll" /\ httpd = "idle" /\ daemon = "idle"
    /\ stopReq = FALSE /\ serverStopReq = FALSE /\ rebootReq = FALSE
    /\ serverUp = TRUE /\ restarted = FALSE
    /\ updates = 0 /\ ends = 0
    /\ quiet = FALSE /\ closed = FALSE /\ early = FALSE /\ raced = FALSE
    /\ late = FALSE /\ overlapped = FALSE

-----------------------------------------------------------------------------
(* Events, which the library dispatches in the task that meets them.       *)

OnConnected ==
    /\ connected' = TRUE /\ connBit' = TRUE
    /\ UNCHANGED <<reinit, quiet>>

\* Only a transport error asks for a new client.
OnDisconnected(error) ==
    /\ connected' = FALSE /\ connBit' = FALSE
    /\ reinit' = (reinit \/ error = "tcp")
    /\ quiet' = (quiet \/ error # "tcp")

\* wsclient_event_handler knows no CLOSED.
EventHandler(event, error) ==
    \/ event = "CONNECTED" /\ OnConnected
    \/ event = "DISCONNECTED" /\ OnDisconnected(error)
    \/ event = "CLOSED" /\ UNCHANGED <<connected, connBit, reinit, quiet>>

Dispatch(event, error) == EventHandler(event, error)

\* abort_connection
Abort(error) ==
    /\ state' = "wait"
    /\ Dispatch("DISCONNECTED", error)

SetAllMessageProtocolsStopRequest == stopReq' = TRUE /\ serverStopReq' = TRUE

\* Slip: after a success only the server is asked to stop.
UpdateEndedServerOnly(succeeded) ==
    /\ ends < MaxEnds /\ ends' = ends + 1
    /\ stopReq' = (stopReq \/ ~succeeded)
    /\ serverStopReq' = (serverStopReq \/ succeeded)
    /\ rebootReq' = (rebootReq \/ succeeded)
    /\ UNCHANGED <<serverUp, restarted>>

\* onUpdateEnded of the updater: a new image asks for everything to stop and a
\* restart, a failure may ask for the client to stop.
UpdateEnded(succeeded) ==
    /\ ends < MaxEnds /\ ends' = ends + 1
    /\ IF succeeded THEN SetAllMessageProtocolsStopRequest /\ rebootReq' = TRUE
                    ELSE stopReq' = TRUE /\ UNCHANGED <<serverStopReq, rebootReq>>
    /\ UNCHANGED <<serverUp, restarted>>

-----------------------------------------------------------------------------
(* The library's task.  It is lost, with all it does, once its client is   *)
(* freed under it.                                                         *)

TaskBegins ==
    /\ task = "created"
    /\ task' = "loop" /\ run' = HasTransport /\ state' = "init"
    /\ stoppedBit' = FALSE /\ closeSent' = FALSE
    /\ UNCHANGED <<made, tail, wrapVars, reqVars, appVars, histVars>>

Serving == task = "loop" /\ run

Connect ==
    /\ Serving /\ state = "init"
    /\ \/ state' = "connected" /\ Dispatch("CONNECTED", "none")
       \/ Abort("tcp")
    /\ UNCHANGED <<made, run, stoppedBit, closeSent, task, tail, inited, started, sem,
                   reqVars, appVars, closed, early, raced, late, overlapped>>

\* poll_read or read fails; the abort closes the transport.
ReadFails ==
    /\ Serving /\ state = "connected"
    /\ Abort("tcp")
    /\ UNCHANGED <<made, run, stoppedBit, closeSent, task, tail, inited, started, sem,
                   reqVars, appVars, closed, early, raced, late, overlapped>>

\* No PONG: checked only until a close has begun.
PongTimeout ==
    /\ Serving /\ state = "connected" /\ ~closeSent /\ StoredConfig.pingpong
    /\ Abort("pong")
    /\ UNCHANGED <<made, run, stoppedBit, closeSent, task, tail, inited, started, sem,
                   reqVars, appVars, closed, early, raced, late, overlapped>>

\* recv: a frame of data, which may end an update; or the server's CLOSE.
Receive ==
    /\ Serving /\ state = "connected"
    /\ \/ \E succeeded \in BOOLEAN : UpdateEnded(succeeded) /\ UNCHANGED <<state, quiet>>
       \/ state' = "closing" /\ quiet' = TRUE /\ UNCHANGED <<reqVars, ends>>
    /\ UNCHANGED <<made, run, stoppedBit, closeSent, task, tail, wrapVars,
                   http, httpd, daemon, updates, closed, early, raced, late, overlapped>>

\* The loop finds WAIT_TIMEOUT: without auto_reconnect it ends, else it connects again.
WaitExpires ==
    /\ Serving /\ state = "wait"
    /\ IF StoredConfig.auto_reconnect THEN state' = "init" /\ UNCHANGED <<run, early>>
       ELSE run' = FALSE /\ early' = TRUE /\ UNCHANGED state
    /\ UNCHANGED <<made, stoppedBit, closeSent, task, tail, wrapVars, reqVars, appVars,
                   quiet, closed, raced, late, overlapped>>

\* CLOSING: the frame is echoed, then the server is given a second to close the
\* connection.  If it does not, the break leaves the loop and run stays set; if it
\* does, CLOSED is dispatched, which the wrapper does not handle.
EchoClose ==
    /\ Serving /\ state = "closing"
    /\ closeSent' = TRUE /\ task' = "leaving"
    /\ \/ UNCHANGED <<run, state, closed, connected, connBit, reinit, quiet>>
       \/ /\ run' = FALSE /\ state' = "unknown" /\ closed' = TRUE
          /\ Dispatch("CLOSED", "none")
    /\ UNCHANGED <<made, stoppedBit, tail, inited, started, sem, reqVars, appVars, early, raced,
                   late, overlapped>>

LeaveLoop ==
    /\ task = "loop" /\ ~run
    /\ task' = "leaving"
    /\ UNCHANGED <<made, run, state, stoppedBit, closeSent, tail, wrapVars, reqVars, appVars,
                   histVars>>

SetStopped ==
    /\ task = "leaving"
    /\ task' = "none" /\ stoppedBit' = TRUE /\ tail' = TRUE
    /\ UNCHANGED <<made, run, state, closeSent, wrapVars, reqVars, appVars, histVars>>

\* The last lines come after the bit: they overwrite the state of a client that
\* may have been started again.
TailEnds ==
    /\ tail
    /\ tail' = FALSE /\ state' = "unknown"
    /\ UNCHANGED <<made, run, stoppedBit, closeSent, task, wrapVars, reqVars, appVars, histVars>>

LibraryTask == \/ TaskBegins \/ Connect \/ ReadFails \/ PongTimeout \/ Receive
               \/ WaitExpires \/ EchoClose \/ LeaveLoop \/ SetStopped \/ TailEnds

-----------------------------------------------------------------------------
(* http_task: a new client after a transport error.                        *)

PollReinit ==
    /\ http = "poll" /\ reinit
    /\ http' = "deinit"
    /\ UNCHANGED <<libVars, wrapVars, reqVars, httpd, daemon, updates, ends, histVars>>

\* deinit up to the wait of stop, its own or that of destroy.  The library's stop
\* fails unless run is set, and the wrapper then keeps _started.
Deinit ==
    /\ http = "deinit"
    /\ IF sem # "free" \/ ~inited THEN http' = "init" /\ UNCHANGED <<run, sem, raced>>
       ELSE /\ sem' = "http"
            /\ run' = FALSE
            /\ raced' = (raced \/ task = "created")
            /\ http' = IF run THEN "stopping" ELSE "destroy"
    /\ UNCHANGED <<made, state, stoppedBit, closeSent, task, tail, inited, started, connected,
                   reinit, connBit, reqVars, httpd, daemon, updates, ends,
                   quiet, closed, early, late, overlapped>>

\* Slip: stop does not wait for STOPPED_BIT.
DeinitStoppedAtOnce ==
    /\ http = "stopping"
    /\ http' = "destroy" /\ state' = "unknown"
    /\ started' = FALSE /\ connected' = (connected /\ ~started)
    /\ UNCHANGED <<made, run, stoppedBit, closeSent, task, tail, inited, reinit, connBit, sem,
                   reqVars, httpd, daemon, updates, ends, histVars>>

\* Slip: stop in deinit leaves _started set.
DeinitKeepsStarted ==
    /\ http = "stopping" /\ stoppedBit
    /\ http' = "destroy" /\ state' = "unknown"
    /\ connected' = (connected /\ ~started)
    /\ UNCHANGED <<made, run, stoppedBit, closeSent, task, tail, inited, started, reinit, connBit, sem,
                   reqVars, httpd, daemon, updates, ends, histVars>>

DeinitStopped ==
    /\ http = "stopping" /\ stoppedBit
    /\ http' = "destroy" /\ state' = "unknown"
    /\ started' = FALSE /\ connected' = (connected /\ ~started)
    /\ UNCHANGED <<made, run, stoppedBit, closeSent, task, tail, inited, reinit, connBit, sem,
                   reqVars, httpd, daemon, updates, ends, histVars>>

\* destroy: all is freed, whoever else is on the client.  A task that was on it,
\* a caller of send or of stop is left with freed memory; what the latter do
\* when they wake is DaemonStale and SendFails.
Destroy ==
    /\ http = "destroy"
    /\ made' = FALSE /\ run' = FALSE /\ state' = "unknown" /\ task' = "none" /\ tail' = FALSE
    /\ stoppedBit' = FALSE /\ closeSent' = FALSE /\ connBit' = FALSE
    /\ inited' = FALSE /\ sem' = "free" /\ http' = "init"
    /\ daemon' = IF daemon = "stopping" THEN "stale" ELSE daemon
    /\ raced' = (raced \/ daemon = "stopping")
    /\ UNCHANGED <<started, connected, reinit, reqVars, httpd, updates, ends, quiet, closed, early,
                   late, overlapped>>

\* esp_websocket_client_init, which may find no memory.
NewClient == made' \in BOOLEAN

\* Slip: the new client does not answer the request for it.
InitKeepsReinit ==
    /\ http = "init" /\ http' = "poll"
    /\ IF sem # "free" \/ inited THEN UNCHANGED <<made, inited, reinit, sem>>
       ELSE /\ NewClient
            /\ inited' = made' /\ UNCHANGED reinit
            /\ sem' = IF made' THEN sem ELSE "lost"
    /\ UNCHANGED <<run, state, stoppedBit, closeSent, task, tail, started, connected, connBit,
                   reqVars, httpd, daemon, updates, ends, histVars>>

\* init; it returns with the semaphore when the client cannot be made.
InitAgain ==
    /\ http = "init" /\ http' = "poll"
    /\ IF sem # "free" \/ inited THEN UNCHANGED <<made, inited, reinit, sem>>
       ELSE /\ NewClient
            /\ inited' = made' /\ reinit' = (reinit /\ ~made')
            /\ sem' = IF made' THEN sem ELSE "lost"
    /\ UNCHANGED <<run, state, stoppedBit, closeSent, task, tail, started, connected, connBit,
                   reqVars, httpd, daemon, updates, ends, histVars>>

HttpTask == PollReinit \/ Deinit \/ DeinitStopped \/ Destroy \/ InitAgain

-----------------------------------------------------------------------------
(* The HTTP server's task: an UpdateFirmware command starts and sends.     *)

UpdateCommand ==
    /\ httpd = "idle" /\ serverUp /\ updates < MaxUpdates
    /\ httpd' = "start" /\ updates' = updates + 1
    /\ UNCHANGED <<libVars, wrapVars, reqVars, http, daemon, ends, histVars>>

\* start waits for WSC_INITED_BIT; between deinit and init the group it waits on
\* is a deleted one, and the wait may end.
StartTakes ==
    /\ httpd = "start" /\ (inited \/ (~made /\ sem # "lost"))
    /\ IF sem = "free" /\ inited /\ ~started
       THEN sem' = "httpd" /\ httpd' = "wifi"
       ELSE httpd' = "send" /\ UNCHANGED sem
    /\ UNCHANGED <<libVars, inited, started, connected, reinit, connBit, reqVars,
                   http, daemon, updates, ends, histVars>>

\* The Wi-Fi is up; esp_websocket_client_start refuses a client that is past
\* INIT, and can fail for want of memory.
StartClient ==
    /\ httpd = "wifi"
    /\ \/ /\ state = "unknown" /\ HasTransport
          /\ task' = "created" /\ stoppedBit' = FALSE /\ closeSent' = FALSE /\ started' = TRUE
          /\ quiet' = FALSE /\ closed' = FALSE /\ early' = FALSE
       \/ UNCHANGED <<task, stoppedBit, closeSent, started, quiet, closed, early>>
    /\ overlapped' = (overlapped \/ (task' = "created" /\ tail))
    /\ late' = (late \/ rebootReq)
    /\ sem' = "free" /\ httpd' = "send"
    /\ UNCHANGED <<made, run, state, tail, inited, connected, reinit, connBit, reqVars,
                   http, daemon, updates, ends, raced>>

\* _sendData: five seconds for WSC_CONNECTED_BIT.  Without it, or on a client that
\* is not connected, the request fails and the update ends.
SendWaits ==
    /\ httpd = "send"
    /\ \/ connBit /\ httpd' = "sending" /\ UNCHANGED <<ends, reqVars>>
       \/ ~connBit /\ httpd' = "idle" /\ (UpdateEnded(FALSE) \/ UNCHANGED <<ends, reqVars>>)
    /\ UNCHANGED <<libVars, wrapVars, http, daemon, updates, histVars>>

\* send_with_opcode on a live connection: written, or an abort in this task.
SendWrites ==
    /\ httpd = "sending" /\ made /\ state = "connected"
    /\ httpd' = "idle"
    /\ UNCHANGED <<state, connected, connBit, reinit, quiet>> \/ Abort("tcp")
    /\ UNCHANGED <<made, run, stoppedBit, closeSent, task, tail, inited, started, sem,
                   reqVars, http, daemon, updates, ends, closed, early, raced, late, overlapped>>

SendFails ==
    /\ httpd = "sending" /\ ~(made /\ state = "connected")
    /\ httpd' = "idle"
    /\ UpdateEnded(FALSE) \/ UNCHANGED <<ends, reqVars>>
    /\ UNCHANGED <<libVars, wrapVars, http, daemon, updates, histVars>>

HttpdTask == UpdateCommand \/ StartTakes \/ StartClient \/ SendWaits \/ SendWrites \/ SendFails

-----------------------------------------------------------------------------
(* daemon_task.                                                            *)

\* Top of the loop: a restart waits for the client to be disconnected.  (It waits
\* for the pool of sessions as well, which is empty once the server has stopped.)
DaemonLooks ==
    /\ daemon = "idle"
    /\ IF rebootReq /\ ~connected THEN restarted' = TRUE /\ UNCHANGED daemon
       ELSE daemon' = "server" /\ UNCHANGED restarted
    /\ UNCHANGED <<libVars, wrapVars, stopReq, serverStopReq, rebootReq, serverUp, http, httpd,
                   updates, ends, histVars>>

\* A plain Restart command.
RestartCommand ==
    /\ httpd = "idle" /\ serverUp /\ ~rebootReq
    /\ rebootReq' = TRUE
    /\ UNCHANGED <<libVars, wrapVars, stopReq, serverStopReq, serverUp, restarted, appVars, histVars>>

\* httpd_stop waits for the server's task to finish what it does.
DaemonStopsServer ==
    /\ daemon = "server" /\ daemon' = "client"
    /\ IF serverStopReq THEN httpd = "idle" /\ serverStopReq' = FALSE /\ serverUp' = FALSE
       ELSE UNCHANGED <<serverStopReq, serverUp>>
    /\ UNCHANGED <<libVars, wrapVars, stopReq, rebootReq, restarted, http, httpd, updates, ends,
                   histVars>>

\* stop in the daemon takes no semaphore.  It fails, and changes nothing, unless
\* run is set.
DaemonStop ==
    /\ daemon = "client"
    /\ IF stopReq /\ started /\ made /\ run
       THEN run' = FALSE /\ daemon' = "stopping" /\ UNCHANGED stopReq
       ELSE stopReq' = FALSE /\ daemon' = "idle" /\ UNCHANGED run
    /\ raced' = (raced \/ (stopReq /\ started /\ task = "created"))
    /\ UNCHANGED <<made, state, stoppedBit, closeSent, task, tail, wrapVars,
                   serverStopReq, rebootReq, serverUp, restarted, http, httpd, updates, ends,
                   quiet, closed, early, late, overlapped>>

\* Slip: the stopped client still counts as connected.
DaemonStoppedKeepsConnected ==
    /\ daemon = "stopping" /\ stoppedBit
    /\ daemon' = "idle" /\ stopReq' = FALSE
    /\ state' = "unknown" /\ started' = FALSE
    /\ UNCHANGED <<made, run, stoppedBit, closeSent, task, tail, inited, connected, reinit,
                   connBit, sem, serverStopReq, rebootReq, serverUp, restarted, http, httpd,
                   updates, ends, histVars>>

DaemonStopped ==
    /\ daemon = "stopping" /\ stoppedBit
    /\ daemon' = "idle" /\ stopReq' = FALSE
    /\ state' = "unknown" /\ started' = FALSE /\ connected' = FALSE
    /\ UNCHANGED <<made, run, stoppedBit, closeSent, task, tail, inited, reinit,
                   connBit, sem, serverStopReq, rebootReq, serverUp, restarted, http, httpd,
                   updates, ends, histVars>>

\* The client was freed under the stop: deleting its event group wakes the daemon.
DaemonStale ==
    /\ daemon = "stale"
    /\ daemon' = "idle" /\ stopReq' = FALSE
    /\ started' = FALSE /\ connected' = FALSE
    /\ UNCHANGED <<libVars, inited, reinit, connBit, sem, serverStopReq, rebootReq, serverUp,
                   restarted, http, httpd, updates, ends, histVars>>

DaemonTask == DaemonLooks \/ DaemonStopsServer \/ DaemonStop \/ DaemonStopped \/ DaemonStale

Next == ~restarted /\ (LibraryTask \/ HttpTask \/ HttpdTask \/ DaemonTask \/ RestartCommand)

\* Every task is scheduled; the Wi-Fi, on which start waits, comes up.
Spec == /\ Init /\ [][Next]_wsVars
        /\ WF_wsVars(~restarted /\ (TaskBegins \/ Connect \/ WaitExpires \/ EchoClose
                                    \/ LeaveLoop \/ SetStopped))
        /\ WF_wsVars(~restarted /\ TailEnds)
        /\ WF_wsVars(~restarted /\ HttpTask)
        /\ WF_wsVars(~restarted /\ (StartTakes \/ StartClient \/ SendWaits \/ SendWrites \/ SendFails))
        /\ WF_wsVars(~restarted /\ DaemonTask)

-----------------------------------------------------------------------------
\* The flag the restart waits for is a live connection's, or one that a stop is
\* about to clear, unless the server closed the connection, which leaves it set,
\* or a stop met another one or a start.
ConnectedIsLive ==
    connected => \/ state \in {"connected", "closing"}
                 \/ daemon \in {"stopping", "stale"} \/ http \in {"stopping", "destroy"}
                 \/ quiet \/ raced \/ overlapped

\* A client that counts as started and has no task left does not stay so: it is
\* being stopped or replaced, unless it ended quietly, or ended before http_task
\* came for it.
DeadClientIsNoticed ==
    started /\ task = "none" => \/ reinit \/ daemon \in {"stopping", "stale"} \/ http # "poll"
                               \/ quiet \/ early \/ raced

\* The client is freed under its serving task only in two races: another stop was
\* under way, or the task had not set run when http_task looked.
FreedWhenStopped == [][made /\ ~made' => task # "loop" \/ early \/ raced']_wsVars

\* A client lost to a transport error is replaced, unless the semaphore is lost.
ReinitHappens == reinit ~> ~reinit \/ sem = "lost" \/ restarted

\* An update that installed a new image restarts the device, unless the server
\* closed the connection, which leaves connected set, a stop failed in a race, a
\* further command started the client again, or the semaphore is lost.
UpdateRestarts == rebootReq /\ serverStopReq ~> restarted \/ closed \/ raced \/ late \/ sem = "lost"
=============================================================================
