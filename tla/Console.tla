------------------------------ MODULE Console ------------------------------
(***************************************************************************)
(* The connection of the operator console: ConnectionController on the GUI *)
(* thread (connectioncontroller.cpp), SocketWorker on its own thread       *)
(* (socketworker.cpp), what RobotState shows (robotstate.cpp) and the      *)
(* table of the nodes.                                                     *)
(*                                                                         *)
(* Every signal between the two objects is queued: toWorker and toGui are  *)
(* the event queues of the threads, and a slot is one atomic action of its *)
(* thread.  QTcpSocket and the bridge at the other end are the environment *)
(* (external): abort() of a socket that is still connecting and a refused  *)
(* connection emit no disconnected(), because Qt emits it only for a       *)
(* socket that was connected.                                              *)
(***************************************************************************)
EXTENDS Naturals, Sequences

CONSTANTS
  MaxClicks,   \* bound on the operator's connects and disconnects
  MaxFaults,   \* bound on lost connections, restarts and refused HELLOs
  MaxStarts,   \* bound on the calls of connectToHost
  Worlds       \* the surroundings the console may find itself in

ASSUME BoundsAssumption ==
  MaxClicks \in Nat /\ MaxFaults \in Nat /\ MaxStarts \in Nat
ASSUME WorldsAssumption == Worlds \subseteq {"calm", "refusing", "hasty"}

VARIABLES
  gui,       \* what ConnectionController and RobotState remember
  toWorker,  \* queued signals startWorker, stopWorker, workerCmd...
  toGui,     \* queued signals of the worker
  socket,    \* state of the QTcpSocket
  sid,       \* history: number of connectToHost calls
  guarded,   \* hb_timer_ and timeout_timer_ run
  heard,     \* now - last_rx_ms_ <= 3000
  peer,      \* the bridge's end of the connection
  net,       \* frames on their way to the console
  intent,    \* history: last of connect, disconnect, retry (HELLO refused)
  clicks, faults,
  world      \* the surroundings of this behaviour

workerVars == <<socket, sid, guarded, heard>>
bridgeVars == <<peer, net, faults>>
userVars   == <<intent, clicks>>

movingVars == <<gui, toWorker, toGui, workerVars, bridgeVars, userVars>>

vars == <<movingVars, world>>

-----------------------------------------------------------------------------
\* A connection attempt may be refused or time out.
MayRefuse == world # "calm"

\* The reconnect timer (1 s or more) outlasts the queues and every connection
\* attempt, and a bridge that is not lost is never quiet for 3 s.
Prompt == world # "hasty"

Sids == 0..MaxStarts    \* connection numbers

\* auto: autoReconnect; timer: reconnect_timer_ runs; pending:
\* reconnect_pending_; session: history, the connection onConnected was last
\* called for.  What the pages show came over three connections (history too):
\*   shown   the state: phase, mode, conn, task, pose, path, number of faults
\*   nodes   the table of the nodes (NodeTableModel)
\*   listed  the fault table (faults_list_)
\* Left out are the back-off, which is time, and the status, goal and error of the
\* navigation: resetRemote keeps them, and the state the bridge makes up for a
\* silent robot has none, so that they may be those of any earlier session.
Guis == [connected : BOOLEAN, connecting : BOOLEAN, manual : BOOLEAN,
         auto : BOOLEAN, timer : BOOLEAN, pending : BOOLEAN,
         session : Sids, shown : Sids, nodes : Sids, listed : Sids]

Nothing == 0    \* the initial values, which are those of no robot

Signals == {"connected", "disconnected", "error", "hello_ok", "hello_no", "state"}
Frames  == {"hello_ok", "hello_no", "state"}

Signal(name, n) == [name |-> name, of |-> n]

\* One queued signal, or several in the order they are emitted.
Emit(names) == toGui' = toGui \o [i \in DOMAIN names |-> Signal(names[i], sid)]

-----------------------------------------------------------------------------
Init ==
  /\ gui = [connected |-> FALSE, connecting |-> FALSE, manual |-> FALSE,
            auto |-> TRUE, timer |-> FALSE, pending |-> FALSE, session |-> 0,
            shown |-> Nothing, nodes |-> Nothing, listed |-> Nothing]
  /\ toWorker = <<>> /\ toGui = <<>>
  /\ socket = "unconnected" /\ sid = 0 /\ guarded = FALSE /\ heard = FALSE
  /\ peer = "none" /\ net = <<>> /\ faults = 0
  /\ intent = "disconnect" /\ clicks = 0
  /\ world \in Worlds

-----------------------------------------------------------------------------
(***************************************************************************)
(* The GUI thread: ConnectionController                                    *)
(***************************************************************************)
StopTimer(g)   == [g EXCEPT !.timer = FALSE]
Offline(g)     == [g EXCEPT !.connecting = FALSE, !.connected = FALSE]

\* resetRemote does not touch faults_list_ (listed), nor nav_status_, the goal and
\* track_err_ (left out), and does not know the table of the nodes.
ResetRemote(g) == [g EXCEPT !.shown = Nothing]

\* Faulty variant: the timer is started without being marked as pending.
ScheduleUnmarked(g) ==
  IF g.manual \/ ~g.auto \/ (g.pending /\ g.timer) THEN g
  ELSE [g EXCEPT !.timer = TRUE]

\* Faulty variant: a manual disconnection does not stop reconnecting.
ScheduleAlways(g) ==
  IF ~g.auto \/ (g.pending /\ g.timer) THEN g
  ELSE [g EXCEPT !.pending = TRUE, !.timer = TRUE]

\* scheduleReconnect; last_host_ is set, a signal arrives only after a connect.
ScheduleReconnect(g) ==
  IF g.manual \/ ~g.auto \/ (g.pending /\ g.timer) THEN g
  ELSE [g EXCEPT !.pending = TRUE, !.timer = TRUE]

Start == toWorker' = Append(toWorker, [name |-> "start", of |-> gui.session])
Stop  == toWorker' = Append(toWorker, [name |-> "stop", of |-> gui.session])

\* connectToServer: returns early when connected or connecting.
Connect ==
  LET g == StopTimer([gui EXCEPT !.manual = FALSE]) IN
  /\ clicks < MaxClicks
  /\ clicks' = clicks + 1 /\ intent' = "connect"
  /\ IF g.connected \/ g.connecting
       THEN gui' = g /\ UNCHANGED toWorker
       ELSE gui' = [g EXCEPT !.connecting = TRUE] /\ Start
  /\ UNCHANGED <<toGui, workerVars, bridgeVars>>

Disconnect ==
  /\ clicks < MaxClicks
  /\ clicks' = clicks + 1 /\ intent' = "disconnect"
  /\ gui' = StopTimer([gui EXCEPT !.manual = TRUE])
  /\ Stop
  /\ UNCHANGED <<toGui, workerVars, bridgeVars>>

\* setAutoReconnect: a timer that runs is left running.
ToggleAuto ==
  /\ clicks < MaxClicks
  /\ clicks' = clicks + 1
  /\ gui' = [gui EXCEPT !.auto = ~@]
  /\ UNCHANGED <<toWorker, toGui, workerVars, bridgeVars, intent>>

\* Faulty variant: the console does not look whether it is connected.
CommandAlways ==
  /\ clicks < MaxClicks
  /\ clicks' = clicks + 1
  /\ toWorker' = Append(toWorker, [name |-> "cmd", of |-> gui.session])
  /\ UNCHANGED <<gui, toGui, workerVars, bridgeVars, intent>>

\* cmdMode, cmdTask..., cmdEstop, cmdReset
Command ==
  /\ clicks < MaxClicks /\ gui.connected
  /\ clicks' = clicks + 1
  /\ toWorker' = Append(toWorker, [name |-> "cmd", of |-> gui.session])
  /\ UNCHANGED <<gui, toGui, workerVars, bridgeVars, intent>>

ReconnectTimer ==
  LET g == [gui EXCEPT !.timer = FALSE, !.pending = FALSE] IN
  /\ gui.timer
  /\ Prompt => toWorker = <<>> /\ toGui = <<>> /\ socket # "connecting"
  /\ IF g.manual \/ g.connected
       THEN gui' = g /\ UNCHANGED toWorker
       ELSE gui' = [g EXCEPT !.connecting = TRUE] /\ Start
  /\ UNCHANGED <<toGui, workerVars, bridgeVars, userVars>>

\* Faulty variant: the console is online as soon as TCP is up.
OnlineAtOnce(g, n) ==
  [StopTimer(g) EXCEPT !.pending = FALSE, !.connecting = FALSE,
                       !.connected = TRUE, !.session = n]

Connected(g, n) ==
  [StopTimer(g) EXCEPT !.pending = FALSE, !.connecting = TRUE,
                       !.connected = FALSE, !.session = n]

HelloOk(g) ==
  [StopTimer(g) EXCEPT !.pending = FALSE, !.connecting = FALSE,
                       !.connected = TRUE]

HelloRefused(g) == ScheduleReconnect([Offline(g) EXCEPT !.manual = FALSE])

\* Faulty variant: an error leaves the robot's last state on the screen.
ErrorKeepsState(g) == Offline(g)

Error(g) == ResetRemote(Offline(g))

\* setNodes({}): only onDisconnected empties the table of the nodes.
ClearNodes(g) == [g EXCEPT !.nodes = Nothing]

\* Faulty variant: the reconnection is not scheduled.
DisconnectedForgets(g) == ClearNodes(ResetRemote(Offline(g)))

Disconnected(g) == ScheduleReconnect(ClearNodes(ResetRemote(Offline(g))))

\* onState, with the onNodes that handleFrame queues right behind it: every state
\* of the bridge, also the one made up for a silent robot, has nodes and faults.
StateReceived(g, n) == [g EXCEPT !.shown = n, !.nodes = n, !.listed = n]

\* One slot: onConnected, onDisconnected, onHelloAck, onState or onError.
GuiSlot ==
  LET s == Head(toGui) IN
  /\ toGui # <<>>
  /\ toGui' = Tail(toGui)
  /\ gui' = CASE s.name = "connected"    -> Connected(gui, s.of)
              [] s.name = "disconnected" -> Disconnected(gui)
              [] s.name = "hello_ok"     -> HelloOk(gui)
              [] s.name = "hello_no"     -> HelloRefused(gui)
              [] s.name = "state"        -> StateReceived(gui, s.of)
              [] s.name = "error"        -> Error(gui)
  /\ IF s.name = "hello_no" THEN Stop /\ intent' = "retry"
                            ELSE UNCHANGED <<toWorker, intent>>
  /\ UNCHANGED <<workerVars, bridgeVars, clicks>>

-----------------------------------------------------------------------------
(***************************************************************************)
(* The worker thread: SocketWorker                                         *)
(***************************************************************************)
\* The socket is closed by this side: Qt emits disconnected() only if it was
\* connected, and onSocketDisconnected passes it on.
CloseSocket(before) ==
  /\ Emit(IF socket = "connected" THEN Append(before, "disconnected") ELSE before)
  /\ socket' = "unconnected"
  /\ guarded' = FALSE
  /\ peer' = "none" /\ net' = <<>>

\* connectToHost aborts whatever the socket is doing.
WorkerStart ==
  /\ toWorker # <<>> /\ Head(toWorker).name = "start" /\ sid < MaxStarts
  /\ toWorker' = Tail(toWorker)
  /\ Emit(IF socket = "connected" THEN <<"disconnected">> ELSE <<>>)
  /\ guarded' = (guarded /\ socket # "connected")
  /\ socket' = "connecting" /\ sid' = sid + 1 /\ heard' = TRUE
  /\ peer' = "none" /\ net' = <<>>
  /\ UNCHANGED <<gui, userVars, faults>>

WorkerStop ==
  /\ toWorker # <<>> /\ Head(toWorker).name = "stop"
  /\ toWorker' = Tail(toWorker)
  /\ CloseSocket(<<>>)
  /\ UNCHANGED <<gui, sid, heard, userVars, faults>>

\* sendFrame drops the command unless the socket is connected.
WorkerSend ==
  /\ toWorker # <<>> /\ Head(toWorker).name = "cmd"
  /\ toWorker' = Tail(toWorker)
  /\ UNCHANGED <<gui, toGui, workerVars, bridgeVars, userVars>>

\* onSocketConnected: HELLO is sent, the timers start.
SocketConnected ==
  /\ socket = "connecting" /\ peer = "none"
  /\ socket' = "connected" /\ guarded' = TRUE /\ heard' = TRUE
  /\ peer' = "hello"
  /\ Emit(<<"connected">>)
  /\ UNCHANGED <<gui, toWorker, sid, net, userVars, faults>>

\* The connection is refused or times out: only errorOccurred.
SocketRefused ==
  /\ MayRefuse /\ socket = "connecting"
  /\ faults < MaxFaults /\ faults' = faults + 1
  /\ CloseSocket(<<"error">>)
  /\ UNCHANGED <<gui, toWorker, sid, heard, userVars>>

\* onReadyRead, frame by frame
ReadFrame ==
  /\ socket = "connected" /\ net # <<>>
  /\ net' = Tail(net)
  /\ heard' = TRUE
  /\ Emit(<<Head(net)>>)
  /\ UNCHANGED <<gui, toWorker, socket, sid, guarded, peer, faults, userVars>>

\* The peer closed the connection: errorOccurred, then disconnected.
RemoteClosed ==
  /\ socket = "connected" /\ peer = "closed"
  /\ CloseSocket(<<"error">>)
  /\ UNCHANGED <<gui, toWorker, sid, heard, userVars, faults>>

\* Time passes: nothing received for more than 3000 ms.
RxAges ==
  /\ heard /\ net = <<>>
  /\ Prompt => peer \notin {"hello", "session"}
  /\ heard' = FALSE
  /\ UNCHANGED <<gui, toWorker, toGui, socket, sid, guarded, bridgeVars, userVars>>

\* Faulty variant: the time-out is noticed but the socket stays open.
HeartbeatTimeoutKeepsSocket ==
  /\ guarded /\ socket = "connected" /\ ~heard
  /\ guarded' = FALSE
  /\ UNCHANGED <<gui, toWorker, toGui, socket, sid, heard, bridgeVars, userVars>>

\* timeout_timer_
HeartbeatTimeout ==
  /\ guarded /\ socket = "connected" /\ ~heard
  /\ CloseSocket(<<"error">>)
  /\ UNCHANGED <<gui, toWorker, sid, heard, userVars, faults>>

-----------------------------------------------------------------------------
(***************************************************************************)
(* The bridge and the network (environment)                                *)
(***************************************************************************)
BridgeAccepts ==
  /\ peer = "hello"
  /\ peer' = "session" /\ net' = net \o <<"hello_ok", "state">>
  /\ UNCHANGED <<gui, toWorker, toGui, workerVars, userVars, faults>>

BridgeRefuses ==
  /\ peer = "hello" /\ faults < MaxFaults
  /\ peer' = "refused" /\ net' = Append(net, "hello_no") /\ faults' = faults + 1
  /\ UNCHANGED <<gui, toWorker, toGui, workerVars, userVars>>

\* STATE_DELTA; one on its way at a time
BridgeReports ==
  /\ peer = "session" /\ net = <<>>
  /\ \A i \in DOMAIN toGui : toGui[i].name # "state"
  /\ net' = <<"state">>
  /\ UNCHANGED <<gui, toWorker, toGui, workerVars, userVars, peer, faults>>

\* The bridge is killed or drops the client ("closed"), or the network loses
\* everything without a word ("silent").
ConnectionLost ==
  /\ peer \in {"hello", "session", "refused"} /\ faults < MaxFaults
  /\ peer' \in {"closed", "silent"} /\ faults' = faults + 1
  /\ net' = IF peer' = "silent" THEN <<>> ELSE net
  /\ UNCHANGED <<gui, toWorker, toGui, workerVars, userVars>>

-----------------------------------------------------------------------------
Gui    == GuiSlot \/ ReconnectTimer
Worker == \/ WorkerStart \/ WorkerStop \/ WorkerSend
          \/ SocketConnected \/ ReadFrame \/ RemoteClosed
          \/ HeartbeatTimeout

Next ==
  /\ \/ Connect \/ Disconnect \/ ToggleAuto \/ Command
     \/ Gui
     \/ Worker
     \/ SocketRefused
     \/ RxAges
     \/ BridgeAccepts \/ BridgeRefuses \/ BridgeReports \/ ConnectionLost
  /\ UNCHANGED world

\* Both event loops turn, the timers fire, time passes, and the bridge accepts
\* a HELLO it may refuse only MaxFaults times.  A silent connection stays
\* silent long enough to be noticed.
Fairness ==
  /\ WF_movingVars(GuiSlot) /\ WF_movingVars(ReconnectTimer)
  /\ WF_movingVars(Worker)
  /\ WF_movingVars(RxAges /\ peer = "silent") /\ WF_movingVars(BridgeAccepts)

Spec == Init /\ [][Next]_vars /\ Fairness

-----------------------------------------------------------------------------
(***************************************************************************)
(* Properties                                                              *)
(***************************************************************************)
\* Every variable stays in its range, and a running reconnect_timer_ is always
\* pending: otherwise scheduleReconnect would restart it and double the
\* back-off at every signal.
TypeOK ==
  /\ gui \in Guis /\ (gui.timer => gui.pending)
  /\ \A i \in DOMAIN toWorker :
       toWorker[i] \in [name : {"start", "stop", "cmd"}, of : Sids]
  /\ \A i \in DOMAIN toGui : toGui[i] \in [name : Signals, of : Sids]
  /\ socket \in {"unconnected", "connecting", "connected"}
  /\ sid \in Sids /\ guarded \in BOOLEAN /\ heard \in BOOLEAN
  /\ peer \in {"none", "hello", "session", "refused", "closed", "silent"}
  /\ \A i \in DOMAIN net : net[i] \in Frames
  /\ intent \in {"connect", "disconnect", "retry"}
  /\ clicks \in 0..MaxClicks /\ faults \in 0..MaxFaults
  /\ world \in Worlds

\* What resetRemote clears is never shown of a robot the console has lost:
\* whatever signal of whatever connection comes late, a state on the screen
\* belongs to the session that is open, and so do then the nodes and the faults
\* beside it (onError and onDisconnected call resetRemote, onState applies
\* whatever arrives).  The table of the nodes outlives the session only until
\* the disconnected() that is queued already.  The fault table outlives it, and so
\* does what is left out: nothing is claimed of them here.
ShownStateIsLive ==
  /\ gui.shown # Nothing =>
       /\ gui.connected /\ gui.shown = gui.session
       /\ gui.nodes = gui.shown /\ gui.listed = gui.shown
  /\ gui.nodes # Nothing =>
       gui.connected \/ \E i \in DOMAIN toGui : toGui[i].name = "disconnected"

\* Once every queued signal is handled, ONLINE means that the socket is
\* connected to a bridge that accepted this console's HELLO (onConnected:
\* fail-closed until HELLO_ACK ok).
OnlineIsHonest ==
  gui.connected /\ toGui = <<>> =>
    socket = "connected" /\ peer \notin {"none", "hello", "refused"}

\* A manual disconnection sticks: no signal of the old connection, however
\* late, starts the timer or another attempt (scheduleReconnect and
\* onReconnectTimer test manual_disconnect_); only a rejected HELLO clears it.
ManualSticks ==
  intent = "disconnect" =>
    ~gui.timer /\ (toWorker = <<>> => socket = "unconnected")

Lost == gui.connected /\ peer \in {"closed", "silent"}

Recovered == \/ gui.connected /\ peer = "session"
             \/ gui.manual \/ ~gui.auto

\* A bridge that is killed, or falls silent, is noticed by the socket or by
\* timeout_timer_, and the console goes offline.
SilentServerNoticed == Lost ~> ~gui.connected

\* After a lost connection the console is in a session again, unless the
\* operator disconnected or turned reconnecting off (docs/WEEK3.md:21).
Reconnects == Lost ~> Recovered

\* The same where the bridge accepts every attempt and answers in time: the
\* signals of the lost connection, the clicks and the timers never leave the
\* console without an attempt to come.
ReconnectsWhenAccepted == world = "calm" /\ Lost ~> Recovered

\* A click on connect, after a manual disconnection or not, never leaves the
\* console connecting for ever (SettingsPage.qml:87 disconnect is manual; clear
\* flag then connect).
ConnectHonoured ==
  intent = "connect" ~> ~gui.connecting \/ intent # "connect"
=============================================================================
