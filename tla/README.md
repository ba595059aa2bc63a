# BotCockpit in TLA+

This directory holds the formal models of BotCockpit: TLA+ modules translated
from the C++ sources, the TLC configurations that check them on small
instances, and proofs checked by TLAPS.  `PROJECT.json` lists the components,
the runs, the theorems and, for every definition, the source lines it models.

## 1. The system

    QML pages <-> ConnectionController <-> SocketWorker  == TCP ==  TcpServer <-> BridgeNode  == ROS 2 ==  fake_robot
      (UI thread, RobotState)           (worker thread)             (recv threads, watchdog,              (one executor thread)
                                                                     command worker, ROS executor)

A Qt console drives a (simulated) robot through a TCP/ROS bridge.  Frames carry
commands (`CMD_MODE`, `CMD_TASK`, `CMD_ESTOP`, `CMD_RESET`), heartbeats, the
handshake (`HELLO`, `HELLO_ACK`), acknowledgements (`CMD_ACK`) and the robot's
state (`STATE_SNAPSHOT`, `STATE_DELTA`).

| component | state it keeps | operations | what is hard |
|---|---|---|---|
| `fake_robot` (`sim/src/fake_robot.cpp`) | lifecycle, phase, mode, estop, control flag, console flag and heartbeat time, node status, faults, task, path, battery | lifecycle transitions, `on_console`, `tick`, `on_cmd` | a dozen places assign phase and control; the status of a node is both an output and an input; the order of commands, heartbeats, faults and restarts is free |
| navigation (`nav.hpp`) | grid map, path index | A*, inflate, pure pursuit | geometry on doubles, border cells, replanning when stuck |
| `BridgeNode` (`bridge_node.cpp`) | last robot state and its time, `pending_` results, the ESTOP atomics | `handle_command`, `wait_cmd_result`, `urgent_estop`, `on_cmd_result`, `on_robot_state`, delta timer | three threads share the pending table and three separate atomics; time-outs race late results; ESTOP aborts a wait |
| `TcpServer` (`tcp_server.cpp`) | clients with descriptor, decoder, `hello_ok`, time stamps; the command queue | accept, receive, handle a frame, enqueue, command worker, watchdog, broadcast, stop | descriptors are closed by one thread and used by others; clients vanish while their commands are queued |
| frame codec (`frame_codec.cpp`, twice) | decoder buffer | append, next, encode | fragmentation, length limits |
| `json_util.cpp` | none | key lookup in a string | nested keys, escapes |
| `SocketWorker` (`socketworker.cpp`) | socket, decoder, `next_seq_`, heartbeat and pending maps, last reception | connect, disconnect, send, heartbeat, time-out, receive | Qt socket signals, teardown from several causes |
| `ConnectionController` (`connectioncontroller.cpp`) | manual flag, reconnect timer and pending flag, back-off, session flag | connect, disconnect, commands, reactions to the worker's signals | every signal is queued between two threads, so reactions come late and may belong to an older connection |
| `RobotState` and the table models | what the pages show | `applyState`, `resetRemote`, setters | partial deltas, fail-closed rules |
| QML pages | none of their own | buttons, dialogs, enable rules | enable rules must agree with what the robot accepts |

| module | models | proofs |
|---|---|---|
| `FakeRobot` | the robot node | `FakeRobotProofs` |
| `Interlock` | what the robot promises whoever stands beside it; `FakeRobot` implements it | `FakeRobotProofs` |
| `ConsolePages` (extends `FakeRobot`) | what the pages offer for what the robot published | `PagesProofs` |
| `Bridge` | the command path: receive threads, worker, executor, topics, robot | `BridgeProofs` |
| `CommandService` | what the bridge promises a console; `Bridge` implements it | `BridgeProofs` |
| `System` (extends `Bridge`) | consoles, bridge and robot together: `Bridge` with `Interlock` for its robot | `SystemProofs` |
| `TcpServer` | the connections of the bridge, the watchdog, `stop()` | `TcpServerProofs` |
| `Console` | the console's connection, on two threads | `ConsoleProofs` |
| `Nav` | the planner | `NavProofs` |
| `FrameCodec`, `JsonUtil` | framing, key lookup | `WireProofs` |

`MCFakeRobot`, `MCBridge`, `MCSystem`, `MCTcpServer`, `MCConsole` and `MCAlgorithms` are the
modules TLC is started on.

## 2. fake_robot: module `FakeRobot`

`rclcpp::spin` runs the callbacks of the node one at a time and each takes
`mu_`, so every callback is one atomic action.  `robot` is the record of the
members that decide control; `lifecycle` is the external ROS lifecycle machine
(`active_` is `lifecycle = "active"`); `fresh` says whether the last heartbeat
is at most 3000 ms old and `initDone` whether 500 ms have passed since
activation; `published` and `result` are the last messages on the two topics.
`revoked` is a history variable: the current task was stopped by ESTOP or by
the loss of the console.

The helpers `Recompute`, `ApplySafetyStop`, `ClearFaults`, `View`, ... are
functions on that record and are applied in the order in which the code calls
them.  Poses, paths and the charge are abstracted to what the handlers branch
on: whether a path is stored, whether the charge is below 15 %, and, as inputs
of a tick, whether the goal is reached or the tracking error is too large.

Run `robot` (one configuration, about 465 000 states) checks:

- RUNNING only when nothing forbids it (`RunningIsSafe`); control offered only
  when a task would be admitted (`ControlMeansReady`);
- FAULT, DEGRADED and ESTOP always explained by the estop flag or a listed
  fault, never by the node status that an earlier recompute left behind
  (`PhaseExplained`);
- a task stopped by ESTOP or by console loss is revived by nothing but a new
  goto (`StoppedTaskStaysStopped`);
- an active node's last published state is its state (`PublishedIsCurrent`);
- the node implements `Interlock` (`ImplementsInterlock`, below), with which
  ESTOP is latched;
- as long as the node is active, INITIALIZING ends and a silent console stops the
  robot (`TickKeepsUp`).

Bounds: `MaxTask = 1` bounds the task numbers: one number is enough to repeat an
id, to clash with an automatic one, and to pause, resume and restart a task.
`Modes` has AUTO, which some tests refuse, and TELEOP, which they do not; REMOTE
is treated as TELEOP everywhere.
Fairness: the 200 ms wall timer fires again and again (`WF` on `Tick`) and the
500 ms pass; commands, heartbeats and transitions are never assumed.
`CHECK_DEADLOCK FALSE` because a finalized node stops.

Where the docs promise more than the code does, the property states what the
code does, and the difference is recorded here:

- docs/PROTOCOL.md:99 leaves ESTOP only through `CMD_RESET`; cleanup followed by
  configure drops the flag too.  `Interlock` allows exactly that exit, and so does
  `StopIsHonoured` of section 4: both say what the code does and would not catch a
  node that is configured anew under an estop;
- docs/PROTOCOL.md:100 rejects `CMD_TASK` in ESTOP, FAULT and offline; `cancel`
  is accepted in every phase;
- docs/PROTOCOL.md:273 answers a repeated `task_id` with NACK or DONE; only a
  DONE task is recognised, a paused or failed one restarts;
- docs/WEEK2.md:27 stops a RUNNING robot about 3 s after the console is gone;
  RESET and goto are served by an inactive node, whose `tick` does not look at
  the age of the heartbeat (`TickKeepsUp` is stated for an active node).

### The abstract specification: module `Interlock`

Whoever stands beside the robot, or commands it, cares for six things: whether the
estop is latched, whether a console is heard, which errors are listed, whether the
robot moves, on which task it may set out again without being sent anew, and what
it last answered.  An
interlock starts or resumes only when the first three allow it; an estop, a lost
console and an error halt it in the same step; an estop, and a console lost on the
way, take the task for good; a reset clears only the errors it may, and nothing
repairs an error under a moving robot.  Every step is either unasked (`Itself`,
`Restart`) or done on a command (`Obey`), and then the answer says what was done: a
command that is rejected moves nothing, the estop is dropped only by a RESET that
is accepted or by a new configuration, and only an accepted CMD_TASK makes the robot
move.  The mapping reads these off the estop
flag, `console_online_`, the ERROR faults, `phase_ == RUNNING` and, without estop,
the id of a `goto`.  The other phases, the status of the nodes, control, the path,
the published state and the lifecycle are hidden.  It needs no history: what
`StoppedTaskStaysStopped` says with `revoked` is here that the task is gone.

### Proofs: module `FakeRobotProofs`

| theorem | property |
|---|---|
| `TypeCorrect` | `TypeOK` |
| `RunningSafe` | `RunningIsSafe` |
| `ControlReady` | `ControlMeansReady` |
| `PhaseIsExplained` | `PhaseExplained` |
| `StoppedStaysStopped` | `StoppedTaskStaysStopped` |
| `PublishedCurrent` | `PublishedIsCurrent` |
| `EstopStaysLatched` | `EstopLatch` (an action property; no run of its own: of what it says, `ImplementsInterlock` has what others see) |
| `RobotIsInterlock` | `ImplementsInterlock` (a refinement) |

They hold for every `MaxTask` above zero and every set of modes that contains
TELEOP (`MaxTaskAssumption` and `ModesAssumption` of `FakeRobot`).  None of the phase invariants is
inductive alone: `has_error_condition` reads `nodes_[0].status`, which an
earlier `recompute_phase_and_control` wrote, so a node could enter FAULT for a
reason that is no longer listed.  The inductive invariant `IInv` therefore adds

- `NodeExplained`: a status ERROR or WARN of the node has a listed fault of that
  level, in every state between the helpers of a handler;
- `PhaseMatches`: what each phase says of the estop flag, the faults and the
  task;
- that an IDLE robot whose console is online has control;
- that a node has left BOOT exactly while its subscriptions exist;
- that a task stopped for safety is out of reach of `resume`: estop is on or the
  task type is gone.

One lemma per helper says that it takes a settled record to a settled record
(`RecomputeSettles` is the heart: it settles any record whose node status is
explained), one step of `NextIInv` per action uses it, and `InductiveInvariant`
closes the induction.  `LatchStep` goes through the actions once more with the
estop flag on: such a node does not run, so no heartbeat goes through a safety
stop (`EstopSurvives`).

`RobotIsInterlock` needs the same invariant: that `Recompute` leaves a RUNNING robot
RUNNING, say, holds only because its node status has a listed fault.  Of two
records the interlock sees either no difference (`Alike`), or that the second
stands still, with one more error or not (`Halts`), or that the console is gone
(`Loses`).  One lemma per helper says which, `AlikeStutters`, `HaltsHalts` and
`LosesLoses` what the interlock makes of it, and `InterlockStep` goes through the
actions.  A tick makes up to three changes; `TickMaps` shows that at most one of
them is seen: a robot whose console fell silent no longer tracks.  Liveness stays
with TLC.

### What the console offers: module `ConsolePages`

The pages keep no state: `HasRobotState` (the rule of `applyState`), `CanDrive`,
`GotoOffered`, `ResetOffered`, ... are functions of the published state and set
against the robot that will receive the click.  The run `robot` checks them in
every state of the robot:

- a goto is offered exactly when an active robot would admit it, and pause exactly
  while it moves; AUTO is offered to the same robots and so never refused, although
  `on_cmd` would admit it while RUNNING too (fake_robot.cpp:778); the template that
  the bridge makes up when the robot is silent offers none of it
  (`OfferedWhenReady`);
- in ESTOP and DEGRADED, unless a node has timed out, one click on Reset leads
  back to a robot that drives (`RecoveryOffered`);
- the fault table has a reason for FAULT and DEGRADED, an ERROR in its first row
  whenever there is one (`CauseShownFirst`); an ESTOP whose row `CLEAR_FAULT`
  removed has none.

All three are theorems of `PagesProofs`.  The first two follow from the inductive
invariant of the robot, of which "IDLE and online means control" was added for
them.  `CauseIsShown` needs that a sorted table exists: `Sortable` grows by the
codes in their order, each of which belongs below those before it, and a table
without repetition that is as long as its set is large shows every code of it.

In FAULT there is no such click, and the run `reset_in_fault` finds it: it checks
`FaultResettable`, that Reset is offered there too, and is expected to violate it.
In FAULT `build_state_json` reports `conn` OFFLINE, `applyState`
(robotstate.cpp:237 to 240) takes that for "no robot", and Reset is disabled,
although the binding at ControlPage.qml:302 lists FAULT and fake_robot.cpp:731 says
that RESET must recover from task failures.  A fault is cleared only by other means
(`tools/inject_fault.py --clear`, which FaultPage hints at).

## 3. The command path: module `Bridge`

From the bytes a console sends to the acknowledgement it gets.  A step ends
where a thread releases a lock or touches an atomic another thread reads:

| actor | code | actions |
|---|---|---|
| receive thread of a client | `client_loop`, `handle_frame`, `enqueue_cmd`, `urgent_estop` | `Hello`, `Receive` (takes whatever has arrived, in the sorted order of the batch), `Enqueue`, `RaiseEstop`, `StoreEstopSeq`, `StoreEstopValid`, `PublishEstop`, `Close` |
| command worker | `cmd_worker_loop`, `handle_command`, `wait_cmd_result` | `TakeJob`, `CheckCommand`, `ForwardCommand`, `WaitExpired`, `WaitAborted`, `WaitContinues`, `LookDone`, `LookAgain` |
| ROS executor | `on_cmd_result`, `on_robot_state` | `MatchEstop`, `ClearRaised`, `ClearValid`, `StoreResult`, `OnRobotState` |
| time | `robot_state_fresh`, the 2000 ms deadline | `StateAges`, `DeadlinePasses` |
| robot (environment) | `FakeRobot::on_cmd`, `on_configure` | `RobotExecutes`, `RobotDrops`, `RobotRestarts` |

`estop_raised_`, `async_estop_seq_` and `async_estop_seq_valid_` are separate
atomics and change in separate steps, in opposite order on two threads.  The
histories `sent` and `executed` record what the console sent and what the robot
did.

| run | what it shows |
|---|---|
| `bridge` | an ACK with the robot's verdict carries the verdict of that command (`AckIsTruthful`); only ESTOP overtakes (`OrderKept`); every command is answered although the robot may never answer (`CommandsAnswered`); every ESTOP received is published (`EstopForwarded`) |
| `system` | consoles, bridge and robot: section 4 |
| `bridge_estop_ack` | violated: a second ESTOP overwrites `async_estop_seq_`, and the first is never acknowledged |
| `bridge_motion` | violated: a task is forwarded to a robot in ESTOP because the bridge's copy of the robot state is older |
| `bridge_stuck_abort` | violated: the result of one ESTOP and the arrival of the next leave `estop_raised_` on for good, and later commands are aborted with no ESTOP outstanding |

Bounds: one console and two commands: a result that comes late for the one, or an
ESTOP that overtakes it, meets the other (`system` and `bridge_stuck_abort` have
three).  The commands are one of each kind that the code treats differently.  The
robot may drop commands and may be configured anew, which forgets its estop
(`RobotIgnores = TRUE`).  With one
console `seq` is unique; consoles that count in parallel meet in `pending_` and
in the broadcast of ESTOP acknowledgements (a console gets an ACK for a `seq` it
never sent, against docs/PROTOCOL.md:20), which the hazards record.  Fairness:
each thread runs and the deadline passes; the robot answers only in
`AnsweringSpec`, used by `bridge_estop_ack`, where a robot that never answers
would be no evidence.  `CHECK_DEADLOCK FALSE` because the console
stops after `MaxSeq` commands.

### The abstract specification: module `CommandService`

To one console the bridge is a service with four variables: whether it is open,
what was asked, what was executed with which verdict, and what was answered.  A
command is executed at most once, in the order asked except that an urgent one
may overtake; it is answered at most once, with the robot's verdict on it or a
refusal, and an urgent command is never refused.  The refinement mapping reads
these off `link`, `sent`, `executed` and `acks`; the threads, the atomics, the
queues, the topics and the deadlines are hidden.  Most steps of `Bridge` are
stutters; `Send`, `RobotExecutes`, the steps that send an acknowledgement, and
`Close` are the steps of the service.

### Proofs: module `BridgeProofs`

| theorem | property | holds for |
|---|---|---|
| `TypeCorrect` | `TypeOK` | any consoles and number of commands |
| `PendingIsOwned` | `PendingOwned` (proved only) | the same |
| `VerdictsAreTruthful` | `AckIsTruthful` | the same; a verdict names no console |
| `OrderIsKept` | `OrderKept` | one console |
| `AnswersAreUnique` | `AnsweredOnce` (proved only; `ImplementsService` says it too) | one console |
| `BridgeImplementsService` | `ImplementsService` | one console |

The first three rest on `PInv` (types, what an urgent command is, that every
frame in an inbox or a batch was sent by that console, `PendingOwned`) and on
`Heard`: results on the topic, in the executor's hands, in `pending_` under their
own number and in acknowledgements were all said by the robot.  The others need
what `AllInv` adds.  A command goes through the stages inbox, batch, queue, worker,
topic, robot: `InOrder` says of any two stages what may precede what, `Origins`
that everything anywhere is about a command the console sent and that no ESTOP
enters the queue, and `Unanswered` that a command still under way has no answer
yet, so that the one it will get is the first.  `Clients = {Console}` is an
assumption of these theorems because they are false for two consoles, whose
numbers collide.  `BridgeImplementsService` maps every step to a step of the
service or a stutter, one lemma per thread.  `CommandsAnswered` and
`EstopForwarded` are liveness and stay with TLC.

Dead code noticed while modelling: the worker's own ESTOP branch
(bridge_node.cpp:186-192) and the fallback of `enqueue_cmd`
(tcp_server.cpp:301-304) are never reached, because `BridgeNode` installs an
urgent handler before it starts the server.

## 4. Consoles, bridge and robot: module `System`

`Bridge` leaves its robot open: it may accept or reject what it likes.  `System`
puts the robot in: `FakeRobot` implements `Interlock` (section 2), and `System` is
`Bridge` with an `Interlock` in the place of that robot, the flag `estop` in common.
The argument has three links, each checked in a run and proved,

    FakeRobot  implements  Interlock          (ImplementsInterlock, run robot)
    System     implements  Bridge             (ImplementsBridge, run system)
    System     implements  CommandService     (ImplementsService, run system)

so that whatever is proved of `Bridge`, for a robot about which next to nothing is
assumed, holds with this one.  That is not obvious: a robot that takes a command
twice is none `Bridge` is made for.  What no tool checks is the composition itself:
that `System` names the robot's promises as `Interlock` does is its definition (it
instantiates `Interlock` and takes its steps), and `FakeRobot`, whose state is far
larger, is never run together with `Bridge`.

| actor | code | actions |
|---|---|---|
| consoles, bridge | as in section 3 | `Connection`, `Recv`, `Work`, `OnCmdResult`, ...; they leave the robot alone |
| robot, on a command | `FakeRobot::on_cmd` | `Take` (with `Does`), `Drop` when the node is down |
| robot, unasked | `tick`, `on_console`, `on_deactivate` | `Unasked` |
| a restart of the node | `on_configure` | `Reconfigure` |
| command line tools | `tools/inject_fault.py` | `Tool` |

Two properties go from the console to the wheels and back:

- `MovesOnlyWhenTold`: a moving robot moves because of a `CMD_TASK` that a console
  sent and the robot accepted, with every ESTOP before it released by an accepted
  RESET and no ESTOP since;
- `StopIsHonoured`: when a console has been told its ESTOP was accepted, the robot
  executed it, and until it accepts a RESET that it takes afterwards, or is
  configured anew, its estop is on and it stands.

Both need the whole way: the interlock alone knows no console, the bridge alone does
not know what a command does.  What they leave open, because the code does, is which
RESET releases an ESTOP: one sent before it may be taken after it, when the batch is
sorted or while it waits in the queue (`SinceRestart` and `Releases` go by the
order in which the robot takes the commands).

The answer to a tool's command goes to the bridge like any other and is dropped as
one no command is pending for; `System` leaves it out.  The numbers of
`inject_fault.py` are the time modulo 65000, so one could meet the number of a
pending command; `pending_` cannot tell the two apart, as with two consoles.  That
`CMD_TASK` and `CMD_RESET` stand for other commands as well (section 3) does not
apply here: a task is a task.  `INJECT_FAULT` and `CLEAR_FAULT` from the topic count
as `Tool`.

Bounds of the run `system` (about two minutes): one console, and `Scripts` bounds
what it sends to a task and its ESTOP, and to a RESET, an ESTOP behind it and a task
after both, or a beginning of these: the sequences in which an ESTOP, what it
overtakes and what comes after it meet.  One task, and one error that a RESET
may not clear.  The robot drops commands and restarts as it likes.

### Proofs: module `SystemProofs`

| theorem | property | holds for |
|---|---|---|
| `SystemImplementsBridge` | `ImplementsBridge` | any consoles, commands, tasks, errors and scripts |
| `SystemImplementsService` | `ImplementsService` | the same with one console |
| `RobotMovesOnlyWhenTold` | `MovesOnlyWhenTold` | any consoles, commands, tasks, errors and scripts |
| `AcceptedStopIsHonoured` | `StopIsHonoured` | the same |

`SystemImplementsBridge` is shown action by action: `Take` is `RobotExecutes` or, when
the interlock answers DONE, its accepting case; `Reconfigure` is `RobotRestarts`, or a
stutter when no estop was on; `Unasked` and `Tool` stutter.  It makes every invariant
of `Bridge` one of `System`, and the inductive invariant `SystemInv` uses those that
need no single console: `TypeOK`, `UrgentMatches`, `AllTraced`, `PendingOwned` and
`Heard`.  It adds

- `Traceable`: whatever waits in the queue, is in the worker's hands, is on the topic
  or was said by the robot is about a command some console sent;
- `RobotInv`: since the last restart, either every ESTOP executed has an accepted
  RESET behind it or the estop is on and the robot stands (`Latched`), and a moving
  robot accepted a task with every ESTOP released before it (`Permitted`).

Neither half of `RobotInv` goes without the other.  A task is accepted only with the
estop off (`Taken`), so `Latched` says that every ESTOP was released before it, which is
`Permitted`; and an ESTOP stops the robot, so that no `Permitted` task comes before it.
`StopIsHonoured` then follows from `Heard`, which says that the acknowledgement is
what the robot said, and `Latched`; `MovesOnlyWhenTold` from `Permitted` and
`Traceable`.

## 5. The connections of the bridge: module `TcpServer`

The same server from another side: who may use which descriptor, who is silent,
and how it stops.  The kernel is modelled as far as it gives a closed descriptor
to the next connection (`owner`) and knows whether a connection is shut down
(`shut`).

| actor | code | actions |
|---|---|---|
| consoles, time | - | `PeerEnds`, `Tick` |
| acceptor | `accept_loop` | `Accept`, `Register`, `AcceptorEnds` |
| receive thread of a client | `client_loop`, `handle_frame`, `enqueue_cmd`, `remove_client` | `LoadFd`, `Recv`, `RecvEnds`, `HandleHello`, `HandleHeartbeat`, `HandleCmd`, `Leave`, `Close`, `Remove` |
| watchdog | `heartbeat_watchdog` | `Sample`, `Snapshot`, `Inspect`, `Strike`, `PassEnds`, `WatchdogEnds` |
| command worker | `cmd_worker_loop` | `TestQueue`, `FallAsleep` |
| delta timer | `delta_timer_cb`, `client_count` | `Report` |
| stop() | `stop` | `StopBegins`, `StopNotifies`, `StopClosesListener`, `StopClosesClient`, `StopJoins`, `StopReturns` |

A descriptor that a thread has loaded and not used yet is in `thread[c].fd` or
`watch.target`; `clients_mu_` is held by `stop()` while `stop = "clients"`.
Time is counted in ticks of `HB_TIMEOUT_MS`, and an instant is kept as its age, up to
the age beyond which nothing changes.

Run `tcp_server` (about 269 000 states):

- the descriptor in a `Client` is open and its own, and no thread closes, or
  receives from, the connection of another (`DescriptorsOwned`);
- the watchdog shuts down a client that went silent, and otherwise only one that
  was accepted or heard from during the very pass (`WatchdogHonest`);
- when nobody sends heartbeats any more, however many commands arrive, the robot
  is told that no console is online (`SilenceReported`);
- `stop()` returns, but for one lost notification (`StopEnds`), and every
  descriptor is given back (`DescriptorsReleased`).

Bounds: two connections on one descriptor, so that it is given again while the
threads of the first may still hold it; one pass of the watchdog may last one
tick (`MaxLag`).  `Stories` explores time-outs without `stop()` and `stop()`
without time-outs: together they would multiply states without a common variable
that decides.  Fairness: threads run, timers fire, and a `stop()` that was begun
goes on; nothing makes a console connect, send or leave.  `CHECK_DEADLOCK FALSE`
because a stopped server stops.

What the properties allow, because the code does it:

- `stop()` clears `running_` and notifies without `queue_mu_`
  (tcp_server.cpp:89-90): a worker between its test and its sleep misses both,
  and `stop()` waits for ever in the join.  `StopEnds` names this state,
  `"overslept"`, as the only exception; docs/WEEK1.md:168 asks for a clean exit;
- `now` is sampled before the other threads note their time, and
  `now - ref > limit` is unsigned (tcp_server.cpp:463): a client refreshed during
  the pass gets a huge age and is shut down, as is one that was given the
  descriptor the watchdog loaded (the second and third case of `WatchdogHonest`);
- a HELLO does not refresh `last_hb_rx_ms`, so a client that says HELLO more than
  3 s after its accept counts as silent at once;
- the receive threads are detached and `stop()` does not wait for them.

`send_frame` loads a descriptor and sends on it (tcp_server.cpp:244) as the watchdog
loads one and shuts it down; only the watchdog's and the receivers' use is modelled,
so that a frame written to the connection that was given the descriptor in between
is out of this model.

### Proofs: module `TcpServerProofs`

| theorem | property |
|---|---|
| `TypeCorrect` | `TypeOK` |
| `DescriptorsAreOwned` | `DescriptorsOwned` |
| `WatchdogIsHonest` | `WatchdogHonest` (an action property) |

They hold for any finite set of clients and of descriptors.  `Owned` ties the
three places a descriptor can be, `Client::fd`, a thread in `recv`, a thread about
to close, to its owner; its heart is that a thread in `recv` may hold a descriptor
it no longer owns only after the listener is closed, when nobody can be given it
again (`InRecv`).  The watchdog needs more (`WInv`): `Held`, that an open
descriptor is in its `Client` or in one closing hand; `Aged`, that a HELLO in hand
is newer than the last heartbeat; and `StrikeIsDue`, that between the decision
and `shutdown` whoever has the descriptor is due for one of the three reasons.
The three liveness properties stay with TLC.

## 6. The console's connection: module `Console`

`ConnectionController` and `RobotState` live on the GUI thread, `SocketWorker`
on its own; every signal between them is queued.  `toWorker` and `toGui` are the
two event queues, a slot is one atomic action of its thread.  `gui` is the record
of the flags that decide (`connected_`, `connecting_`, `manual_disconnect_`,
`auto_reconnect_`, the reconnect timer and `reconnect_pending_`) and histories: the
`session` `onConnected` was last called for, and the connections from which came
what the pages show: the state (`shown`), the table of the nodes (`nodes`) and the
fault table (`listed`).  The back-off is time, so its length is abstracted away.
QTcpSocket is external: `disconnected()` is emitted only by a socket that was
connected, so an attempt that is refused, times out or is aborted while connecting
emits `errorOccurred` at most.

| run | what it shows |
|---|---|
| `console` | a state on the screen is that of the open session, and nodes and faults are then of the same session; the table of the nodes outlives the session only until the `disconnected` already queued (`ShownStateIsLive`); ONLINE means an accepted session once the queue is handled (`OnlineIsHonest`); a manual disconnection sticks (`ManualSticks`); a dead or silent bridge is noticed (`SilentServerNoticed`); a bridge that accepts every attempt is reconnected to (`ReconnectsWhenAccepted`) |
| `console_reconnect` | violated: `Reconnects` when one attempt is refused, as while the bridge restarts: `onError` leaves rescheduling to a `disconnected` signal that never comes |
| `console_stuck` | violated: disconnecting during an attempt leaves `connecting_` on, and every later connect returns early (`ConnectHonoured`) |

What the pages still show of a lost robot: `resetRemote` (robotstate.cpp:125 to 164)
leaves `faults_list_`, `nav_status_`, the goal and the track error as they were, so
that the fault table goes on listing the faults of a robot that is gone; the
announcement "Offline — connect to see faults" (FaultPage.qml:135) appears over an
empty list only.  `ResetRemote` leaves `listed`, and `ShownStateIsLive` claims
nothing of it without a state beside it.  The next state brings its own faults, but
not always a status, goal and error of the navigation: the state that the bridge
makes up for a silent robot (bridge_node.cpp:75 to 85) has none, so that those of an
earlier session can stand beside it.  They are not in the model.  `onError` does not
empty the table of the nodes either; `onDisconnected`, which follows it, does.

Bounds: `MaxClicks` clicks of the operator, `MaxFaults` lost connections,
refusals or rejected HELLOs, `MaxStarts` calls of `connectToHost`.  Two faults
are one that starts a reconnection and one that hits it; three clicks are
connect, disconnect, connect.  A behaviour takes place in one of the `Worlds`: in
`"calm"` the bridge accepts every attempt, the reconnect timer, of a second or more,
outlasts the queues and a connection attempt, and a bridge that is not lost sends
something every 3 s (it echoes the 1 s heartbeats); in `"refusing"` an attempt may be
refused as well; in `"hasty"` it may be refused and the timers fire at any moment, so
that attempts can follow one another without end.  The run `console` has the calm
world, which never reaches its `MaxStarts` of 4, and the hasty one, which `MaxStarts`
cuts off (about 545 000 states together, a minute and a half);
`ReconnectsWhenAccepted` is about the calm one.  `console_reconnect` has the refusing
world, `console_stuck` the calm one.  Fairness: both event loops turn, the timers
fire, and the bridge answers a HELLO.
`CHECK_DEADLOCK FALSE` because the operator stops clicking.

### Proofs: module `ConsoleProofs`

| theorem | property |
|---|---|
| `TypeCorrect` | `TypeOK` |
| `ShownIsLive` | `ShownStateIsLive` |
| `OnlineIsEarned` | `OnlineIsHonest` |
| `DisconnectionSticks` | `ManualSticks` |

They hold for all bounds, hence for queues of any length, and for every set of
worlds.  What the pages show is safe because of the order of what is still to
come: `SignalsInOrder` says that the queued signals, the frames
on their way and the signal the connection may cause next form a chain in which
each link may follow the one before it (`Follows`), and that the first fits what
the console shows (`Fits`).  A slot takes the first link away, a lost connection
cuts off the end.  `NodesOwned` is the same idea for the table of the nodes, which
waits for `disconnected`: whenever the table is filled, or a queued state is going to
fill it, the end of that connection is queued behind it before any other connection
begins, or is still to come because the socket is up (`EndsAfter`).
`SocketMatchesPeer` ties the socket to the bridge's end.
`DisconnectHolds` is the invariant behind `ManualSticks`: after a manual
disconnection the last start or stop in the worker's queue is a stop
(`StopComes`), or the socket is closed and no start is queued.

## 7. Algorithms: modules `Nav`, `FrameCodec` and `JsonUtil`

Three parts that are sequential and compute over data.  The run `algorithms`
(module `MCAlgorithms`, about 430 000 states) examines one of them per behaviour.
`CHECK_DEADLOCK FALSE` because a search ends and a stream is bounded.

- `Nav` has the grid, `inflate`, `snap_free` and A*: one pop of the queue, or one
  waypoint read back, per step.  On all 512 maps of a 3 x 3 grid, between any two
  points, one outside the map included: the path is legal, that is free, without
  gaps and without cutting corners (`PathIsLegal`); it is no longer than any way
  that enters no cell twice, and none is reported only when there is none
  (`PathIsShortest`; the ways are the constant `Routes`, enumerated by
  `AllRoutes`); the search ends (`SearchEnds`, under fairness of its steps).
  Three cells are enough for detours, corners on both sides, several paths of
  equal cost and entries of the queue that have become stale.  On the map of the
  simulation, 40 x 20 and inflated, free cells are connected and every goal that
  lies in the map can be planned to (`DemoGoalsPlannable`).  World coordinates
  are integers, two to a cell, and costs are in 1/10000 of a cell.
- `FrameCodec` is a connection: one side writes frames, and other bytes, into a
  stream; `recv` returns any part of what has been written, and `next` yields
  frames from the buffer until it finds none.  The frames yielded are the frames
  sent, none is missing when all has arrived, and what is no frame costs none of
  those before it (`FramesSurviveSplits`); whatever length a header states, less
  than one frame stays buffered between two calls of `recv`
  (`CorruptionContained`).  After a corrupt length the decoder is out of step with
  the stream unless nothing more was on its way, and then the record begins anew:
  the peer's next frame is read like a first one.  Frames that were buffered
  behind a corrupt length are cleared with it; no property is about them.  Bounds: frames of at most 12
  bytes behind the length, in place of 64 KiB, 20 bytes per `recv` and 28 per
  stream, room for three frames; headers come from both sides of both limits, and
  one payload looks like a length.
- `JsonUtil`: texts are sequences of tokens, with strings that contain an escaped
  quotation mark, where the search for a quoted key can hit.  The bridge finds
  the estop flag and the number of a result whatever the robot wrote before
  them (`LookupFindsKeys`); the robot reads what the operator sent but for three
  task ids (`CommandsReadRight`).  Names are the keys of the texts and one that is
  none of them.

### Proofs: modules `NavProofs` and `WireProofs`

| theorem | property | holds for |
|---|---|---|
| `PlannerInv` | the inductive invariant of the search | any grid, maps and points |
| `PathLegal` | `PathIsLegal` | the same |
| `PathShortest` | `PathIsShortest` | the same, and any `Routes`: no way over the grid is shorter, however long or winding |
| `CodecInv` | the inductive invariant of the decoder | any limits, frames within them and other bytes |
| `FramesSurvive` | `FramesSurviveSplits` | the same |
| `BufferBounded` | `CorruptionContained` | the same |
| `CommandsRead` | `CommandsReadRight` | any names |
| `LookupsFind` | `LookupFindsKeys` | any names |

*The search.*  `came` is a tree of passable steps, each paid for in the score
(`Tree`), an entry of the queue may be stale but never promises too little
(`QueueBound`), and a cell that was reached is either queued with its score or has
its steps relaxed (`Frontier`): there is no closed list, so a cell may go back
from the second to the first.  The heuristic is consistent (`Consistent`).  When
the goal is on top, let F be its score and give each cell the lesser of its score
and of F minus its heuristic: along any route this grows from at most 0 at the
start to F at the goal, and by no more than each step costs (`FoundLeast`): behind a
cell whose steps are relaxed because they are, behind a queued one because the top of
the queue is no greater, and elsewhere by consistency.  When the
queue is empty every step from a reached cell leads to a reached one, so a route
would reach the goal (`ExhaustedNone`).  `RouteLength` is a recursive function;
`SumExists` shows that the function exists, from there on sums are compared step
by step (`Telescope`).

*The decoder.*  `Laid` says where in the stream each frame lies, `InStep` that the
buffer is exactly what has arrived behind the last frame yielded.  A decoder out
of step (`Lost`) has yielded all frames sent, because it can get there only at
bytes that are no frame and nothing is sent after them.  `FirstIsFrame` is the
heart: a buffer that begins like a frame is neither corrupt nor, when long enough,
read as anything but that frame; under it lie the arithmetic of the four length
bytes (`FourBytes`) and that `encode` and `next` agree on every byte.

*The lookup.*  Each text is written out token by token, each token is known by what
it can match (`Quiet`, `Named`, `Colon`), and for every key the first match and
the colon behind it are named.  The three exceptions of `CommandsReadRight` come
out of the proof as the cases in which the id matches first.

What the properties state of the code and a reader may not expect:

- x = 20 and y = 5 pass the range test at fake_robot.cpp:842, whose comment (line
  841) counts them to the map, and lie in no cell: such a goto fails to plan and puts
  the robot in FAULT.  No property is about these goals;
- when the goal is occupied the path ends with a straight leg from the nearest
  free cell to the goal itself, which is not checked against the map
  (nav.hpp:198, as its comment says);
- `extract_string` and its siblings in fake_robot.cpp take the first match of a
  quoted key, also inside a value: a goto whose task id is `x`, `y` or `type` is
  read with the timeout in the place of that field;
- `get_int` skips the sign, so that the test `seq_ll < 0` at bridge_node.cpp:109
  never holds.

## 8. What is not modelled, and why

- Pure pursuit: it steers on real numbers; `FakeRobot` takes its outcome as an
  input of a tick.
- The frames the server sends of itself (heartbeats, deltas), and sends that
  fail: the console's reaction to what arrives or not is in `Console`.
- `applyState`'s merging of partial states into properties, acknowledgements,
  round-trip times and the log of the console: display data that no decision of
  the program reads.  The console has no time-out for an acknowledgement
  (docs/PROTOCOL.md:66 asks for 2000 ms), so there is no behaviour to model.
- The host to connect to: "Reconnect now" with another host while the
  disconnection is queued reconnects to the old one (SettingsPage.qml:89).
- The contents of the node table (`Console` has only whose they are), layout of the
  pages, entry points.
- Tools and tests: read for their expectations only.
- Two consoles in the command path, beyond what the first three theorems of
  `BridgeProofs` say: their numbers collide, and what the code should do then is
  not written anywhere but in docs/PROTOCOL.md:20.

## 9. Proved, and model-checked only

Proved by TLAPS for every value of the constants: every state invariant that a
run checks but one, the action properties (`EstopLatch` among them, and the invariants
`PendingOwned` and `AnsweredOnce`, which no run checks for themselves), and the refinements: the bridge, alone
and with its robot, implements `CommandService`, the robot `Interlock`, and bridge
and interlock together `Bridge`.  The assumptions are
those stated with the constants, and one console where the table says so.

Model-checked only:

- every liveness property (`TickKeepsUp`, `CommandsAnswered`, `EstopForwarded`,
  `SilenceReported`, `StopEnds`, `DescriptorsReleased`, `SilentServerNoticed`,
  `ReconnectsWhenAccepted`, `SearchEnds`), which is out of the prover's reach;
- `DemoGoalsPlannable`, which is about one map and computes which of its 800 cells
  are connected: there are no constants to prove it for;
- the six runs that are expected to find a violation.

## 10. What is left

1. The report of `TcpServer` joined to `System`: how long after its last heartbeat a
   console still drives, and what it sees of a robot that was deactivated.
2. Consoles with their own numbers in `Bridge`, with the mix-ups in `pending_` and
   in the broadcast stated as violations.
3. Acknowledgements on the console, once it acts on them.
