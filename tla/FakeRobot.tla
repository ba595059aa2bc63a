------------------------------ MODULE FakeRobot ------------------------------
(***************************************************************************)
(* The robot side of BotCockpit: the lifecycle node fake_robot             *)
(* (sim/src/fake_robot.cpp).  rclcpp::spin runs its callbacks one at a     *)
(* time and every callback holds mu_, so a handler is one atomic action.   *)
(*                                                                         *)
(* The member variables that decide control are the fields of `robot`.     *)
(* Poses, paths and the battery charge are abstracted to what the handlers *)
(* branch on: whether a path is stored, whether the charge is below 15 %,  *)
(* and, as inputs of a tick, whether the goal is reached or the tracking   *)
(* error is too large.                                                     *)
(***************************************************************************)
EXTENDS Integers, FiniteSets

CONSTANTS
  MaxTask,    \* bound on the task numbers: ids "T-1" .. "T-MaxTask"
  Modes       \* the control modes; on_cmd knows TELEOP, AUTO and REMOTE

ASSUME MaxTaskAssumption == MaxTask \in Nat \ {0}
ASSUME ModesAssumption   == "TELEOP" \in Modes /\ "none" \notin Modes

VARIABLES
  lifecycle,  \* state of the rclcpp lifecycle machine (external); active_ is
              \* lifecycle = "active", every transition keeps them equal
  robot,      \* the members of FakeRobot
  fresh,      \* now_ms() - last_console_ms_ <= 3000
  initDone,   \* active, and now >= idle_tp_
  published,  \* last message on botcockpit/state
  result,     \* last message on botcockpit/cmd_result
  revoked     \* history: the current task was stopped by ESTOP or console loss

vars == <<lifecycle, robot, fresh, initDone, published, result, revoked>>

-----------------------------------------------------------------------------
(***************************************************************************)
(* Values                                                                  *)
(***************************************************************************)
NoTask  == 0                    \* task_id_ empty; n stands for "T-n"
TaskIds == 1..MaxTask

Phases ==
  {"BOOT", "INITIALIZING", "IDLE", "RUNNING", "DEGRADED", "FAULT", "ESTOP"}

TaskStates == {"NONE", "ACCEPTED", "EXECUTING", "DONE", "FAILED"}
NavStates  == {"IDLE", "PLANNING", "TRACKING", "FAILED"}

\* The fault codes the node raises, each with one level.
WarnCodes  == {"E_ESTOP_ACTIVE", "W_BATTERY_LOW"}
ErrorCodes == {"E_TASK_FAILED", "E_NODE_TIMEOUT"}

\* faults_ is a set: a code listed twice is cleared and tested as one.
Robots ==
  [phase : Phases, mode : Modes, estop : BOOLEAN,
   ctl : BOOLEAN, online : BOOLEAN,
   node0 : {"OK", "WARN", "ERROR"}, node1 : {"OK", "WARN"},
   low : BOOLEAN, faults : SUBSET (WarnCodes \cup ErrorCodes),
   id : TaskIds \cup {NoTask}, type : {"", "goto"}, status : TaskStates,
   path : BOOLEAN, nav : NavStates, seq : TaskIds \cup {NoTask}]

Views ==
  [conn : {"ONLINE", "DEGRADED", "OFFLINE", "ESTOP"}, mode : Modes,
   phase : Phases, node0 : {"OK", "WARN", "ERROR"}, node1 : {"OK", "WARN"},
   low : BOOLEAN, id : TaskIds \cup {NoTask}, type : {"", "goto"},
   status : TaskStates, faults : SUBSET (WarnCodes \cup ErrorCodes),
   estop : BOOLEAN, ctl : BOOLEAN, nav : NavStates, path : BOOLEAN]

Commands == {"CMD_ESTOP", "CMD_RESET", "CMD_MODE", "CMD_TASK",
             "INJECT_FAULT", "CLEAR_FAULT", "other"}

\* ok is status # "REJECTED"; the reason is wording.
Results == [cmd : Commands, status : {"ACCEPTED", "REJECTED", "DONE"}]

NoResult == [cmd |-> "none"]
NoState  == [conn |-> "none"]

-----------------------------------------------------------------------------
(***************************************************************************)
(* The helpers of the node, as functions of its members                    *)
(***************************************************************************)
HasError(r) == r.faults \cap ErrorCodes # {} \/ r.node0 = "ERROR"
HasWarn(r)  == r.faults \cap WarnCodes # {} \/ r.node0 = "WARN"

\* recompute_phase_and_control: the early returns in the order of the code.
Recompute(r) ==
  IF r.estop
    THEN [r EXCEPT !.phase = "ESTOP", !.ctl = FALSE]
  ELSE IF r.phase \in {"BOOT", "INITIALIZING"}
    THEN [r EXCEPT !.ctl = FALSE]
  ELSE IF HasError(r)
    THEN [r EXCEPT !.status = IF r.phase = "RUNNING" THEN "FAILED" ELSE @,
                   !.phase = "FAULT", !.ctl = FALSE, !.node0 = "ERROR"]
  ELSE IF HasWarn(r)
    THEN [r EXCEPT !.phase = IF @ = "RUNNING" THEN @ ELSE "DEGRADED",
                   !.ctl = FALSE, !.node0 = "WARN"]
  ELSE [r EXCEPT !.node0 = "OK",
                 !.phase = IF @ = "RUNNING" THEN @ ELSE "IDLE",
                 !.ctl = r.phase # "RUNNING" /\ r.online]

FailTask(r) ==
  [r EXCEPT !.status = IF @ \in {"ACCEPTED", "EXECUTING"} THEN "FAILED" ELSE @]

\* Faulty variant: the task stays resumable after a safety stop.
SafetyStopKeepsType(r) ==
  Recompute([FailTask(r) EXCEPT !.phase = IF @ = "RUNNING" THEN "IDLE" ELSE @])

\* apply_safety_stop; its callers publish again when they return.
ApplySafetyStop(r) ==
  LET s == Recompute([FailTask(r) EXCEPT
                        !.phase = IF @ = "RUNNING" THEN "IDLE" ELSE @,
                        !.type  = ""])
  IN  [s EXCEPT !.ctl = @ /\ s.online]

\* Faulty variant: the status of the node itself is not reset.
ClearFaultsKeepsNode(r) == [r EXCEPT !.faults = {}]

ClearFaults(r) == [r EXCEPT !.faults = {}, !.node0 = "OK"]

ForgetTask(r) == [r EXCEPT !.status = "NONE", !.id = NoTask, !.type = ""]

DropPath(r) == [r EXCEPT !.path = FALSE, !.nav = "IDLE"]

\* conn of build_state_json: FAULT and a silent console both read OFFLINE.
Conn(r) ==
  IF r.estop THEN "ESTOP"
  ELSE IF r.phase = "FAULT" \/ ~r.online THEN "OFFLINE"
  ELSE IF r.phase = "DEGRADED" THEN "DEGRADED"
  ELSE "ONLINE"

\* build_state_json: everything the console is told.
View(r) ==
  [conn |-> Conn(r), mode |-> r.mode, phase |-> r.phase,
   node0 |-> r.node0, node1 |-> r.node1, low |-> r.low,
   id |-> r.id, type |-> r.type, status |-> r.status, faults |-> r.faults,
   estop |-> r.estop, ctl |-> r.ctl, nav |-> r.nav, path |-> r.path]

\* tasks and AUTO are refused
Blocked(r) ==
  \/ r.estop
  \/ r.phase \in {"FAULT", "DEGRADED", "BOOT", "INITIALIZING"}
  \/ ~r.online

-----------------------------------------------------------------------------
(***************************************************************************)
(* Building blocks of the actions                                          *)
(***************************************************************************)
\* The handler ends in publish_state() with the members r.
Settle(r) == robot' = r /\ published' = View(robot')

Reply(cmd, status) == result' = [cmd |-> cmd, status |-> status]

\* The handler answers and returns, nothing else.
Refuse(cmd) ==
  /\ Reply(cmd, "REJECTED")
  /\ UNCHANGED <<robot, published, revoked>>

\* cmd_sub_ and console_sub_ exist between configure and cleanup.
Subscribed == lifecycle \in {"inactive", "active"}

OnCmd == Subscribed /\ UNCHANGED <<lifecycle, fresh, initDone>>

-----------------------------------------------------------------------------
(***************************************************************************)
(* Lifecycle transitions                                                   *)
(***************************************************************************)
Init ==
  /\ lifecycle = "unconfigured"
  /\ robot = [phase |-> "BOOT", mode |-> "TELEOP",
              estop |-> FALSE, ctl |-> FALSE, online |-> FALSE,
              node0 |-> "OK", node1 |-> "OK", low |-> FALSE, faults |-> {},
              id |-> NoTask, type |-> "", status |-> "NONE",
              path |-> FALSE, nav |-> "IDLE", seq |-> 0]
  /\ fresh = FALSE
  /\ initDone = FALSE
  /\ published = NoState
  /\ result = NoResult
  /\ revoked = FALSE

Initializing(r) == [r EXCEPT !.phase = "INITIALIZING", !.ctl = FALSE]

\* on_configure: mode_, task_seq_ and last_console_ms_ survive.
Configured(r) ==
  Initializing([DropPath(ForgetTask(ClearFaults(r))) EXCEPT
                  !.estop = FALSE, !.online = FALSE, !.low = FALSE,
                  !.node1 = "OK"])

OnConfigure ==
  /\ lifecycle = "unconfigured"
  /\ lifecycle' = "inactive"
  /\ Settle(Configured(robot))
  /\ revoked' = FALSE
  /\ UNCHANGED <<fresh, initDone, result>>

OnActivate ==
  /\ lifecycle = "inactive"
  /\ lifecycle' = "active"
  /\ Settle(Initializing(robot))
  /\ initDone' = FALSE
  /\ UNCHANGED <<fresh, result, revoked>>

\* on_deactivate publishes nothing.
OnDeactivate ==
  /\ lifecycle = "active"
  /\ lifecycle' = "inactive"
  /\ robot' = Initializing(robot)
  /\ initDone' = FALSE
  /\ UNCHANGED <<fresh, published, result, revoked>>

Dismantle == robot' = [robot EXCEPT !.phase = "BOOT"]

OnCleanup ==
  /\ lifecycle = "inactive"
  /\ lifecycle' = "unconfigured"
  /\ Dismantle
  /\ UNCHANGED <<fresh, initDone, published, result, revoked>>

OnShutdown ==
  /\ lifecycle \in {"unconfigured", "inactive", "active"}
  /\ lifecycle' = "finalized"
  /\ Dismantle
  /\ initDone' = FALSE
  /\ UNCHANGED <<fresh, published, result, revoked>>

-----------------------------------------------------------------------------
(***************************************************************************)
(* Console heartbeat and simulation tick                                   *)
(***************************************************************************)
HearConsole(r, isOnline) ==
  LET s == [r EXCEPT !.online = isOnline,
                     !.node1  = IF isOnline THEN "OK" ELSE "WARN"]
      t == IF ~isOnline /\ s.phase = "RUNNING" THEN ApplySafetyStop(s) ELSE s
      u == Recompute(t)
  IN  [u EXCEPT !.ctl = @ /\ isOnline]

OnConsole(isOnline) ==
  /\ Subscribed
  /\ Settle(HearConsole(robot, isOnline))
  /\ fresh' = (fresh \/ isOnline)
  /\ revoked' = (revoked \/ (~isOnline /\ robot.phase = "RUNNING"))
  /\ UNCHANGED <<lifecycle, initDone, result>>

\* Time passes: the last heartbeat becomes older than 3000 ms.
HeartbeatAges ==
  /\ fresh
  /\ fresh' = FALSE
  /\ UNCHANGED <<lifecycle, robot, initDone, published, result, revoked>>

\* Time passes: 500 ms since on_activate.
InitElapses ==
  /\ lifecycle = "active" /\ ~initDone
  /\ initDone' = TRUE
  /\ UNCHANGED <<lifecycle, robot, fresh, published, result, revoked>>

Silent(r) == r.online /\ ~fresh

\* Faulty variant: an expired heartbeat only changes the flags.
LoseConsoleNoStop(r) == [r EXCEPT !.online = FALSE, !.node1 = "WARN"]

LoseConsole(r) ==
  LET s == [r EXCEPT !.online = FALSE, !.node1 = "WARN"]
  IN  IF s.phase = "RUNNING" THEN ApplySafetyStop(s) ELSE s

\* One step along the path; off: tracking error above 1.5 m, arrived: within
\* 0.22 m of the goal.  A replan keeps the old path when A* finds none.
Track(r, off, arrived) ==
  LET s == [r EXCEPT !.status = "EXECUTING", !.nav = "TRACKING"]
      t == IF off
             THEN Recompute([s EXCEPT !.status = "FAILED", !.phase = "IDLE",
                                      !.nav = "FAILED",
                                      !.faults = @ \cup {"E_TASK_FAILED"}])
             ELSE s
  IN  IF ~r.path
        THEN Recompute([r EXCEPT !.status = "FAILED", !.phase = "IDLE",
                                 !.nav = "FAILED"])
      ELSE IF arrived
        THEN Recompute([t EXCEPT !.status = "DONE", !.phase = "IDLE",
                                 !.nav = "IDLE"])
      ELSE t

Tracking(r) == ~r.estop /\ r.phase = "RUNNING" /\ r.type = "goto"

\* The charge falls while tracking or idle; below 15 % it stays there until
\* the next on_configure.
Drains(r) == Tracking(r) \/ (~r.estop /\ r.phase = "IDLE")

\* Faulty variant: the low battery is listed without recomputing the phase.
DischargeNoRecompute(r, low) ==
  [r EXCEPT !.low = low,
            !.faults = IF low THEN @ \cup {"W_BATTERY_LOW"} ELSE @]

Discharge(r, low) ==
  LET s == [r EXCEPT !.low = low]
  IN  IF low /\ "W_BATTERY_LOW" \notin s.faults
        THEN Recompute([s EXCEPT !.faults = @ \cup {"W_BATTERY_LOW"}])
        ELSE s

\* Faulty variant: a tick that does not look at the age of the heartbeat.
ReadyDeaf(r) ==
  Recompute([r EXCEPT !.phase =
               IF @ = "INITIALIZING" /\ initDone THEN "IDLE" ELSE @])

\* the head of tick: heartbeat age, end of INITIALIZING, recompute
Ready(r) ==
  LET heard == IF Silent(r) THEN LoseConsole(r) ELSE r
  IN  Recompute([heard EXCEPT !.phase =
                   IF @ = "INITIALIZING" /\ initDone THEN "IDLE" ELSE @])

Moves(r) ==
  IF Tracking(r) THEN {Track(r, off, arrived) : off, arrived \in BOOLEAN}
                 ELSE {r}

Charges(r) == {r.low} \cup (IF Drains(r) THEN {TRUE} ELSE {})

Tick ==
  /\ lifecycle = "active"
  /\ \E ready \in {Ready(robot)} :
       \E moved \in Moves(ready), low \in Charges(ready) :
         Settle(Discharge(moved, low))
  /\ revoked' = (revoked \/ (Silent(robot) /\ robot.phase = "RUNNING"))
  /\ UNCHANGED <<lifecycle, fresh, initDone, result>>

-----------------------------------------------------------------------------
(***************************************************************************)
(* on_cmd                                                                  *)
(***************************************************************************)
Stopped(r) ==
  [FailTask(r) EXCEPT !.estop = TRUE, !.phase = "ESTOP", !.ctl = FALSE,
                      !.faults = @ \cup {"E_ESTOP_ACTIVE"}]

CmdEstop ==
  /\ OnCmd
  /\ Settle(Stopped(robot))
  /\ revoked' = (revoked \/ robot.type = "goto")
  /\ Reply("CMD_ESTOP", "ACCEPTED")

\* Faulty variant: every fault can be reset.
BlockingNever(r) == FALSE

\* The faults RESET may not clear.
Blocking(r) ==
  (r.faults \ {"E_ESTOP_ACTIVE", "W_BATTERY_LOW", "E_TASK_FAILED"})
    \cap ErrorCodes # {}

ResetRobot(r) ==
  LET s == Recompute([ForgetTask(ClearFaults(r)) EXCEPT
                        !.estop = FALSE, !.phase = "IDLE", !.mode = "TELEOP",
                        !.node1 = IF r.online THEN "OK" ELSE "WARN"])
  IN  [s EXCEPT !.ctl = s.online /\ s.phase = "IDLE"]

CmdReset(confirm) ==
  /\ OnCmd
  /\ \/ /\ ~confirm
        /\ Refuse("CMD_RESET")
     \/ /\ confirm /\ Blocking(robot)
        /\ Reply("CMD_RESET", "REJECTED")
        /\ Settle(robot)
        /\ UNCHANGED revoked
     \/ /\ confirm /\ ~Blocking(robot)
        /\ Settle(ResetRobot(robot))
        /\ Reply("CMD_RESET", "ACCEPTED")
        /\ UNCHANGED revoked

\* m outside Modes: the payload names no mode or an unknown one
CmdMode(m) ==
  /\ OnCmd
  /\ \/ /\ m \notin Modes
        /\ Refuse("CMD_MODE")
     \/ /\ m = "AUTO" /\ Blocked(robot)
        /\ Refuse("CMD_MODE")
     \/ /\ m \in Modes /\ ~(m = "AUTO" /\ Blocked(robot))
        /\ Settle([robot EXCEPT !.mode = m])
        /\ Reply("CMD_MODE", "ACCEPTED")
        /\ UNCHANGED revoked

Paused(r) ==
  Recompute([r EXCEPT !.status = "ACCEPTED", !.phase = "IDLE", !.nav = "IDLE"])

TaskPause ==
  /\ OnCmd
  /\ \/ /\ robot.phase = "RUNNING"
        /\ Settle(Paused(robot))
        /\ Reply("CMD_TASK", "ACCEPTED")
     \/ /\ robot.phase # "RUNNING"
        /\ Settle(robot)
        /\ Reply("CMD_TASK", "REJECTED")
  /\ UNCHANGED revoked

\* cancel is honoured in every phase, before the blocked test.
Cancelled(r) ==
  Recompute([DropPath(ForgetTask(r)) EXCEPT
               !.phase = IF @ = "RUNNING" THEN "IDLE" ELSE @])

\* Faulty variant: cancel returns without publish_state().
TaskCancelSilently ==
  /\ OnCmd
  /\ robot' = Cancelled(robot)
  /\ Reply("CMD_TASK", "ACCEPTED")
  /\ UNCHANGED <<published, revoked>>

TaskCancel ==
  /\ OnCmd
  /\ Settle(Cancelled(robot))
  /\ Reply("CMD_TASK", "ACCEPTED")
  /\ UNCHANGED revoked

TaskBlocked ==
  /\ OnCmd
  /\ Blocked(robot)
  /\ Refuse("CMD_TASK")

\* A* found no path: the fault is raised and the old path is lost.
Unplannable(r) ==
  Recompute([r EXCEPT !.path = FALSE, !.nav = "FAILED",
                      !.faults = @ \cup {"E_TASK_FAILED"}])

\* Faulty variant: a status the console does not know.
StartedAsRunning(r, n) ==
  [r EXCEPT !.path = TRUE, !.nav = "TRACKING", !.id = n, !.type = "goto",
            !.status = "RUNNING", !.phase = "RUNNING", !.ctl = FALSE]

Started(r, n) ==
  [r EXCEPT !.path = TRUE, !.nav = "TRACKING", !.id = n, !.type = "goto",
            !.status = "ACCEPTED", !.phase = "RUNNING", !.ctl = FALSE]

\* goto with a task id, or with none: the node then takes the next "T-n".
TaskGoto(given, inMap, planned) ==
  LET r == IF given = NoTask THEN [robot EXCEPT !.seq = @ + 1] ELSE robot
      n == IF given = NoTask THEN r.seq ELSE given
      repeated == robot.id = n /\ robot.status = "DONE"
  IN
  /\ OnCmd
  /\ ~Blocked(robot)
  /\ given = NoTask => robot.seq < MaxTask
  /\ \/ /\ robot.phase = "RUNNING"
        /\ Refuse("CMD_TASK")
     \/ /\ robot.phase # "RUNNING" /\ ~inMap
        /\ Refuse("CMD_TASK")
     \/ /\ robot.phase # "RUNNING" /\ inMap /\ repeated
        /\ robot' = r
        /\ Reply("CMD_TASK", "DONE")
        /\ UNCHANGED <<published, revoked>>
     \/ /\ robot.phase # "RUNNING" /\ inMap /\ ~repeated /\ ~planned
        /\ Settle(Unplannable(r))
        /\ Reply("CMD_TASK", "REJECTED")
        /\ UNCHANGED revoked
     \/ /\ robot.phase # "RUNNING" /\ inMap /\ ~repeated /\ planned
        /\ Settle(Started(r, n))
        /\ Reply("CMD_TASK", "ACCEPTED")
        /\ revoked' = FALSE

CanResume(r) ==
  /\ r.id # NoTask /\ r.type = "goto" /\ ~r.estop /\ r.phase = "IDLE"
  /\ r.online /\ ~HasError(r) /\ r.path

Resumed(r) ==
  [r EXCEPT !.phase = "RUNNING", !.status = "EXECUTING", !.nav = "TRACKING",
            !.ctl = FALSE]

TaskResume ==
  /\ OnCmd
  /\ ~Blocked(robot)
  /\ \/ /\ CanResume(robot)
        /\ Settle(Resumed(robot))
        /\ Reply("CMD_TASK", "ACCEPTED")
     \/ /\ ~CanResume(robot)
        /\ Settle(robot)
        /\ Reply("CMD_TASK", "REJECTED")
  /\ UNCHANGED revoked

\* a task type the node does not know
TaskUnknown ==
  /\ OnCmd
  /\ ~Blocked(robot)
  /\ Refuse("CMD_TASK")

InjectFault(r) ==
  Recompute([FailTask(r) EXCEPT !.faults = @ \cup {"E_NODE_TIMEOUT"},
                                !.node0 = "ERROR"])

CmdInjectFault ==
  /\ OnCmd
  /\ Settle(InjectFault(robot))
  /\ Reply("INJECT_FAULT", "ACCEPTED")
  /\ UNCHANGED revoked

ClearedRobot(r) ==
  LET s == Recompute([ClearFaults(r) EXCEPT
                        !.node1 = IF r.online THEN "OK" ELSE "WARN"])
      t == IF s.phase = "FAULT" /\ ~HasError(s)
             THEN [s EXCEPT !.phase = "IDLE"] ELSE s
  IN  [t EXCEPT !.ctl = t.online /\ t.phase = "IDLE" /\ ~t.estop]

CmdClearFault ==
  /\ OnCmd
  /\ Settle(ClearedRobot(robot))
  /\ Reply("CLEAR_FAULT", "ACCEPTED")
  /\ UNCHANGED revoked

CmdOther ==
  /\ OnCmd
  /\ Refuse("other")

-----------------------------------------------------------------------------
CmdTask ==
  \/ TaskPause
  \/ TaskCancel
  \/ TaskBlocked
  \/ \E given \in TaskIds \cup {NoTask} : \E inMap, planned \in BOOLEAN :
       TaskGoto(given, inMap, planned)
  \/ TaskResume
  \/ TaskUnknown

Next ==
  \/ OnConfigure
  \/ OnActivate
  \/ OnDeactivate
  \/ OnCleanup
  \/ OnShutdown
  \/ \E isOnline \in BOOLEAN : OnConsole(isOnline)
  \/ HeartbeatAges
  \/ InitElapses
  \/ Tick
  \/ CmdEstop
  \/ \E confirm \in BOOLEAN : CmdReset(confirm)
  \/ \E m \in Modes \cup {"none"} : CmdMode(m)
  \/ CmdTask
  \/ CmdInjectFault
  \/ CmdClearFault
  \/ CmdOther

\* The 200 ms wall timer fires again and again, and 500 ms pass.
Fairness == WF_vars(Tick) /\ WF_vars(InitElapses)

Spec == Init /\ [][Next]_vars /\ Fairness

-----------------------------------------------------------------------------
(***************************************************************************)
(* Properties                                                              *)
(***************************************************************************)
\* Every member keeps a value the code gives a meaning to, and what is
\* published is a state of the node (fake_robot.hpp, members of FakeRobot).
TypeOK ==
  /\ lifecycle \in {"unconfigured", "inactive", "active", "finalized"}
  /\ robot \in Robots
  /\ fresh \in BOOLEAN /\ initDone \in BOOLEAN /\ revoked \in BOOLEAN
  /\ result \in Results \cup {NoResult}
  /\ published \in Views \cup {NoState}

\* The robot moves only when nothing forbids it, whatever interleaving of
\* commands, heartbeats, faults and lifecycle transitions came before: no
\* estop, console online, no ERROR fault, and a planned goto being executed
\* (phase_ is set to RUNNING at two places of on_cmd and tested in tick).
RunningIsSafe ==
  robot.phase = "RUNNING" =>
    /\ ~robot.estop
    /\ robot.online
    /\ robot.faults \cap ErrorCodes = {}
    /\ robot.id # NoTask /\ robot.type = "goto" /\ robot.path
    /\ robot.status \in {"ACCEPTED", "EXECUTING"}

\* control_enabled_, assigned at a dozen places, is on only when a task would
\* be admitted: idle, no estop, console online, no fault of any level.
ControlMeansReady ==
  Subscribed /\ robot.ctl =>
    robot.phase = "IDLE" /\ ~Blocked(robot) /\ robot.faults = {}

\* recompute_phase_and_control writes nodes_[0].status, which
\* has_error_condition reads back: the phase must still always be explained
\* by the estop flag or by a fault that is listed, never by that status alone.
PhaseExplained ==
  Subscribed =>
    /\ robot.estop => robot.phase \in {"ESTOP", "INITIALIZING"}
    /\ robot.phase = "ESTOP" => robot.estop
    /\ robot.phase = "FAULT" => robot.faults \cap ErrorCodes # {}
    /\ robot.phase = "DEGRADED" => robot.faults \cap WarnCodes # {}
    /\ robot.phase = "IDLE" => robot.faults = {} /\ robot.node0 = "OK"

\* A task stopped by an ESTOP or by the loss of the console is never executed
\* again: pause, resume, RESET, CLEAR_FAULT, reactivation and returning
\* heartbeats do not revive it, only a new goto does (apply_safety_stop clears
\* task_type_, RESET clears the task; resume tests both).
StoppedTaskStaysStopped == revoked => robot.phase # "RUNNING"

\* While the node is active the last published state is the state of the node:
\* no handler that changes a published member returns without publish_state().
PublishedIsCurrent == lifecycle = "active" => published = View(robot)

\* The estop flag is dropped only by an accepted CMD_RESET, which lands in IDLE
\* with no fault and no task left, or by configuring the node anew.
EstopLatch ==
  [][robot.estop /\ ~robot'.estop =>
       \/ lifecycle = "unconfigured" /\ lifecycle' = "inactive"
       \/ /\ result' = [cmd |-> "CMD_RESET", status |-> "ACCEPTED"]
          /\ "E_NODE_TIMEOUT" \notin robot.faults
          /\ robot'.phase = "IDLE" /\ robot'.faults = {} /\ robot'.id = NoTask
    ]_vars

\* Whatever the phases, node states and flags in between, the robot is an
\* interlock: it sets out only with estop off, a console heard and no ERROR fault
\* listed, halts in the step that takes one of these away, and an estop or a
\* console lost on the way takes the task from it for good (apply_safety_stop,
\* recompute_phase_and_control and the tests of goto and resume together).
Lock == INSTANCE Interlock WITH
  Tasks <- TaskIds, Nothing <- NoTask, Errors <- ErrorCodes,
  Curable <- {"E_TASK_FAILED"},
  estop <- robot.estop, heard <- robot.online,
  errors <- robot.faults \cap ErrorCodes, moving <- robot.phase = "RUNNING",
  task <- IF robot.type = "goto" /\ ~robot.estop THEN robot.id ELSE NoTask,
  answer <- result

ImplementsInterlock == Lock!Spec

\* As long as the node is active, the tick brings it again and again to where
\* INITIALIZING is over and a console silent too long has lost control and has
\* the robot stopped (tick against idle_tp_ and last_console_ms_).
TickKeepsUp ==
  lifecycle = "active" ~>
    \/ lifecycle # "active"
    \/ /\ robot.phase # "INITIALIZING"
       /\ fresh \/ (~robot.online /\ ~robot.ctl /\ robot.phase # "RUNNING")
=============================================================================
