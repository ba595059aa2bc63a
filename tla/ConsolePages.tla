---------------------------- MODULE ConsolePages ----------------------------
(***************************************************************************)
(* What a connected console offers its operator, given the state the robot *)
(* published last (ui/botcockpit: RobotState, FaultTableModel and the      *)
(* enabled: bindings of ControlPage and FaultPage).  The pages add no      *)
(* state of their own: they are functions of the view, and the properties  *)
(* set them against the robot that will receive the command.               *)
(***************************************************************************)
EXTENDS FakeRobot, Sequences, SequencesExt

-----------------------------------------------------------------------------
(***************************************************************************)
(* RobotState                                                              *)
(***************************************************************************)
\* applyState: has_robot_state_.  Every state, also a delta, carries battery,
\* nodes and pose.
HasRobotState(v) ==
  /\ ~(v.conn = "OFFLINE" /\ ~v.ctl)
  /\ ~(v.phase = "BOOT" /\ ~v.ctl)

\* state_for_tcp when the robot has not been heard for HB_TIMEOUT_MS, after
\* applyState.
Template ==
  [conn |-> "OFFLINE", mode |-> "TELEOP", phase |-> "BOOT", low |-> TRUE,
   id |-> NoTask, type |-> "", status |-> "NONE", faults |-> {},
   estop |-> FALSE, ctl |-> FALSE]

-----------------------------------------------------------------------------
(***************************************************************************)
(* ControlPage, connected                                                  *)
(***************************************************************************)
\* Faulty variant: control_enabled is not asked.
CanDriveIfShown(v) == ~v.estop /\ HasRobotState(v)

CanDrive(v) == v.ctl /\ ~v.estop /\ HasRobotState(v)

\* TELEOP and REMOTE are also offered while they are selected.
ModeOffered(v, m) == CanDrive(v) \/ (m # "AUTO" /\ v.mode = m)

GotoOffered(v)   == CanDrive(v)
PauseOffered(v)  == v.phase = "RUNNING"
ResumeOffered(v) == ~v.estop /\ v.type = "goto"

\* Faulty variant: DEGRADED is forgotten.
ResetOfferedAfterStop(v) ==
  HasRobotState(v) /\ (v.estop \/ v.phase \in {"FAULT", "IDLE"})

ResetOffered(v) ==
  HasRobotState(v) /\ (v.estop \/ v.phase \in {"FAULT", "DEGRADED", "IDLE"})

-----------------------------------------------------------------------------
(***************************************************************************)
(* FaultPage: the rows of FaultTableModel                                  *)
(***************************************************************************)
Level(code) == IF code \in ErrorCodes THEN "ERROR" ELSE "WARN"

\* QString order of the codes
CodeOrder == <<"E_ESTOP_ACTIVE", "E_NODE_TIMEOUT", "E_TASK_FAILED", "W_BATTERY_LOW">>

Alphabetical(a, b) ==
  \E i, j \in DOMAIN CodeOrder : i < j /\ CodeOrder[i] = a /\ CodeOrder[j] = b

\* Faulty variant: sorted by code alone.
SortedByCode(a, b) == Alphabetical(a, b)

\* the order of setFaults
Above(a, b) ==
  IF Level(a) # Level(b) THEN Level(a) = "ERROR" ELSE Alphabetical(a, b)

\* setFaults and rebuildVisible; the empty filter shows every level.
Rows(v, filter) ==
  LET shown == {code \in v.faults : filter = "" \/ Level(code) = filter}
  IN  CHOOSE rows \in SetToSeqs(shown) :
        \A i, j \in DOMAIN rows : i < j => Above(rows[i], rows[j])

-----------------------------------------------------------------------------
(***************************************************************************)
(* Properties                                                              *)
(***************************************************************************)
\* While the node is active a goto is offered exactly when the robot is ready to
\* admit it - idle, console online, no estop, no fault -, so that no click is
\* refused and a ready robot never stays locked; pause exactly while it moves.
\* AUTO is offered to the same robots: a click is never refused either, although
\* on_cmd would admit AUTO while it is RUNNING too.  The template the bridge makes
\* up offers none of it (canDrive, the rule for has_robot_state_ and
\* recompute_phase_and_control together).
OfferedWhenReady ==
  /\ lifecycle = "active" =>
       LET ready == robot.phase = "IDLE" /\ ~Blocked(robot) /\ robot.faults = {} IN
       /\ GotoOffered(published) <=> ready
       /\ ModeOffered(published, "AUTO") <=> ready
       /\ PauseOffered(published) <=> robot.phase = "RUNNING"
  /\ ~GotoOffered(Template) /\ ~PauseOffered(Template) /\ ~ResetOffered(Template)
  /\ ~ResumeOffered(Template)

\* One click leads out of ESTOP and DEGRADED: unless a node timed out, Reset is
\* offered, the robot accepts it and a goto can follow.
RecoveryOffered ==
  lifecycle = "active" /\ robot.online
      /\ robot.phase \in {"ESTOP", "DEGRADED"} /\ ~Blocking(robot) =>
    /\ ResetOffered(published)
    /\ CanDrive(View(ResetRobot(robot)))

\* And out of FAULT: RESET must recover from task failures (fake_robot.cpp:731),
\* and ControlPage.qml:301 to 304 enables Reset in the phase FAULT.  But conn reads
\* OFFLINE there, which applyState takes for a robot without a state, and Reset
\* stays disabled until the fault is cleared by other means.
FaultResettable ==
  lifecycle = "active" /\ robot.online
      /\ robot.phase = "FAULT" /\ ~Blocking(robot) =>
    ResetOffered(published)

\* The fault table names the reason of a FAULT and of DEGRADED, an ERROR in its
\* first row whenever there is one, also under an ESTOP; and the filters split the
\* faults of the robot without hiding or inventing one.  An ESTOP whose row
\* CLEAR_FAULT removed has no row left: only the phase tells of it.
CauseShownFirst ==
  lifecycle = "active" =>
    LET rows == Rows(published, "") IN
    /\ robot.phase \in {"FAULT", "DEGRADED"} => rows # <<>>
    /\ robot.faults \cap ErrorCodes # {} => Level(rows[1]) = "ERROR"
    /\ \A level \in {"ERROR", "WARN"} :
         ToSet(Rows(published, level)) = {c \in robot.faults : Level(c) = level}
=============================================================================
