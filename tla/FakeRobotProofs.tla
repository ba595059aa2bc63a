--------------------------- MODULE FakeRobotProofs ---------------------------
(***************************************************************************)
(* Proofs about FakeRobot for every MaxTask and every set of modes.        *)
(***************************************************************************)
EXTENDS FakeRobot, TLAPS

-----------------------------------------------------------------------------
(***************************************************************************)
(* The inductive invariant.  The phase invariants of FakeRobot are not     *)
(* inductive: has_error_condition reads the node status that an earlier    *)
(* recompute wrote, so the invariant says where that status comes from,    *)
(* and that a stopped task can no longer pass the tests of resume.         *)
(***************************************************************************)
NodeExplained(r) ==
  /\ r.node0 = "ERROR" => r.faults \cap ErrorCodes # {}
  /\ r.node0 = "WARN" => r.faults \cap WarnCodes # {}

\* What RUNNING needs of the task.
TaskReady(r) ==
  /\ r.online /\ r.id # NoTask /\ r.type = "goto" /\ r.path
  /\ r.status \in {"ACCEPTED", "EXECUTING"}

\* What the phase, whatever it is, says of the flags and of the faults.
PhaseMatches(r) ==
  /\ r.phase = "RUNNING" => ~r.estop /\ TaskReady(r) /\ r.faults \cap ErrorCodes = {}
  /\ r.phase = "IDLE" => ~r.estop /\ r.faults = {} /\ r.node0 = "OK"
  /\ r.phase = "ESTOP" => r.estop
  /\ r.phase = "FAULT" => ~r.estop /\ r.faults \cap ErrorCodes # {}
  /\ r.phase = "DEGRADED" => ~r.estop /\ r.faults \cap WarnCodes # {}
  /\ r.ctl => r.phase \in {"IDLE", "BOOT"} /\ (r.phase = "IDLE" => r.online)
  /\ r.phase = "IDLE" /\ r.online => r.ctl

Settled(r) == r \in Robots /\ NodeExplained(r) /\ PhaseMatches(r)

IInv ==
  /\ TypeOK
  /\ Settled(robot)
  /\ Subscribed <=> robot.phase # "BOOT"
  /\ revoked => robot.estop \/ robot.type = ""
  /\ PublishedIsCurrent

-----------------------------------------------------------------------------
(***************************************************************************)
(* The helpers                                                             *)
(***************************************************************************)
\* Every return of recompute_phase_and_control leaves a typed node and touches
\* only the phase, control, the status of the task and that of the node.
LEMMA RecomputeType ==
  ASSUME NEW r \in Robots
  PROVE  /\ Recompute(r) \in Robots
         /\ Recompute(r).estop = r.estop
         /\ Recompute(r).online = r.online
         /\ Recompute(r).faults = r.faults
         /\ Recompute(r).id = r.id
         /\ Recompute(r).type = r.type
         /\ Recompute(r).path = r.path
<1>1. CASE r.estop
  BY <1>1 DEF Recompute, Robots, Phases
<1>2. CASE ~r.estop /\ r.phase \in {"BOOT", "INITIALIZING"}
  BY <1>2 DEF Recompute, Robots, Phases
<1>3. CASE ~r.estop /\ r.phase \notin {"BOOT", "INITIALIZING"} /\ HasError(r)
  <2>. DEFINE f == IF r.phase = "RUNNING" THEN "FAILED" ELSE r.status
              s == [r EXCEPT !.status = f, !.phase = "FAULT", !.ctl = FALSE,
                             !.node0 = "ERROR"]
  <2>1. f \in TaskStates /\ "FAULT" \in Phases
    BY DEF Robots, TaskStates, Phases
  <2>2. Recompute(r) = s
    BY <1>3 DEF Recompute
  <2>. HIDE DEF f
  <2>3. s \in Robots
    BY <2>1, Zenon DEF Robots
  <2>4. /\ s.estop = r.estop /\ s.online = r.online /\ s.faults = r.faults
        /\ s.id = r.id /\ s.type = r.type /\ s.path = r.path
    BY Zenon DEF Robots
  <2>. HIDE DEF s
  <2>5. QED
    BY <2>2, <2>3, <2>4
<1>4. CASE ~r.estop /\ r.phase \notin {"BOOT", "INITIALIZING"} /\ ~HasError(r) /\ HasWarn(r)
  <2>. DEFINE p == IF r.phase = "RUNNING" THEN r.phase ELSE "DEGRADED"
              s == [r EXCEPT !.phase = p, !.ctl = FALSE, !.node0 = "WARN"]
  <2>1. p \in Phases
    BY DEF Phases
  <2>2. Recompute(r) = s
    BY <1>4 DEF Recompute
  <2>. HIDE DEF p
  <2>3. s \in Robots
    BY <2>1, Zenon DEF Robots
  <2>4. /\ s.estop = r.estop /\ s.online = r.online /\ s.faults = r.faults
        /\ s.id = r.id /\ s.type = r.type /\ s.path = r.path
    BY Zenon DEF Robots
  <2>. HIDE DEF s
  <2>5. QED
    BY <2>2, <2>3, <2>4
<1>5. CASE ~r.estop /\ r.phase \notin {"BOOT", "INITIALIZING"} /\ ~HasError(r) /\ ~HasWarn(r)
  <2>. DEFINE p == IF r.phase = "RUNNING" THEN r.phase ELSE "IDLE"
              c == r.phase # "RUNNING" /\ r.online
              s == [r EXCEPT !.node0 = "OK", !.phase = p, !.ctl = c]
  <2>1. p \in Phases /\ c \in BOOLEAN
    BY DEF Phases
  <2>2. Recompute(r) = s
    BY <1>5 DEF Recompute
  <2>. HIDE DEF p, c
  <2>3. s \in Robots
    BY <2>1, Zenon DEF Robots
  <2>4. /\ s.estop = r.estop /\ s.online = r.online /\ s.faults = r.faults
        /\ s.id = r.id /\ s.type = r.type /\ s.path = r.path
    BY Zenon DEF Robots
  <2>. HIDE DEF s
  <2>5. QED
    BY <2>2, <2>3, <2>4
<1>6. QED BY <1>1, <1>2, <1>3, <1>4, <1>5

\* recompute_phase_and_control brings the phase in line with flags and faults,
\* provided the node status is explained and a RUNNING node has its task.
LEMMA RecomputeSettles ==
  ASSUME NEW r \in Robots, NodeExplained(r), r.phase = "RUNNING" => TaskReady(r)
  PROVE  /\ Settled(Recompute(r))
         /\ r.phase # "RUNNING" => Recompute(r).phase # "RUNNING"
         /\ r.phase # "BOOT" => Recompute(r).phase # "BOOT"
<1>. DEFINE q == Recompute(r)
<1>1. q \in Robots
  BY RecomputeType
<1>2. NodeExplained(q)
  BY DEF NodeExplained, Recompute, Robots, HasError, HasWarn
<1>3. CASE r.estop
  BY <1>1, <1>2, <1>3 DEF Settled, PhaseMatches, Recompute, Robots
<1>4. CASE ~r.estop /\ r.phase \in {"BOOT", "INITIALIZING"}
  BY <1>1, <1>2, <1>4 DEF Settled, PhaseMatches, Recompute, Robots
<1>5. CASE ~r.estop /\ r.phase \notin {"BOOT", "INITIALIZING"} /\ HasError(r)
  <2>1. q.phase = "FAULT" /\ q.ctl = FALSE /\ q.node0 = "ERROR"
    BY <1>5 DEF Recompute, Robots
  <2>2. q.estop = r.estop /\ q.faults = r.faults
    BY RecomputeType
  <2>3. r.faults \cap ErrorCodes # {}
    BY <1>5 DEF HasError, NodeExplained
  <2>4. QED
    BY <1>1, <1>2, <1>5, <2>1, <2>2, <2>3 DEF Settled, PhaseMatches
<1>6. CASE /\ ~r.estop /\ r.phase \notin {"BOOT", "INITIALIZING"}
           /\ ~HasError(r) /\ HasWarn(r)
  <2>1. /\ q.phase = IF r.phase = "RUNNING" THEN "RUNNING" ELSE "DEGRADED"
        /\ q.ctl = FALSE /\ q.node0 = "WARN" /\ q.status = r.status
    BY <1>6 DEF Recompute, Robots
  <2>2. /\ q.estop = r.estop /\ q.online = r.online /\ q.faults = r.faults
        /\ q.id = r.id /\ q.type = r.type /\ q.path = r.path
    BY RecomputeType
  <2>3. r.faults \cap ErrorCodes = {} /\ r.faults \cap WarnCodes # {}
    BY <1>6 DEF HasError, HasWarn, NodeExplained
  <2>4. PhaseMatches(q)
    BY <1>6, <2>1, <2>2, <2>3 DEF PhaseMatches, TaskReady
  <2>5. QED
    BY <1>1, <1>2, <1>6, <2>1, <2>4 DEF Settled
<1>7. CASE /\ ~r.estop /\ r.phase \notin {"BOOT", "INITIALIZING"}
           /\ ~HasError(r) /\ ~HasWarn(r)
  <2>1. /\ q.phase = IF r.phase = "RUNNING" THEN "RUNNING" ELSE "IDLE"
        /\ q.ctl = (r.phase # "RUNNING" /\ r.online)
        /\ q.node0 = "OK" /\ q.status = r.status
    BY <1>7 DEF Recompute, Robots
  <2>2. /\ q.estop = r.estop /\ q.online = r.online /\ q.faults = r.faults
        /\ q.id = r.id /\ q.type = r.type /\ q.path = r.path
    BY RecomputeType
  <2>3. r.faults = {}
    BY <1>7 DEF HasError, HasWarn, Robots
  <2>4. PhaseMatches(q)
    BY <1>7, <2>1, <2>2, <2>3 DEF PhaseMatches, TaskReady
  <2>5. QED
    BY <1>1, <1>2, <2>1, <2>4, <1>7 DEF Settled
<1>8. QED
  BY <1>3, <1>4, <1>5, <1>6, <1>7 DEF Robots

\* Taking control away from a node without a console, or leaving it as it is,
\* keeps a settled node settled.
LEMMA LowerControl ==
  ASSUME NEW r, Settled(r), NEW c \in BOOLEAN, c => r.ctl,
         r.phase = "IDLE" /\ r.online => c
  PROVE  LET s == [r EXCEPT !.ctl = c]
         IN  Settled(s) /\ s.phase = r.phase /\ s.type = r.type /\ s.estop = r.estop
<1>. DEFINE s == [r EXCEPT !.ctl = c]
<1>1. s \in Robots
  BY Zenon DEF Settled, Robots
<1>2. /\ s.phase = r.phase /\ s.type = r.type /\ s.estop = r.estop
      /\ s.online = r.online /\ s.id = r.id /\ s.path = r.path
      /\ s.status = r.status /\ s.faults = r.faults /\ s.node0 = r.node0
      /\ s.ctl = c
  BY Zenon DEF Settled, Robots
<1>. HIDE DEF s
<1>3. NodeExplained(s) /\ PhaseMatches(s)
  BY <1>2 DEF Settled, NodeExplained, PhaseMatches, TaskReady
<1>4. Settled(s) /\ s.phase = r.phase /\ s.type = r.type /\ s.estop = r.estop
  BY <1>1, <1>2, <1>3 DEF Settled
<1>5. QED
  BY <1>4 DEF s

LEMMA ForgetTaskType ==
  ASSUME NEW r \in Robots
  PROVE  LET s == ForgetTask(r)
         IN  /\ s \in Robots /\ s.type = "" /\ s.id = NoTask
             /\ s.phase = r.phase /\ s.node0 = r.node0 /\ s.faults = r.faults
             /\ s.estop = r.estop /\ s.online = r.online
BY Zenon DEF ForgetTask, Robots, TaskStates

LEMMA DropPathType ==
  ASSUME NEW r \in Robots
  PROVE  LET s == DropPath(r)
         IN  /\ s \in Robots /\ s.type = r.type /\ s.id = r.id
             /\ s.phase = r.phase /\ s.node0 = r.node0 /\ s.faults = r.faults
             /\ s.estop = r.estop
BY Zenon DEF DropPath, Robots, NavStates

LEMMA ClearFaultsType ==
  ASSUME NEW r \in Robots
  PROVE  LET s == ClearFaults(r)
         IN  /\ s \in Robots /\ s.faults = {} /\ s.node0 = "OK"
             /\ s.type = r.type /\ s.phase = r.phase /\ s.estop = r.estop
             /\ s.online = r.online
             /\ s.id = r.id /\ s.path = r.path /\ s.status = r.status
BY DEF ClearFaults, Robots

LEMMA FailTaskType ==
  ASSUME NEW r \in Robots
  PROVE  /\ FailTask(r) \in Robots
         /\ FailTask(r).phase = r.phase
         /\ FailTask(r).node0 = r.node0
         /\ FailTask(r).faults = r.faults
         /\ FailTask(r).estop = r.estop
         /\ FailTask(r).type = r.type
<1>1. CASE r.status \in {"ACCEPTED", "EXECUTING"}
  BY <1>1 DEF FailTask, Robots, TaskStates
<1>2. CASE r.status \notin {"ACCEPTED", "EXECUTING"}
  BY <1>2 DEF FailTask, Robots, TaskStates
<1>3. QED
  BY <1>1, <1>2

\* A safety stop leaves a settled node that no longer runs and whose task
\* type, which resume asks for, is gone.
LEMMA SafetyStopSettles ==
  ASSUME NEW r \in Robots, NodeExplained(r), r.phase = "RUNNING"
  PROVE  LET s == ApplySafetyStop(r)
         IN  /\ Settled(s) /\ s.type = "" /\ s.phase \notin {"RUNNING", "BOOT"}
             /\ s.online = r.online
<1>. DEFINE f == FailTask(r)
            g == [f EXCEPT !.phase = "IDLE", !.type = ""]
            q == Recompute(g)
            c == q.ctl /\ q.online
<1>1. f \in Robots /\ f.phase = "RUNNING" /\ f.node0 = r.node0 /\ f.faults = r.faults
  BY FailTaskType
<1>2. g \in Robots /\ g.phase = "IDLE" /\ g.type = "" /\ NodeExplained(g)
  <2>1. g \in Robots
    BY <1>1, Zenon DEF Robots, Phases
  <2>2. /\ g.phase = "IDLE" /\ g.type = "" /\ g.node0 = f.node0
        /\ g.faults = f.faults
    BY <1>1, Zenon DEF Robots
  <2>3. QED
    BY <1>1, <2>1, <2>2 DEF NodeExplained
<1>3. Settled(q) /\ q.type = "" /\ q.phase \notin {"RUNNING", "BOOT"}
  BY <1>2, RecomputeSettles, RecomputeType
<1>4. ApplySafetyStop(r) = [q EXCEPT !.ctl = c]
  BY <1>1 DEF ApplySafetyStop
<1>5. c \in BOOLEAN /\ (c => q.ctl) /\ (q.phase = "IDLE" /\ q.online => c)
  BY <1>3 DEF Settled, PhaseMatches
<1>6. q.online = r.online /\ [q EXCEPT !.ctl = c].online = q.online
  <2>1. f.online = r.online
    BY DEF FailTask, Robots
  <2>2. g.online = f.online
    BY <1>1
  <2>3. q.online = g.online /\ q \in Robots
    BY <1>2, RecomputeType
  <2>. HIDE DEF q, g, f
  <2>4. QED
    BY <2>1, <2>2, <2>3 DEF Robots
<1>7. QED
  BY <1>3, <1>4, <1>5, <1>6, LowerControl, ZenonT(30)

\* The expiry of the heartbeat: a running node is stopped, any other node only
\* loses its console and is settled once it is recomputed.
LEMMA LoseConsoleSettles ==
  ASSUME NEW r, Settled(r), r.phase # "BOOT"
  PROVE  LET s == LoseConsole(r)
         IN  /\ s \in Robots /\ NodeExplained(s) /\ s.phase \notin {"RUNNING", "BOOT"}
             /\ s.estop = r.estop \/ s.type = ""
             /\ s.type \in {r.type, ""}
             /\ r.phase = "RUNNING" => s.type = ""
<1>. DEFINE s == [r EXCEPT !.online = FALSE, !.node1 = "WARN"]
<1>1. /\ s \in Robots /\ NodeExplained(s) /\ s.phase = r.phase
      /\ s.estop = r.estop /\ s.type = r.type
  BY ZenonT(30) DEF Settled, NodeExplained, Robots
<1>2. CASE r.phase = "RUNNING"
  <2>1. LoseConsole(r) = ApplySafetyStop(s)
    BY <1>1, <1>2 DEF LoseConsole
  <2>2. QED
    BY <1>1, <1>2, <2>1, SafetyStopSettles DEF Settled
<1>3. CASE r.phase # "RUNNING"
  <2>1. LoseConsole(r) = s
    BY <1>1, <1>3 DEF LoseConsole
  <2>2. QED
    BY <1>1, <1>3, <2>1
<1>4. QED
  BY <1>2, <1>3

\* A message on botcockpit/console.
LEMMA HearConsoleSettles ==
  ASSUME NEW r, Settled(r), r.phase # "BOOT", NEW isOnline \in BOOLEAN
  PROVE  LET s == HearConsole(r, isOnline)
         IN  /\ Settled(s) /\ s.phase # "BOOT"
             /\ s.estop = r.estop \/ s.type = ""
             /\ s.type \in {r.type, ""}
             /\ ~isOnline /\ r.phase = "RUNNING" => s.type = ""
<1>. DEFINE s == [r EXCEPT !.online = isOnline,
                           !.node1  = IF isOnline THEN "OK" ELSE "WARN"]
            t == IF ~isOnline /\ s.phase = "RUNNING" THEN ApplySafetyStop(s) ELSE s
            u == Recompute(t)
            c == u.ctl /\ isOnline
            v == [u EXCEPT !.ctl = c]
<1>1. /\ s \in Robots /\ NodeExplained(s) /\ s.phase = r.phase
      /\ s.estop = r.estop /\ s.type = r.type /\ s.online = isOnline
      /\ s.id = r.id /\ s.path = r.path /\ s.status = r.status
  BY DEF Settled, NodeExplained, Robots
<1>2. /\ t \in Robots /\ NodeExplained(t) /\ t.phase # "BOOT"
      /\ t.phase = "RUNNING" => TaskReady(t)
      /\ t.estop = r.estop \/ t.type = ""
      /\ t.type \in {r.type, ""}
      /\ ~isOnline /\ r.phase = "RUNNING" => t.type = ""
  <2>1. CASE ~isOnline /\ r.phase = "RUNNING"
    BY <1>1, <2>1, SafetyStopSettles DEF Settled
  <2>2. CASE ~(~isOnline /\ r.phase = "RUNNING")
    BY <1>1, <2>2 DEF Settled, PhaseMatches, TaskReady
  <2>3. QED
    BY <2>1, <2>2
<1>3. Settled(u) /\ u.phase # "BOOT" /\ u.type = t.type /\ u.estop = t.estop
  BY <1>2, RecomputeSettles, RecomputeType
<1>4. HearConsole(r, isOnline) = v
  BY DEF HearConsole
<1>5. t.online = isOnline /\ u.online = t.online
  <2>1. t.online = isOnline
    <3>1. CASE ~isOnline /\ s.phase = "RUNNING"
      <4>1. t = ApplySafetyStop(s)
        BY <3>1
      <4>. HIDE DEF t, s
      <4>2. QED
        BY <1>1, <3>1, <4>1, SafetyStopSettles
    <3>2. CASE ~(~isOnline /\ s.phase = "RUNNING")
      BY <1>1, <3>2
    <3>3. QED
      BY <3>1, <3>2
  <2>. HIDE DEF t
  <2>2. QED
    BY <1>2, <2>1, RecomputeType
<1>6. c \in BOOLEAN /\ (c => u.ctl) /\ (u.phase = "IDLE" /\ u.online => c)
  BY <1>3, <1>5 DEF Settled, PhaseMatches
<1>. HIDE DEF u, t
<1>7. Settled(v) /\ v.phase = u.phase /\ v.type = u.type /\ v.estop = u.estop
  BY <1>3, <1>6, LowerControl
<1>. HIDE DEF v
<1>8. QED
  BY <1>2, <1>3, <1>4, <1>7

\* The head of a tick.
LEMMA ReadySettles ==
  ASSUME NEW r, Settled(r), r.phase # "BOOT"
  PROVE  LET s == Ready(r)
         IN  /\ Settled(s) /\ s.phase # "BOOT"
             /\ s.estop = r.estop \/ s.type = ""
             /\ s.type \in {r.type, ""}
             /\ Silent(r) /\ r.phase = "RUNNING" => s.type = ""
<1>. DEFINE h == IF Silent(r) THEN LoseConsole(r) ELSE r
            p == IF h.phase = "INITIALIZING" /\ initDone THEN "IDLE" ELSE h.phase
            b == [h EXCEPT !.phase = p]
<1>1. /\ h \in Robots /\ NodeExplained(h) /\ h.phase # "BOOT"
      /\ h.phase = "RUNNING" => TaskReady(h)
      /\ h.estop = r.estop \/ h.type = ""
      /\ h.type \in {r.type, ""}
      /\ Silent(r) /\ r.phase = "RUNNING" => h.type = ""
  <2>1. CASE Silent(r)
    BY <2>1, LoseConsoleSettles
  <2>2. CASE ~Silent(r)
    BY <2>2 DEF Settled, PhaseMatches
  <2>3. QED
    BY <2>1, <2>2
<1>. HIDE DEF h
<1>2. p \in Phases /\ p # "BOOT" /\ (p = "RUNNING" => h.phase = "RUNNING")
  BY <1>1 DEF Phases, Robots
<1>. HIDE DEF p
<1>3. /\ b \in Robots /\ NodeExplained(b) /\ b.phase # "BOOT"
      /\ b.phase = "RUNNING" => TaskReady(b)
      /\ b.type = h.type /\ b.estop = h.estop
  BY <1>1, <1>2 DEF Robots, NodeExplained, TaskReady
<1>4. Ready(r) = Recompute(b)
  BY DEF Ready, h, p
<1>. HIDE DEF b
<1>5. Settled(Recompute(b)) /\ Recompute(b).phase # "BOOT"
  BY <1>3, RecomputeSettles
<1>6. Recompute(b).type = h.type /\ Recompute(b).estop = h.estop
  BY <1>3, RecomputeType
<1>7. QED
  BY <1>1, <1>4, <1>5, <1>6

\* One control step of the motion, whatever its outcome.
LEMMA TrackSettles ==
  ASSUME NEW r, Settled(r), Tracking(r), NEW off \in BOOLEAN, NEW arrived \in BOOLEAN
  PROVE  LET s == Track(r, off, arrived)
         IN  Settled(s) /\ s.phase # "BOOT" /\ s.estop = r.estop /\ s.type = r.type
<1>. DEFINE s == [r EXCEPT !.status = "EXECUTING", !.nav = "TRACKING"]
            o == [s EXCEPT !.status = "FAILED", !.phase = "IDLE", !.nav = "FAILED",
                           !.faults = @ \cup {"E_TASK_FAILED"}]
            t == IF off THEN Recompute(o) ELSE s
            d == [t EXCEPT !.status = "DONE", !.phase = "IDLE", !.nav = "IDLE"]
<1>1. r.path
  BY DEF Settled, PhaseMatches, TaskReady, Tracking
<1>2. Settled(s) /\ s.phase = "RUNNING" /\ s.type = r.type /\ s.estop = r.estop
  BY DEF Settled, NodeExplained, PhaseMatches, TaskReady, Tracking, Robots,
         TaskStates, NavStates
<1>. HIDE DEF s
<1>3. /\ o \in Robots /\ NodeExplained(o) /\ o.phase = "IDLE"
      /\ o.type = r.type /\ o.estop = r.estop
  <2>1. s \in Robots /\ s.faults \cup {"E_TASK_FAILED"} \in SUBSET (WarnCodes \cup ErrorCodes)
    BY <1>2 DEF Settled, Robots, ErrorCodes
  <2>2. o \in Robots
    <3>1. "FAILED" \in TaskStates /\ "IDLE" \in Phases /\ "FAILED" \in NavStates
      BY DEF TaskStates, Phases, NavStates
    <3>2. QED
      BY <2>1, <3>1, Zenon DEF Robots
  <2>3. /\ o.faults = s.faults \cup {"E_TASK_FAILED"} /\ o.node0 = s.node0
        /\ o.phase = "IDLE" /\ o.type = s.type /\ o.estop = s.estop
    BY <1>2 DEF Settled, Robots
  <2>4. QED
    BY <1>2, <2>2, <2>3 DEF Settled, NodeExplained, ErrorCodes
<1>. HIDE DEF o
<1>4. Settled(t) /\ t.phase # "BOOT" /\ t.type = r.type /\ t.estop = r.estop
  BY <1>2, <1>3, RecomputeSettles, RecomputeType
<1>. HIDE DEF t
<1>5. /\ d \in Robots /\ NodeExplained(d) /\ d.phase = "IDLE"
      /\ d.type = r.type /\ d.estop = r.estop
  <2>1. d \in Robots
    <3>1. "DONE" \in TaskStates /\ "IDLE" \in Phases /\ "IDLE" \in NavStates
      BY DEF TaskStates, Phases, NavStates
    <3>2. t \in Robots
      BY <1>4 DEF Settled
    <3>3. QED
      BY <3>1, <3>2, Zenon DEF Robots
  <2>2. /\ d.faults = t.faults /\ d.node0 = t.node0
        /\ d.phase = "IDLE" /\ d.type = t.type /\ d.estop = t.estop
    BY <1>4 DEF Settled, Robots
  <2>3. QED
    BY <1>4, <2>1, <2>2 DEF Settled, NodeExplained
<1>6. Track(r, off, arrived) = IF arrived THEN Recompute(d) ELSE t
  BY <1>1 DEF Track, s, o, t
<1>. HIDE DEF d
<1>7. QED
  BY <1>4, <1>5, <1>6, RecomputeSettles, RecomputeType

\* The battery, at the end of a tick.
LEMMA DischargeSettles ==
  ASSUME NEW r, Settled(r), r.phase # "BOOT", NEW low \in BOOLEAN
  PROVE  LET s == Discharge(r, low)
         IN  Settled(s) /\ s.phase # "BOOT" /\ s.estop = r.estop /\ s.type = r.type
<1>. DEFINE s == [r EXCEPT !.low = low]
            w == [s EXCEPT !.faults = @ \cup {"W_BATTERY_LOW"}]
<1>1. Settled(s) /\ s.phase = r.phase /\ s.estop = r.estop /\ s.type = r.type
  BY ZenonT(30) DEF Settled, NodeExplained, PhaseMatches, TaskReady, Robots
<1>2. /\ w \in Robots /\ NodeExplained(w) /\ w.phase = r.phase
      /\ w.phase = "RUNNING" => TaskReady(w)
      /\ w.estop = r.estop /\ w.type = r.type
  BY <1>1 DEF Settled, NodeExplained, PhaseMatches, TaskReady, Robots, WarnCodes
<1>3. Discharge(r, low) = s \/ Discharge(r, low) = Recompute(w)
  BY DEF Discharge
<1>. HIDE DEF s, w
<1>4. QED
  BY <1>1, <1>2, <1>3, RecomputeSettles, RecomputeType

\* An accepted RESET leaves an idle node with no fault, no estop and no task.
LEMMA ResetSettles ==
  ASSUME NEW r, Settled(r)
  PROVE  LET s == ResetRobot(r)
         IN  /\ Settled(s) /\ s.phase = "IDLE" /\ s.faults = {}
             /\ s.type = "" /\ s.id = NoTask /\ s.online = r.online
<1>. DEFINE e == ForgetTask(ClearFaults(r))
            n == IF r.online THEN "OK" ELSE "WARN"
            g == [e EXCEPT !.estop = FALSE, !.phase = "IDLE",
                           !.mode = "TELEOP", !.node1 = n]
            q == Recompute(g)
            c == q.online /\ q.phase = "IDLE"
            v == [q EXCEPT !.ctl = c]
<1>1. /\ g \in Robots /\ NodeExplained(g) /\ g.phase = "IDLE" /\ g.estop = FALSE
      /\ g.faults = {} /\ g.node0 = "OK" /\ g.type = "" /\ g.id = NoTask
      /\ g.online = r.online
  <2>1. /\ e \in Robots /\ e.faults = {} /\ e.node0 = "OK" /\ e.type = ""
        /\ e.id = NoTask /\ e.online = r.online
    <3>1. /\ ClearFaults(r) \in Robots /\ ClearFaults(r).faults = {}
          /\ ClearFaults(r).node0 = "OK" /\ ClearFaults(r).online = r.online
      BY ClearFaultsType DEF Settled
    <3>2. QED
      BY <3>1, ForgetTaskType
  <2>. HIDE DEF e, n
  <2>2. n \in {"OK", "WARN"}
    BY DEF n
  <2>3. g \in Robots
    BY <2>1, <2>2, ModesAssumption, ZenonT(30) DEF Robots, Phases
  <2>4. /\ g.faults = e.faults /\ g.node0 = e.node0 /\ g.phase = "IDLE"
        /\ g.estop = FALSE /\ g.type = e.type /\ g.id = e.id
        /\ g.online = e.online
    BY <2>1, Zenon DEF Robots
  <2>5. QED
    BY <2>1, <2>3, <2>4 DEF NodeExplained
<1>. HIDE DEF g
<1>2. ~HasError(g) /\ ~HasWarn(g)
  BY <1>1 DEF HasError, HasWarn
<1>3. q.phase = "IDLE" /\ q.ctl = g.online
  BY <1>1, <1>2 DEF Recompute, Robots
<1>4. /\ Settled(q) /\ q.faults = {} /\ q.type = "" /\ q.id = NoTask
      /\ q.online = g.online
  BY <1>1, RecomputeSettles, RecomputeType
<1>5. c \in BOOLEAN /\ (c => q.ctl) /\ (q.phase = "IDLE" /\ q.online => c)
  BY <1>3, <1>4
<1>. HIDE DEF q
<1>6. /\ Settled(v) /\ v.phase = "IDLE" /\ v.faults = {}
      /\ v.type = "" /\ v.id = NoTask /\ v.online = r.online
  <2>1. Settled(v)
    BY <1>4, <1>5, LowerControl
  <2>2. /\ v.phase = q.phase /\ v.faults = q.faults
        /\ v.type = q.type /\ v.id = q.id /\ v.online = q.online
    BY <1>4 DEF Settled, Robots
  <2>3. QED
    BY <1>1, <1>3, <1>4, <2>1, <2>2
<1>7. ResetRobot(r) = v
  BY DEF ResetRobot, q, g, e, n
<1>. HIDE DEF v
<1>8. QED
  BY <1>6, <1>7

-----------------------------------------------------------------------------
(***************************************************************************)
(* The handlers                                                            *)
(***************************************************************************)
\* on_configure, on_activate and on_deactivate
LEMMA InitializingSettles ==
  ASSUME NEW r \in Robots, NodeExplained(r)
  PROVE  LET s == Initializing(r)
         IN  /\ Settled(s) /\ s.phase = "INITIALIZING"
             /\ s.estop = r.estop /\ s.type = r.type
<1>. DEFINE s == Initializing(r)
<1>1. s \in Robots
  BY Zenon DEF Initializing, Robots, Phases
<1>2. /\ s.phase = "INITIALIZING" /\ s.ctl = FALSE /\ s.node0 = r.node0
      /\ s.estop = r.estop /\ s.type = r.type
      /\ s.faults = r.faults
  BY Zenon DEF Initializing, Robots
<1>. HIDE DEF s
<1>3. QED
  BY <1>1, <1>2 DEF Settled, NodeExplained, PhaseMatches, s

\* on_configure, from any state a dismantled node can be in.
LEMMA ConfiguredSettles ==
  ASSUME NEW r \in Robots
  PROVE  LET s == Configured(r)
         IN  Settled(s) /\ s.phase = "INITIALIZING"
<1>. DEFINE c == ClearFaults(r)
            f == ForgetTask(c)
            e == DropPath(f)
            s == [e EXCEPT !.estop = FALSE, !.online = FALSE, !.low = FALSE,
                           !.node1 = "OK"]
<1>1. c \in Robots /\ c.node0 = "OK"
  BY ClearFaultsType
<1>. HIDE DEF c
<1>2. f \in Robots /\ f.node0 = "OK"
  BY <1>1, ForgetTaskType
<1>. HIDE DEF f
<1>3. e \in Robots /\ e.node0 = "OK"
  BY <1>2, DropPathType
<1>. HIDE DEF e
<1>4. s \in Robots
  BY <1>3, Zenon DEF Robots
<1>5. s.node0 = "OK"
  BY <1>3, Zenon DEF Robots
<1>6. NodeExplained(s)
  BY <1>5 DEF Robots, NodeExplained
<1>7. Configured(r) = Initializing(s)
  BY DEF Configured, e, f, c
<1>. HIDE DEF s
<1>8. QED
  BY <1>4, <1>5, <1>6, <1>7, InitializingSettles

\* on_cleanup and on_shutdown
LEMMA DismantledSettles ==
  ASSUME NEW r, Settled(r)
  PROVE  LET s == [r EXCEPT !.phase = "BOOT"]
         IN  /\ Settled(s) /\ s.phase = "BOOT"
             /\ s.estop = r.estop /\ s.type = r.type
<1>. DEFINE s == [r EXCEPT !.phase = "BOOT"]
<1>1. r \in Robots
  BY DEF Settled
<1>2. s \in Robots
  BY <1>1, Zenon DEF Robots, Phases
<1>3. /\ s.phase = "BOOT" /\ s.node0 = r.node0
      /\ s.estop = r.estop /\ s.type = r.type /\ s.faults = r.faults
  BY <1>1, Zenon DEF Robots
<1>. HIDE DEF s
<1>4. QED
  BY <1>2, <1>3 DEF Settled, NodeExplained, PhaseMatches, s

\* CMD_ESTOP
LEMMA StoppedSettles ==
  ASSUME NEW r, Settled(r)
  PROVE  Settled(Stopped(r)) /\ Stopped(r).phase = "ESTOP" /\ Stopped(r).estop
<1>. DEFINE f == FailTask(r)
            a == f.faults \cup {"E_ESTOP_ACTIVE"}
            s == [f EXCEPT !.estop = TRUE, !.phase = "ESTOP", !.ctl = FALSE,
                           !.faults = a]
<1>1. f \in Robots /\ f.node0 = r.node0 /\ f.faults = r.faults
  BY FailTaskType DEF Settled
<1>2. Stopped(r) = s
  BY DEF Stopped
<1>. HIDE DEF f
<1>3. a \in SUBSET (WarnCodes \cup ErrorCodes) /\ r.faults \subseteq a
  BY <1>1 DEF Robots, WarnCodes
<1>. HIDE DEF a
<1>4. s \in Robots
  BY <1>1, <1>3, Zenon DEF Robots, Phases
<1>5. /\ s.phase = "ESTOP" /\ s.estop = TRUE /\ s.ctl = FALSE
      /\ s.node0 = f.node0 /\ s.faults = a
  BY <1>1, Zenon DEF Robots
<1>. HIDE DEF s
<1>6. NodeExplained(r)
  BY DEF Settled
<1>7. QED
  BY <1>1, <1>2, <1>3, <1>4, <1>5, <1>6 DEF Settled, NodeExplained, PhaseMatches

\* CMD_TASK pause
LEMMA PausedSettles ==
  ASSUME NEW r, Settled(r)
  PROVE  LET s == Paused(r)
         IN  Settled(s) /\ s.phase # "BOOT" /\ s.estop = r.estop /\ s.type = r.type
<1>. DEFINE s == [r EXCEPT !.status = "ACCEPTED", !.phase = "IDLE", !.nav = "IDLE"]
<1>1. r \in Robots /\ NodeExplained(r)
  BY DEF Settled
<1>2. s \in Robots
  BY <1>1, ZenonT(30) DEF Robots, TaskStates, Phases, NavStates
<1>3. /\ s.phase = "IDLE" /\ s.faults = r.faults /\ s.node0 = r.node0
      /\ s.estop = r.estop /\ s.type = r.type
  BY <1>1, Zenon DEF Robots
<1>4. NodeExplained(s)
  BY <1>1, <1>3 DEF NodeExplained
<1>5. Paused(r) = Recompute(s)
  BY DEF Paused
<1>. HIDE DEF s
<1>6. Settled(Recompute(s)) /\ Recompute(s).phase # "BOOT"
  BY <1>2, <1>3, <1>4, RecomputeSettles
<1>7. Recompute(s).estop = s.estop /\ Recompute(s).type = s.type
  BY <1>2, RecomputeType
<1>8. QED
  BY <1>3, <1>5, <1>6, <1>7

\* CMD_TASK cancel, in every phase
LEMMA CancelledSettles ==
  ASSUME NEW r, Settled(r), r.phase # "BOOT"
  PROVE  LET s == Cancelled(r)
         IN  Settled(s) /\ s.phase # "BOOT" /\ s.type = "" /\ s.estop = r.estop
<1>. DEFINE f == ForgetTask(r)
            e == DropPath(f)
            p == IF e.phase = "RUNNING" THEN "IDLE" ELSE e.phase
            s == [e EXCEPT !.phase = p]
<1>1. f \in Robots /\ f.type = "" /\ f.node0 = r.node0 /\ f.faults = r.faults
      /\ f.phase = r.phase /\ f.estop = r.estop
  BY ForgetTaskType DEF Settled
<1>. HIDE DEF f
<1>2. /\ e \in Robots /\ e.type = "" /\ e.node0 = r.node0
      /\ e.faults = r.faults /\ e.phase = r.phase /\ e.estop = r.estop
  BY <1>1, DropPathType
<1>. HIDE DEF e
<1>3. p \in Phases /\ p \notin {"RUNNING", "BOOT"}
  BY <1>2 DEF Robots, Phases
<1>4. Cancelled(r) = Recompute(s)
  BY DEF Cancelled, e, f
<1>. HIDE DEF p
<1>5. /\ s \in Robots /\ s.type = "" /\ s.phase = p /\ s.node0 = r.node0
      /\ s.faults = r.faults /\ s.estop = r.estop
  BY <1>2, <1>3, Zenon DEF Robots
<1>. HIDE DEF s
<1>6. NodeExplained(s)
  BY <1>5 DEF Settled, NodeExplained
<1>7. Settled(Recompute(s)) /\ Recompute(s).phase # "BOOT"
  BY <1>3, <1>5, <1>6, RecomputeSettles
<1>8. QED
  BY <1>4, <1>5, <1>7, RecomputeType

\* a goto for which A* finds no path
LEMMA UnplannableSettles ==
  ASSUME NEW r, Settled(r), r.phase \notin {"RUNNING", "BOOT"}
  PROVE  LET s == Unplannable(r)
         IN  Settled(s) /\ s.phase # "BOOT" /\ s.estop = r.estop /\ s.type = r.type
<1>. DEFINE a == r.faults \cup {"E_TASK_FAILED"}
            s == [r EXCEPT !.path = FALSE, !.nav = "FAILED", !.faults = a]
<1>1. r \in Robots /\ NodeExplained(r)
  BY DEF Settled
<1>2. a \in SUBSET (WarnCodes \cup ErrorCodes) /\ r.faults \subseteq a
  BY <1>1 DEF Robots, ErrorCodes
<1>3. Unplannable(r) = Recompute(s)
  BY DEF Unplannable
<1>. HIDE DEF a
<1>4. s \in Robots
  BY <1>1, <1>2, Zenon DEF Robots, NavStates
<1>5. /\ s.phase = r.phase /\ s.faults = a /\ s.node0 = r.node0
      /\ s.estop = r.estop /\ s.type = r.type
  BY <1>1, Zenon DEF Robots
<1>. HIDE DEF s
<1>6. NodeExplained(s)
  BY <1>1, <1>2, <1>5 DEF NodeExplained
<1>7. Settled(Recompute(s)) /\ Recompute(s).phase # "BOOT"
  BY <1>4, <1>5, <1>6, RecomputeSettles
<1>8. Recompute(s).estop = s.estop /\ Recompute(s).type = s.type
  BY <1>4, RecomputeType
<1>9. QED
  BY <1>3, <1>5, <1>7, <1>8

\* A node that is not blocked is idle, without faults, or running.
LEMMA UnblockedIdle ==
  ASSUME NEW r, Settled(r), ~Blocked(r), r.phase # "RUNNING"
  PROVE  r.phase = "IDLE" /\ r.online /\ ~r.estop /\ r.faults = {}
BY DEF Settled, Robots, Phases, Blocked, PhaseMatches

\* an accepted goto
LEMMA StartedSettles ==
  ASSUME NEW r, Settled(r), NEW n \in TaskIds, ~Blocked(r), r.phase # "RUNNING"
  PROVE  LET s == Started(r, n)
         IN  Settled(s) /\ s.phase = "RUNNING"
<1>. DEFINE s == Started(r, n)
<1>1. r \in Robots /\ NodeExplained(r)
  BY DEF Settled
<1>2. s \in Robots
  <2>1. "RUNNING" \in Phases /\ "ACCEPTED" \in TaskStates /\ "TRACKING" \in NavStates
    BY DEF Phases, TaskStates, NavStates
  <2>2. QED
    BY <1>1, <2>1, ZenonT(60) DEF Started, Robots
<1>3. /\ s.phase = "RUNNING" /\ s.ctl = FALSE /\ s.id = n /\ s.type = "goto"
      /\ s.status = "ACCEPTED" /\ s.path = TRUE
      /\ s.faults = r.faults /\ s.node0 = r.node0
      /\ s.estop = r.estop /\ s.online = r.online
  BY <1>1, ZenonT(60) DEF Started, Robots
<1>4. n # NoTask
  BY DEF TaskIds, NoTask
<1>. HIDE DEF s
<1>5. PhaseMatches(s)
  BY <1>3, <1>4, UnblockedIdle DEF PhaseMatches, TaskReady
<1>6. QED
  BY <1>1, <1>2, <1>3, <1>5 DEF Settled, NodeExplained, s

\* an accepted resume
LEMMA ResumedSettles ==
  ASSUME NEW r, Settled(r), CanResume(r)
  PROVE  LET s == Resumed(r)
         IN  /\ Settled(s) /\ s.phase = "RUNNING"
             /\ s.estop = r.estop /\ s.type = r.type
<1>. DEFINE s == Resumed(r)
<1>1. r \in Robots /\ NodeExplained(r)
  BY DEF Settled
<1>2. s \in Robots
  <2>1. "RUNNING" \in Phases /\ "EXECUTING" \in TaskStates /\ "TRACKING" \in NavStates
    BY DEF Phases, TaskStates, NavStates
  <2>2. QED
    BY <1>1, <2>1, Zenon DEF Resumed, Robots
<1>3. /\ s.phase = "RUNNING" /\ s.ctl = FALSE /\ s.id = r.id /\ s.type = r.type
      /\ s.status = "EXECUTING" /\ s.path = r.path
      /\ s.faults = r.faults /\ s.node0 = r.node0
      /\ s.estop = r.estop /\ s.online = r.online
  BY <1>1, Zenon DEF Resumed, Robots
<1>. HIDE DEF s
<1>4. PhaseMatches(s)
  BY <1>3 DEF Settled, PhaseMatches, TaskReady, CanResume
<1>5. QED
  BY <1>1, <1>2, <1>3, <1>4 DEF Settled, NodeExplained, s

\* INJECT_FAULT
LEMMA InjectFaultSettles ==
  ASSUME NEW r, Settled(r), r.phase # "BOOT"
  PROVE  LET s == InjectFault(r)
         IN  Settled(s) /\ s.phase # "BOOT" /\ s.estop = r.estop /\ s.type = r.type
<1>. DEFINE f == FailTask(r)
            a == f.faults \cup {"E_NODE_TIMEOUT"}
            s == [f EXCEPT !.faults = a, !.node0 = "ERROR"]
            q == Recompute(s)
<1>1. /\ f \in Robots /\ f.phase = r.phase /\ f.estop = r.estop
      /\ f.type = r.type
  BY FailTaskType DEF Settled
<1>2. InjectFault(r) = q
  BY DEF InjectFault
<1>. HIDE DEF f
<1>3. a \in SUBSET (WarnCodes \cup ErrorCodes) /\ a \cap ErrorCodes # {}
  BY <1>1 DEF Robots, ErrorCodes
<1>. HIDE DEF a
<1>4. s \in Robots
  BY <1>1, <1>3, Zenon DEF Robots
<1>5. /\ s.faults = a /\ s.node0 = "ERROR" /\ s.phase = r.phase
      /\ s.estop = r.estop /\ s.type = r.type
  BY <1>1, Zenon DEF Robots
<1>6. NodeExplained(s)
  BY <1>3, <1>5 DEF NodeExplained
<1>. HIDE DEF s
<1>7. Settled(q) /\ q.phase # "BOOT"
  <2>1. CASE r.phase # "RUNNING"
    BY <1>4, <1>5, <1>6, <2>1, RecomputeSettles
  <2>2. CASE r.phase = "RUNNING"
    <3>1. ~s.estop /\ HasError(s)
      BY <1>3, <1>5, <2>2 DEF Settled, PhaseMatches, HasError
    <3>2. q.phase = "FAULT" /\ q.ctl = FALSE /\ q.node0 = "ERROR"
      BY <1>4, <1>5, <2>2, <3>1 DEF Recompute, Robots
    <3>3. q \in Robots /\ q.faults = s.faults /\ q.estop = s.estop
      BY <1>4, RecomputeType
    <3>. HIDE DEF q
    <3>4. QED
      BY <1>3, <1>5, <3>1, <3>2, <3>3 DEF Settled, NodeExplained, PhaseMatches
  <2>3. QED
    BY <2>1, <2>2
<1>8. q.estop = s.estop /\ q.type = s.type
  BY <1>4, RecomputeType
<1>9. QED
  BY <1>2, <1>5, <1>7, <1>8

\* CLEAR_FAULT
LEMMA ClearedSettles ==
  ASSUME NEW r, Settled(r), r.phase # "BOOT"
  PROVE  LET s == ClearedRobot(r)
         IN  Settled(s) /\ s.phase # "BOOT" /\ s.estop = r.estop /\ s.type = r.type
<1>. DEFINE e == ClearFaults(r)
            n == IF r.online THEN "OK" ELSE "WARN"
            g == [e EXCEPT !.node1 = n]
            q == Recompute(g)
            t == IF q.phase = "FAULT" /\ ~HasError(q)
                   THEN [q EXCEPT !.phase = "IDLE"] ELSE q
            c == t.online /\ t.phase = "IDLE" /\ ~t.estop
            v == [q EXCEPT !.ctl = c]
<1>1. /\ e \in Robots /\ e.faults = {} /\ e.node0 = "OK" /\ e.type = r.type
      /\ e.phase = r.phase /\ e.estop = r.estop /\ e.online = r.online
      /\ e.id = r.id /\ e.path = r.path /\ e.status = r.status
  BY ClearFaultsType DEF Settled
<1>. HIDE DEF e
<1>2. n \in {"OK", "WARN"}
  OBVIOUS
<1>. HIDE DEF n
<1>3. g \in Robots
  BY <1>1, <1>2, Zenon DEF Robots
<1>4. /\ g.faults = {} /\ g.node0 = "OK" /\ g.type = r.type
      /\ g.phase = r.phase /\ g.estop = r.estop /\ g.online = r.online
      /\ g.id = r.id /\ g.path = r.path /\ g.status = r.status
  BY <1>1, Zenon DEF Robots
<1>. HIDE DEF g
<1>5. NodeExplained(g) /\ (g.phase = "RUNNING" => TaskReady(g))
  BY <1>4 DEF NodeExplained, Settled, PhaseMatches, TaskReady
<1>6. Settled(q) /\ q.phase # "BOOT"
  BY <1>3, <1>4, <1>5, RecomputeSettles
<1>7. /\ q.faults = {} /\ q.type = r.type /\ q.estop = r.estop
      /\ q.online = r.online
  BY <1>3, <1>4, RecomputeType
<1>8. q.phase = "IDLE" => q.ctl = q.online
  BY <1>3 DEF Recompute, Robots
<1>. HIDE DEF q
<1>9. t = q
  BY <1>6, <1>7 DEF Settled, PhaseMatches
<1>10. ClearedRobot(r) = v
  BY <1>9 DEF ClearedRobot, q, g, n, e
<1>11. c \in BOOLEAN /\ (c => q.ctl) /\ (q.phase = "IDLE" /\ q.online => c)
  BY <1>6, <1>8, <1>9 DEF Settled, PhaseMatches
<1>. HIDE DEF c, t
<1>12. Settled(v) /\ v.phase = q.phase /\ v.type = q.type /\ v.estop = q.estop
  BY <1>6, <1>11, LowerControl
<1>. HIDE DEF v
<1>13. QED
  BY <1>6, <1>7, <1>10, <1>12

\* A task number taken for a goto without task id.
LEMMA NextSeqSettles ==
  ASSUME NEW r, Settled(r), r.seq < MaxTask
  PROVE  LET s == [r EXCEPT !.seq = @ + 1]
         IN  /\ Settled(s) /\ s.seq \in TaskIds /\ View(s) = View(r)
             /\ s.phase = r.phase /\ s.estop = r.estop /\ s.type = r.type
             /\ (Blocked(s) <=> Blocked(r))
<1>. DEFINE m == r.seq + 1
            s == [r EXCEPT !.seq = m]
<1>1. r \in Robots
  BY DEF Settled
<1>2. m \in TaskIds
  <2>1. r.seq \in TaskIds \cup {NoTask}
    BY <1>1 DEF Robots
  <2>2. QED
    BY <2>1, MaxTaskAssumption DEF TaskIds, NoTask
<1>. HIDE DEF m
<1>3. s \in Robots
  BY <1>1, <1>2, Zenon DEF Robots
<1>4. /\ s.seq = m /\ s.phase = r.phase /\ s.estop = r.estop /\ s.type = r.type
      /\ s.online = r.online /\ s.id = r.id
      /\ s.path = r.path /\ s.status = r.status /\ s.faults = r.faults
      /\ s.node0 = r.node0 /\ s.ctl = r.ctl /\ s.mode = r.mode
      /\ s.node1 = r.node1 /\ s.low = r.low /\ s.nav = r.nav
  BY <1>1, Zenon DEF Robots
<1>. HIDE DEF s
<1>5. Settled(s)
  BY <1>3, <1>4 DEF Settled, NodeExplained, PhaseMatches, TaskReady
<1>6. View(s) = View(r) /\ (Blocked(s) <=> Blocked(r))
  BY <1>4 DEF View, Conn, Blocked
<1>7. QED
  BY <1>2, <1>4, <1>5, <1>6 DEF s, m

\* A published state is typed.
LEMMA ViewType ==
  ASSUME NEW r \in Robots
  PROVE  View(r) \in Views
<1>1. Conn(r) \in {"ONLINE", "DEGRADED", "OFFLINE", "ESTOP"}
  BY DEF Conn
<1>2. /\ r.mode \in Modes /\ r.phase \in Phases
      /\ r.node0 \in {"OK", "WARN", "ERROR"} /\ r.node1 \in {"OK", "WARN"}
      /\ r.low \in BOOLEAN /\ r.id \in TaskIds \cup {NoTask}
      /\ r.type \in {"", "goto"} /\ r.status \in TaskStates
      /\ r.faults \in SUBSET (WarnCodes \cup ErrorCodes)
      /\ r.estop \in BOOLEAN /\ r.ctl \in BOOLEAN
      /\ r.nav \in NavStates /\ r.path \in BOOLEAN
  BY DEF Robots
<1>3. QED
  BY <1>1, <1>2, ZenonT(120) DEF View, Views

-----------------------------------------------------------------------------
(***************************************************************************)
(* The inductive invariant                                                 *)
(***************************************************************************)
LEMMA InitIInv == Init => IInv
<1>. SUFFICES ASSUME Init PROVE IInv
  OBVIOUS
<1>1. robot \in Robots
  <2>1. /\ "BOOT" \in Phases /\ "NONE" \in TaskStates /\ "IDLE" \in NavStates
        /\ "TELEOP" \in Modes /\ {} \in SUBSET (WarnCodes \cup ErrorCodes)
        /\ NoTask \in TaskIds \cup {NoTask} /\ 0 = NoTask
    BY ModesAssumption DEF Phases, TaskStates, NavStates, NoTask
  <2>2. QED
    BY <2>1, ZenonT(60) DEF Init, Robots
<1>2. TypeOK
  BY <1>1 DEF Init, TypeOK
<1>3. Settled(robot)
  BY <1>1 DEF Init, Settled, NodeExplained, PhaseMatches
<1>4. QED
  BY <1>2, <1>3 DEF Init, IInv, Subscribed, PublishedIsCurrent

\* A handler that ends in publish_state() with the settled members r.
LEMMA SettleStep ==
  ASSUME NEW r, Settled(r), Settle(r)
  PROVE  /\ robot' = r /\ Settled(robot)' /\ robot' \in Robots
         /\ published' = View(robot)' /\ published' \in Views
<1>1. robot' = r /\ published' = View(r) /\ r \in Robots
  BY DEF Settle, Settled, View, Conn
<1>2. View(r) \in Views
  BY <1>1, ViewType
<1>3. QED
  BY <1>1, <1>2 DEF Settled, NodeExplained, PhaseMatches, TaskReady, View, Conn

\* What is left to show of a command handler that publishes the members r.
LEMMA CommandStep ==
  ASSUME IInv, OnCmd, NEW r, Settled(r), r.phase # "BOOT", Settle(r),
         result' \in Results, revoked' \in BOOLEAN,
         revoked' => r.estop \/ r.type = ""
  PROVE  IInv'
<1>1. /\ robot' = r /\ Settled(robot)' /\ robot' \in Robots
      /\ published' = View(robot)' /\ published' \in Views
  BY SettleStep
<1>2. /\ lifecycle \in {"inactive", "active"} /\ lifecycle' = lifecycle
      /\ fresh' = fresh /\ initDone' = initDone
  BY DEF OnCmd, Subscribed
<1>3. TypeOK'
  BY <1>1, <1>2 DEF IInv, TypeOK
<1>4. QED
  BY <1>1, <1>2, <1>3 DEF IInv, Subscribed, PublishedIsCurrent

\* A step that leaves the node and the topic as they are.
LEMMA IdleStep ==
  ASSUME IInv, UNCHANGED <<lifecycle, robot, published, revoked>>,
         fresh' \in BOOLEAN, initDone' \in BOOLEAN,
         result' \in Results \cup {NoResult}
  PROVE  IInv'
<1>1. Settled(robot)'
  BY DEF IInv, Settled, NodeExplained, PhaseMatches, TaskReady
<1>2. View(robot)' = View(robot)
  BY DEF View, Conn
<1>3. TypeOK'
  BY DEF IInv, TypeOK
<1>4. QED
  BY <1>1, <1>2, <1>3 DEF IInv, Subscribed, PublishedIsCurrent

\* A handler that only answers.
LEMMA RefuseStep ==
  ASSUME IInv, OnCmd, NEW cmd \in Commands, Refuse(cmd)
  PROVE  IInv'
<1>1. /\ result' \in Results /\ UNCHANGED <<robot, published, revoked>>
      /\ UNCHANGED <<lifecycle, fresh, initDone>>
  BY DEF OnCmd, Refuse, Reply, Results
<1>2. QED
  BY <1>1, IdleStep DEF IInv, TypeOK

LEMMA ReplyType ==
  ASSUME NEW cmd \in Commands, NEW st \in {"ACCEPTED", "REJECTED", "DONE"},
         Reply(cmd, st)
  PROVE  result' \in Results
BY DEF Reply, Results

\* Every step of the node keeps the inductive invariant.
LEMMA NextIInv == IInv /\ [Next]_vars => IInv'
<1>. SUFFICES ASSUME IInv, [Next]_vars PROVE IInv'
  OBVIOUS
<1>. USE DEF Commands
<1>0. /\ robot \in Robots /\ Settled(robot) /\ NodeExplained(robot)
      /\ Subscribed => robot.phase # "BOOT"
      /\ revoked => robot.estop \/ robot.type = ""
      /\ revoked \in BOOLEAN /\ result \in Results \cup {NoResult}
      /\ robot.estop \in BOOLEAN
  BY DEF IInv, TypeOK, Settled, Robots
<1>1. CASE OnConfigure
  <2>1. Settled(Configured(robot)) /\ Configured(robot).phase = "INITIALIZING"
    BY <1>0, ConfiguredSettles
  <2>2. /\ robot' = Configured(robot) /\ Settled(robot)' /\ robot' \in Robots
        /\ published' = View(robot)' /\ published' \in Views
    BY <1>1, <2>1, SettleStep DEF OnConfigure
  <2>3. lifecycle' = "inactive" /\ revoked' = FALSE /\ UNCHANGED <<fresh, initDone, result>>
    BY <1>1 DEF OnConfigure
  <2>4. QED
    BY <2>1, <2>2, <2>3 DEF IInv, TypeOK, Subscribed, PublishedIsCurrent
<1>2. CASE OnActivate
  <2>1. /\ Settled(Initializing(robot)) /\ Initializing(robot).phase = "INITIALIZING"
        /\ Initializing(robot).estop = robot.estop
        /\ Initializing(robot).type = robot.type
    BY <1>0, InitializingSettles
  <2>2. /\ robot' = Initializing(robot) /\ Settled(robot)' /\ robot' \in Robots
        /\ published' = View(robot)' /\ published' \in Views
    BY <1>2, <2>1, SettleStep DEF OnActivate
  <2>3. /\ lifecycle' = "active" /\ initDone' = FALSE
        /\ UNCHANGED <<fresh, result, revoked>>
    BY <1>2 DEF OnActivate
  <2>4. QED
    BY <2>1, <2>2, <2>3 DEF IInv, TypeOK, Subscribed, PublishedIsCurrent
<1>3. CASE OnDeactivate
  <2>1. /\ Settled(Initializing(robot)) /\ Initializing(robot).phase = "INITIALIZING"
        /\ Initializing(robot).estop = robot.estop
        /\ Initializing(robot).type = robot.type
    BY <1>0, InitializingSettles
  <2>2. /\ lifecycle' = "inactive" /\ robot' = Initializing(robot)
        /\ initDone' = FALSE /\ UNCHANGED <<fresh, published, result, revoked>>
    BY <1>3 DEF OnDeactivate
  <2>3. Settled(robot)' /\ robot' \in Robots
    BY <2>1, <2>2 DEF Settled, NodeExplained, PhaseMatches, TaskReady
  <2>4. QED
    BY <1>0, <2>1, <2>2, <2>3 DEF IInv, TypeOK, Subscribed, PublishedIsCurrent
<1>4. CASE OnCleanup \/ OnShutdown
  <2>. DEFINE s == [robot EXCEPT !.phase = "BOOT"]
  <2>1. /\ Settled(s) /\ s.phase = "BOOT"
        /\ s.estop = robot.estop /\ s.type = robot.type
    BY <1>0, DismantledSettles
  <2>2. /\ robot' = s /\ lifecycle' \in {"unconfigured", "finalized"}
        /\ initDone' \in BOOLEAN /\ UNCHANGED <<fresh, published, result, revoked>>
    BY <1>4 DEF OnCleanup, OnShutdown, Dismantle, IInv, TypeOK
  <2>3. Settled(robot)' /\ robot' \in Robots
    BY <2>1, <2>2 DEF Settled, NodeExplained, PhaseMatches, TaskReady
  <2>. HIDE DEF s
  <2>4. QED
    BY <1>0, <2>1, <2>2, <2>3 DEF IInv, TypeOK, Subscribed, PublishedIsCurrent
<1>5. ASSUME NEW isOnline \in BOOLEAN, OnConsole(isOnline)
      PROVE  IInv'
  <2>. DEFINE s == HearConsole(robot, isOnline)
  <2>1. /\ Settled(s) /\ s.phase # "BOOT"
        /\ s.estop = robot.estop \/ s.type = ""
        /\ s.type \in {robot.type, ""}
        /\ ~isOnline /\ robot.phase = "RUNNING" => s.type = ""
    BY <1>0, <1>5, HearConsoleSettles DEF OnConsole
  <2>2. /\ robot' = s /\ Settled(robot)' /\ robot' \in Robots
        /\ published' = View(robot)' /\ published' \in Views
    BY <1>5, <2>1, SettleStep DEF OnConsole
  <2>3. /\ Subscribed /\ UNCHANGED <<lifecycle, initDone, result>>
        /\ fresh' = (fresh \/ isOnline)
        /\ revoked' = (revoked \/ (~isOnline /\ robot.phase = "RUNNING"))
    BY <1>5 DEF OnConsole
  <2>. HIDE DEF s
  <2>4. revoked' => robot'.estop \/ robot'.type = ""
    BY <1>0, <2>1, <2>2, <2>3
  <2>5. QED
    BY <2>1, <2>2, <2>3, <2>4 DEF IInv, TypeOK, Subscribed, PublishedIsCurrent
<1>6. CASE HeartbeatAges \/ InitElapses
  BY <1>6, IdleStep DEF HeartbeatAges, InitElapses, IInv, TypeOK
<1>7. CASE Tick
  <2>1. PICK ready \in {Ready(robot)} :
          \E moved \in Moves(ready), low \in Charges(ready) :
            Settle(Discharge(moved, low))
    BY <1>7 DEF Tick
  <2>2. PICK moved \in Moves(ready), low \in Charges(ready) :
          Settle(Discharge(moved, low))
    BY <2>1
  <2>3. /\ Settled(ready) /\ ready.phase # "BOOT"
        /\ ready.estop = robot.estop \/ ready.type = ""
        /\ ready.type \in {robot.type, ""}
        /\ Silent(robot) /\ robot.phase = "RUNNING" => ready.type = ""
    BY <1>0, <1>7, <2>1, ReadySettles DEF Tick, Subscribed
  <2>4. /\ Settled(moved) /\ moved.phase # "BOOT"
        /\ moved.estop = ready.estop /\ moved.type = ready.type
    <3>1. CASE Tracking(ready)
      <4>1. PICK off \in BOOLEAN, arrived \in BOOLEAN : moved = Track(ready, off, arrived)
        BY <2>2, <3>1 DEF Moves
      <4>. DEFINE t == Track(ready, off, arrived)
      <4>2. Settled(t) /\ t.phase # "BOOT" /\ t.estop = ready.estop /\ t.type = ready.type
        BY <2>3, <3>1, TrackSettles
      <4>3. QED
        BY <4>1, <4>2, Zenon
    <3>2. CASE ~Tracking(ready)
      <4>1. moved = ready
        BY <2>2, <3>2 DEF Moves
      <4>2. QED
        BY <2>3, <4>1
    <3>3. QED
      BY <3>1, <3>2
  <2>5. low \in BOOLEAN
    BY <2>2, <2>3 DEF Charges, Settled, Robots
  <2>. DEFINE s == Discharge(moved, low)
  <2>6. Settled(s) /\ s.phase # "BOOT" /\ s.estop = ready.estop /\ s.type = ready.type
    BY <2>4, <2>5, DischargeSettles
  <2>7. /\ robot' = s /\ Settled(robot)' /\ robot' \in Robots
        /\ published' = View(robot)' /\ published' \in Views
    BY <2>2, <2>6, SettleStep
  <2>8. /\ lifecycle = "active" /\ UNCHANGED <<lifecycle, fresh, initDone, result>>
        /\ revoked' = (revoked \/ (Silent(robot) /\ robot.phase = "RUNNING"))
    BY <1>7 DEF Tick
  <2>. HIDE DEF s
  <2>9. revoked' => robot'.estop \/ robot'.type = ""
    BY <1>0, <2>3, <2>6, <2>7, <2>8
  <2>10. revoked' \in BOOLEAN
    BY <2>8
  <2>11. QED
    BY <2>6, <2>7, <2>8, <2>9, <2>10 DEF IInv, TypeOK, Subscribed, PublishedIsCurrent
<1>8. CASE CmdEstop
  <2>1. Settled(Stopped(robot)) /\ Stopped(robot).phase = "ESTOP" /\ Stopped(robot).estop
    BY <1>0, StoppedSettles
  <2>2. result' \in Results /\ revoked' \in BOOLEAN /\ OnCmd /\ Settle(Stopped(robot))
    BY <1>8, ReplyType DEF CmdEstop
  <2>3. QED
    BY <2>1, <2>2, CommandStep
<1>9. ASSUME NEW confirm \in BOOLEAN, CmdReset(confirm)
      PROVE  IInv'
  <2>1. CASE Refuse("CMD_RESET")
    BY <1>9, <2>1, RefuseStep DEF CmdReset
  <2>2. CASE Reply("CMD_RESET", "REJECTED") /\ Settle(robot) /\ UNCHANGED revoked
    <3>1. OnCmd /\ result' \in Results /\ robot.phase # "BOOT"
      BY <1>0, <1>9, <2>2, ReplyType DEF CmdReset, OnCmd
    <3>2. QED
      BY <1>0, <2>2, <3>1, CommandStep
  <2>3. CASE Settle(ResetRobot(robot)) /\ Reply("CMD_RESET", "ACCEPTED") /\ UNCHANGED revoked
    <3>1. OnCmd /\ result' \in Results
      BY <1>9, <2>3, ReplyType DEF CmdReset
    <3>2. /\ Settled(ResetRobot(robot)) /\ ResetRobot(robot).phase # "BOOT"
          /\ ResetRobot(robot).type = ""
      BY <1>0, ResetSettles
    <3>3. QED
      BY <1>0, <2>3, <3>1, <3>2, CommandStep
  <2>4. QED
    BY <1>9, <2>1, <2>2, <2>3 DEF CmdReset
<1>10. ASSUME NEW m \in Modes \cup {"none"}, CmdMode(m)
       PROVE  IInv'
  <2>1. CASE Refuse("CMD_MODE")
    BY <1>10, <2>1, RefuseStep DEF CmdMode
  <2>2. CASE /\ m \in Modes /\ Settle([robot EXCEPT !.mode = m])
             /\ Reply("CMD_MODE", "ACCEPTED") /\ UNCHANGED revoked
    <3>. DEFINE s == [robot EXCEPT !.mode = m]
    <3>1. OnCmd /\ result' \in Results
      BY <1>10, <2>2, ReplyType DEF CmdMode
    <3>2. /\ Settled(s) /\ s.phase = robot.phase /\ s.estop = robot.estop
          /\ s.type = robot.type
      <4>1. Settled(robot)
        BY <1>0 DEF IInv
      <4>2. /\ s \in Robots /\ s.phase = robot.phase /\ s.estop = robot.estop
            /\ s.type = robot.type /\ s.faults = robot.faults /\ s.node0 = robot.node0
            /\ s.ctl = robot.ctl /\ s.online = robot.online /\ s.id = robot.id
            /\ s.path = robot.path /\ s.status = robot.status
        BY <2>2, <4>1 DEF Settled, Robots
      <4>3. QED
        BY <4>1, <4>2 DEF Settled, NodeExplained, PhaseMatches, TaskReady
    <3>3. s.phase # "BOOT"
      BY <1>0, <3>1, <3>2 DEF OnCmd
    <3>4. Settle(s) /\ revoked' = revoked
      BY <2>2
    <3>. HIDE DEF s
    <3>5. QED
      BY <1>0, <3>1, <3>2, <3>3, <3>4, CommandStep
  <2>3. QED
    BY <1>10, <2>1, <2>2 DEF CmdMode
<1>11. CASE CmdTask
  <2>1. CASE TaskPause
    <3>1. OnCmd /\ result' \in Results /\ UNCHANGED revoked /\ robot.phase # "BOOT"
      BY <1>0, <2>1, ReplyType DEF TaskPause, OnCmd
    <3>2. CASE Settle(Paused(robot))
      BY <1>0, <3>1, <3>2, PausedSettles, CommandStep
    <3>3. CASE Settle(robot)
      BY <1>0, <3>1, <3>3, CommandStep
    <3>4. QED
      BY <2>1, <3>2, <3>3 DEF TaskPause
  <2>2. CASE TaskCancel
    <3>1. /\ OnCmd /\ result' \in Results /\ UNCHANGED revoked
          /\ robot.phase # "BOOT" /\ Settle(Cancelled(robot))
      BY <1>0, <2>2, ReplyType DEF TaskCancel, OnCmd
    <3>2. QED
      BY <1>0, <3>1, CancelledSettles, CommandStep
  <2>3. CASE TaskBlocked \/ TaskUnknown
    BY <2>3, RefuseStep DEF TaskBlocked, TaskUnknown
  <2>4. ASSUME NEW given \in TaskIds \cup {NoTask},
               NEW inMap \in BOOLEAN, NEW planned \in BOOLEAN,
               TaskGoto(given, inMap, planned)
        PROVE  IInv'
    <3>. DEFINE r == IF given = NoTask THEN [robot EXCEPT !.seq = @ + 1] ELSE robot
                n == IF given = NoTask THEN r.seq ELSE given
                repeated == robot.id = n /\ robot.status = "DONE"
    <3>1. OnCmd /\ ~Blocked(robot) /\ (given = NoTask => robot.seq < MaxTask)
      BY <2>4 DEF TaskGoto
    <3>2. /\ Settled(r) /\ n \in TaskIds /\ View(r) = View(robot)
          /\ r.phase = robot.phase /\ r.estop = robot.estop
          /\ r.type = robot.type /\ ~Blocked(r)
      BY <1>0, <3>1, NextSeqSettles
    <3>3. robot.phase # "BOOT"
      BY <3>1 DEF Blocked
    <3>4. CASE Refuse("CMD_TASK")
      BY <3>1, <3>4, RefuseStep
    <3>5. CASE /\ robot' = r /\ Reply("CMD_TASK", "DONE")
               /\ UNCHANGED <<published, revoked>>
      <4>1. result' \in Results /\ UNCHANGED <<lifecycle, fresh, initDone>>
        BY <3>1, <3>5, ReplyType DEF OnCmd
      <4>. HIDE DEF r
      <4>2. /\ robot'.phase = robot.phase /\ robot'.estop = robot.estop
            /\ robot'.type = robot.type /\ robot' \in Robots /\ Settled(robot)'
            /\ View(robot)' = View(robot)
        BY <3>2, <3>5 DEF Settled, NodeExplained, PhaseMatches, TaskReady, View, Conn
      <4>3. QED
        BY <3>5, <4>1, <4>2 DEF IInv, TypeOK, Subscribed, PublishedIsCurrent
    <3>6. CASE /\ robot.phase # "RUNNING" /\ Settle(Unplannable(r))
               /\ Reply("CMD_TASK", "REJECTED") /\ UNCHANGED revoked
      <4>1. OnCmd /\ result' \in Results /\ UNCHANGED revoked /\ Settle(Unplannable(r))
        BY <3>1, <3>6, ReplyType
      <4>. HIDE DEF r
      <4>2. /\ Settled(Unplannable(r)) /\ Unplannable(r).phase # "BOOT"
            /\ Unplannable(r).estop = robot.estop /\ Unplannable(r).type = robot.type
        BY <3>2, <3>3, <3>6, UnplannableSettles
      <4>3. QED
        BY <1>0, <4>1, <4>2, CommandStep
    <3>7. CASE /\ robot.phase # "RUNNING" /\ Settle(Started(r, n))
               /\ Reply("CMD_TASK", "ACCEPTED") /\ revoked' = FALSE
      <4>1. OnCmd /\ result' \in Results /\ Settle(Started(r, n))
        BY <3>1, <3>7, ReplyType
      <4>. HIDE DEF r, n
      <4>2. Settled(Started(r, n)) /\ Started(r, n).phase # "BOOT"
        BY <3>2, <3>7, StartedSettles
      <4>3. QED
        BY <3>7, <4>1, <4>2, CommandStep
    <3>8. QED
      BY <2>4, <3>4, <3>5, <3>6, <3>7 DEF TaskGoto
  <2>5. CASE TaskResume
    <3>1. OnCmd /\ result' \in Results /\ UNCHANGED revoked /\ robot.phase # "BOOT"
      BY <1>0, <2>5, ReplyType DEF TaskResume, OnCmd
    <3>2. CASE CanResume(robot) /\ Settle(Resumed(robot))
      BY <1>0, <3>1, <3>2, ResumedSettles, CommandStep
    <3>3. CASE Settle(robot)
      BY <1>0, <3>1, <3>3, CommandStep
    <3>4. QED
      BY <2>5, <3>2, <3>3 DEF TaskResume
  <2>6. QED
    BY <1>11, <2>1, <2>2, <2>3, <2>4, <2>5 DEF CmdTask
<1>12. CASE CmdInjectFault
  <2>1. /\ OnCmd /\ result' \in Results /\ UNCHANGED revoked
        /\ robot.phase # "BOOT" /\ Settle(InjectFault(robot))
    BY <1>0, <1>12, ReplyType DEF CmdInjectFault, OnCmd
  <2>2. QED
    BY <1>0, <2>1, InjectFaultSettles, CommandStep
<1>13. CASE CmdClearFault
  <2>1. /\ OnCmd /\ result' \in Results /\ UNCHANGED revoked
        /\ robot.phase # "BOOT" /\ Settle(ClearedRobot(robot))
    BY <1>0, <1>13, ReplyType DEF CmdClearFault, OnCmd
  <2>2. QED
    BY <1>0, <2>1, ClearedSettles, CommandStep
<1>14. CASE CmdOther
  BY <1>14, RefuseStep DEF CmdOther
<1>15. CASE UNCHANGED vars
  BY <1>15, IdleStep DEF vars, IInv, TypeOK
<1>16. QED
  BY <1>1, <1>2, <1>3, <1>4, <1>5, <1>6, <1>7, <1>8, <1>9, <1>10, <1>11,
     <1>12, <1>13, <1>14, <1>15 DEF Next

\* The invariant on which every safety theorem below rests.
LEMMA InductiveInvariant == Spec => []IInv
<1>1. Init => IInv
  BY InitIInv
<1>2. IInv /\ [Next]_vars => IInv'
  BY NextIInv
<1>3. QED
  BY <1>1, <1>2, PTL DEF Spec

-----------------------------------------------------------------------------
(***************************************************************************)
(* Theorems                                                                *)
(***************************************************************************)
\* Every member of the node and every published state is typed.
THEOREM TypeCorrect == Spec => []TypeOK
<1>1. IInv => TypeOK
  BY DEF IInv
<1>2. QED
  BY <1>1, InductiveInvariant, PTL

\* A RUNNING robot is not in estop, hears the console, has no ERROR fault and
\* executes a planned goto, for any number of tasks.
THEOREM RunningSafe == Spec => []RunningIsSafe
<1>1. IInv => RunningIsSafe
  BY DEF IInv, Settled, PhaseMatches, TaskReady, RunningIsSafe
<1>2. QED
  BY <1>1, InductiveInvariant, PTL

\* Control is offered only by a node that would admit a task.
THEOREM ControlReady == Spec => []ControlMeansReady
<1>1. IInv => ControlMeansReady
  BY DEF IInv, Settled, PhaseMatches, ControlMeansReady, Blocked
<1>2. QED
  BY <1>1, InductiveInvariant, PTL

\* The phase is always explained by the estop flag or by a listed fault.
THEOREM PhaseIsExplained == Spec => []PhaseExplained
<1>1. IInv => PhaseExplained
  BY DEF IInv, Settled, PhaseMatches, PhaseExplained, Robots, Phases
<1>2. QED
  BY <1>1, InductiveInvariant, PTL

\* A task stopped by an ESTOP or by console loss runs again only after a goto.
THEOREM StoppedStaysStopped == Spec => []StoppedTaskStaysStopped
<1>1. IInv => StoppedTaskStaysStopped
  BY DEF IInv, Settled, PhaseMatches, TaskReady, StoppedTaskStaysStopped
<1>2. QED
  BY <1>1, InductiveInvariant, PTL

\* The state last published by an active node is its state.
THEOREM PublishedCurrent == Spec => []PublishedIsCurrent
<1>1. IInv => PublishedIsCurrent
  BY DEF IInv
<1>2. QED
  BY <1>1, InductiveInvariant, PTL

-----------------------------------------------------------------------------
(***************************************************************************)
(* The latch                                                               *)
(***************************************************************************)
\* A node in estop does not run, so neither a heartbeat nor its expiry goes
\* through a safety stop, and the flag survives both.
LEMMA EstopSurvives ==
  ASSUME NEW r, Settled(r), r.estop
  PROVE  /\ \A isOnline \in BOOLEAN : HearConsole(r, isOnline).estop
         /\ Ready(r).estop
<1>1. r \in Robots /\ r.phase # "RUNNING"
  BY DEF Settled, PhaseMatches
<1>2. ASSUME NEW isOnline \in BOOLEAN
      PROVE  HearConsole(r, isOnline).estop
  <2>. DEFINE s == [r EXCEPT !.online = isOnline,
                             !.node1  = IF isOnline THEN "OK" ELSE "WARN"]
              u == Recompute(s)
  <2>1. s \in Robots /\ s.estop /\ s.phase # "RUNNING"
    BY <1>1, <1>2 DEF Robots
  <2>2. u \in Robots /\ u.estop
    BY <2>1, RecomputeType
  <2>3. HearConsole(r, isOnline) = [u EXCEPT !.ctl = @ /\ isOnline]
    BY <2>1 DEF HearConsole
  <2>. HIDE DEF u
  <2>4. QED
    BY <2>2, <2>3 DEF Robots
<1>3. Ready(r).estop
  <2>. DEFINE h == IF Silent(r) THEN LoseConsole(r) ELSE r
              p == IF h.phase = "INITIALIZING" /\ initDone THEN "IDLE" ELSE h.phase
              b == [h EXCEPT !.phase = p]
  <2>1. h \in Robots /\ h.estop
    BY <1>1, ZenonT(30) DEF LoseConsole, Robots
  <2>2. Ready(r) = Recompute(b)
    BY DEF Ready
  <2>. HIDE DEF h
  <2>3. b \in Robots /\ b.estop
    BY <2>1 DEF Robots, Phases
  <2>. HIDE DEF b
  <2>4. QED
    BY <2>2, <2>3, RecomputeType
<1>4. QED
  BY <1>2, <1>3

\* One step of the node: the flag goes only with a new configuration or with
\* an accepted RESET.
LEMMA LatchStep ==
  ASSUME IInv, [Next]_vars, robot.estop, ~robot'.estop
  PROVE  \/ lifecycle = "unconfigured" /\ lifecycle' = "inactive"
         \/ /\ result' = [cmd |-> "CMD_RESET", status |-> "ACCEPTED"]
            /\ "E_NODE_TIMEOUT" \notin robot.faults
            /\ robot'.phase = "IDLE" /\ robot'.faults = {} /\ robot'.id = NoTask
<1>. DEFINE Goal == \/ lifecycle = "unconfigured" /\ lifecycle' = "inactive"
                    \/ /\ result' = [cmd |-> "CMD_RESET", status |-> "ACCEPTED"]
                       /\ "E_NODE_TIMEOUT" \notin robot.faults
                       /\ robot'.phase = "IDLE" /\ robot'.faults = {}
                       /\ robot'.id = NoTask
<1>. SUFFICES Goal
  OBVIOUS
<1>0. /\ robot \in Robots /\ Settled(robot) /\ Blocked(robot)
      /\ Subscribed => robot.phase # "BOOT"
      /\ robot.phase # "RUNNING"
  BY DEF IInv, Settled, Blocked, PhaseMatches
<1>1. CASE OnConfigure
  BY <1>1 DEF OnConfigure
<1>2. CASE OnActivate \/ OnDeactivate
  <2>1. robot' = Initializing(robot)
    BY <1>2 DEF OnActivate, OnDeactivate, Settle
  <2>2. QED
    BY <1>0, <2>1, InitializingSettles DEF Settled
<1>3. CASE OnCleanup \/ OnShutdown
  BY <1>0, <1>3 DEF OnCleanup, OnShutdown, Dismantle, Robots
<1>4. CASE \E isOnline \in BOOLEAN : OnConsole(isOnline)
  BY <1>0, <1>4, EstopSurvives DEF OnConsole, Settle
<1>5. CASE Tick
  <2>. DEFINE ready == Ready(robot)
  <2>1. /\ Subscribed
        /\ \E moved \in Moves(ready), low \in Charges(ready) :
             robot' = Discharge(moved, low)
    BY <1>5 DEF Tick, Settle, Subscribed
  <2>2. ready.estop /\ Settled(ready) /\ ready.phase # "BOOT" /\ ready \in Robots
    BY <1>0, <2>1, EstopSurvives, ReadySettles DEF Settled
  <2>. HIDE DEF ready
  <2>3. Moves(ready) = {ready} /\ Charges(ready) \subseteq BOOLEAN
    <3>1. ready.low \in BOOLEAN
      BY <2>2 DEF Robots
    <3>2. Moves(ready) = {ready}
      BY <2>2 DEF Moves, Tracking
    <3>3. Charges(ready) \subseteq BOOLEAN
      BY <3>1 DEF Charges
    <3>4. QED
      BY <3>2, <3>3
  <2>4. PICK low \in BOOLEAN : robot' = Discharge(ready, low)
    BY <2>1, <2>3
  <2>5. QED
    BY <2>2, <2>4, DischargeSettles
<1>6. CASE CmdEstop
  BY <1>0, <1>6, StoppedSettles DEF CmdEstop, Settle
<1>7. ASSUME NEW confirm \in BOOLEAN, CmdReset(confirm)
      PROVE  Goal
  <2>1. /\ robot' = ResetRobot(robot) /\ ~Blocking(robot)
        /\ result' = [cmd |-> "CMD_RESET", status |-> "ACCEPTED"]
    BY <1>7 DEF CmdReset, Settle, Refuse, Reply
  <2>2. robot'.phase = "IDLE" /\ robot'.faults = {} /\ robot'.id = NoTask
    BY <1>0, <2>1, ResetSettles
  <2>3. "E_NODE_TIMEOUT" \notin robot.faults
    BY <2>1 DEF Blocking, ErrorCodes
  <2>4. QED
    BY <2>1, <2>2, <2>3
<1>8. CASE \E m \in Modes \cup {"none"} : CmdMode(m)
  BY <1>0, <1>8 DEF CmdMode, Settle, Refuse, Robots
<1>9. CASE CmdTask
  <2>1. CASE TaskPause
    BY <1>0, <2>1 DEF TaskPause, Settle
  <2>2. CASE TaskCancel
    <3>1. OnCmd /\ robot' = Cancelled(robot)
      BY <2>2 DEF TaskCancel, Settle
    <3>2. QED
      BY <1>0, <3>1, CancelledSettles DEF OnCmd
  <2>3. CASE TaskBlocked
    BY <2>3 DEF TaskBlocked, Refuse
  <2>4. QED
    BY <1>0, <1>9, <2>1, <2>2, <2>3 DEF CmdTask, TaskGoto, TaskResume, TaskUnknown
<1>10. CASE CmdInjectFault
  <2>1. OnCmd /\ robot' = InjectFault(robot)
    BY <1>10 DEF CmdInjectFault, Settle
  <2>2. QED
    BY <1>0, <2>1, InjectFaultSettles DEF OnCmd
<1>11. CASE CmdClearFault
  <2>1. OnCmd /\ robot' = ClearedRobot(robot)
    BY <1>11 DEF CmdClearFault, Settle
  <2>2. QED
    BY <1>0, <2>1, ClearedSettles DEF OnCmd
<1>12. CASE CmdOther \/ HeartbeatAges \/ InitElapses \/ UNCHANGED vars
  BY <1>12 DEF CmdOther, Refuse, HeartbeatAges, InitElapses, vars
<1>13. QED
  BY <1>1, <1>2, <1>3, <1>4, <1>5, <1>6, <1>7, <1>8, <1>9, <1>10, <1>11,
     <1>12 DEF Next

\* The estop flag is left only by configuring the node anew or by an accepted
\* CMD_RESET, which lands in IDLE with no fault and no task.
THEOREM EstopStaysLatched == Spec => EstopLatch
<1>1. IInv /\ [Next]_vars =>
        [robot.estop /\ ~robot'.estop =>
           \/ lifecycle = "unconfigured" /\ lifecycle' = "inactive"
           \/ /\ result' = [cmd |-> "CMD_RESET", status |-> "ACCEPTED"]
              /\ "E_NODE_TIMEOUT" \notin robot.faults
              /\ robot'.phase = "IDLE" /\ robot'.faults = {} /\ robot'.id = NoTask
        ]_vars
  BY LatchStep
<1>2. QED
  BY <1>1, InductiveInvariant, PTL DEF Spec, EstopLatch
-----------------------------------------------------------------------------
(***************************************************************************)
(* The interlock.  Of a robot the abstract specification sees the estop    *)
(* flag, the console, the errors listed, whether it runs, and the task a   *)
(* resume would start again.                                               *)
(***************************************************************************)
Listed(r) == r.faults \cap ErrorCodes

\* The task and what an operator sets are the same in r and in s.
Keeps(r, s) ==
  /\ s.estop = r.estop /\ s.online = r.online /\ s.id = r.id /\ s.type = r.type

\* The interlock sees no difference between r and s.
Alike(r, s) ==
  /\ Keeps(r, s) /\ Listed(s) = Listed(r)
  /\ s.phase = "RUNNING" <=> r.phase = "RUNNING"

\* The robot stands still in s, with the errors of r.
Halts(r, s) ==
  Keeps(r, s) /\ s.phase # "RUNNING" /\ Listed(s) = Listed(r)

\* The robot stands still in s, with one error more.
Fails(r, s) ==
  /\ Keeps(r, s) /\ s.phase # "RUNNING"
  /\ \E e \in ErrorCodes : Listed(s) = Listed(r) \cup {e}

LEMMA RecomputeKeeps ==
  ASSUME NEW r \in Robots
  PROVE  Keeps(r, Recompute(r)) /\ Recompute(r).faults = r.faults
BY RecomputeType DEF Keeps

\* Without estop and without error a running node goes on running.
LEMMA RecomputeAlike ==
  ASSUME NEW r \in Robots, NodeExplained(r),
         r.phase = "RUNNING" => ~r.estop /\ TaskReady(r) /\ Listed(r) = {}
  PROVE  Alike(r, Recompute(r))
<1>1. Keeps(r, Recompute(r)) /\ Listed(Recompute(r)) = Listed(r)
  BY RecomputeKeeps DEF Listed
<1>2. CASE r.phase # "RUNNING"
  BY <1>1, <1>2, RecomputeSettles DEF Alike
<1>3. CASE r.phase = "RUNNING"
  <2>1. ~HasError(r) /\ ~r.estop /\ r.phase \notin {"BOOT", "INITIALIZING"}
    BY <1>3 DEF HasError, NodeExplained, Listed
  <2>2. Recompute(r).phase = "RUNNING"
    <3>1. CASE HasWarn(r)
      BY <1>3, <2>1, <3>1 DEF Recompute, Robots
    <3>2. CASE ~HasWarn(r)
      BY <1>3, <2>1, <3>2 DEF Recompute, Robots
    <3>3. QED
      BY <3>1, <3>2
  <2>3. QED
    BY <1>1, <1>3, <2>2 DEF Alike
<1>4. QED
  BY <1>2, <1>3

LEMMA FailTaskKeeps ==
  ASSUME NEW r \in Robots
  PROVE  Keeps(r, FailTask(r)) /\ FailTask(r).faults = r.faults
<1>1. CASE r.status \in {"ACCEPTED", "EXECUTING"}
  BY <1>1 DEF FailTask, Keeps, Robots
<1>2. CASE r.status \notin {"ACCEPTED", "EXECUTING"}
  BY <1>2 DEF FailTask, Keeps, Robots
<1>3. QED
  BY <1>1, <1>2

\* A safety stop takes the task type and nothing else the interlock sees.
LEMMA SafetyStopDrops ==
  ASSUME NEW r \in Robots
  PROVE  LET s == ApplySafetyStop(r)
         IN  /\ s.estop = r.estop /\ s.online = r.online /\ s.type = ""
             /\ s.faults = r.faults
<1>. DEFINE f == FailTask(r)
            p == IF f.phase = "RUNNING" THEN "IDLE" ELSE f.phase
            g == [f EXCEPT !.phase = p, !.type = ""]
            q == Recompute(g)
<1>1. f \in Robots /\ Keeps(r, f) /\ f.faults = r.faults
  BY FailTaskType, FailTaskKeeps
<1>2. ApplySafetyStop(r) = [q EXCEPT !.ctl = q.ctl /\ q.online]
  BY DEF ApplySafetyStop
<1>. HIDE DEF f
<1>3. p \in Phases
  BY <1>1 DEF Robots, Phases
<1>. HIDE DEF p
<1>4. /\ g \in Robots /\ g.estop = f.estop /\ g.online = f.online
      /\ g.type = "" /\ g.faults = f.faults
  BY <1>1, <1>3 DEF Robots
<1>. HIDE DEF g
<1>5. q \in Robots /\ Keeps(g, q) /\ q.faults = g.faults
  BY <1>4, RecomputeType, RecomputeKeeps
<1>. HIDE DEF q
<1>6. LET s == ApplySafetyStop(r)
      IN  /\ s.estop = q.estop /\ s.online = q.online /\ s.type = q.type
          /\ s.faults = q.faults
  BY <1>2, <1>5 DEF Robots
<1>7. QED
  BY <1>1, <1>4, <1>5, <1>6 DEF Keeps

\* What the interlock sees of a console that goes, or is gone already.
Loses(r, s) ==
  /\ s.estop = r.estop /\ s.online = FALSE /\ s.phase # "RUNNING"
  /\ Listed(s) = Listed(r)
  /\ IF r.phase = "RUNNING" THEN s.type = "" ELSE s.id = r.id /\ s.type = r.type

LEMMA LoseConsoleLoses ==
  ASSUME NEW r, Settled(r), r.phase # "BOOT"
  PROVE  Loses(r, LoseConsole(r))
<1>. DEFINE s == [r EXCEPT !.online = FALSE, !.node1 = "WARN"]
<1>1. /\ s \in Robots /\ s.phase = r.phase /\ s.estop = r.estop
      /\ s.type = r.type /\ s.id = r.id /\ s.faults = r.faults /\ s.online = FALSE
  BY ZenonT(30) DEF Settled, Robots
<1>2. LoseConsole(r) = IF r.phase = "RUNNING" THEN ApplySafetyStop(s) ELSE s
  BY <1>1 DEF LoseConsole
<1>. HIDE DEF s
<1>3. LoseConsole(r).phase # "RUNNING"
  BY LoseConsoleSettles
<1>4. QED
  BY <1>1, <1>2, <1>3, SafetyStopDrops DEF Loses, Listed

\* Recomputing a node that lost its console changes nothing more.
LEMMA LosesThenAlike ==
  ASSUME NEW r, NEW s, NEW t, Loses(r, s), Alike(s, t)
  PROVE  Loses(r, t)
BY DEF Loses, Alike, Keeps

LEMMA AlikeTwice ==
  ASSUME NEW r, NEW s, NEW t, Alike(r, s), Alike(s, t)
  PROVE  Alike(r, t)
BY DEF Alike, Keeps

\* A message on botcockpit/console.
LEMMA HearConsoleHears ==
  ASSUME NEW r, Settled(r), r.phase # "BOOT"
  PROVE  LET s == HearConsole(r, TRUE)
         IN  /\ s.estop = r.estop /\ s.online /\ s.id = r.id /\ s.type = r.type
             /\ Listed(s) = Listed(r)
             /\ s.phase = "RUNNING" <=> r.phase = "RUNNING"
<1>. DEFINE s == [r EXCEPT !.online = TRUE, !.node1 = "OK"]
            u == Recompute(s)
<1>1. /\ s \in Robots /\ NodeExplained(s) /\ s.phase = r.phase
      /\ s.estop = r.estop /\ s.type = r.type /\ s.id = r.id /\ s.online
      /\ s.path = r.path /\ s.status = r.status /\ s.faults = r.faults
  BY ZenonT(30) DEF Settled, NodeExplained, Robots
<1>2. HearConsole(r, TRUE) = [u EXCEPT !.ctl = @ /\ TRUE]
  BY DEF HearConsole
<1>. HIDE DEF s
<1>3. r.phase = "RUNNING" => ~s.estop /\ TaskReady(s) /\ Listed(s) = {}
  BY <1>1 DEF Settled, PhaseMatches, TaskReady, Listed
<1>4. u \in Robots /\ Alike(s, u)
  BY <1>1, <1>3, RecomputeType, RecomputeAlike
<1>. HIDE DEF u
<1>5. LET t == HearConsole(r, TRUE)
      IN  /\ t.estop = u.estop /\ t.online = u.online /\ t.id = u.id
          /\ t.type = u.type /\ t.faults = u.faults /\ t.phase = u.phase
  BY <1>2, <1>4 DEF Robots
<1>6. QED
  BY <1>1, <1>4, <1>5 DEF Alike, Keeps, Listed

LEMMA HearConsoleLoses ==
  ASSUME NEW r, Settled(r), r.phase # "BOOT"
  PROVE  Loses(r, HearConsole(r, FALSE))
<1>. DEFINE s == LoseConsole(r)
            u == Recompute(s)
<1>1. s \in Robots /\ NodeExplained(s) /\ s.phase # "RUNNING" /\ Loses(r, s)
  BY LoseConsoleSettles, LoseConsoleLoses
<1>2. HearConsole(r, FALSE) = [u EXCEPT !.ctl = @ /\ FALSE]
  BY DEF HearConsole, LoseConsole
<1>. HIDE DEF s
<1>3. u \in Robots /\ Alike(s, u)
  BY <1>1, RecomputeType, RecomputeAlike
<1>. HIDE DEF u
<1>4. Alike(u, HearConsole(r, FALSE))
  BY <1>2, <1>3 DEF Robots, Alike, Keeps, Listed
<1>5. QED
  BY <1>1, <1>3, <1>4, LosesThenAlike

\* The head of a tick loses a silent console and else changes nothing the
\* interlock sees.
LEMMA ReadyLoses ==
  ASSUME NEW r, Settled(r), r.phase # "BOOT"
  PROVE  IF Silent(r) THEN Loses(r, Ready(r)) ELSE Alike(r, Ready(r))
<1>. DEFINE h == IF Silent(r) THEN LoseConsole(r) ELSE r
            p == IF h.phase = "INITIALIZING" /\ initDone THEN "IDLE" ELSE h.phase
            b == [h EXCEPT !.phase = p]
<1>1. /\ h \in Robots /\ NodeExplained(h)
      /\ h.phase = "RUNNING" => ~h.estop /\ TaskReady(h) /\ Listed(h) = {}
      /\ IF Silent(r) THEN Loses(r, h) ELSE h = r
  BY LoseConsoleSettles, LoseConsoleLoses DEF Settled, PhaseMatches, Listed
<1>2. Ready(r) = Recompute(b)
  BY DEF Ready
<1>. HIDE DEF h
<1>3. p \in Phases /\ (p = "RUNNING" <=> h.phase = "RUNNING")
  BY <1>1 DEF Robots, Phases
<1>. HIDE DEF p
<1>4. /\ b \in Robots /\ b.phase = p /\ b.estop = h.estop /\ b.online = h.online
      /\ b.id = h.id /\ b.type = h.type /\ b.faults = h.faults
      /\ b.node0 = h.node0 /\ b.path = h.path /\ b.status = h.status
  BY <1>1, <1>3, Zenon DEF Robots
<1>. HIDE DEF b
<1>5. Alike(h, b) /\ NodeExplained(b)
  BY <1>1, <1>3, <1>4 DEF Alike, Keeps, Listed, NodeExplained
<1>6. b.phase = "RUNNING" => ~b.estop /\ TaskReady(b) /\ Listed(b) = {}
  BY <1>1, <1>3, <1>4 DEF TaskReady, Listed
<1>7. Alike(b, Recompute(b))
  BY <1>4, <1>5, <1>6, RecomputeAlike
<1>8. QED
  BY <1>1, <1>2, <1>5, <1>7, AlikeTwice, LosesThenAlike

\* One control step: the robot goes on, arrives, or fails.
LEMMA TrackHalts ==
  ASSUME NEW r, Settled(r), Tracking(r), NEW off \in BOOLEAN, NEW arrived \in BOOLEAN
  PROVE  LET s == Track(r, off, arrived)
         IN  Alike(r, s) \/ Halts(r, s) \/ Fails(r, s)
<1>. DEFINE s == [r EXCEPT !.status = "EXECUTING", !.nav = "TRACKING"]
            o == [s EXCEPT !.status = "FAILED", !.phase = "IDLE", !.nav = "FAILED",
                           !.faults = @ \cup {"E_TASK_FAILED"}]
            t == IF off THEN Recompute(o) ELSE s
            d == [t EXCEPT !.status = "DONE", !.phase = "IDLE", !.nav = "IDLE"]
<1>0. r.path /\ r \in Robots /\ NodeExplained(r) /\ r.phase = "RUNNING"
  BY DEF Settled, PhaseMatches, TaskReady, Tracking
<1>1. Track(r, off, arrived) = IF arrived THEN Recompute(d) ELSE t
  BY <1>0 DEF Track
<1>2. s \in Robots /\ Alike(r, s) /\ s.faults = r.faults /\ s.node0 = r.node0
  <2>1. "EXECUTING" \in TaskStates /\ "TRACKING" \in NavStates
    BY DEF TaskStates, NavStates
  <2>2. s \in Robots
    BY <1>0, <2>1, Zenon DEF Robots
  <2>3. /\ s.estop = r.estop /\ s.online = r.online /\ s.id = r.id
        /\ s.type = r.type /\ s.faults = r.faults /\ s.phase = r.phase
        /\ s.node0 = r.node0
    BY <1>0, Zenon DEF Robots
  <2>4. QED
    BY <2>2, <2>3 DEF Alike, Keeps, Listed
<1>. HIDE DEF s
<1>3. o \in Robots /\ NodeExplained(o) /\ o.phase = "IDLE" /\ Fails(s, o)
  <2>1. s.faults \cup {"E_TASK_FAILED"} \in SUBSET (WarnCodes \cup ErrorCodes)
    BY <1>2 DEF Robots, ErrorCodes
  <2>2. "FAILED" \in TaskStates /\ "IDLE" \in Phases /\ "FAILED" \in NavStates
    BY DEF TaskStates, Phases, NavStates
  <2>3. o \in Robots
    BY <1>2, <2>1, <2>2, Zenon DEF Robots
  <2>4. /\ o.faults = s.faults \cup {"E_TASK_FAILED"} /\ o.node0 = s.node0
        /\ o.phase = "IDLE" /\ Keeps(s, o)
    BY <1>2 DEF Robots, Keeps
  <2>5. Listed(o) = Listed(s) \cup {"E_TASK_FAILED"} /\ "E_TASK_FAILED" \in ErrorCodes
    BY <2>4 DEF Listed, ErrorCodes
  <2>6. NodeExplained(o)
    BY <1>0, <1>2, <2>4 DEF NodeExplained
  <2>. HIDE DEF o
  <2>7. QED
    BY <2>3, <2>4, <2>5, <2>6 DEF Fails
<1>. HIDE DEF o
<1>4. /\ t \in Robots /\ NodeExplained(t)
      /\ IF off THEN Fails(r, t) ELSE Alike(r, t)
  <2>1. CASE off
    <3>1. Alike(o, Recompute(o)) /\ Settled(Recompute(o))
      BY <1>3, RecomputeAlike, RecomputeSettles
    <3>2. QED
      BY <1>2, <1>3, <2>1, <3>1 DEF Fails, Alike, Keeps, Settled
  <2>2. CASE ~off
    BY <1>0, <1>2, <2>2 DEF NodeExplained
  <2>3. QED
    BY <2>1, <2>2
<1>. HIDE DEF t
<1>5. /\ d \in Robots /\ NodeExplained(d) /\ d.phase = "IDLE"
      /\ Keeps(t, d) /\ Listed(d) = Listed(t)
  <2>1. "DONE" \in TaskStates /\ "IDLE" \in Phases /\ "IDLE" \in NavStates
    BY DEF TaskStates, Phases, NavStates
  <2>2. d \in Robots
    BY <1>4, <2>1, Zenon DEF Robots
  <2>3. /\ d.faults = t.faults /\ d.node0 = t.node0 /\ d.phase = "IDLE"
        /\ Keeps(t, d)
    BY <1>4 DEF Robots, Keeps
  <2>4. QED
    BY <1>4, <2>2, <2>3 DEF NodeExplained, Listed
<1>. HIDE DEF d
<1>6. Alike(d, Recompute(d))
  BY <1>5, RecomputeAlike
<1>7. CASE arrived
  BY <1>1, <1>4, <1>5, <1>6, <1>7 DEF Halts, Fails, Alike, Keeps
<1>8. CASE ~arrived
  BY <1>1, <1>4, <1>8
<1>9. QED
  BY <1>7, <1>8

\* The battery only lists a warning.
LEMMA DischargeAlike ==
  ASSUME NEW r, Settled(r), NEW low \in BOOLEAN
  PROVE  Alike(r, Discharge(r, low))
<1>. DEFINE s == [r EXCEPT !.low = low]
            w == [s EXCEPT !.faults = @ \cup {"W_BATTERY_LOW"}]
<1>1. /\ s \in Robots /\ NodeExplained(s) /\ Alike(r, s)
      /\ s.phase = r.phase /\ s.path = r.path /\ s.status = r.status
  <2>1. /\ s \in Robots /\ s.phase = r.phase /\ s.path = r.path
        /\ s.status = r.status /\ s.faults = r.faults /\ s.node0 = r.node0
        /\ Keeps(r, s)
    BY Zenon DEF Settled, Robots, Keeps
  <2>2. QED
    BY <2>1 DEF Settled, NodeExplained, Alike, Listed
<1>2. Discharge(r, low) \in {s, Recompute(w)}
  BY DEF Discharge
<1>. HIDE DEF s
<1>3. /\ w \in Robots /\ NodeExplained(w) /\ Alike(s, w)
      /\ w.phase = s.phase /\ w.path = s.path /\ w.status = s.status
  <2>1. s.faults \cup {"W_BATTERY_LOW"} \in SUBSET (WarnCodes \cup ErrorCodes)
    BY <1>1 DEF Robots, WarnCodes
  <2>2. /\ w \in Robots /\ w.phase = s.phase /\ w.path = s.path
        /\ w.status = s.status /\ w.node0 = s.node0 /\ Keeps(s, w)
        /\ w.faults = s.faults \cup {"W_BATTERY_LOW"}
    BY <1>1, <2>1 DEF Robots, Keeps
  <2>. HIDE DEF w
  <2>3. Listed(w) = Listed(s)
    BY <2>2 DEF Listed, ErrorCodes
  <2>4. QED
    BY <1>1, <2>2, <2>3 DEF NodeExplained, Alike
<1>. HIDE DEF w
<1>4. w.phase = "RUNNING" => ~w.estop /\ TaskReady(w) /\ Listed(w) = {}
  BY <1>1, <1>3 DEF Settled, PhaseMatches, TaskReady, Alike, Keeps, Listed
<1>5. Alike(w, Recompute(w))
  BY <1>3, <1>4, RecomputeAlike
<1>6. QED
  BY <1>1, <1>2, <1>3, <1>5, AlikeTwice

\* on_activate, on_deactivate, on_cleanup and on_shutdown
LEMMA InitializingHalts ==
  ASSUME NEW r \in Robots
  PROVE  Halts(r, Initializing(r))
BY DEF Initializing, Robots, Halts, Keeps, Listed

LEMMA DismantledHalts ==
  ASSUME NEW r \in Robots
  PROVE  Halts(r, [r EXCEPT !.phase = "BOOT"])
BY DEF Robots, Halts, Keeps, Listed

\* on_configure
LEMMA ConfiguredForgets ==
  ASSUME NEW r \in Robots
  PROVE  LET s == Configured(r)
         IN  s.estop = FALSE /\ s.online = FALSE /\ s.faults = {} /\ s.type = ""
<1>. DEFINE c == ClearFaults(r)
            f == ForgetTask(c)
            e == DropPath(f)
            s == [e EXCEPT !.estop = FALSE, !.online = FALSE, !.low = FALSE,
                           !.node1 = "OK"]
<1>1. c \in Robots /\ c.faults = {}
  BY ClearFaultsType
<1>. HIDE DEF c
<1>2. f \in Robots /\ f.faults = {} /\ f.type = ""
  BY <1>1, ForgetTaskType
<1>. HIDE DEF f
<1>3. e \in Robots /\ e.faults = {} /\ e.type = ""
  BY <1>2, DropPathType
<1>. HIDE DEF e
<1>4. s \in Robots /\ s.estop = FALSE /\ s.online = FALSE /\ s.faults = {} /\ s.type = ""
  BY <1>3, Zenon DEF Robots
<1>5. Configured(r) = Initializing(s)
  BY DEF Configured, e, f, c
<1>. HIDE DEF s
<1>6. Initializing(s).faults = s.faults /\ Keeps(s, Initializing(s))
  BY <1>4 DEF Initializing, Robots, Keeps
<1>7. QED
  BY <1>4, <1>5, <1>6 DEF Keeps

\* CMD_ESTOP
LEMMA StoppedKeeps ==
  ASSUME NEW r, Settled(r)
  PROVE  Stopped(r).online = r.online /\ Listed(Stopped(r)) = Listed(r)
<1>. DEFINE f == FailTask(r)
            a == f.faults \cup {"E_ESTOP_ACTIVE"}
            s == [f EXCEPT !.estop = TRUE, !.phase = "ESTOP", !.ctl = FALSE,
                           !.faults = a]
<1>1. f \in Robots /\ Keeps(r, f) /\ f.faults = r.faults
  BY FailTaskType, FailTaskKeeps DEF Settled
<1>2. Stopped(r) = s
  BY DEF Stopped
<1>. HIDE DEF f
<1>3. s.online = f.online /\ s.faults = a
  BY <1>1, Zenon DEF Robots
<1>. HIDE DEF s
<1>4. a \cap ErrorCodes = f.faults \cap ErrorCodes
  BY DEF ErrorCodes
<1>5. QED
  BY <1>1, <1>2, <1>3, <1>4 DEF Keeps, Listed

\* CMD_TASK pause
LEMMA PausedHalts ==
  ASSUME NEW r, Settled(r)
  PROVE  Halts(r, Paused(r))
<1>. DEFINE s == [r EXCEPT !.status = "ACCEPTED", !.phase = "IDLE", !.nav = "IDLE"]
<1>1. "ACCEPTED" \in TaskStates /\ "IDLE" \in Phases /\ "IDLE" \in NavStates
  BY DEF TaskStates, Phases, NavStates
<1>2. /\ s \in Robots /\ s.phase = "IDLE" /\ s.faults = r.faults
      /\ s.node0 = r.node0 /\ Keeps(r, s)
  BY <1>1, Zenon DEF Settled, Robots, Keeps
<1>3. Paused(r) = Recompute(s)
  BY DEF Paused
<1>. HIDE DEF s
<1>4. Alike(s, Recompute(s))
  BY <1>2, RecomputeAlike DEF Settled, NodeExplained
<1>5. QED
  BY <1>2, <1>3, <1>4 DEF Halts, Alike, Keeps, Listed

\* CMD_TASK cancel
LEMMA CancelledStops ==
  ASSUME NEW r, Settled(r)
  PROVE  LET s == Cancelled(r)
         IN  /\ s.estop = r.estop /\ s.online = r.online /\ s.type = ""
             /\ Listed(s) = Listed(r) /\ s.phase # "RUNNING"
<1>. DEFINE f == ForgetTask(r)
            e == DropPath(f)
            p == IF e.phase = "RUNNING" THEN "IDLE" ELSE e.phase
            s == [e EXCEPT !.phase = p]
<1>1. /\ f \in Robots /\ f.type = "" /\ f.node0 = r.node0 /\ f.faults = r.faults
      /\ f.estop = r.estop /\ f.online = r.online
  BY ForgetTaskType DEF Settled
<1>. HIDE DEF f
<1>2. /\ e \in Robots /\ e.type = "" /\ e.node0 = r.node0 /\ e.faults = r.faults
      /\ e.estop = r.estop /\ e.online = r.online
  BY <1>1, DropPathType DEF DropPath, Robots
<1>. HIDE DEF e
<1>3. p \in Phases /\ p # "RUNNING"
  BY <1>2 DEF Robots, Phases
<1>4. Cancelled(r) = Recompute(s)
  BY DEF Cancelled, e, f
<1>. HIDE DEF p
<1>5. /\ s \in Robots /\ s.type = "" /\ s.phase = p /\ s.node0 = r.node0
      /\ s.faults = r.faults /\ s.estop = r.estop /\ s.online = r.online
  BY <1>2, <1>3, Zenon DEF Robots
<1>. HIDE DEF s
<1>6. Alike(s, Recompute(s))
  BY <1>3, <1>5, RecomputeAlike DEF Settled, NodeExplained
<1>7. QED
  BY <1>3, <1>4, <1>5, <1>6 DEF Alike, Keeps, Listed

\* a goto for which A* finds no path
LEMMA UnplannableFails ==
  ASSUME NEW r, Settled(r), r.phase # "RUNNING"
  PROVE  Fails(r, Unplannable(r))
<1>. DEFINE a == r.faults \cup {"E_TASK_FAILED"}
            s == [r EXCEPT !.path = FALSE, !.nav = "FAILED", !.faults = a]
<1>1. a \in SUBSET (WarnCodes \cup ErrorCodes) /\ r.faults \subseteq a
  BY DEF Settled, Robots, ErrorCodes
<1>2. a \cap ErrorCodes = Listed(r) \cup {"E_TASK_FAILED"} /\ "E_TASK_FAILED" \in ErrorCodes
  BY DEF Listed, ErrorCodes
<1>3. Unplannable(r) = Recompute(s)
  BY DEF Unplannable
<1>. HIDE DEF a
<1>4. /\ s \in Robots /\ s.phase = r.phase /\ s.faults = a
      /\ s.node0 = r.node0 /\ Keeps(r, s)
  BY <1>1, Zenon DEF Settled, Robots, NavStates, Keeps
<1>. HIDE DEF s
<1>5. Alike(s, Recompute(s))
  BY <1>1, <1>4, RecomputeAlike DEF Settled, NodeExplained
<1>6. QED
  BY <1>2, <1>3, <1>4, <1>5 DEF Fails, Alike, Keeps, Listed

\* INJECT_FAULT
LEMMA InjectFaultFails ==
  ASSUME NEW r, Settled(r), r.phase # "BOOT"
  PROVE  Fails(r, InjectFault(r))
<1>. DEFINE f == FailTask(r)
            a == f.faults \cup {"E_NODE_TIMEOUT"}
            s == [f EXCEPT !.faults = a, !.node0 = "ERROR"]
<1>1. f \in Robots /\ Keeps(r, f) /\ f.faults = r.faults
  BY FailTaskType, FailTaskKeeps DEF Settled
<1>2. InjectFault(r) = Recompute(s)
  BY DEF InjectFault
<1>. HIDE DEF f
<1>3. /\ a \in SUBSET (WarnCodes \cup ErrorCodes) /\ "E_NODE_TIMEOUT" \in ErrorCodes
      /\ a \cap ErrorCodes = Listed(r) \cup {"E_NODE_TIMEOUT"}
  BY <1>1 DEF Robots, ErrorCodes, Listed
<1>. HIDE DEF a
<1>4. s \in Robots /\ s.faults = a /\ Keeps(f, s)
  BY <1>1, <1>3, Zenon DEF Robots, Keeps
<1>. HIDE DEF s
<1>5. Keeps(s, Recompute(s)) /\ Recompute(s).faults = s.faults
  BY <1>4, RecomputeKeeps
<1>6. Listed(InjectFault(r)) = Listed(r) \cup {"E_NODE_TIMEOUT"}
  BY <1>2, <1>3, <1>4, <1>5 DEF Listed
<1>7. Settled(InjectFault(r)) /\ Keeps(r, InjectFault(r))
  BY <1>1, <1>2, <1>4, <1>5, InjectFaultSettles DEF Keeps
<1>8. InjectFault(r).phase # "RUNNING"
  BY <1>3, <1>6, <1>7 DEF Settled, PhaseMatches, Listed
<1>9. QED
  BY <1>3, <1>6, <1>7, <1>8 DEF Fails

\* CLEAR_FAULT
LEMMA ClearedRepairs ==
  ASSUME NEW r, Settled(r)
  PROVE  LET s == ClearedRobot(r)
         IN  /\ Keeps(r, s) /\ s.faults = {}
             /\ s.phase = "RUNNING" <=> r.phase = "RUNNING"
<1>. DEFINE e == ClearFaults(r)
            n == IF r.online THEN "OK" ELSE "WARN"
            g == [e EXCEPT !.node1 = n]
            q == Recompute(g)
            t == IF q.phase = "FAULT" /\ ~HasError(q)
                   THEN [q EXCEPT !.phase = "IDLE"] ELSE q
<1>1. /\ e \in Robots /\ e.faults = {} /\ e.node0 = "OK" /\ e.phase = r.phase
      /\ e.path = r.path /\ e.status = r.status /\ Keeps(r, e)
  BY ClearFaultsType DEF Settled, Keeps
<1>. HIDE DEF e
<1>2. n \in {"OK", "WARN"}
  OBVIOUS
<1>. HIDE DEF n
<1>3. /\ g \in Robots /\ g.faults = {} /\ g.node0 = "OK" /\ g.phase = r.phase
      /\ g.path = r.path /\ g.status = r.status /\ Keeps(r, g)
  BY <1>1, <1>2, Zenon DEF Robots, Keeps
<1>. HIDE DEF g
<1>4. NodeExplained(g)
  BY <1>3 DEF NodeExplained
<1>5. g.phase = "RUNNING" => ~g.estop /\ TaskReady(g) /\ Listed(g) = {}
  BY <1>3 DEF Settled, PhaseMatches, TaskReady, Keeps, Listed
<1>6. q \in Robots /\ Alike(g, q) /\ q.faults = {} /\ Settled(q)
  BY <1>3, <1>4, <1>5, RecomputeType, RecomputeAlike, RecomputeSettles
<1>. HIDE DEF q
<1>7. t = q
  BY <1>6 DEF Settled, PhaseMatches
<1>8. ClearedRobot(r) = [q EXCEPT !.ctl = q.online /\ q.phase = "IDLE" /\ ~q.estop]
  BY <1>7 DEF ClearedRobot, q, g, n, e
<1>. HIDE DEF t
<1>9. /\ Keeps(q, ClearedRobot(r)) /\ ClearedRobot(r).faults = q.faults
      /\ ClearedRobot(r).phase = q.phase
  BY <1>6, <1>8 DEF Robots, Keeps
<1>10. QED
  BY <1>3, <1>6, <1>9 DEF Alike, Keeps

\* a goto and a resume
LEMMA StartedStarts ==
  ASSUME NEW r, Settled(r), NEW n \in TaskIds
  PROVE  LET s == Started(r, n)
         IN  /\ s.estop = r.estop /\ s.online = r.online /\ s.faults = r.faults
             /\ s.id = n /\ s.type = "goto" /\ s.phase = "RUNNING"
BY ZenonT(60) DEF Started, Settled, Robots

LEMMA ResumedStarts ==
  ASSUME NEW r, Settled(r)
  PROVE  LET s == Resumed(r)
         IN  Keeps(r, s) /\ s.faults = r.faults /\ s.phase = "RUNNING"
BY ZenonT(60) DEF Resumed, Settled, Robots, Keeps

\* What the interlock makes of the changes above.
LEMMA AlikeStays ==
  ASSUME Alike(robot, robot')
  PROVE  UNCHANGED Lock!state
BY DEF Alike, Keeps, Listed, Lock!state

LEMMA HaltsHalts ==
  ASSUME Halts(robot, robot')
  PROVE  (robot.phase = "RUNNING" /\ Lock!Halt) \/ UNCHANGED Lock!state
<1>1. CASE robot.phase = "RUNNING"
  BY <1>1 DEF Lock!Halt, Halts, Keeps, Listed
<1>2. CASE robot.phase # "RUNNING"
  BY <1>2, AlikeStays DEF Halts, Alike
<1>3. QED
  BY <1>1, <1>2

LEMMA FailsFails ==
  ASSUME Fails(robot, robot')
  PROVE  Lock!Fail
BY DEF Lock!Fail, Fails, Keeps, Listed

LEMMA LosesLoses ==
  ASSUME Settled(robot), Loses(robot, robot')
  PROVE  Lock!Lose \/ UNCHANGED Lock!state
<1>1. robot.phase = "RUNNING" => robot.online
  BY DEF Settled, PhaseMatches, TaskReady
<1>2. CASE robot.online = TRUE
  <2>1. CASE robot.phase = "RUNNING"
    BY <1>2, <2>1 DEF Lock!Lose, Loses, Listed
  <2>2. CASE robot.phase # "RUNNING"
    BY <1>2, <2>2 DEF Lock!Lose, Loses, Listed
  <2>3. QED
    BY <2>1, <2>2
<1>3. CASE robot.online = FALSE
  BY <1>1, <1>3 DEF Loses, Listed, Lock!state
<1>4. QED
  BY <1>2, <1>3 DEF Settled, Robots

\* A step without an answer, and one with.
LEMMA Unasked ==
  ASSUME Lock!Itself \/ UNCHANGED Lock!state, result' = result
  PROVE  [Lock!Next]_(Lock!vars)
BY DEF Lock!Next, Lock!vars

LEMMA Obeyed ==
  ASSUME NEW c \in Commands, NEW v \in {"ACCEPTED", "REJECTED", "DONE"},
         Lock!Command(c, v), Reply(c, v)
  PROVE  [Lock!Next]_(Lock!vars)
<1>1. c \in Lock!Commands /\ v \in Lock!Verdicts
  BY DEF Commands, Lock!Commands, Lock!Verdicts
<1>2. result' = [cmd |-> c, status |-> v]
  BY DEF Reply
<1>3. Lock!Obey
  BY <1>1, <1>2 DEF Lock!Obey
<1>4. QED
  BY <1>3 DEF Lock!Next

\* A command that is refused changes nothing the interlock sees.
LEMMA RefusedStays ==
  ASSUME NEW c \in Commands, c # "CMD_ESTOP", robot' = robot, Reply(c, "REJECTED")
  PROVE  [Lock!Next]_(Lock!vars)
<1>1. UNCHANGED Lock!state
  BY AlikeStays DEF Alike, Keeps
<1>2. Lock!Command(c, "REJECTED")
  BY <1>1 DEF Lock!Command
<1>3. QED
  BY <1>2, Obeyed

\* One tick: at most one of losing the console and of stopping happens.
LEMMA TickMaps ==
  ASSUME IInv, Tick
  PROVE  [Lock!Next]_(Lock!vars)
<1>1. Settled(robot) /\ robot.phase # "BOOT"
  BY DEF IInv, Tick, Subscribed
<1>2. PICK moved \in Moves(Ready(robot)), low \in Charges(Ready(robot)) :
        robot' = Discharge(moved, low)
  BY DEF Tick, Settle
<1>. DEFINE ready == Ready(robot)
<1>3. /\ Settled(ready)
      /\ IF Silent(robot) THEN Loses(robot, ready) ELSE Alike(robot, ready)
  BY <1>1, ReadySettles, ReadyLoses
<1>4. low \in BOOLEAN
  BY <1>2, <1>3 DEF Charges, Settled, Robots
<1>. HIDE DEF ready
<1>5. /\ Settled(moved)
      /\ IF Tracking(ready)
           THEN Alike(ready, moved) \/ Halts(ready, moved) \/ Fails(ready, moved)
           ELSE moved = ready
  <2>1. CASE Tracking(ready)
    <3>1. PICK off \in BOOLEAN, arrived \in BOOLEAN :
            moved = Track(ready, off, arrived)
      BY <1>2, <2>1 DEF Moves, ready
    <3>2. QED
      BY <1>3, <2>1, <3>1, TrackSettles, TrackHalts
  <2>2. CASE ~Tracking(ready)
    BY <1>2, <1>3, <2>2 DEF Moves, ready
  <2>3. QED
    BY <2>1, <2>2
<1>6. Alike(moved, robot') /\ result' = result
  BY <1>2, <1>4, <1>5, DischargeAlike DEF Tick
<1>7. CASE Silent(robot)
  <2>1. moved = ready
    BY <1>3, <1>5, <1>7 DEF Tracking, Loses
  <2>2. Loses(robot, robot')
    BY <1>3, <1>6, <1>7, <2>1, LosesThenAlike
  <2>3. QED
    BY <1>1, <1>6, <2>2, LosesLoses, Unasked DEF Lock!Itself
<1>8. CASE ~Silent(robot)
  <2>1. Alike(robot, ready) /\ (Tracking(ready) => robot.phase = "RUNNING")
    BY <1>3, <1>8 DEF Alike, Tracking
  <2>2. CASE Alike(ready, moved)
    BY <1>6, <2>1, <2>2, AlikeTwice, AlikeStays, Unasked
  <2>3. CASE Halts(ready, moved)
    <3>1. Halts(robot, robot')
      BY <1>6, <2>1, <2>3 DEF Alike, Halts, Keeps
    <3>2. QED
      BY <1>6, <3>1, HaltsHalts, Unasked DEF Lock!Itself
  <2>4. CASE Fails(ready, moved) /\ Tracking(ready)
    <3>1. Fails(robot, robot')
      BY <1>6, <2>1, <2>4 DEF Alike, Fails, Keeps
    <3>2. robot.phase = "RUNNING" /\ Lock!Fail
      BY <2>1, <2>4, <3>1, FailsFails
    <3>3. QED
      BY <1>6, <3>2, Unasked DEF Lock!Itself
  <2>5. QED
    BY <1>5, <2>2, <2>3, <2>4 DEF Alike, Keeps
<1>9. QED
  BY <1>7, <1>8

\* A goto, given the guard under which the node admits it.
LEMMA GotoMaps ==
  ASSUME IInv, NEW given \in TaskIds \cup {NoTask},
         NEW inMap \in BOOLEAN, NEW planned \in BOOLEAN,
         TaskGoto(given, inMap, planned)
  PROVE  [Lock!Next]_(Lock!vars)
<1>. DEFINE r == IF given = NoTask THEN [robot EXCEPT !.seq = @ + 1] ELSE robot
            n == IF given = NoTask THEN r.seq ELSE given
<1>0. "CMD_TASK" \in Commands /\ "CMD_TASK" # "CMD_ESTOP"
  BY DEF Commands
<1>1. Settled(robot) /\ ~Blocked(robot) /\ (given = NoTask => robot.seq < MaxTask)
  BY DEF TaskGoto, IInv
<1>2. Settled(r) /\ n \in TaskIds /\ r.phase = robot.phase
  BY <1>1, NextSeqSettles
<1>3. Keeps(robot, r) /\ r.faults = robot.faults
  BY <1>1 DEF Keeps, Settled, Robots
<1>4. \/ robot' = robot /\ Reply("CMD_TASK", "REJECTED")
      \/ robot' = r /\ Reply("CMD_TASK", "DONE")
      \/ /\ robot.phase # "RUNNING" /\ robot' = Unplannable(r)
         /\ Reply("CMD_TASK", "REJECTED")
      \/ /\ robot.phase # "RUNNING" /\ robot' = Started(r, n)
         /\ Reply("CMD_TASK", "ACCEPTED")
  BY DEF TaskGoto, Refuse, Settle
<1>. HIDE DEF r, n
<1>5. CASE robot' = robot /\ Reply("CMD_TASK", "REJECTED")
  BY <1>0, <1>5, RefusedStays
<1>6. CASE robot' = r /\ Reply("CMD_TASK", "DONE")
  <2>1. UNCHANGED Lock!state
    BY <1>2, <1>3, <1>6, AlikeStays DEF Alike, Keeps, Listed
  <2>2. Lock!Command("CMD_TASK", "DONE")
    BY <2>1 DEF Lock!Command
  <2>3. QED
    BY <1>0, <1>6, <2>2, Obeyed
<1>7. CASE /\ robot.phase # "RUNNING" /\ robot' = Unplannable(r)
           /\ Reply("CMD_TASK", "REJECTED")
  <2>1. Fails(robot, robot')
    BY <1>2, <1>3, <1>7, UnplannableFails DEF Fails, Keeps, Listed
  <2>2. Lock!Command("CMD_TASK", "REJECTED")
    BY <1>7, <2>1, FailsFails DEF Lock!Command
  <2>3. QED
    BY <1>0, <1>7, <2>2, Obeyed
<1>8. CASE /\ robot.phase # "RUNNING" /\ robot' = Started(r, n)
           /\ Reply("CMD_TASK", "ACCEPTED")
  <2>1. robot.online /\ ~robot.estop /\ robot.faults = {}
    BY <1>1, <1>8, UnblockedIdle
  <2>2. /\ robot'.estop = r.estop /\ robot'.online = r.online
        /\ robot'.faults = r.faults /\ robot'.id = n /\ robot'.type = "goto"
        /\ robot'.phase = "RUNNING"
    BY <1>2, <1>8, StartedStarts
  <2>3. Lock!Start
    BY <1>2, <1>3, <1>8, <2>1, <2>2 DEF Lock!Start, Lock!Clear, Keeps
  <2>4. Lock!Command("CMD_TASK", "ACCEPTED")
    BY <2>3 DEF Lock!Command
  <2>5. QED
    BY <1>0, <1>8, <2>4, Obeyed
<1>9. QED
  BY <1>4, <1>5, <1>6, <1>7, <1>8

\* The other tasks.
LEMMA TaskMaps ==
  ASSUME IInv, CmdTask
  PROVE  [Lock!Next]_(Lock!vars)
<1>1. Settled(robot) /\ "CMD_TASK" \in Commands /\ "CMD_TASK" # "CMD_ESTOP"
  BY DEF IInv, Commands
<1>2. CASE /\ Lock!Start \/ Lock!Resume \/ Lock!Halt \/ Lock!Cancel
           /\ Reply("CMD_TASK", "ACCEPTED")
  <2>1. Lock!Command("CMD_TASK", "ACCEPTED")
    BY <1>2 DEF Lock!Command
  <2>2. QED
    BY <1>1, <1>2, <2>1, Obeyed
<1>3. CASE robot' = robot /\ Reply("CMD_TASK", "REJECTED")
  BY <1>1, <1>3, RefusedStays
<1>4. CASE TaskPause
  <2>1. CASE robot.phase = "RUNNING"
    <3>1. Halts(robot, robot') /\ Reply("CMD_TASK", "ACCEPTED")
      BY <1>1, <1>4, <2>1, PausedHalts DEF TaskPause, Settle
    <3>2. Lock!Halt
      BY <2>1, <3>1 DEF Lock!Halt, Halts, Keeps, Listed
    <3>3. QED
      BY <1>2, <3>1, <3>2
  <2>2. CASE robot.phase # "RUNNING"
    BY <1>3, <1>4, <2>2 DEF TaskPause, Settle
  <2>3. QED
    BY <2>1, <2>2
<1>5. CASE TaskCancel
  <2>1. /\ robot'.estop = robot.estop /\ robot'.online = robot.online
        /\ robot'.type = "" /\ Listed(robot') = Listed(robot)
        /\ robot'.phase # "RUNNING"
    BY <1>1, <1>5, CancelledStops DEF TaskCancel, Settle
  <2>2. Lock!Cancel
    BY <2>1 DEF Lock!Cancel, Listed
  <2>3. QED
    BY <1>2, <1>5, <2>2 DEF TaskCancel
<1>6. CASE TaskBlocked \/ TaskUnknown
  BY <1>3, <1>6 DEF TaskBlocked, TaskUnknown, Refuse
<1>7. CASE TaskResume
  <2>1. CASE ~CanResume(robot)
    BY <1>3, <1>7, <2>1 DEF TaskResume, Settle
  <2>2. CASE CanResume(robot)
    <3>1. /\ robot.id # NoTask /\ robot.type = "goto" /\ ~robot.estop
          /\ robot.online /\ robot.phase # "RUNNING" /\ Listed(robot) = {}
      BY <2>2 DEF CanResume, HasError, Listed
    <3>2. /\ Keeps(robot, robot') /\ robot'.faults = robot.faults
          /\ robot'.phase = "RUNNING"
      BY <1>1, <1>7, <2>2, ResumedStarts DEF TaskResume, Settle
    <3>3. Lock!Resume
      BY <3>1, <3>2 DEF Lock!Resume, Lock!Clear, Keeps, Listed
    <3>4. QED
      BY <1>2, <1>7, <2>2, <3>3 DEF TaskResume
  <2>3. QED
    BY <2>1, <2>2
<1>8. QED
  BY <1>4, <1>5, <1>6, <1>7, GotoMaps DEF CmdTask

\* Every step of the node is a step of the interlock or a stutter.
LEMMA InterlockStep ==
  IInv /\ [Next]_vars => [Lock!Next]_(Lock!vars)
<1>. SUFFICES ASSUME IInv, [Next]_vars PROVE [Lock!Next]_(Lock!vars)
  OBVIOUS
<1>0. /\ robot \in Robots /\ Settled(robot) /\ Alike(robot, robot)
      /\ Subscribed <=> robot.phase # "BOOT"
  BY DEF IInv, Settled, Alike, Keeps
<1>c. Commands = {"CMD_ESTOP", "CMD_RESET", "CMD_MODE", "CMD_TASK",
                  "INJECT_FAULT", "CLEAR_FAULT", "other"}
  BY DEF Commands
<1>1. CASE OnConfigure
  <2>1. /\ robot'.estop = FALSE /\ robot'.online = FALSE /\ robot'.faults = {}
        /\ robot'.type = "" /\ robot'.phase = "INITIALIZING"
    BY <1>0, <1>1, ConfiguredForgets, ConfiguredSettles DEF OnConfigure, Settle
  <2>2. robot.phase # "RUNNING"
    BY <1>0, <1>1 DEF OnConfigure, Subscribed
  <2>3. Lock!Restart
    BY <2>1, <2>2, <1>0 DEF Lock!Restart, Robots
  <2>4. QED
    BY <1>1, <2>3 DEF Lock!Next, OnConfigure
<1>2. CASE OnActivate \/ OnDeactivate \/ OnCleanup \/ OnShutdown
  <2>1. Halts(robot, robot') /\ result' = result
    BY <1>0, <1>2, InitializingHalts, DismantledHalts
       DEF OnActivate, OnDeactivate, OnCleanup, OnShutdown, Dismantle, Settle
  <2>2. QED
    BY <2>1, HaltsHalts, Unasked DEF Lock!Itself
<1>3. ASSUME NEW isOnline \in BOOLEAN, OnConsole(isOnline)
      PROVE  [Lock!Next]_(Lock!vars)
  <2>1. /\ robot.phase # "BOOT" /\ robot' = HearConsole(robot, isOnline)
        /\ result' = result
    BY <1>0, <1>3 DEF OnConsole, Settle
  <2>2. CASE isOnline
    <3>1. /\ robot'.estop = robot.estop /\ robot'.online /\ robot'.id = robot.id
          /\ robot'.type = robot.type /\ Listed(robot') = Listed(robot)
          /\ robot'.phase = "RUNNING" <=> robot.phase = "RUNNING"
      BY <1>0, <2>1, <2>2, HearConsoleHears
    <3>2. robot'.online \in BOOLEAN
      BY <1>0, <2>1, HearConsoleSettles DEF Settled, Robots
    <3>3. Lock!Hear
      BY <3>1, <3>2 DEF Lock!Hear, Listed
    <3>4. QED
      BY <2>1, <3>3, Unasked DEF Lock!Itself
  <2>3. CASE ~isOnline
    BY <1>0, <2>1, <2>3, HearConsoleLoses, LosesLoses, Unasked DEF Lock!Itself
  <2>4. QED
    BY <2>2, <2>3
<1>4. CASE Tick
  BY <1>4, TickMaps
<1>5. CASE CmdEstop
  <2>1. /\ robot'.estop /\ robot'.phase = "ESTOP" /\ robot'.online = robot.online
        /\ Listed(robot') = Listed(robot) /\ robot'.estop \in BOOLEAN
    BY <1>0, <1>5, StoppedSettles, StoppedKeeps DEF CmdEstop, Settle, Settled, Robots
  <2>2. Lock!Engage
    BY <2>1 DEF Lock!Engage, Listed
  <2>3. Lock!Command("CMD_ESTOP", "ACCEPTED")
    BY <2>2 DEF Lock!Command
  <2>4. QED
    BY <1>c, <1>5, <2>3, Obeyed DEF CmdEstop
<1>6. ASSUME NEW confirm \in BOOLEAN, CmdReset(confirm)
      PROVE  [Lock!Next]_(Lock!vars)
  <2>1. CASE robot' = robot /\ Reply("CMD_RESET", "REJECTED")
    BY <1>c, <2>1, RefusedStays
  <2>2. CASE /\ ~Blocking(robot) /\ robot' = ResetRobot(robot)
             /\ Reply("CMD_RESET", "ACCEPTED")
    <3>1. /\ robot'.phase = "IDLE" /\ robot'.faults = {} /\ robot'.type = ""
          /\ robot'.online = robot.online /\ Settled(ResetRobot(robot))
      BY <1>0, <2>2, ResetSettles
    <3>2. robot'.estop = FALSE
      BY <2>2, <3>1 DEF Settled, PhaseMatches, Robots
    <3>3. robot.faults \cap ErrorCodes \subseteq {"E_TASK_FAILED"}
      BY <2>2 DEF Blocking, ErrorCodes
    <3>4. Lock!Reset
      BY <3>1, <3>2, <3>3 DEF Lock!Reset
    <3>5. Lock!Command("CMD_RESET", "ACCEPTED")
      BY <3>4 DEF Lock!Command
    <3>6. QED
      BY <1>c, <2>2, <3>5, Obeyed
  <2>3. QED
    BY <1>6, <2>1, <2>2 DEF CmdReset, Refuse, Settle
<1>7. ASSUME NEW m \in Modes \cup {"none"}, CmdMode(m)
      PROVE  [Lock!Next]_(Lock!vars)
  <2>1. CASE robot' = robot /\ Reply("CMD_MODE", "REJECTED")
    BY <1>c, <2>1, RefusedStays
  <2>2. CASE robot' = [robot EXCEPT !.mode = m] /\ Reply("CMD_MODE", "ACCEPTED")
    <3>1. UNCHANGED Lock!state
      BY <1>0, <2>2, AlikeStays DEF Robots, Alike, Keeps, Listed
    <3>2. Lock!Command("CMD_MODE", "ACCEPTED")
      BY <3>1 DEF Lock!Command
    <3>3. QED
      BY <1>c, <2>2, <3>2, Obeyed
  <2>3. QED
    BY <1>7, <2>1, <2>2 DEF CmdMode, Refuse, Settle
<1>8. CASE CmdTask
  BY <1>8, TaskMaps
<1>9. CASE CmdInjectFault
  <2>1. Fails(robot, robot')
    BY <1>0, <1>9, InjectFaultFails DEF CmdInjectFault, OnCmd, Settle
  <2>2. Lock!Command("INJECT_FAULT", "ACCEPTED")
    BY <2>1, FailsFails DEF Lock!Command
  <2>3. QED
    BY <1>c, <1>9, <2>2, Obeyed DEF CmdInjectFault
<1>10. CASE CmdClearFault
  <2>1. /\ Keeps(robot, robot') /\ robot'.faults = {}
        /\ robot'.phase = "RUNNING" <=> robot.phase = "RUNNING"
    BY <1>0, <1>10, ClearedRepairs DEF CmdClearFault, Settle
  <2>2. robot.phase = "RUNNING" => Listed(robot) = {}
    BY <1>0 DEF Listed, Settled, PhaseMatches
  <2>3. Lock!Repair
    BY <2>1, <2>2 DEF Lock!Repair, Keeps, Listed
  <2>4. Lock!Command("CLEAR_FAULT", "ACCEPTED")
    BY <2>3 DEF Lock!Command
  <2>5. QED
    BY <1>c, <1>10, <2>4, Obeyed DEF CmdClearFault
<1>11. CASE CmdOther
  BY <1>c, <1>11, RefusedStays DEF CmdOther, Refuse
<1>12. CASE HeartbeatAges \/ InitElapses \/ UNCHANGED vars
  <2>1. robot' = robot /\ result' = result
    BY <1>12 DEF HeartbeatAges, InitElapses, vars
  <2>2. QED
    BY <1>0, <2>1, AlikeStays, Unasked
<1>13. QED
  BY <1>1, <1>2, <1>3, <1>4, <1>5, <1>6, <1>7, <1>8, <1>9, <1>10, <1>11, <1>12
     DEF Next

\* The node, through all its phases, node states and flags, is an interlock: it
\* sets out only on a task it accepts, without estop and errors and with a
\* console, halts in the step that takes one of these away, never resumes a task an
\* estop or a lost console took, and drops the estop only for an accepted RESET.
THEOREM RobotIsInterlock == Spec => ImplementsInterlock
<1>1. Init => Lock!Init
  <2>1. ASSUME Init
        PROVE  /\ robot.estop = FALSE /\ robot.online = FALSE
               /\ robot.faults \cap ErrorCodes = {} /\ robot.type = ""
               /\ robot.phase # "RUNNING" /\ result = [cmd |-> "none"]
    BY <2>1 DEF Init, NoResult
  <2>2. QED
    BY <2>1 DEF Lock!Init
<1>2. QED
  BY <1>1, InductiveInvariant, InterlockStep, PTL DEF Spec, ImplementsInterlock, Lock!Spec
=============================================================================
