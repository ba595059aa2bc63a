----------------------------- MODULE PagesProofs -----------------------------
(***************************************************************************)
(* What the pages offer follows from what holds of the robot: proofs about *)
(* ConsolePages for every number of tasks and every set of modes.          *)
(***************************************************************************)
EXTENDS ConsolePages, FakeRobotProofs, FiniteSetTheorems

\* The pages of a console show the robot as it is while the node is active.
LEMMA Shown ==
  ASSUME NEW r \in Robots
  PROVE  LET v == View(r) IN
         /\ v.phase = r.phase /\ v.estop = r.estop /\ v.ctl = r.ctl
         /\ v.conn = Conn(r) /\ v.mode = r.mode /\ v.faults = r.faults
  BY DEF View

\* A settled robot that has its console shows a state, but for a fault.
LEMMA StateShown ==
  ASSUME NEW r, Settled(r), r.phase \notin {"BOOT", "FAULT"}, r.online
  PROVE  HasRobotState(View(r))
<1>1. r \in Robots
  BY DEF Settled
<1>2. Conn(r) # "OFFLINE"
  BY DEF Conn
<1>3. QED
  BY <1>1, <1>2, Shown DEF HasRobotState

\* A goto is offered exactly to a robot that would admit it, AUTO to the same ones
\* (on_cmd admits it while RUNNING too), and pause exactly to one that moves
\* (canDrive and recompute_phase_and_control together).
THEOREM OffersMatchRobot == Spec => []OfferedWhenReady
<1>1. ASSUME IInv, lifecycle = "active"
      PROVE  LET ready == robot.phase = "IDLE" /\ ~Blocked(robot) /\ robot.faults = {} IN
             /\ GotoOffered(published) <=> ready
             /\ ModeOffered(published, "AUTO") <=> ready
             /\ PauseOffered(published) <=> robot.phase = "RUNNING"
  <2>1. /\ Settled(robot) /\ robot \in Robots /\ robot.phase # "BOOT"
        /\ published = View(robot)
    BY <1>1 DEF IInv, Settled, Subscribed, PublishedIsCurrent
  <2>2. CanDrive(published) <=>
          robot.phase = "IDLE" /\ ~Blocked(robot) /\ robot.faults = {}
    <3>1. ASSUME CanDrive(published)
          PROVE  robot.phase = "IDLE" /\ ~Blocked(robot) /\ robot.faults = {}
      <4>1. robot.ctl /\ ~robot.estop
        BY <2>1, <3>1, Shown DEF CanDrive
      <4>2. QED
        BY <2>1, <4>1 DEF Settled, PhaseMatches, Blocked
    <3>2. ASSUME robot.phase = "IDLE", ~Blocked(robot), robot.faults = {}
          PROVE  CanDrive(published)
      <4>1. robot.online /\ ~robot.estop /\ robot.ctl
        BY <2>1, <3>2 DEF Settled, PhaseMatches, Blocked
      <4>2. HasRobotState(published)
        BY <2>1, <3>2, <4>1, StateShown
      <4>3. QED
        BY <2>1, <4>1, <4>2, Shown DEF CanDrive
    <3>3. QED
      BY <3>1, <3>2
  <2>3. published.phase = robot.phase
    BY <2>1, Shown
  <2>4. QED
    BY <2>2, <2>3 DEF GotoOffered, ModeOffered, PauseOffered
<1>2. /\ ~GotoOffered(Template) /\ ~PauseOffered(Template)
      /\ ~ResetOffered(Template) /\ ~ResumeOffered(Template)
  BY DEF Template, GotoOffered, CanDrive, PauseOffered, ResetOffered,
         ResumeOffered, HasRobotState
<1>3. IInv => OfferedWhenReady
  BY <1>1, <1>2, Zenon DEF OfferedWhenReady
<1>4. QED
  BY <1>3, InductiveInvariant, PTL

\* One click leads out of ESTOP and DEGRADED, unless a node timed out: Reset is
\* offered, is accepted and a goto can follow (ControlPage.qml:301, CMD_RESET).
THEOREM RecoveryIsOffered == Spec => []RecoveryOffered
<1>1. ASSUME IInv, lifecycle = "active", robot.online,
             robot.phase \in {"ESTOP", "DEGRADED"}
      PROVE  ResetOffered(published) /\ CanDrive(View(ResetRobot(robot)))
  <2>1. /\ Settled(robot) /\ robot \in Robots /\ robot.phase # "BOOT"
        /\ published = View(robot)
    BY <1>1 DEF IInv, Settled, Subscribed, PublishedIsCurrent
  <2>2. ResetOffered(published)
    <3>1. HasRobotState(published)
      BY <1>1, <2>1, StateShown
    <3>2. robot.phase = "ESTOP" => robot.estop
      BY <2>1 DEF Settled, PhaseMatches
    <3>3. QED
      BY <1>1, <2>1, <3>1, <3>2, Shown DEF ResetOffered
  <2>3. CanDrive(View(ResetRobot(robot)))
    <3> DEFINE s == ResetRobot(robot)
    <3>1. Settled(s) /\ s \in Robots /\ s.phase = "IDLE" /\ s.online
      BY <1>1, <2>1, ResetSettles DEF Settled
    <3> HIDE DEF s
    <3>2. s.ctl /\ ~s.estop
      BY <3>1 DEF Settled, PhaseMatches
    <3>3. HasRobotState(View(s))
      BY <3>1, StateShown
    <3>4. QED
      BY <3>1, <3>2, <3>3, Shown DEF CanDrive, s
  <2>4. QED
    BY <2>2, <2>3
<1>2. IInv => RecoveryOffered
  BY <1>1 DEF RecoveryOffered
<1>3. QED
  BY <1>2, InductiveInvariant, PTL

-----------------------------------------------------------------------------
(* The fault table *)

Sorted(rows) == \A i, j \in DOMAIN rows : i < j => Above(rows[i], rows[j])

\* What the table shows of a set of codes.
Table(codes) == CHOOSE rows \in SetToSeqs(codes) : Sorted(rows)

Sortable(codes) ==
  IsFiniteSet(codes) /\ \E rows \in SetToSeqs(codes) : Sorted(rows)

\* A code that belongs below all others goes to the end.
LEMMA SortedBelow ==
  ASSUME NEW codes, Sortable(codes), NEW c, c \notin codes,
         \A d \in codes : Above(d, c)
  PROVE  Sortable(codes \cup {c})
<1> DEFINE n == Cardinality(codes)
<1>1. n \in Nat /\ IsFiniteSet(codes)
  BY FS_CardinalityType DEF Sortable
<1>2. IsFiniteSet(codes \cup {c}) /\ Cardinality(codes \cup {c}) = n + 1
  BY <1>1, FS_AddElement
<1>3. PICK rows \in SetToSeqs(codes) : Sorted(rows)
  BY DEF Sortable
<1>4. rows \in [1..n -> codes] /\ \A i, j \in 1..n : i # j => rows[i] # rows[j]
  BY <1>3 DEF SetToSeqs
<1> DEFINE all == [i \in 1..n + 1 |-> IF i = n + 1 THEN c ELSE rows[i]]
<1> HIDE DEF n
<1>5. \A i \in 1..n + 1 : i = n + 1 \/ i \in 1..n
  BY <1>1
<1>6. all \in [1..n + 1 -> codes \cup {c}]
  BY <1>4, <1>5
<1>7. \A i, j \in 1..n + 1 : i # j => all[i] # all[j]
  BY <1>4, <1>5
<1>8. all \in SetToSeqs(codes \cup {c})
  BY <1>2, <1>6, <1>7 DEF SetToSeqs
<1>9. Sorted(all)
  <2> SUFFICES ASSUME NEW i \in 1..n + 1, NEW j \in 1..n + 1, i < j
               PROVE  Above(all[i], all[j])
    BY DEF Sorted
  <2>1. i \in 1..n
    BY <1>1
  <2>2. CASE j = n + 1
    BY <1>4, <2>1, <2>2
  <2>3. CASE j \in 1..n
    BY <1>1, <1>3, <1>4, <2>1, <2>3 DEF Sorted
  <2> QED BY <1>5, <2>2, <2>3
<1> QED BY <1>2, <1>8, <1>9 DEF Sortable

LEMMA Order ==
  /\ Above("E_NODE_TIMEOUT", "E_TASK_FAILED")
  /\ Above("E_NODE_TIMEOUT", "E_ESTOP_ACTIVE")
  /\ Above("E_NODE_TIMEOUT", "W_BATTERY_LOW")
  /\ Above("E_TASK_FAILED", "E_ESTOP_ACTIVE")
  /\ Above("E_TASK_FAILED", "W_BATTERY_LOW")
  /\ Above("E_ESTOP_ACTIVE", "W_BATTERY_LOW")
<1>1. /\ Level("E_NODE_TIMEOUT") = "ERROR" /\ Level("E_TASK_FAILED") = "ERROR"
      /\ Level("E_ESTOP_ACTIVE") = "WARN" /\ Level("W_BATTERY_LOW") = "WARN"
  BY DEF Level, ErrorCodes
<1>2. /\ 1 \in DOMAIN CodeOrder /\ 2 \in DOMAIN CodeOrder /\ 3 \in DOMAIN CodeOrder
      /\ 4 \in DOMAIN CodeOrder
      /\ CodeOrder[1] = "E_ESTOP_ACTIVE" /\ CodeOrder[2] = "E_NODE_TIMEOUT"
      /\ CodeOrder[3] = "E_TASK_FAILED" /\ CodeOrder[4] = "W_BATTERY_LOW"
  BY DEF CodeOrder
<1>3. /\ Alphabetical("E_NODE_TIMEOUT", "E_TASK_FAILED")
      /\ Alphabetical("E_ESTOP_ACTIVE", "W_BATTERY_LOW")
  BY <1>2 DEF Alphabetical
<1> QED BY <1>1, <1>3 DEF Above

LEMMA FaultsSortable ==
  ASSUME NEW codes \in SUBSET (WarnCodes \cup ErrorCodes)
  PROVE  Sortable(codes)
<1> DEFINE one   == codes \cap {"E_NODE_TIMEOUT"}
           two   == codes \cap {"E_NODE_TIMEOUT", "E_TASK_FAILED"}
           three == codes \cap {"E_NODE_TIMEOUT", "E_TASK_FAILED", "E_ESTOP_ACTIVE"}
<1>1. Sortable({})
  <2> DEFINE empty == [i \in 1..0 |-> i]
  <2>1. empty \in [1..0 -> {}] /\ 1..0 = {}
    OBVIOUS
  <2>2. empty \in SetToSeqs({})
    BY <2>1, FS_EmptySet DEF SetToSeqs
  <2>3. Sorted(empty)
    BY <2>1 DEF Sorted
  <2> QED BY <2>2, <2>3, FS_EmptySet DEF Sortable
<1>2. Sortable(one)
  <2>1. one = {} \/ one = {} \cup {"E_NODE_TIMEOUT"}
    OBVIOUS
  <2> HIDE DEF one
  <2> QED BY <1>1, <2>1, SortedBelow
<1>3. Sortable(two)
  <2>1. two = one \/ two = one \cup {"E_TASK_FAILED"}
    OBVIOUS
  <2>2. \A d \in one : d = "E_NODE_TIMEOUT"
    OBVIOUS
  <2> HIDE DEF one, two
  <2> QED BY <1>2, <2>1, <2>2, Order, SortedBelow
<1>4. Sortable(three)
  <2>1. three = two \/ three = two \cup {"E_ESTOP_ACTIVE"}
    OBVIOUS
  <2>2. \A d \in two : d = "E_NODE_TIMEOUT" \/ d = "E_TASK_FAILED"
    OBVIOUS
  <2> HIDE DEF two, three
  <2> QED BY <1>3, <2>1, <2>2, Order, SortedBelow
<1>5. codes = three \/ codes = three \cup {"W_BATTERY_LOW"}
  BY DEF WarnCodes, ErrorCodes
<1>6. \A d \in three : d = "E_NODE_TIMEOUT" \/ d = "E_TASK_FAILED" \/ d = "E_ESTOP_ACTIVE"
  OBVIOUS
<1> HIDE DEF three
<1> QED BY <1>4, <1>5, <1>6, Order, SortedBelow

\* The table shows each of the codes, those of ERROR first.
LEMMA TableShows ==
  ASSUME NEW codes \in SUBSET (WarnCodes \cup ErrorCodes)
  PROVE  /\ ToSet(Table(codes)) = codes
         /\ codes # {} => Table(codes) # <<>>
         /\ codes \cap ErrorCodes # {} => Level(Table(codes)[1]) = "ERROR"
<1> DEFINE n == Cardinality(codes)  rows == Table(codes)
<1>1. IsFiniteSet(codes) /\ n \in Nat
  BY FaultsSortable, FS_CardinalityType DEF Sortable
<1>2. rows \in SetToSeqs(codes) /\ Sorted(rows)
  BY FaultsSortable DEF Sortable, Table
<1>3. rows \in [1..n -> codes] /\ \A i, j \in 1..n : i # j => rows[i] # rows[j]
  BY <1>2 DEF SetToSeqs
<1> HIDE DEF n, rows
<1>4. \A c \in codes : \E i \in 1..n : rows[i] = c
  <2>1. rows \in Injection(1..n, codes)
    BY <1>3 DEF Injection, IsInjective
  <2>2. IsFiniteSet(1..n) /\ Cardinality(1..n) = n
    BY <1>1, FS_Interval
  <2>3. rows \in Surjection(1..n, codes)
    BY <1>1, <2>1, <2>2, FS_Injection DEF n
  <2> QED BY <2>3 DEF Surjection
<1>5. ToSet(rows) = codes
  BY <1>3, <1>4 DEF ToSet
<1>6. codes # {} => rows # <<>>
  <2>1. codes # {} => 1..n # {}
    BY <1>4
  <2>2. DOMAIN rows = 1..n /\ DOMAIN <<>> = {}
    BY <1>3
  <2> QED BY ONLY <2>1, <2>2
<1>7. ASSUME NEW e \in codes \cap ErrorCodes PROVE Level(rows[1]) = "ERROR"
  <2>1. PICK i \in 1..n : rows[i] = e
    BY <1>4
  <2>2. 1 \in 1..n /\ 1 \in DOMAIN rows /\ i \in DOMAIN rows /\ (i = 1 \/ 1 < i)
    BY <1>1, <1>3
  <2>3. i = 1 \/ Above(rows[1], e)
    BY <1>2, <2>1, <2>2 DEF Sorted
  <2>4. Level(e) = "ERROR"
    BY DEF Level
  <2> QED BY <2>1, <2>3, <2>4 DEF Above
<1> QED BY <1>5, <1>6, <1>7 DEF rows

\* The fault table names the reason of a FAULT and of DEGRADED, has an ERROR in its
\* first row whenever there is one, and its filters split the faults of the robot
\* (setFaults, rebuildVisible).
THEOREM CauseIsShown == Spec => []CauseShownFirst
<1>1. ASSUME IInv, lifecycle = "active"
      PROVE  LET rows == Rows(published, "") IN
             /\ robot.phase \in {"FAULT", "DEGRADED"} => rows # <<>>
             /\ robot.faults \cap ErrorCodes # {} => Level(rows[1]) = "ERROR"
             /\ \A level \in {"ERROR", "WARN"} :
                  ToSet(Rows(published, level)) = {c \in robot.faults : Level(c) = level}
  <2>1. Settled(robot) /\ robot \in Robots /\ published = View(robot) /\ Subscribed
    BY <1>1 DEF IInv, Settled, Subscribed, PublishedIsCurrent
  <2>2. /\ robot.faults \in SUBSET (WarnCodes \cup ErrorCodes)
        /\ published.faults = robot.faults
    BY <2>1, Shown DEF Robots
  <2>3. ASSUME NEW filter
        PROVE  Rows(published, filter)
                 = Table({c \in robot.faults : filter = "" \/ Level(c) = filter})
    BY <2>2 DEF Rows, Table, Sorted
  <2>4. Rows(published, "") = Table(robot.faults)
    <3>1. {c \in robot.faults : "" = "" \/ Level(c) = ""} = robot.faults
      OBVIOUS
    <3> QED BY <2>3, <3>1
  <2>5. robot.phase \in {"FAULT", "DEGRADED"} => robot.faults # {}
    BY <2>1 DEF Settled, PhaseMatches
  <2>6. ASSUME NEW level \in {"ERROR", "WARN"}
        PROVE  ToSet(Rows(published, level)) = {c \in robot.faults : Level(c) = level}
    <3> DEFINE codes == {c \in robot.faults : Level(c) = level}
    <3>1. codes = {c \in robot.faults : level = "" \/ Level(c) = level}
      OBVIOUS
    <3>2. codes \in SUBSET (WarnCodes \cup ErrorCodes)
      BY <2>2
    <3>3. Rows(published, level) = Table(codes)
      BY <2>3, <3>1
    <3> HIDE DEF codes
    <3>4. ToSet(Table(codes)) = codes
      BY <3>2, TableShows
    <3> QED BY <3>3, <3>4 DEF codes
  <2> QED BY <2>2, <2>4, <2>5, <2>6, TableShows
<1>2. IInv => CauseShownFirst
  BY <1>1 DEF CauseShownFirst
<1>3. QED
  BY <1>2, InductiveInvariant, PTL
=============================================================================
