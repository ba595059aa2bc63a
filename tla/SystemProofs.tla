---------------------------- MODULE SystemProofs ----------------------------
(***************************************************************************)
(* Proofs about System, for every set of consoles, tasks and faults and    *)
(* every sequence of commands: the robot is one Bridge allows, it moves    *)
(* only when told, and a console can rely on the answer to its ESTOP.      *)
(***************************************************************************)
EXTENDS System, BridgeProofs

-----------------------------------------------------------------------------
(***************************************************************************)
(* The bridge with this robot is the bridge                                *)
(***************************************************************************)
\* What a command does to the estop flag, and what it is answered with.
LEMMA Verdict ==
  ASSUME NEW cmd \in Kinds, NEW v \in Lock!Verdicts, Does(cmd, v)
  PROVE  \/ cmd = "CMD_ESTOP" /\ v = "ACCEPTED" /\ estop' = TRUE
         \/ cmd = "CMD_RESET" /\ v = "ACCEPTED" /\ estop' = FALSE
         \/ cmd # "CMD_ESTOP" /\ estop' = estop
  BY DEF Does, Kinds, Lock!Verdicts, Lock!Command, Lock!Engage, Lock!Reset,
         Lock!Start, Lock!Resume, Lock!Halt, Lock!Cancel, Lock!Fail, Lock!Repair,
         Lock!state

\* on_cmd of the interlock is what Bridge takes for the robot.
LEMMA TakeExecutes ==
  ASSUME TypeOK, Take
  PROVE  RobotExecutes
<1> DEFINE cmd == Head(cmdTopic)
<1>1. cmdTopic # <<>> /\ cmdTopic' = Tail(cmdTopic) /\ cmd \in Frames
  BY TailSeq DEF TypeOK, Take
<1>2. PICK v \in Lock!Verdicts :
        LET res == Answer(cmd, IF v = "DONE" THEN "ACCEPTED" ELSE v) IN
        /\ Does(cmd.cmd, v)
        /\ executed' = Append(executed, res)
        /\ resultTopic' = Append(resultTopic, res)
  BY DEF Take
<1> DEFINE w == IF v = "DONE" THEN "ACCEPTED" ELSE v
<1>3. cmd.cmd \in Kinds
  BY <1>1 DEF Frames
<1>4. \/ IsEstop(cmd) /\ v = "ACCEPTED" /\ estop' = TRUE
      \/ cmd.cmd = "CMD_RESET" /\ v = "ACCEPTED" /\ estop' = FALSE
      \/ ~IsEstop(cmd) /\ estop' = estop
  BY <1>2, <1>3, Verdict DEF IsEstop
<1>5. v \in {"ACCEPTED", "REJECTED", "DONE"}
  BY DEF Lock!Verdicts
<1>6. <<w, estop'>> \in Outcomes(cmd)
  <2>1. CASE IsEstop(cmd)
    BY <1>4, <2>1 DEF Outcomes, IsEstop
  <2>2. CASE ~IsEstop(cmd) /\ estop' = estop
    BY <1>5, <2>2 DEF Outcomes
  <2>3. CASE cmd.cmd = "CMD_RESET" /\ v = "ACCEPTED" /\ estop' = FALSE
    BY <2>3 DEF Outcomes, IsEstop
  <2>4. QED
    BY <1>4, <2>1, <2>2, <2>3
<1>7. stateTopic' = IF estop' = estop THEN stateTopic ELSE Append(stateTopic, estop')
  BY DEF Take, ShowEstop
<1>8. \E o \in Outcomes(cmd) :
        LET res == Answer(cmd, o[1]) IN
        /\ estop' = o[2]
        /\ executed' = Append(executed, res)
        /\ resultTopic' = Append(resultTopic, res)
        /\ stateTopic' = IF o[2] = estop THEN stateTopic ELSE Append(stateTopic, o[2])
  <2> HIDE DEF cmd, w
  <2> DEFINE o == <<w, estop'>>
  <2>1. o[1] = w /\ o[2] = estop'
    OBVIOUS
  <2>2. /\ executed' = Append(executed, Answer(cmd, w))
        /\ resultTopic' = Append(resultTopic, Answer(cmd, w))
    BY <1>2 DEF w
  <2>3. o \in Outcomes(cmd)
    BY <1>6
  <2> HIDE DEF o
  <2>4. QED
    BY <1>7, <2>1, <2>2, <2>3
<1>9. QED
  BY <1>1, <1>8 DEF RobotExecutes

\* What the robot does unasked leaves its estop flag alone.
LEMMA AloneKeepsEstop ==
  ASSUME Unasked \/ Tool
  PROVE  UNCHANGED <<estop, executed, cmdTopic, resultTopic, stateTopic>>
  BY DEF Unasked, Tool, Does, Lock!Itself, Lock!Halt, Lock!Fail, Lock!Lose,
         Lock!Hear, Lock!Command, Lock!Repair, Lock!state

\* Every step of the system is one of Bridge, or leaves its state alone.
LEMMA SystemStep ==
  ASSUME TypeOK, [SystemNext]_systemVars
  PROVE  [Next]_vars
<1>1. CASE SystemRobot
  <2>1. CASE Take
    BY <1>1, <2>1, TakeExecutes DEF SystemRobot, Robot, Next
  <2>2. CASE Drop
    BY <1>1, <2>2 DEF SystemRobot, Drop, Robot, Next
  <2>3. CASE Unasked \/ Tool
    BY <1>1, <2>3, AloneKeepsEstop
       DEF SystemRobot, vars, stateVars, robotVars
  <2>4. CASE Reconfigure
    <3>1. estop' = FALSE /\ UNCHANGED <<executed, cmdTopic, resultTopic>>
      BY <2>4 DEF Reconfigure, Lock!Restart
    <3>2. CASE estop
      BY <1>1, <2>4, <3>1, <3>2
         DEF SystemRobot, Reconfigure, ShowEstop, RobotRestarts, Robot, Next
    <3>3. CASE ~estop
      BY <1>1, <2>4, <3>1, <3>3
         DEF SystemRobot, Reconfigure, ShowEstop, TypeOK, vars, stateVars, robotVars
    <3>4. QED
      BY <3>2, <3>3
  <2>5. QED
    BY <1>1, <2>1, <2>2, <2>3, <2>4 DEF SystemRobot
<1>2. CASE UNCHANGED systemVars
  BY <1>2 DEF systemVars
<1>3. QED
  BY <1>1, <1>2 DEF SystemNext, Next

\* In the system the bridge meets the robot it is made for: every behaviour of
\* the system is one of Bridge.
THEOREM SystemImplementsBridge == SystemSpec => ImplementsBridge
<1>1. SystemInit => Init
  BY DEF SystemInit
<1>2. Init => TypeOK /\ UrgentMatches
  BY TypeInit
<1>3. TypeOK /\ UrgentMatches /\ [SystemNext]_systemVars =>
        TypeOK' /\ UrgentMatches' /\ [Next]_vars
  BY SystemStep, TypeStep
<1>4. QED
  BY <1>1, <1>2, <1>3, PTL DEF SystemSpec, ImplementsBridge

\* So one console meets the service Bridge gives it.
THEOREM SystemImplementsService ==
  ASSUME Clients = {Console}
  PROVE  SystemSpec => ImplementsService
<1>1. SystemInit => AllInv /\ Service!Init
  <2>1. Init => Service!Init
    BY DEF Init, Service!Init
  <2>2. QED
    BY <2>1, AllInit DEF SystemInit
<1>2. AllInv /\ [SystemNext]_systemVars => AllInv' /\ [Service!Next]_(Service!vars)
  <2>1. AllInv => TypeOK
    BY DEF AllInv
  <2>2. QED
    BY <2>1, SystemStep, AllStep, Refines
<1>3. QED
  BY <1>1, <1>2, PTL DEF SystemSpec, ImplementsService, Service!Spec

-----------------------------------------------------------------------------
(***************************************************************************)
(* Where the commands come from                                            *)
(***************************************************************************)
Request(e) == [cmd |-> e.cmd, seq |-> e.seq]
Asked      == UNION {Items(sent[c]) : c \in Clients}

\* What waits for the robot, or has reached it, a console has sent.
Traceable == \A e \in Waiting \cup InHand \cup Topic \cup Said : Request(e) \in Asked

\* What a console has sent stays sent.
LEMMA AskedStays ==
  ASSUME TypeOK, AllTraced, [Next]_vars
  PROVE  Asked \subseteq Asked'
<1>1. CASE UNCHANGED sent
  BY <1>1 DEF Asked, Items
<1>2. ASSUME NEW c \in Clients, Connection(c)
      PROVE  Asked \subseteq Asked'
  <2>1. \A d \in Clients : \A s \in DOMAIN sent[d] :
          s \in DOMAIN sent'[d] /\ sent'[d][s] = sent[d][s]
    BY <1>2, TracedConnection
  <2>2. QED
    BY <2>1 DEF Asked, Items
<1>3. QED
  BY <1>1, <1>2 DEF Next, Recv, Work, OnCmdResult, OnRobotState, StateAges,
     DeadlinePasses, Robot, vars, consoleVars

\* The frame a receive thread handles was sent on its connection.
LEMMA CurrentAsked ==
  ASSUME TypeOK, AllTraced, NEW c \in Clients, batch[c] # <<>>
  PROVE  Current(c) \in Asked /\ Current(c) \in Frames
<1>1. Current(c) = batch[c][1] /\ 1 \in DOMAIN batch[c] /\ Current(c) \in Frames
  BY TailSeq DEF Current, TypeOK
<1>2. Current(c).seq \in DOMAIN sent[c] /\ sent[c][Current(c).seq] = Current(c)
  BY <1>1 DEF AllTraced, Traced
<1>3. QED
  BY <1>1, <1>2 DEF Asked, Items

\* A receive thread passes on what it has received.
LEMMA TraceableRecv ==
  ASSUME TypeOK, UrgentMatches, AllTraced, Traceable, NEW c \in Clients, Recv(c)
  PROVE  Traceable'
<1>1. /\ InHand' = InHand /\ Said' = Said
      /\ UNCHANGED queue => Waiting' = Waiting
      /\ UNCHANGED cmdTopic => Topic' = Topic
      /\ Asked' = Asked
  BY Same DEF Recv, workerVars, robotVars, Asked
<1>2. CASE Enqueue(c)
  <2> DEFINE job == [client |-> c, cmd |-> Current(c).cmd, seq |-> Current(c).seq]
  <2>1. Current(c) \in Asked /\ Current(c) \in Frames
    BY <1>2, CurrentAsked DEF Enqueue
  <2>2. job \in Jobs /\ Request(job) = Current(c)
    BY <2>1 DEF Jobs, Frames, Request
  <2>3. Waiting' = Waiting \cup {job} /\ Topic' = Topic
    BY <1>1, <1>2, <2>2, ItemsAppend DEF Enqueue, Waiting, TypeOK
  <2>4. QED
    BY <1>1, <2>1, <2>2, <2>3 DEF Traceable
<1>3. CASE PublishEstop(c)
  <2>1. Current(c) \in Asked /\ Current(c) \in Frames
    BY <1>3, CurrentAsked DEF PublishEstop, UrgentMatches
  <2>2. Request(Current(c)) = Current(c)
    BY <2>1 DEF Frames, Request
  <2>3. Topic' = Topic \cup {Current(c)} /\ Waiting' = Waiting
    BY <1>1, <1>3, <2>1, <2>2, ItemsAppend
       DEF PublishEstop, PublishCmd, Request, Topic, TypeOK
  <2>4. QED
    BY <1>1, <2>1, <2>2, <2>3 DEF Traceable
<1>4. CASE UNCHANGED <<queue, cmdTopic>>
  BY <1>1, <1>4 DEF Traceable
<1>5. QED
  BY <1>2, <1>3, <1>4 DEF Recv, Receive, RaiseEstop, StoreEstopSeq, StoreEstopValid

\* The worker passes on what it takes from the queue.
LEMMA TraceableWork ==
  ASSUME TypeOK, Traceable, Work
  PROVE  Traceable'
<1>1. /\ Said' = Said /\ Asked' = Asked
      /\ UNCHANGED queue => Waiting' = Waiting
      /\ UNCHANGED cmdTopic => Topic' = Topic
  BY Same DEF Work, consoleVars, robotVars, Asked
<1>2. CASE TakeJob
  <2>1. Head(queue) \in Waiting /\ Waiting' \subseteq Waiting
    BY <1>2, ItemsTail DEF TakeJob, Waiting, TypeOK
  <2>2. InHand' \subseteq InHand \cup {Head(queue)}
    BY <1>2 DEF TakeJob, AckJob, InHand, Job
  <2>3. QED
    BY <1>1, <1>2, <2>1, <2>2 DEF Traceable, TakeJob
<1>3. CASE ForwardCommand
  <2>1. InHand = {Job} /\ InHand' = {Job} /\ Job \in Jobs
    BY <1>3 DEF ForwardCommand, InHand, Job, TypeOK
  <2>2. Request(Job) \in Frames /\ Request(Request(Job)) = Request(Job)
    BY <2>1 DEF Request, Frames, Jobs
  <2>3. Topic' = Topic \cup {Request(Job)}
    BY <1>3, <2>2, ItemsAppend DEF ForwardCommand, PublishCmd, Request, Topic, TypeOK
  <2>4. QED
    BY <1>1, <1>3, <2>1, <2>2, <2>3 DEF Traceable, ForwardCommand
<1>4. CASE \/ CheckCommand \/ WaitExpired \/ WaitAborted \/ WaitContinues
           \/ LookDone \/ LookAgain
  <2>1. UNCHANGED <<queue, cmdTopic>> /\ InHand' \subseteq InHand
    BY <1>4 DEF CheckCommand, WaitExpired, WaitAborted, WaitContinues, LookDone,
                LookAgain, AckJob, InHand, Job, TypeOK
  <2>2. QED
    BY <1>1, <2>1 DEF Traceable
<1>5. QED
  BY <1>2, <1>3, <1>4 DEF Work

\* The robot answers what it was sent.
LEMMA TraceableRobot ==
  ASSUME TypeOK, Traceable, Robot
  PROVE  Traceable'
<1>1. /\ Waiting' = Waiting /\ InHand' = InHand /\ Asked' = Asked
      /\ UNCHANGED executed => Said' = Said
      /\ UNCHANGED cmdTopic => Topic' = Topic
  BY Same DEF Robot, consoleVars, workerVars, Asked
<1>2. cmdTopic' = Tail(cmdTopic) /\ cmdTopic # <<>> =>
        Head(cmdTopic) \in Topic /\ Topic' \subseteq Topic
  BY ItemsTail DEF Topic, TypeOK
<1>3. CASE RobotExecutes
  <2>1. PICK v \in Verdicts :
          /\ Answer(Head(cmdTopic), v) \in Results
          /\ executed' = Append(executed, Answer(Head(cmdTopic), v))
    BY <1>3, RobotSays
  <2>2. Said' = Said \cup {Answer(Head(cmdTopic), v)}
    <3>1. Said = Items(executed) /\ Said' = Items(executed')
      BY DEF Said, Items
    <3>2. QED
      BY <2>1, <3>1, ItemsAppend DEF TypeOK
  <2>3. Request(Answer(Head(cmdTopic), v)) = Request(Head(cmdTopic))
    BY DEF Request, Answer
  <2>4. QED
    BY <1>1, <1>2, <1>3, <2>2, <2>3 DEF Traceable, RobotExecutes
<1>4. CASE RobotDrops \/ RobotRestarts
  BY <1>1, <1>2, <1>4 DEF Traceable, RobotDrops, RobotRestarts
<1>5. QED
  BY <1>3, <1>4 DEF Robot

\* No step of Bridge invents a command.
LEMMA TraceableStep ==
  ASSUME TypeOK, UrgentMatches, AllTraced, Traceable, [Next]_vars
  PROVE  Traceable'
<1>1. CASE UNCHANGED <<queue, worker, cmdTopic, executed>>
  <2>1. /\ Waiting' = Waiting /\ InHand' = InHand
        /\ Topic' = Topic /\ Said' = Said
    BY <1>1, Same
  <2>2. QED
    BY <2>1, AskedStays DEF Traceable
<1>2. QED
  BY <1>1, TraceableRecv, TraceableWork, TraceableRobot
     DEF Next, Connection, DeadlinePasses, OnCmdResult, OnRobotState, StateAges,
         vars, workerVars, robotVars

-----------------------------------------------------------------------------
(***************************************************************************)
(* The robot and what it has executed                                      *)
(***************************************************************************)
Released(e) == \E r \in e + 1..Len(executed) : Releases(executed[r])

\* An ESTOP nobody released is on, and the robot stands.
Latched == \A e \in SinceRestart : IsEstop(executed[e]) => (estop /\ ~moving) \/ Released(e)

Permitted == moving => \E k \in SinceRestart : Permits(k)

RobotInv ==
  /\ restarted \in 0..Len(executed) /\ moving \in BOOLEAN
  /\ Latched /\ Permitted

\* What the robot does on a command, and what it answers.
LEMMA Taken ==
  ASSUME TypeOK, Take, moving \in BOOLEAN
  PROVE  \E res \in Results :
           /\ executed' = Append(executed, res)
           /\ moving' \in BOOLEAN
           /\ \/ IsEstop(res) /\ estop' = TRUE /\ moving' = FALSE
              \/ Releases(res) /\ moving' = FALSE
              \/ SetsOut(res) /\ ~estop /\ estop' = estop /\ moving' = TRUE
              \/ /\ ~IsEstop(res) /\ estop' = estop
                 /\ moving' \in {moving, FALSE}
<1> DEFINE cmd == Head(cmdTopic)
<1>1. cmd \in Frames
  BY TailSeq DEF TypeOK, Take
<1>2. PICK v \in Lock!Verdicts :
        /\ Does(cmd.cmd, v)
        /\ executed' = Append(executed, Answer(cmd, IF v = "DONE" THEN "ACCEPTED" ELSE v))
  BY DEF Take
<1> DEFINE res == Answer(cmd, IF v = "DONE" THEN "ACCEPTED" ELSE v)
<1>3. cmd.cmd \in Kinds
  BY <1>1 DEF Frames
<1>4. \/ cmd.cmd = "CMD_ESTOP" /\ estop' = TRUE /\ moving' = FALSE
      \/ cmd.cmd = "CMD_RESET" /\ v = "ACCEPTED" /\ moving' = FALSE
      \/ cmd.cmd = "CMD_TASK" /\ v = "ACCEPTED" /\ ~estop /\ estop' = estop /\ moving' = TRUE
      \/ cmd.cmd # "CMD_ESTOP" /\ estop' = estop /\ moving' \in {moving, FALSE}
  <2> USE DEF Lock!Verdicts, Lock!state
  <2>1. CASE cmd.cmd = "CMD_ESTOP"
    BY <1>2, <2>1 DEF Does, Lock!Command, Lock!Engage
  <2>2. CASE cmd.cmd = "CMD_RESET"
    BY <1>2, <2>2 DEF Does, Lock!Command, Lock!Reset
  <2>3. CASE cmd.cmd = "CMD_TASK"
    <3>1. \/ v = "ACCEPTED" /\ (Lock!Start \/ Lock!Resume)
          \/ Lock!Halt \/ Lock!Cancel \/ Lock!Fail
          \/ UNCHANGED Lock!state
      BY <1>2, <2>3 DEF Does, Lock!Command
    <3>2. Lock!Start \/ Lock!Resume => ~estop /\ estop' = estop /\ moving' = TRUE
      BY DEF Lock!Start, Lock!Resume, Lock!Clear
    <3>3. Lock!Halt \/ Lock!Cancel \/ Lock!Fail => estop' = estop /\ moving' = FALSE
      BY DEF Lock!Halt, Lock!Cancel, Lock!Fail
    <3>4. QED
      BY <2>3, <3>1, <3>2, <3>3
  <2>4. QED
    BY <1>3, <2>1, <2>2, <2>3 DEF Kinds
<1>5. res \in Results /\ res.cmd = cmd.cmd /\ (v = "ACCEPTED" => res.status = "ACCEPTED")
  BY <1>1 DEF Answer, Results, Frames, Verdicts, Lock!Verdicts
<1>6. \/ IsEstop(res) /\ estop' = TRUE /\ moving' = FALSE
      \/ Releases(res) /\ moving' = FALSE
      \/ SetsOut(res) /\ ~estop /\ estop' = estop /\ moving' = TRUE
      \/ ~IsEstop(res) /\ estop' = estop /\ moving' \in {moving, FALSE}
  <2> HIDE DEF res, cmd
  <2>1. QED
    BY <1>4, <1>5 DEF IsEstop, Releases, SetsOut
<1>7. moving' \in BOOLEAN
  <2>1. moving' \in {TRUE, FALSE, moving}
    BY <1>6, Zenon
  <2>2. QED
    BY <2>1
<1>8. QED
  BY <1>2, <1>5, <1>6, <1>7

\* A command executed: an ESTOP is latched, a RESET releases what came before,
\* a task is accepted only when every ESTOP was released.
LEMMA RobotTake ==
  ASSUME TypeOK, RobotInv, Take
  PROVE  RobotInv'
<1>1. moving \in BOOLEAN /\ Latched /\ Permitted /\ restarted' = restarted
  BY DEF RobotInv, Take
<1>2. PICK res \in Results :
        /\ executed' = Append(executed, res)
        /\ moving' \in BOOLEAN
        /\ \/ IsEstop(res) /\ estop' = TRUE /\ moving' = FALSE
           \/ Releases(res) /\ moving' = FALSE
           \/ SetsOut(res) /\ ~estop /\ estop' = estop /\ moving' = TRUE
           \/ ~IsEstop(res) /\ estop' = estop /\ moving' \in {moving, FALSE}
  BY <1>1, Taken
<1>3. PICK N \in Nat : N = Len(executed)
  BY LenProperties DEF TypeOK
<1>4. /\ Len(executed) = N /\ Len(executed') = N + 1
      /\ executed'[N + 1] = res
      /\ \A i \in 1..N : executed'[i] = executed[i]
  BY <1>2, <1>3, AppendSeq, LenProperties DEF TypeOK
<1>5. restarted \in 0..N /\ restarted' \in 0..Len(executed')
  BY <1>1, <1>4 DEF RobotInv
<1>6. /\ SinceRestart \subseteq 1..N /\ SinceRestart \subseteq SinceRestart'
      /\ N + 1 \in SinceRestart'
      /\ \A e \in SinceRestart' : e = N + 1 \/ e \in SinceRestart
  BY <1>1, <1>4, <1>5 DEF SinceRestart
<1>7. \A e \in SinceRestart :
        /\ Released(e) => Released(e)'
        /\ Releases(res) => Released(e)'
  <2> SUFFICES ASSUME NEW e \in SinceRestart
               PROVE  (Released(e) => Released(e)') /\ (Releases(res) => Released(e)')
    OBVIOUS
  <2>1. e \in 1..N
    BY <1>6
  <2>2. ASSUME NEW r \in e + 1..N
        PROVE  r \in 1..N /\ r \in e + 1..Len(executed')
    BY <1>4, <2>1, <2>2
  <2>3. N + 1 \in e + 1..Len(executed')
    BY <1>4, <2>1
  <2>4. Released(e) => Released(e)'
    BY <1>4, <2>2 DEF Released, Releases
  <2>5. Releases(res) => Released(e)'
    BY <1>4, <2>3 DEF Released, Releases
  <2>6. QED
    BY <2>4, <2>5
<1>8. Latched'
  <2> SUFFICES ASSUME NEW e \in SinceRestart', IsEstop(executed'[e])
               PROVE  (estop' /\ ~moving') \/ Released(e)'
    BY DEF Latched
  <2>1. CASE e = N + 1
    BY <1>2, <1>4, <2>1 DEF IsEstop, Releases, SetsOut
  <2>2. CASE e \in SinceRestart
    <3>1. (estop /\ ~moving) \/ Released(e)
      BY <1>1, <1>4, <1>6, <2>2 DEF Latched
    <3>2. CASE Released(e) \/ Releases(res)
      BY <1>7, <2>2, <3>2
    <3>3. CASE estop /\ ~moving /\ ~Releases(res)
      <4>1. estop' /\ moving' = FALSE
        BY <1>1, <1>2, <3>3
      <4>2. QED
        BY <4>1
    <3>4. QED
      BY <3>1, <3>2, <3>3
  <2>3. QED
    BY <1>6, <2>1, <2>2
<1>9. Permitted'
  <2> SUFFICES ASSUME moving' PROVE \E k \in SinceRestart' : Permits(k)'
    BY DEF Permitted
  <2>1. CASE SetsOut(res) /\ ~estop
    <3>1. SetsOut(executed'[N + 1])
      BY <1>4, <2>1
    <3>2. ASSUME NEW e \in SinceRestart', IsEstop(executed'[e])
          PROVE  \E r \in e + 1..(N + 1) - 1 : Releases(executed'[r])
      <4>1. e \in SinceRestart /\ e \in 1..N
        BY <1>4, <1>6, <2>1, <3>2 DEF SetsOut, IsEstop
      <4>2. Released(e)
        BY <1>1, <1>4, <2>1, <3>2, <4>1 DEF Latched
      <4>3. PICK r \in e + 1..N : Releases(executed[r])
        BY <1>3, <4>2 DEF Released
      <4>4. r \in e + 1..(N + 1) - 1 /\ r \in 1..N
        BY <1>4, <4>1
      <4>5. QED
        BY <1>4, <4>3, <4>4
    <3>3. Permits(N + 1)'
      BY <3>1, <3>2 DEF Permits
    <3>4. QED
      BY <1>6, <3>3
  <2>2. CASE moving /\ ~IsEstop(res)
    <3>1. PICK k \in SinceRestart : Permits(k)
      BY <1>1, <2>2 DEF Permitted
    <3>2. k \in 1..N /\ SetsOut(executed'[k])
      BY <1>4, <1>6, <3>1 DEF Permits
    <3>3. ASSUME NEW e \in SinceRestart', IsEstop(executed'[e])
          PROVE  \E r \in e + 1..k - 1 : Releases(executed'[r])
      <4>1. e \in SinceRestart /\ e \in 1..N
        BY <1>4, <1>6, <2>2, <3>3
      <4>2. PICK r \in e + 1..k - 1 : Releases(executed[r])
        BY <1>4, <3>1, <3>3, <4>1 DEF Permits
      <4>3. r \in 1..N
        BY <3>2, <4>1, <1>4
      <4>4. QED
        BY <1>4, <4>2, <4>3
    <3>4. Permits(k)'
      BY <3>2, <3>3 DEF Permits
    <3>5. QED
      BY <1>6, <3>4
  <2>3. QED
    BY <1>2, <2>1, <2>2
<1>10. QED
  BY <1>2, <1>5, <1>8, <1>9 DEF RobotInv

\* What the robot does unasked, or for the tools, does not make it move; a robot
\* configured anew has executed nothing.
LEMMA RobotAlone ==
  ASSUME TypeOK, RobotInv, Unasked \/ Tool \/ Reconfigure
  PROVE  RobotInv'
<1>1. Len(executed) \in Nat /\ executed' = executed
  BY AloneKeepsEstop, LenProperties DEF Reconfigure, TypeOK
<1>2. /\ restarted \in 0..Len(executed) /\ moving \in BOOLEAN
      /\ Latched /\ Permitted
  BY DEF RobotInv
<1>3. CASE Unasked \/ Tool
  <2>1. estop' = estop /\ restarted' = restarted
    BY <1>3, AloneKeepsEstop DEF Unasked, Tool
  <2>2. moving' \in {moving, FALSE}
    BY <1>2, <1>3
       DEF Unasked, Tool, Does, Lock!Itself, Lock!Halt, Lock!Fail, Lock!Lose,
           Lock!Hear, Lock!Command, Lock!Repair, Lock!state
  <2>3. /\ SinceRestart' = SinceRestart
        /\ \A e : Released(e)' <=> Released(e)
        /\ \A k : Permits(k)' <=> Permits(k)
    BY <1>1, <2>1 DEF SinceRestart, Released, Permits
  <2>4. moving' => moving
    BY <1>2, <2>2
  <2>5. moving' \in BOOLEAN /\ (~moving => ~moving')
    <3>1. CASE moving' = moving
      BY <1>2, <3>1, Zenon
    <3>2. CASE moving' = FALSE
      BY <3>2
    <3>3. QED
      BY <2>2, <3>1, <3>2
  <2>6. Latched'
    BY <1>1, <1>2, <2>1, <2>3, <2>5, Zenon DEF Latched
  <2>7. Permitted'
    BY <1>2, <2>3, <2>4, Zenon DEF Permitted
  <2>8. QED
    BY <1>1, <1>2, <2>1, <2>5, <2>6, <2>7 DEF RobotInv
<1>4. CASE Reconfigure
  <2>1. restarted' = Len(executed) /\ moving' = FALSE
    BY <1>4 DEF Reconfigure, Lock!Restart
  <2>2. SinceRestart' = {} /\ restarted' \in 0..Len(executed)
    BY <1>1, <2>1 DEF SinceRestart
  <2>3. QED
    BY <1>1, <2>1, <2>2 DEF RobotInv, Latched, Permitted
<1>5. QED
  BY <1>3, <1>4

\* Every step keeps what is known of the robot; the bridge does not touch it.
LEMMA RobotStep ==
  ASSUME TypeOK, RobotInv, [SystemNext]_systemVars
  PROVE  RobotInv'
<1>1. CASE UNCHANGED <<executed, estop, moving, restarted>>
  BY <1>1 DEF RobotInv, Latched, Permitted, Permits, SinceRestart, Released
<1>2. CASE SystemRobot
  BY <1>1, <1>2, RobotTake, RobotAlone DEF SystemRobot, Drop, RobotDrops, own
<1>3. CASE /\ UNCHANGED own
           /\ \/ \E c \in Clients : Connection(c) \/ Recv(c)
              \/ Work \/ DeadlinePasses \/ OnCmdResult \/ OnRobotState \/ StateAges
  <2>1. UNCHANGED robotVars
    <3>1. ASSUME NEW c \in Clients, Connection(c) \/ Recv(c)
          PROVE  UNCHANGED robotVars
      BY <3>1 DEF Connection, Recv
    <3>2. Work \/ OnCmdResult => UNCHANGED robotVars
      BY DEF Work, OnCmdResult
    <3>3. DeadlinePasses \/ OnRobotState \/ StateAges => UNCHANGED robotVars
      BY DEF DeadlinePasses, OnRobotState, StateAges
    <3>4. QED
      BY <1>3, <3>1, <3>2, <3>3
  <2>2. QED
    BY <1>1, <1>3, <2>1 DEF own, robotVars
<1>4. QED
  BY <1>1, <1>2, <1>3 DEF SystemNext, systemVars, vars, own, robotVars

-----------------------------------------------------------------------------
(***************************************************************************)
(* Theorems                                                                *)
(***************************************************************************)
SystemInv == TypeOK /\ UrgentMatches /\ AllTraced /\ PendingOwned /\ Heard
             /\ Traceable /\ RobotInv

\* Nothing is sent, executed or answered at the start.
LEMMA SystemStarts == SystemInit => SystemInv
<1> SUFFICES ASSUME SystemInit PROVE SystemInv
  OBVIOUS
<1>1. DOMAIN <<>> = {} /\ Len(<<>>) = 0 /\ Items(<<>>) = {}
  BY DEF Items
<1>2. Init /\ restarted = 0 /\ moving = FALSE
  BY DEF SystemInit, Lock!Init
<1>3. TypeOK /\ UrgentMatches /\ AllTraced /\ PendingOwned
  BY <1>2, PendingInit DEF PInv
<1>4. Heard
  BY <1>1, <1>2 DEF Init, Heard, AckIsTruthful
<1>5. Traceable
  BY <1>1, <1>2 DEF Init, Traceable, Waiting, InHand, Topic, Said
<1>6. RobotInv
  <2>1. SinceRestart = {} /\ restarted \in 0..Len(executed)
    BY <1>1, <1>2 DEF Init, SinceRestart
  <2>2. QED
    BY <1>2, <2>1 DEF RobotInv, Latched, Permitted
<1>7. QED
  BY <1>3, <1>4, <1>5, <1>6 DEF SystemInv

\* The invariant of the bridge, where its commands come from, and the robot.
LEMMA SystemKeeps == SystemInv /\ [SystemNext]_systemVars => SystemInv'
<1> SUFFICES ASSUME SystemInv, [SystemNext]_systemVars PROVE SystemInv'
  OBVIOUS
<1>1. /\ TypeOK /\ UrgentMatches /\ AllTraced /\ PendingOwned /\ Heard
      /\ Traceable /\ RobotInv
  BY DEF SystemInv
<1>2. [Next]_vars
  BY <1>1, SystemStep
<1>3. TypeOK' /\ UrgentMatches' /\ AllTraced' /\ PendingOwned'
  BY <1>1, <1>2, PendingStep DEF PInv
<1>4. Heard' /\ Traceable'
  BY <1>1, <1>2, HeardStep, TraceableStep
<1>5. RobotInv'
  BY <1>1, RobotStep
<1>6. QED
  BY <1>3, <1>4, <1>5 DEF SystemInv

\* A robot that moves was told to by a task some console sent, and no ESTOP has
\* been executed since, nor one before that a RESET did not release.
THEOREM RobotMovesOnlyWhenTold == SystemSpec => []MovesOnlyWhenTold
<1>1. SystemInv => MovesOnlyWhenTold
  <2> SUFFICES ASSUME TypeOK, Traceable, RobotInv, moving
               PROVE  \E k \in SinceRestart :
                        /\ Permits(k)
                        /\ \E c \in Clients : \E n \in DOMAIN sent[c] :
                             sent[c][n] = [cmd |-> "CMD_TASK", seq |-> executed[k].seq]
    BY DEF SystemInv, MovesOnlyWhenTold
  <2>1. PICK k \in SinceRestart : Permits(k)
    BY DEF RobotInv, Permitted
  <2>2. executed[k] \in Said /\ executed[k].cmd = "CMD_TASK"
    <3>1. Len(executed) \in Nat /\ DOMAIN executed = 1..Len(executed)
      BY LenProperties DEF TypeOK
    <3>2. QED
      BY <2>1, <3>1 DEF SinceRestart, RobotInv, Said, Permits, SetsOut
  <2>3. [cmd |-> "CMD_TASK", seq |-> executed[k].seq] \in Asked
    BY <2>2 DEF Traceable, Request
  <2>4. \E c \in Clients : \E n \in DOMAIN sent[c] :
          sent[c][n] = [cmd |-> "CMD_TASK", seq |-> executed[k].seq]
    BY <2>3 DEF Asked, Items
  <2>5. QED
    BY <2>1, <2>4
<1>2. QED
  BY <1>1, SystemStarts, SystemKeeps, PTL DEF SystemSpec

\* An ESTOP a console knows to be accepted was executed and holds the robot,
\* until a RESET taken after it or a restart of the node.
THEOREM AcceptedStopIsHonoured == SystemSpec => []StopIsHonoured
<1>1. SystemInv => StopIsHonoured
  <2> SUFFICES ASSUME TypeOK, Heard, RobotInv,
                      NEW c \in Clients, NEW i \in DOMAIN acks[c],
                      IsEstop(acks[c][i]), acks[c][i].status = "ACCEPTED"
               PROVE  \E k \in DOMAIN executed :
                        /\ executed[k] = acks[c][i]
                        /\ \/ k <= restarted
                           \/ \E r \in k + 1..Len(executed) : Releases(executed[r])
                           \/ estop /\ ~moving
    BY DEF SystemInv, StopIsHonoured
  <2>1. PICK k \in DOMAIN executed : executed[k] = acks[c][i]
    BY DEF Heard, AckIsTruthful, Verdicts
  <2>2. DOMAIN executed = 1..Len(executed) /\ Len(executed) \in Nat
    BY LenProperties DEF TypeOK
  <2>3. k <= restarted \/ k \in SinceRestart
    BY <2>2 DEF SinceRestart, RobotInv
  <2>4. k \in SinceRestart => (estop /\ ~moving) \/ Released(k)
    BY <2>1 DEF RobotInv, Latched
  <2>5. QED
    BY <2>1, <2>3, <2>4 DEF Released
<1>2. QED
  BY <1>1, SystemStarts, SystemKeeps, PTL DEF SystemSpec
=============================================================================
