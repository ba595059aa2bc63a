------------------------------- MODULE System -------------------------------
(***************************************************************************)
(* Consoles, bridge and robot together: the bridge of Bridge with, in the  *)
(* place of the robot that module leaves open, the interlock FakeRobot     *)
(* implements.  The robot takes the commands from the bridge's topic one   *)
(* by one, halts of itself, is given faults by the command line tools and  *)
(* is configured anew; every handler of it is one step.  Here CMD_TASK and *)
(* CMD_RESET are just themselves: what else they stand for in Bridge moves *)
(* nothing.                                                                *)
(***************************************************************************)
EXTENDS Bridge

CONSTANTS
  Tasks,    \* what the robot may be sent on
  Nothing,  \* no task
  Errors,   \* the errors that halt it
  Curable,  \* those a RESET may clear
  Scripts   \* bound: the sequences of commands a console may send

VARIABLES
  heard,     \* a console is heard
  errors,    \* the errors listed
  moving,    \* the robot is RUNNING
  task,      \* what it may set out on again without being sent anew
  restarted  \* history: how much was executed when it was last configured

own == <<heard, errors, moving, task, restarted>>

LastAnswer ==
  IF executed = <<>> THEN [cmd |-> "none"]
  ELSE [cmd |-> executed[Len(executed)].cmd, status |-> executed[Len(executed)].status]

Lock == INSTANCE Interlock WITH answer <- LastAnswer

SystemInit == Init /\ Lock!Init /\ restarted = 0

-----------------------------------------------------------------------------
\* Faulty variant: an ESTOP only sets the flag, without apply_safety_stop.
DoesNotStop(cmd, v) ==
  IF cmd = "CMD_ESTOP"
    THEN v = "ACCEPTED" /\ estop' = TRUE /\ UNCHANGED <<heard, errors, moving, task>>
    ELSE Lock!Command(cmd, v)

\* Faulty variant: a task is admitted without a look at the estop flag.
DoesInEstop(cmd, v) ==
  \/ Lock!Command(cmd, v)
  \/ /\ cmd = "CMD_TASK" /\ v = "ACCEPTED"
     /\ heard /\ errors = {} /\ ~moving
     /\ moving' = TRUE /\ task' \in Tasks
     /\ UNCHANGED <<estop, heard, errors>>

\* What the robot does on a command it answers with v.
Does(cmd, v) == Lock!Command(cmd, v)

\* The state it publishes at the end of a handler.
ShowEstop ==
  stateTopic' = IF estop' = estop THEN stateTopic ELSE Append(stateTopic, estop')

\* Faulty variant: a command that was answered is taken again.
TakeTwice ==
  /\ cmdTopic # <<>>
  /\ \E v \in Lock!Verdicts :
       LET res == Answer(Head(cmdTopic), IF v = "DONE" THEN "ACCEPTED" ELSE v) IN
       /\ Does(Head(cmdTopic).cmd, v)
       /\ executed' = Append(executed, res)
       /\ resultTopic' = Append(resultTopic, res)
  /\ ShowEstop
  /\ UNCHANGED <<cmdTopic, restarted>>

\* on_cmd takes the next command of the bridge; that a goto is done already
\* counts as accepted.
Take ==
  /\ cmdTopic # <<>>
  /\ cmdTopic' = Tail(cmdTopic)
  /\ \E v \in Lock!Verdicts :
       LET res == Answer(Head(cmdTopic), IF v = "DONE" THEN "ACCEPTED" ELSE v) IN
       /\ Does(Head(cmdTopic).cmd, v)
       /\ executed' = Append(executed, res)
       /\ resultTopic' = Append(resultTopic, res)
  /\ ShowEstop
  /\ UNCHANGED restarted

\* The node is down: nobody takes the message.
Drop == RobotDrops /\ UNCHANGED own

\* tick, on_console and on_deactivate: what the robot does unasked.
Unasked ==
  /\ Lock!Itself
  /\ UNCHANGED <<executed, cmdTopic, resultTopic, stateTopic, restarted>>

\* The command line tools inject and clear faults past the bridge, which drops
\* the answers: no command of a console is pending under their number.
Tool ==
  /\ \E cmd \in {"INJECT_FAULT", "CLEAR_FAULT"} : Does(cmd, "ACCEPTED")
  /\ UNCHANGED <<executed, cmdTopic, resultTopic, stateTopic, restarted>>

\* on_configure
Reconfigure ==
  /\ RobotIgnores
  /\ Lock!Restart
  /\ ShowEstop
  /\ restarted' = Len(executed)
  /\ UNCHANGED <<executed, cmdTopic, resultTopic>>

-----------------------------------------------------------------------------
Scripted(c) == [n \in DOMAIN sent'[c] |-> sent'[c][n].cmd] \in Scripts

SystemRobot ==
  /\ Take \/ Drop \/ Unasked \/ Tool \/ Reconfigure
  /\ UNCHANGED <<consoleVars, recvVars, asyncVars, workerVars, snapshot, fresh,
                 queue, pending, executor, acks>>

\* The threads of the bridge and its consoles do not touch the robot.
SystemNext ==
  \/ /\ \/ \E c \in Clients : (Connection(c) /\ Scripted(c)) \/ Recv(c)
        \/ Work \/ DeadlinePasses \/ OnCmdResult \/ OnRobotState \/ StateAges
     /\ UNCHANGED own
  \/ SystemRobot

systemVars == <<vars, own>>

SystemSpec == SystemInit /\ [][SystemNext]_systemVars /\ Fairness

-----------------------------------------------------------------------------
\* The robot is one the bridge is made for: with it every behaviour is one of
\* Bridge, whose properties it therefore has.
ImplementsBridge == Init /\ [][Next]_vars

Releases(r) == r.cmd = "CMD_RESET" /\ r.status = "ACCEPTED"
SetsOut(r)  == r.cmd = "CMD_TASK" /\ r.status = "ACCEPTED"

\* What was executed before the node was configured anew does not count.
SinceRestart == restarted + 1..Len(executed)

\* The k-th command is an accepted task, and every ESTOP, early or late, has
\* been followed by a RESET that came before it.
Permits(k) ==
  /\ SetsOut(executed[k])
  /\ \A e \in SinceRestart :
       IsEstop(executed[e]) => \E r \in e + 1..k - 1 : Releases(executed[r])

\* The robot moves only because a console sent a task that it accepted, with
\* every ESTOP before it released and none since (on_cmd, apply_safety_stop and
\* the whole way of a command through the bridge).
MovesOnlyWhenTold ==
  moving =>
    \E k \in SinceRestart :
      /\ Permits(k)
      /\ \E c \in Clients : \E n \in DOMAIN sent[c] :
           sent[c][n] = [cmd |-> "CMD_TASK", seq |-> executed[k].seq]

\* A console that has been told its ESTOP was accepted can rely on it: the robot
\* did execute it, and until it accepts a RESET that it takes after the ESTOP,
\* or is configured anew, the estop is on and the robot stands.
StopIsHonoured ==
  \A c \in Clients : \A i \in DOMAIN acks[c] :
    IsEstop(acks[c][i]) /\ acks[c][i].status = "ACCEPTED" =>
      \E k \in DOMAIN executed :
        /\ executed[k] = acks[c][i]
        /\ \/ k <= restarted
           \/ \E r \in k + 1..Len(executed) : Releases(executed[r])
           \/ estop /\ ~moving
=============================================================================
