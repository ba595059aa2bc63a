---------------------------- MODULE BridgeProofs ----------------------------
(***************************************************************************)
(* Proofs about Bridge for every set of consoles, every number of commands *)
(* and a robot that may or may not answer and be configured anew; at the   *)
(* end, that with one console it implements CommandService.                *)
(***************************************************************************)
EXTENDS Bridge, SequenceTheorems, TLAPS

-----------------------------------------------------------------------------
(***************************************************************************)
(* Sequences                                                               *)
(***************************************************************************)
LEMMA AppendSeq ==
  ASSUME NEW S, NEW s \in Seq(S), NEW e \in S
  PROVE  /\ Append(s, e) \in Seq(S)
         /\ Len(Append(s, e)) = Len(s) + 1
         /\ DOMAIN Append(s, e) = 1..Len(s) + 1
         /\ \A i \in 1..Len(s) : Append(s, e)[i] = s[i]
         /\ Append(s, e)[Len(s) + 1] = e
  OBVIOUS

\* Taking the head off a sequence.
LEMMA TailSeq ==
  ASSUME NEW S, NEW s \in Seq(S), s # <<>>
  PROVE  /\ Head(s) = s[1] /\ Head(s) \in S
         /\ Len(s) \in Nat \ {0} /\ DOMAIN s = 1..Len(s)
         /\ Tail(s) \in Seq(S)
         /\ Len(Tail(s)) = Len(s) - 1
         /\ DOMAIN Tail(s) = 1..Len(s) - 1
         /\ \A i \in 1..Len(s) - 1 : Tail(s)[i] = s[i + 1]
  BY HeadTailProperties, LenProperties, EmptySeq

\* A batch, in any order: its frames are among those received.
LEMMA Reordered ==
  ASSUME NEW S, NEW s \in Seq(S), NEW n \in 1..Len(s),
         NEW order \in [DOMAIN SubSeq(s, 1, n) -> DOMAIN SubSeq(s, 1, n)]
  PROVE  LET frames == SubSeq(s, 1, n)
             sorted == [i \in DOMAIN frames |-> frames[order[i]]]
         IN  /\ frames \in Seq(S) /\ Len(frames) = n /\ DOMAIN frames = 1..n
             /\ \A i \in 1..n : frames[i] = s[i]
             /\ sorted \in Seq(S) /\ Len(sorted) = n /\ DOMAIN sorted = 1..n
             /\ \A i \in 1..n : order[i] \in 1..n /\ sorted[i] = s[order[i]]
<1> DEFINE frames == SubSeq(s, 1, n)
           sorted == [i \in DOMAIN frames |-> frames[order[i]]]
<1>1. Len(s) \in Nat /\ \A i \in 1..n : s[i] \in S
  BY LenProperties, ElementOfSeq
<1>2. /\ frames \in Seq(S) /\ Len(frames) = n
      /\ \A i \in 1..n : frames[i] = s[i]
  BY <1>1, SubSeqProperties
<1>3. DOMAIN frames = 1..n
  BY <1>2, LenProperties
<1>4. \A i \in 1..n : order[i] \in 1..n /\ sorted[i] = s[order[i]]
  BY <1>2, <1>3
<1>5. sorted \in [1..n -> S]
  BY <1>1, <1>3, <1>4
<1>6. sorted \in Seq(S) /\ Len(sorted) = n
  BY <1>5, SeqDef, LenProperties
<1>7. QED
  BY <1>2, <1>3, <1>4, <1>6

\* What one recv leaves.
LEMMA Remainder ==
  ASSUME NEW S, NEW s \in Seq(S), NEW n \in 1..Len(s)
  PROVE  /\ SubSeq(s, n + 1, Len(s)) \in Seq(S)
         /\ Len(SubSeq(s, n + 1, Len(s))) = Len(s) - n
         /\ DOMAIN SubSeq(s, n + 1, Len(s)) = 1..Len(s) - n
         /\ \A i \in 1..Len(s) - n : SubSeq(s, n + 1, Len(s))[i] = s[n + i]
<1>1. Len(s) \in Nat /\ \A i \in n + 1..Len(s) : s[i] \in S
  BY LenProperties, ElementOfSeq
<1>2. /\ SubSeq(s, n + 1, Len(s)) \in Seq(S)
      /\ Len(SubSeq(s, n + 1, Len(s))) = Len(s) - n
      /\ \A i \in 1..Len(s) - n : SubSeq(s, n + 1, Len(s))[i] = s[n + i]
  <2>1. Len(SubSeq(s, n + 1, Len(s))) = IF n + 1 <= Len(s) THEN Len(s) - (n + 1) + 1 ELSE 0
    BY <1>1, SubSeqProperties
  <2>2. \A i \in 1..Len(s) - (n + 1) + 1 : SubSeq(s, n + 1, Len(s))[i] = s[n + 1 + i - 1]
    BY <1>1, SubSeqProperties
  <2>3. SubSeq(s, n + 1, Len(s)) \in Seq(S)
    BY <1>1, SubSeqProperties
  <2>4. QED
    BY <1>1, <2>1, <2>2, <2>3
<1>3. QED
  BY <1>2, LenProperties

-----------------------------------------------------------------------------
(***************************************************************************)
(* Types                                                                   *)
(***************************************************************************)
USE MaxSeqAssumption

\* The thread that is inside urgent_estop has an ESTOP in its hands.
UrgentMatches ==
  \A c \in Clients :
    urgent[c] # "idle" => batch[c] # <<>> /\ IsEstop(Current(c))

\* Sending, receiving and closing keep the types.
LEMMA TypeConnection ==
  ASSUME TypeOK, UrgentMatches, NEW c \in Clients, Connection(c)
  PROVE  TypeOK' /\ UrgentMatches'
<1> USE DEF Connection, consoleVars, recvVars, asyncVars, workerVars, stateVars, robotVars
<1>1. UrgentMatches'
  BY DEF UrgentMatches, Current
<1>2. CASE Hello(c)
  BY <1>1, <1>2 DEF TypeOK, Hello
<1>3. CASE Close(c)
  <2>1. <<>> \in Seq(Frames)
    BY EmptySeq
  <2>2. QED
    BY <1>1, <1>3, <2>1 DEF TypeOK, Close
<1>4. ASSUME NEW cmd \in Kinds, Send(c, cmd)
      PROVE  TypeOK'
  <2> DEFINE f == [cmd |-> cmd, seq |-> NextSeq(c)]
  <2>1. sent[c] \in Seq(Frames) /\ inbox[c] \in Seq(Frames)
    BY DEF TypeOK
  <2>2. f \in Frames
    BY <1>4, <2>1, LenProperties DEF Send, NextSeq, Frames, Seqs
  <2>3. Append(sent[c], f) \in Seq(Frames) /\ Append(inbox[c], f) \in Seq(Frames)
    BY <2>1, <2>2, AppendSeq
  <2>4. QED
    BY <1>4, <2>3 DEF TypeOK, Send
<1>5. QED
  BY <1>1, <1>2, <1>3, <1>4

\* So does a receive thread, sorting and urgent path included.
LEMMA TypeRecv ==
  ASSUME TypeOK, UrgentMatches, NEW c \in Clients, Recv(c)
  PROVE  TypeOK' /\ UrgentMatches'
<1> USE DEF Recv, consoleVars, recvVars, asyncVars, workerVars, stateVars, robotVars
<1>1. inbox[c] \in Seq(Frames) /\ batch[c] \in Seq(Frames)
  BY DEF TypeOK
<1>2. CASE Receive(c)
  <2>0. PICK n \in 1..Len(inbox[c]) : \E order \in StableOrders(SubSeq(inbox[c], 1, n)) :
          /\ batch' = [batch EXCEPT ![c] =
                         [i \in DOMAIN SubSeq(inbox[c], 1, n) |->
                            SubSeq(inbox[c], 1, n)[order[i]]]]
          /\ inbox' = [inbox EXCEPT ![c] = SubSeq(@, n + 1, Len(@))]
    BY <1>2 DEF Receive
  <2>1. PICK order \in StableOrders(SubSeq(inbox[c], 1, n)) :
          /\ batch' = [batch EXCEPT ![c] =
                         [i \in DOMAIN SubSeq(inbox[c], 1, n) |->
                            SubSeq(inbox[c], 1, n)[order[i]]]]
          /\ inbox' = [inbox EXCEPT ![c] = SubSeq(@, n + 1, Len(@))]
    BY <2>0
  <2>2. order \in [DOMAIN SubSeq(inbox[c], 1, n) -> DOMAIN SubSeq(inbox[c], 1, n)]
    BY <2>1 DEF StableOrders
  <2>3. [i \in DOMAIN SubSeq(inbox[c], 1, n) |-> SubSeq(inbox[c], 1, n)[order[i]]]
          \in Seq(Frames)
    BY <1>1, <2>2, Reordered, SMTT(30)
  <2>4. SubSeq(inbox[c], n + 1, Len(inbox[c])) \in Seq(Frames)
    BY <1>1, Remainder
  <2>5. TypeOK'
    <3>1. inbox' \in [Clients -> Seq(Frames)] /\ batch' \in [Clients -> Seq(Frames)]
      BY <2>1, <2>3, <2>4 DEF TypeOK
    <3>2. UNCHANGED <<link, sent, urgent, queue, worker, late, pending, raised,
                      asyncSeq, asyncValid, executor, snapshot, fresh, cmdTopic,
                      resultTopic, stateTopic, estop, executed, acks>>
      BY <1>2 DEF Receive
    <3>3. QED
      BY <3>1, <3>2 DEF TypeOK
  <2>6. urgent[c] = "idle"
    BY <1>2 DEF Receive, UrgentMatches
  <2>7. UrgentMatches'
    BY <1>2, <2>1, <2>6 DEF TypeOK, Receive, UrgentMatches, Current
  <2>8. QED
    BY <2>5, <2>7
<1>3. ASSUME batch[c] # <<>>
      PROVE  /\ Current(c) \in Frames /\ Tail(batch[c]) \in Seq(Frames)
             /\ PublishCmd(Current(c)) => cmdTopic' \in Seq(Frames)
  <2>1. Current(c) \in Frames /\ Tail(batch[c]) \in Seq(Frames)
    BY <1>1, <1>3, TailSeq DEF Current
  <2>2. [cmd |-> Current(c).cmd, seq |-> Current(c).seq] \in Frames
    BY <2>1 DEF Frames
  <2>3. cmdTopic \in Seq(Frames)
    BY DEF TypeOK
  <2>4. QED
    BY <2>1, <2>2, <2>3, AppendSeq DEF PublishCmd
<1>4. CASE Enqueue(c)
  <2>1. [client |-> c, cmd |-> Current(c).cmd, seq |-> Current(c).seq] \in Jobs
    BY <1>3, <1>4 DEF Enqueue, Frames, Jobs
  <2>2. queue' \in Seq(Jobs)
    BY <1>4, <2>1, AppendSeq DEF Enqueue, TypeOK
  <2>3. TypeOK'
    BY <1>3, <1>4, <2>2 DEF TypeOK, Enqueue, FrameDone
  <2>4. urgent[c] = "idle"
    BY <1>4 DEF Enqueue, UrgentMatches
  <2>5. QED
    BY <1>4, <2>3, <2>4 DEF TypeOK, Enqueue, FrameDone, UrgentMatches, Current
<1>5. CASE RaiseEstop(c)
  BY <1>5 DEF TypeOK, RaiseEstop, UrgentMatches, Current
<1>6. CASE StoreEstopSeq(c)
  <2>1. Current(c) \in Frames
    BY <1>3, <1>6 DEF StoreEstopSeq, UrgentMatches
  <2>2. QED
    BY <1>6, <2>1, ZenonT(30) DEF TypeOK, StoreEstopSeq, UrgentMatches, Current, Frames
<1>7. CASE StoreEstopValid(c)
  BY <1>7 DEF TypeOK, StoreEstopValid, UrgentMatches, Current
<1>8. CASE PublishEstop(c)
  <2>1. batch[c] # <<>>
    BY <1>8 DEF PublishEstop, UrgentMatches
  <2>2. Current(c).seq \in Seqs
    BY <1>3, <2>1 DEF Frames
  <2>3. /\ DOMAIN pending' \subseteq Seqs
        /\ pending' \in [DOMAIN pending' -> Results \cup {NotDone}]
    BY <1>8, <2>2 DEF PublishEstop, Track, TypeOK
  <2>4. TypeOK'
    BY <1>3, <1>8, <2>1, <2>3 DEF TypeOK, PublishEstop, FrameDone
  <2>5. QED
    BY <1>8, <2>4 DEF TypeOK, PublishEstop, FrameDone, UrgentMatches, Current
<1>9. QED
  BY <1>2, <1>4, <1>5, <1>6, <1>7, <1>8

\* An acknowledgement of the worker ends its job.
LEMMA TypeAckJob ==
  ASSUME TypeOK, NEW job \in Jobs, NEW ack \in Acks, AckJob(job, ack)
  PROVE  /\ acks' \in [Clients -> Seq(Acks)]
         /\ worker' \in [pc : {"idle"}, job : {NoJob}]
<1>1. job.client \in Clients /\ acks[job.client] \in Seq(Acks)
  BY DEF Jobs, TypeOK
<1>2. Append(acks[job.client], ack) \in Seq(Acks)
  BY <1>1, AppendSeq
<1>3. QED
  BY <1>1, <1>2 DEF TypeOK, AckJob, SendAck

\* So does the command worker, whatever step of its loop it is in.
LEMMA TypeWork ==
  ASSUME TypeOK, UrgentMatches, Work
  PROVE  TypeOK' /\ UrgentMatches'
<1> USE DEF Work, consoleVars, recvVars, asyncVars, stateVars, robotVars
<1>1. UrgentMatches'
  BY DEF UrgentMatches, Current
<1>2. ASSUME NEW job \in Jobs, NEW reason \in Reasons
      PROVE  Answer(job, reason) \in Acks
  BY DEF Answer, Jobs, Acks
<1>3. worker.pc # "idle" => Job \in Jobs
  BY DEF TypeOK, Job
<1>4. ASSUME worker.pc # "idle", Erase(Job.seq)
      PROVE  /\ DOMAIN pending' \subseteq Seqs
             /\ pending' \in [DOMAIN pending' -> Results \cup {NotDone}]
  BY <1>4 DEF Erase, TypeOK
<1>5. CASE TakeJob
  <2>1. Head(queue) \in Jobs /\ Tail(queue) \in Seq(Jobs)
    BY <1>5, TailSeq DEF TakeJob, TypeOK
  <2>2. CASE AckJob(Head(queue), Answer(Head(queue), "proto_error"))
    <3>1. Answer(Head(queue), "proto_error") \in Acks
      BY <1>2, <2>1 DEF Reasons
    <3>2. QED
      BY <1>1, <1>5, <2>1, <2>2, <3>1, TypeAckJob DEF TypeOK, TakeJob
  <2>3. CASE UNCHANGED acks /\ (UNCHANGED worker \/ worker' = [pc |-> "check", job |-> Head(queue)])
    BY <1>1, <1>5, <2>1, <2>3 DEF TypeOK, TakeJob
  <2>4. \/ AckJob(Head(queue), Answer(Head(queue), "proto_error"))
        \/ UNCHANGED acks /\ (UNCHANGED worker \/ worker' = [pc |-> "check", job |-> Head(queue)])
    BY <1>5 DEF TakeJob
  <2>5. QED
    BY <2>2, <2>3, <2>4
<1>6. CASE CheckCommand
  <2>1. Job \in Jobs
    BY <1>3, <1>6 DEF CheckCommand
  <2>2. ASSUME NEW reason \in Reasons, AckJob(Job, Answer(Job, reason))
        PROVE  TypeOK'
    BY <1>2, <1>6, <2>1, <2>2, TypeAckJob DEF TypeOK, CheckCommand
  <2>3. CASE worker' = [worker EXCEPT !.pc = "publish"] /\ UNCHANGED acks
    <3>1. worker \in [pc : {"check", "publish", "wait", "look"}, job : Jobs]
      BY <1>6 DEF TypeOK, CheckCommand
    <3>2. worker' \in [pc : {"idle"}, job : {NoJob}]
                       \cup [pc : {"check", "publish", "wait", "look"}, job : Jobs]
      BY <2>3, <3>1
    <3>3. UNCHANGED <<link, sent, inbox, batch, urgent, queue, late, pending,
                      raised, asyncSeq, asyncValid, executor, snapshot, fresh,
                      cmdTopic, resultTopic, stateTopic, estop, executed, acks>>
      BY <1>6, <2>3 DEF CheckCommand
    <3>4. QED
      BY <1>1, <3>2, <3>3 DEF TypeOK
  <2>4. QED
    BY <1>1, <1>6, <2>2, <2>3 DEF CheckCommand, Reasons
<1>7. CASE ForwardCommand
  <2>1. Job \in Jobs
    BY <1>3, <1>7 DEF ForwardCommand
  <2>2. [cmd |-> Job.cmd, seq |-> Job.seq] \in Frames /\ Job.seq \in Seqs
    BY <2>1 DEF Jobs, Frames
  <2>3. cmdTopic' \in Seq(Frames)
    BY <1>7, <2>2, AppendSeq DEF ForwardCommand, PublishCmd, TypeOK
  <2>4. /\ DOMAIN pending' \subseteq Seqs
        /\ pending' \in [DOMAIN pending' -> Results \cup {NotDone}]
    BY <1>7, <2>2 DEF ForwardCommand, Track, TypeOK
  <2>5. QED
    BY <1>1, <1>7, <2>3, <2>4 DEF TypeOK, ForwardCommand
<1>8. ASSUME WaitExpired \/ WaitAborted
      PROVE  TypeOK'
  <2>1. Job \in Jobs /\ worker.pc # "idle" /\ Erase(Job.seq)
    BY <1>3, <1>8 DEF WaitExpired, WaitAborted
  <2>2. PICK reason \in Reasons : AckJob(Job, Answer(Job, reason))
    BY <1>8 DEF WaitExpired, WaitAborted, Reasons
  <2>3. acks' \in [Clients -> Seq(Acks)] /\ worker' \in [pc : {"idle"}, job : {NoJob}]
    BY <1>2, <2>1, <2>2, TypeAckJob
  <2>4. QED
    BY <1>4, <1>8, <2>1, <2>3 DEF TypeOK, WaitExpired, WaitAborted
<1>9. CASE WaitContinues \/ LookAgain
  BY <1>1, <1>9, ZenonT(30) DEF TypeOK, WaitContinues, LookAgain
<1>10. CASE LookDone
  <2>1. Job \in Jobs /\ worker.pc # "idle" /\ Erase(Job.seq)
    BY <1>3, <1>10 DEF LookDone
  <2>2. pending[Job.seq] \in Results
    BY <1>10 DEF LookDone, Arrived, TypeOK
  <2>3. [pending[Job.seq] EXCEPT !.seq = Job.seq] \in Acks
    BY <2>1, <2>2 DEF Results, Acks, Jobs
  <2>4. acks' \in [Clients -> Seq(Acks)] /\ worker' \in [pc : {"idle"}, job : {NoJob}]
    BY <1>10, <2>1, <2>3, TypeAckJob DEF LookDone
  <2>5. QED
    BY <1>1, <1>4, <1>10, <2>1, <2>4 DEF TypeOK, LookDone
<1>11. QED
  BY <1>1, <1>5, <1>6, <1>7, <1>8, <1>9, <1>10

\* So does on_cmd_result.
LEMMA TypeOnCmdResult ==
  ASSUME TypeOK, UrgentMatches, OnCmdResult
  PROVE  TypeOK' /\ UrgentMatches'
<1> USE DEF OnCmdResult, consoleVars, recvVars, workerVars, stateVars, robotVars
<1>1. UrgentMatches'
  BY DEF UrgentMatches, Current
<1>2. ASSUME resultTopic # <<>>
      PROVE  Message \in Results /\ Tail(resultTopic) \in Seq(Results)
  BY <1>2, TailSeq DEF Message, TypeOK
<1>3. CASE MatchEstop
  BY <1>1, <1>2, <1>3 DEF TypeOK, MatchEstop
<1>4. CASE ClearRaised
  <2>1. executor' \in [pc : {"valid"}, msg : Results]
    BY <1>4 DEF TypeOK, ClearRaised
  <2>2. QED
    BY <1>1, <1>4, <2>1 DEF TypeOK, ClearRaised
<1>5. CASE ClearValid
  <2>1. executor.msg \in Acks
    BY <1>5 DEF TypeOK, ClearValid, Results, Acks
  <2>2. \A c \in Clients : Append(acks[c], executor.msg) \in Seq(Acks)
    BY <2>1, AppendSeq DEF TypeOK
  <2>3. acks' \in [Clients -> Seq(Acks)]
    BY <1>5, <2>2 DEF ClearValid, Broadcast, TypeOK
  <2>4. QED
    BY <1>1, <1>5, <2>3 DEF TypeOK, ClearValid
<1>6. CASE StoreResult
  <2>1. /\ DOMAIN pending' = DOMAIN pending
        /\ pending' \in [DOMAIN pending -> Results \cup {NotDone}]
    BY <1>2, <1>6 DEF TypeOK, StoreResult
  <2>2. QED
    BY <1>1, <1>2, <1>6, <2>1 DEF TypeOK, StoreResult
<1>7. QED
  BY <1>3, <1>4, <1>5, <1>6

\* What the robot says of a command it takes.
LEMMA RobotSays ==
  ASSUME TypeOK, RobotExecutes
  PROVE  /\ cmdTopic # <<>> /\ Head(cmdTopic) \in Frames /\ cmdTopic' = Tail(cmdTopic)
         /\ \E v \in Verdicts, e \in BOOLEAN :
              /\ Answer(Head(cmdTopic), v) \in Results
              /\ executed' = Append(executed, Answer(Head(cmdTopic), v))
              /\ resultTopic' = Append(resultTopic, Answer(Head(cmdTopic), v))
              /\ estop' = e
              /\ stateTopic' = IF e = estop THEN stateTopic ELSE Append(stateTopic, e)
<1>1. cmdTopic # <<>> /\ Head(cmdTopic) \in Frames /\ cmdTopic' = Tail(cmdTopic)
  BY TailSeq DEF TypeOK, RobotExecutes
<1>2. PICK o \in Outcomes(Head(cmdTopic)) :
        LET res == Answer(Head(cmdTopic), o[1]) IN
        /\ estop' = o[2]
        /\ executed' = Append(executed, res)
        /\ resultTopic' = Append(resultTopic, res)
        /\ stateTopic' = IF o[2] = estop THEN stateTopic
                                         ELSE Append(stateTopic, o[2])
  BY DEF RobotExecutes
<1>3. o[1] \in Verdicts /\ o[2] \in BOOLEAN
  <2>1. o \in {<<"ACCEPTED", TRUE>>, <<"REJECTED", estop>>,
               <<"ACCEPTED", estop>>, <<"ACCEPTED", FALSE>>}
    BY <1>2 DEF Outcomes
  <2>2. estop \in BOOLEAN
    BY DEF TypeOK
  <2>3. \A v \in Verdicts, b \in BOOLEAN : <<v, b>>[1] = v /\ <<v, b>>[2] = b
    OBVIOUS
  <2>4. \E v \in Verdicts, b \in BOOLEAN : o = <<v, b>>
    BY <2>1, <2>2, Zenon DEF Verdicts
  <2>5. QED
    BY <2>3, <2>4
<1>4. Answer(Head(cmdTopic), o[1]) \in Results
  BY <1>1, <1>3 DEF Answer, Frames, Results
<1>5. QED
  BY <1>1, <1>2, <1>3, <1>4

\* So does the robot.
LEMMA TypeRobot ==
  ASSUME TypeOK, UrgentMatches, Robot
  PROVE  TypeOK' /\ UrgentMatches'
<1> USE DEF Robot, consoleVars, recvVars, asyncVars, workerVars
<1>1. UrgentMatches'
  BY DEF UrgentMatches, Current
<1>2. cmdTopic # <<>> => Tail(cmdTopic) \in Seq(Frames)
  BY TailSeq DEF TypeOK
<1>3. CASE RobotExecutes
  <2>1. PICK v \in Verdicts, e \in BOOLEAN :
          /\ Answer(Head(cmdTopic), v) \in Results
          /\ executed' = Append(executed, Answer(Head(cmdTopic), v))
          /\ resultTopic' = Append(resultTopic, Answer(Head(cmdTopic), v))
          /\ estop' = e
          /\ stateTopic' = IF e = estop THEN stateTopic ELSE Append(stateTopic, e)
    BY <1>3, RobotSays
  <2>2. executed' \in Seq(Results) /\ resultTopic' \in Seq(Results)
    BY <2>1, AppendSeq DEF TypeOK
  <2>3. stateTopic' \in Seq(BOOLEAN) /\ estop' \in BOOLEAN
    BY <2>1, AppendSeq DEF TypeOK
  <2>4. QED
    BY <1>1, <1>2, <1>3, <2>2, <2>3 DEF TypeOK, RobotExecutes
<1>4. CASE RobotDrops
  BY <1>1, <1>2, <1>4 DEF TypeOK, RobotDrops
<1>5. CASE RobotRestarts
  <2>1. stateTopic' \in Seq(BOOLEAN) /\ estop' \in BOOLEAN
    BY <1>5, AppendSeq DEF TypeOK, RobotRestarts
  <2>2. UNCHANGED <<cmdTopic, executed, resultTopic>>
    BY <1>5 DEF RobotRestarts
  <2>3. QED
    BY <1>1, <2>1, <2>2 DEF TypeOK
<1>6. QED
  BY <1>3, <1>4, <1>5

\* So do the passage of time and the robot state.
LEMMA TypeTime ==
  ASSUME TypeOK, UrgentMatches,
         DeadlinePasses \/ OnRobotState \/ StateAges \/ UNCHANGED vars
  PROVE  TypeOK' /\ UrgentMatches'
<1> USE DEF consoleVars, recvVars, asyncVars, workerVars, stateVars, robotVars
<1>1. UrgentMatches'
  BY DEF UrgentMatches, Current, DeadlinePasses, OnRobotState, StateAges, vars
<1>2. CASE DeadlinePasses \/ StateAges \/ UNCHANGED vars
  BY <1>1, <1>2 DEF TypeOK, DeadlinePasses, StateAges, vars
<1>3. CASE OnRobotState
  <2>1. stateTopic # <<>> =>
          Head(stateTopic) \in BOOLEAN /\ Tail(stateTopic) \in Seq(BOOLEAN)
    BY TailSeq DEF TypeOK
  <2>2. QED
    BY <1>1, <1>3, <2>1, ZenonT(30) DEF TypeOK, OnRobotState
<1>4. QED
  BY <1>2, <1>3

\* They hold at the start.
LEMMA TypeInit == Init => TypeOK /\ UrgentMatches
<1> SUFFICES ASSUME Init PROVE TypeOK /\ UrgentMatches
  OBVIOUS
<1>1. /\ <<>> \in Seq(Frames) /\ <<>> \in Seq(Jobs) /\ <<>> \in Seq(Results)
      /\ <<>> \in Seq(Acks) /\ <<>> \in Seq(BOOLEAN)
  BY EmptySeq
<1>2. DOMAIN pending = {}
  BY DEF Init
<1>3. pending \in [DOMAIN pending -> Results \cup {NotDone}]
  BY <1>2 DEF Init
<1>4. UrgentMatches
  BY DEF Init, UrgentMatches
<1>5. QED
  BY <1>1, <1>2, <1>3, <1>4 DEF Init, TypeOK, Seqs

\* Every step keeps them.
LEMMA TypeStep == TypeOK /\ UrgentMatches /\ [Next]_vars => TypeOK' /\ UrgentMatches'
  BY TypeConnection, TypeRecv, TypeWork, TypeOnCmdResult, TypeRobot, TypeTime DEF Next

\* Frames, jobs, results and table entries stay well formed (TypeOK), and a receive
\* thread is inside urgent_estop only with an ESTOP in its hands.
THEOREM TypeCorrect == Spec => [](TypeOK /\ UrgentMatches)
  BY TypeInit, TypeStep, PTL DEF Spec

-----------------------------------------------------------------------------
(***************************************************************************)
(* pending_                                                                *)
(***************************************************************************)
\* Bytes of c that the bridge has not handled yet are commands c has sent.
Traced(c, frames) ==
  \A i \in DOMAIN frames :
    frames[i].seq \in DOMAIN sent[c] /\ sent[c][frames[i].seq] = frames[i]

AllTraced == \A c \in Clients : Traced(c, inbox[c]) /\ Traced(c, batch[c])

\* Commands are numbered from 1 on each connection.
LEMMA TracedConnection ==
  ASSUME TypeOK, AllTraced, NEW c \in Clients, Connection(c)
  PROVE  /\ AllTraced'
         /\ \A d \in Clients : \A s \in DOMAIN sent[d] :
              s \in DOMAIN sent'[d] /\ sent'[d][s] = sent[d][s]
<1> USE DEF Connection, recvVars
<1>1. CASE Hello(c)
  BY <1>1 DEF Hello, AllTraced, Traced
<1>2. CASE Close(c)
  <2>1. /\ inbox'[c] = <<>> /\ DOMAIN <<>> = {}
        /\ \A d \in Clients \ {c} : inbox'[d] = inbox[d]
    BY <1>2 DEF Close, TypeOK
  <2>2. UNCHANGED <<sent, batch>>
    BY <1>2 DEF Close
  <2>3. QED
    BY <2>1, <2>2 DEF AllTraced, Traced
<1>3. ASSUME NEW cmd \in Kinds, Send(c, cmd)
      PROVE  /\ AllTraced'
             /\ \A d \in Clients : \A s \in DOMAIN sent[d] :
                  s \in DOMAIN sent'[d] /\ sent'[d][s] = sent[d][s]
  <2> DEFINE f == [cmd |-> cmd, seq |-> NextSeq(c)]
  <2>1. sent[c] \in Seq(Frames) /\ inbox[c] \in Seq(Frames)
    BY DEF TypeOK
  <2>2. Len(sent[c]) \in Nat /\ DOMAIN sent[c] = 1..Len(sent[c])
        /\ Len(inbox[c]) \in Nat /\ DOMAIN inbox[c] = 1..Len(inbox[c])
    BY <2>1, LenProperties
  <2>3. f \in Frames /\ f.seq = Len(sent[c]) + 1
    BY <1>3, <2>2 DEF Send, NextSeq, Frames, Seqs
  <2>4. /\ DOMAIN Append(sent[c], f) = 1..Len(sent[c]) + 1
        /\ \A i \in 1..Len(sent[c]) : Append(sent[c], f)[i] = sent[c][i]
        /\ Append(sent[c], f)[Len(sent[c]) + 1] = f
    BY <2>1, <2>3, AppendSeq
  <2>5. /\ DOMAIN Append(inbox[c], f) = 1..Len(inbox[c]) + 1
        /\ \A i \in 1..Len(inbox[c]) : Append(inbox[c], f)[i] = inbox[c][i]
        /\ Append(inbox[c], f)[Len(inbox[c]) + 1] = f
    BY <2>1, <2>3, AppendSeq
  <2>6. /\ sent'[c] = Append(sent[c], f) /\ inbox'[c] = Append(inbox[c], f)
        /\ \A d \in Clients \ {c} : sent'[d] = sent[d] /\ inbox'[d] = inbox[d]
    BY <1>3 DEF Send, TypeOK
  <2>7. \A d \in Clients : \A s \in DOMAIN sent[d] :
          s \in DOMAIN sent'[d] /\ sent'[d][s] = sent[d][s]
    <3>1. \A s \in DOMAIN sent[c] : s \in DOMAIN sent'[c] /\ sent'[c][s] = sent[c][s]
      BY <2>2, <2>4, <2>6
    <3>2. QED
      BY <2>6, <3>1
  <2>8. \A d \in Clients : Traced(d, batch[d])'
    BY <2>7 DEF AllTraced, Traced
  <2>9. Traced(c, inbox[c])'
    <3>1. \A i \in 1..Len(inbox[c]) :
            /\ inbox'[c][i] = inbox[c][i]
            /\ inbox[c][i].seq \in DOMAIN sent[c]
            /\ sent[c][inbox[c][i].seq] = inbox[c][i]
      BY <2>2, <2>5, <2>6 DEF AllTraced, Traced
    <3>2. inbox'[c][Len(inbox[c]) + 1] = f /\ f.seq \in DOMAIN sent'[c] /\ sent'[c][f.seq] = f
      BY <2>2, <2>3, <2>4, <2>5, <2>6
    <3>3. \A i \in DOMAIN inbox'[c] : i \in 1..Len(inbox[c]) \/ i = Len(inbox[c]) + 1
      BY <2>2, <2>5, <2>6
    <3>4. QED
      BY <2>7, <3>1, <3>2, <3>3 DEF Traced
  <2>10. \A d \in Clients \ {c} : Traced(d, inbox[d])'
    BY <2>6, <2>7 DEF AllTraced, Traced
  <2>11. QED
    BY <2>7, <2>8, <2>9, <2>10 DEF AllTraced
<1>4. QED
  BY <1>1, <1>2, <1>3

\* Sorting a batch loses and invents no frame.
LEMMA TracedRecv ==
  ASSUME TypeOK, UrgentMatches, AllTraced, NEW c \in Clients, Recv(c)
  PROVE  AllTraced'
<1> USE DEF Recv
<1>1. inbox[c] \in Seq(Frames) /\ batch[c] \in Seq(Frames) /\ UNCHANGED sent
  BY DEF TypeOK
<1>2. Len(inbox[c]) \in Nat /\ DOMAIN inbox[c] = 1..Len(inbox[c])
  BY <1>1, LenProperties
<1>3. CASE Receive(c)
  <2>1. PICK n \in 1..Len(inbox[c]) : \E order \in StableOrders(SubSeq(inbox[c], 1, n)) :
          /\ batch' = [batch EXCEPT ![c] =
                         [i \in DOMAIN SubSeq(inbox[c], 1, n) |->
                            SubSeq(inbox[c], 1, n)[order[i]]]]
          /\ inbox' = [inbox EXCEPT ![c] = SubSeq(@, n + 1, Len(@))]
    BY <1>3 DEF Receive
  <2>2. PICK order \in StableOrders(SubSeq(inbox[c], 1, n)) :
          /\ batch' = [batch EXCEPT ![c] =
                         [i \in DOMAIN SubSeq(inbox[c], 1, n) |->
                            SubSeq(inbox[c], 1, n)[order[i]]]]
          /\ inbox' = [inbox EXCEPT ![c] = SubSeq(@, n + 1, Len(@))]
    BY <2>1
  <2> DEFINE sorted == [i \in DOMAIN SubSeq(inbox[c], 1, n) |->
                          SubSeq(inbox[c], 1, n)[order[i]]]
             rest == SubSeq(inbox[c], n + 1, Len(inbox[c]))
  <2>3. order \in [DOMAIN SubSeq(inbox[c], 1, n) -> DOMAIN SubSeq(inbox[c], 1, n)]
    BY <2>2 DEF StableOrders
  <2>4. DOMAIN sorted = 1..n /\ \A i \in 1..n : order[i] \in 1..n /\ sorted[i] = inbox[c][order[i]]
    BY <1>1, <2>3, Reordered, SMTT(30)
  <2>5. /\ DOMAIN rest = 1..Len(inbox[c]) - n
        /\ \A i \in 1..Len(inbox[c]) - n : rest[i] = inbox[c][n + i]
    BY <1>1, Remainder
  <2>6. /\ batch'[c] = sorted /\ inbox'[c] = rest
        /\ \A d \in Clients \ {c} : batch'[d] = batch[d] /\ inbox'[d] = inbox[d]
    BY <2>2 DEF TypeOK
  <2>7. \A i \in 1..Len(inbox[c]) :
          inbox[c][i].seq \in DOMAIN sent[c] /\ sent[c][inbox[c][i].seq] = inbox[c][i]
    BY <1>2 DEF AllTraced, Traced
  <2>8. Traced(c, sorted)
    <3>1. \A i \in 1..n : order[i] \in 1..Len(inbox[c])
      <4>1. n \in 1..Len(inbox[c])
        OBVIOUS
      <4>2. \A i \in 1..n : order[i] \in 1..n
        BY <2>4
      <4>3. QED
        BY <1>2, <4>1, <4>2
    <3>2. QED
      BY <2>4, <2>7, <3>1 DEF Traced
  <2>9. Traced(c, rest)
    <3>1. \A i \in 1..Len(inbox[c]) - n : n + i \in 1..Len(inbox[c])
      BY <1>2
    <3>2. QED
      BY <2>5, <2>7, <3>1 DEF Traced
  <2>10. ASSUME NEW d \in Clients \ {c}
         PROVE  Traced(d, inbox[d])' /\ Traced(d, batch[d])'
    BY <1>1, <2>6 DEF AllTraced, Traced
  <2>11. Traced(c, inbox[c])' /\ Traced(c, batch[c])'
    BY <1>1, <2>6, <2>8, <2>9, ZenonT(30) DEF Traced
  <2>12. QED
    BY <2>10, <2>11 DEF AllTraced
<1>4. CASE FrameDone(c) /\ batch[c] # <<>> /\ UNCHANGED inbox
  <2>1. /\ Len(batch[c]) \in Nat /\ DOMAIN batch[c] = 1..Len(batch[c])
        /\ DOMAIN Tail(batch[c]) = 1..Len(batch[c]) - 1
        /\ \A i \in 1..Len(batch[c]) - 1 : Tail(batch[c])[i] = batch[c][i + 1]
    BY <1>1, <1>4, TailSeq
  <2>2. Traced(c, Tail(batch[c]))
    <3>1. \A i \in 1..Len(batch[c]) - 1 : i + 1 \in DOMAIN batch[c]
      BY <2>1
    <3>2. QED
      BY <2>1, <3>1 DEF AllTraced, Traced
  <2>3. /\ batch'[c] = Tail(batch[c])
        /\ \A d \in Clients \ {c} : batch'[d] = batch[d]
    BY <1>4 DEF FrameDone, TypeOK
  <2>4. \A d \in Clients \ {c} : Traced(d, batch[d])'
    BY <1>1, <2>3 DEF AllTraced, Traced
  <2>5. \A d \in Clients : Traced(d, inbox[d])'
    BY <1>1, <1>4 DEF AllTraced, Traced
  <2>6. Traced(c, batch[c])'
    BY <1>1, <2>2, <2>3 DEF Traced
  <2>7. QED
    BY <2>4, <2>5, <2>6 DEF AllTraced
<1>5. CASE UNCHANGED <<inbox, batch>>
  BY <1>1, <1>5 DEF AllTraced, Traced
<1>6. CASE PublishEstop(c)
  BY <1>4, <1>6 DEF PublishEstop, UrgentMatches
<1>7. QED
  BY <1>3, <1>4, <1>5, <1>6
     DEF Enqueue, RaiseEstop, StoreEstopSeq, StoreEstopValid

\* What is sent on a connection takes nothing from pending_.
LEMMA PendingConnection ==
  ASSUME TypeOK, AllTraced, PendingOwned, NEW c \in Clients, Connection(c)
  PROVE  PendingOwned'
<1>1. /\ UNCHANGED <<worker, pending>>
      /\ \A d \in Clients : \A s \in DOMAIN sent[d] :
           s \in DOMAIN sent'[d] /\ sent'[d][s] = sent[d][s]
  BY TracedConnection DEF Connection, workerVars
<1>2. QED
  BY <1>1 DEF PendingOwned, Job

\* urgent_estop adds the entry of an ESTOP, no other step of a receive thread any.
LEMMA PendingRecv ==
  ASSUME TypeOK, UrgentMatches, AllTraced, PendingOwned, NEW c \in Clients, Recv(c)
  PROVE  PendingOwned'
<1>1. UNCHANGED <<worker, sent>>
  BY DEF Recv, workerVars
<1>2. CASE PublishEstop(c)
  <2>1. /\ batch[c] # <<>> /\ IsEstop(Current(c))
        /\ DOMAIN pending' = DOMAIN pending \cup {Current(c).seq}
    BY <1>2 DEF PublishEstop, UrgentMatches, Track
  <2>2. Current(c).seq \in DOMAIN sent[c] /\ sent[c][Current(c).seq] = Current(c)
    <3>1. Current(c) = batch[c][1] /\ 1 \in DOMAIN batch[c]
      BY <2>1, TailSeq DEF Current, TypeOK
    <3>2. QED
      BY <3>1 DEF AllTraced, Traced
  <2>3. QED
    BY <1>1, <2>1, <2>2 DEF PendingOwned, Job
<1>3. CASE UNCHANGED pending
  BY <1>1, <1>3 DEF PendingOwned, Job
<1>4. QED
  BY <1>2, <1>3
     DEF Recv, Receive, Enqueue, RaiseEstop, StoreEstopSeq, StoreEstopValid

\* The worker adds the entry it waits for and erases it when it stops waiting.
LEMMA PendingWork ==
  ASSUME TypeOK, PendingOwned, Work
  PROVE  PendingOwned'
<1>1. UNCHANGED sent
  BY DEF Work, consoleVars
<1>2. CASE UNCHANGED pending /\ worker.pc \notin {"wait", "look"}
  BY <1>1, <1>2 DEF PendingOwned
<1>3. CASE ForwardCommand
  <2>1. /\ DOMAIN pending' = DOMAIN pending \cup {Job.seq}
        /\ worker'.pc = "wait" /\ Job' = Job /\ worker.pc = "publish"
    BY <1>3 DEF ForwardCommand, Track, TypeOK, Job
  <2>2. QED
    BY <1>1, <2>1 DEF PendingOwned
<1>4. CASE WaitExpired \/ WaitAborted \/ LookDone
  <2>1. DOMAIN pending' = DOMAIN pending \ {Job.seq}
    BY <1>4 DEF WaitExpired, WaitAborted, LookDone, Erase
  <2>2. QED
    BY <1>1, <2>1 DEF PendingOwned
<1>5. CASE WaitContinues \/ LookAgain
  <2>1. UNCHANGED pending /\ worker'.pc \in {"wait", "look"} /\ Job' = Job
    BY <1>5 DEF WaitContinues, LookAgain, TypeOK, Job
  <2>2. QED
    BY <1>1, <2>1 DEF PendingOwned
<1>6. QED
  BY <1>2, <1>3, <1>4, <1>5 DEF Work, TakeJob, CheckCommand

\* Nobody else adds or erases an entry.
LEMMA PendingElse ==
  ASSUME PendingOwned,
         \/ OnCmdResult \/ Robot \/ DeadlinePasses \/ OnRobotState \/ StateAges
         \/ UNCHANGED vars
  PROVE  PendingOwned'
<1>1. UNCHANGED <<worker, sent>> /\ DOMAIN pending' = DOMAIN pending
  BY DEF OnCmdResult, MatchEstop, ClearRaised, ClearValid, StoreResult, Robot,
         DeadlinePasses, OnRobotState, StateAges, vars, consoleVars, workerVars
<1>2. QED
  BY <1>1 DEF PendingOwned, Job

\* The frames on their way to the bridge, besides the entries of pending_ and
\* the types.
PInv == TypeOK /\ UrgentMatches /\ AllTraced /\ PendingOwned

\* pending_ starts empty.
LEMMA PendingInit == Init => PInv
<1> SUFFICES ASSUME Init PROVE PInv
  OBVIOUS
<1>1. TypeOK /\ UrgentMatches
  BY TypeInit
<1>2. DOMAIN <<>> = {}
  OBVIOUS
<1>3. AllTraced /\ PendingOwned
  BY <1>2 DEF Init, AllTraced, Traced, PendingOwned
<1>4. QED
  BY <1>1, <1>3 DEF PInv

\* Every step keeps it owned.
LEMMA PendingStep == PInv /\ [Next]_vars => PInv'
<1> SUFFICES ASSUME PInv, [Next]_vars PROVE PInv'
  OBVIOUS
<1>1. TypeOK /\ UrgentMatches /\ AllTraced /\ PendingOwned
  BY DEF PInv
<1>2. TypeOK' /\ UrgentMatches'
  BY <1>1, TypeStep
<1>3. PendingOwned'
  BY <1>1, PendingConnection, PendingRecv, PendingWork, PendingElse DEF Next
<1>4. AllTraced'
  <2>1. CASE Work \/ OnCmdResult \/ Robot \/ DeadlinePasses \/ OnRobotState
             \/ StateAges \/ UNCHANGED vars
    <3>1. UNCHANGED <<sent, inbox, batch>>
      BY <2>1 DEF Work, OnCmdResult, Robot, DeadlinePasses, OnRobotState,
                  StateAges, vars, consoleVars, recvVars
    <3>2. QED
      BY <1>1, <3>1 DEF AllTraced, Traced
  <2>2. QED
    BY <1>1, <2>1, TracedConnection, TracedRecv DEF Next
<1>5. QED
  BY <1>2, <1>3, <1>4 DEF PInv

\* pending_ holds the command the worker waits for and ESTOPs, for any number of
\* consoles: the receive threads and the worker are the only ones to add to it.
THEOREM PendingIsOwned == Spec => []PendingOwned
<1>1. PInv => PendingOwned
  BY DEF PInv
<1>2. QED
  BY <1>1, PendingInit, PendingStep, PTL DEF Spec

-----------------------------------------------------------------------------
(***************************************************************************)
(* Verdicts                                                                *)
(***************************************************************************)
Said == {executed[j] : j \in DOMAIN executed}

\* Whatever the bridge holds as the robot's word, the robot has said: results
\* on the topic, in the hands of the executor, in pending_ under their own
\* number, and in the acknowledgements.
Heard ==
  /\ \A i \in DOMAIN resultTopic : resultTopic[i] \in Said
  /\ executor.pc # "idle" => executor.msg \in Said
  /\ \A s \in DOMAIN pending :
       pending[s] # NotDone => pending[s] \in Said /\ pending[s].seq = s
  /\ AckIsTruthful

\* AckIsTruthful in terms of what the robot has said.
LEMMA TruthfulSaid ==
  AckIsTruthful <=> \A c \in Clients : \A i \in DOMAIN acks[c] :
                      acks[c][i].status \in Verdicts => acks[c][i] \in Said
  BY DEF AckIsTruthful, Said

\* What is said stays said.
LEMMA DoneStays ==
  ASSUME TypeOK, TypeOK', [Next]_vars
  PROVE  Said \subseteq Said'
<1>1. CASE UNCHANGED executed
  BY <1>1 DEF Said
<1>2. CASE RobotExecutes
  <2>1. PICK res \in Results : executed' = Append(executed, res)
    BY <1>2, RobotSays
  <2>2. /\ \A j \in DOMAIN executed : j \in DOMAIN executed' /\ executed'[j] = executed[j]
    BY <2>1, AppendSeq, LenProperties DEF TypeOK
  <2>3. QED
    BY <2>2 DEF Said
<1>3. QED
  BY <1>1, <1>2 DEF Next, Connection, Recv, Work, OnCmdResult, OnRobotState,
     StateAges, DeadlinePasses, Robot, RobotDrops, RobotRestarts, vars, robotVars

\* A frame sent to one console more, or to none.
LEMMA AcksGrow ==
  ASSUME TypeOK, AckIsTruthful, NEW a \in Acks, a.status \in Verdicts => a \in Said,
         Said \subseteq Said',
         acks' \in [Clients -> Seq(Acks)],
         \A c \in Clients : acks'[c] = acks[c] \/ acks'[c] = Append(acks[c], a)
  PROVE  AckIsTruthful'
<1> SUFFICES ASSUME NEW c \in Clients, NEW i \in DOMAIN acks'[c],
                    acks'[c][i].status \in Verdicts
             PROVE  acks'[c][i] \in Said'
  BY DEF AckIsTruthful, Said
<1>1. acks[c] \in Seq(Acks)
  BY DEF TypeOK
<1>2. \A j \in DOMAIN acks[c] : acks[c][j].status \in Verdicts => acks[c][j] \in Said
  BY DEF AckIsTruthful, Said
<1>3. CASE acks'[c] = acks[c]
  BY <1>2, <1>3
<1>4. CASE acks'[c] = Append(acks[c], a)
  <2>1. (i \in DOMAIN acks[c] /\ acks'[c][i] = acks[c][i]) \/ acks'[c][i] = a
    BY <1>1, <1>4, AppendSeq, LenProperties
  <2>2. QED
    BY <1>2, <2>1
<1>5. QED
  BY <1>3, <1>4

\* send_frame appends one frame or none.
LEMMA SendAckSends ==
  ASSUME TypeOK, NEW job \in Jobs, NEW ack \in Acks, AckJob(job, ack)
  PROVE  \A c \in Clients : acks'[c] = acks[c] \/ acks'[c] = Append(acks[c], ack)
  BY DEF AckJob, SendAck, TypeOK

\* The worker answers with a reason of its own or with what pending_ holds.
LEMMA HeardWork ==
  ASSUME TypeOK, TypeOK', Heard, Said \subseteq Said', Work
  PROVE  Heard'
<1>1. UNCHANGED <<executor, resultTopic, executed>>
  BY DEF Work, robotVars
<1>2. Said' = Said
  BY <1>1 DEF Said
<1>3. worker.pc # "idle" => Job \in Jobs
  BY DEF TypeOK, Job
<1>5. ASSUME NEW job \in Jobs, NEW r \in Reasons, AckJob(job, Answer(job, r))
      PROVE  AckIsTruthful'
  <2>1. Answer(job, r) \in Acks /\ Answer(job, r).status \notin Verdicts
    BY DEF Answer, Jobs, Acks, Reasons, Verdicts
  <2>2. QED
    BY <1>5, <2>1, SendAckSends, AcksGrow DEF Heard, TypeOK
<1>6. ASSUME Erase(Job.seq)
      PROVE  \A s \in DOMAIN pending' :
               pending'[s] # NotDone => pending'[s] \in Said' /\ pending'[s].seq = s
  BY <1>2, <1>6 DEF Erase, Heard
<1>7. ASSUME UNCHANGED acks
      PROVE  AckIsTruthful'
  BY <1>1, <1>7 DEF Heard, AckIsTruthful
<1>8. ASSUME UNCHANGED pending
      PROVE  \A s \in DOMAIN pending' :
               pending'[s] # NotDone => pending'[s] \in Said' /\ pending'[s].seq = s
  BY <1>2, <1>8 DEF Heard
<1>9. CASE TakeJob
  <2>1. Head(queue) \in Jobs
    BY <1>9, TailSeq DEF TakeJob, TypeOK
  <2>2. AckIsTruthful'
    BY <1>5, <1>7, <1>9, <2>1 DEF TakeJob, Reasons
  <2>3. QED
    BY <1>1, <1>2, <1>8, <1>9, <2>2 DEF Heard, TakeJob
<1>10. CASE CheckCommand
  <2>1. AckIsTruthful'
    BY <1>3, <1>5, <1>7, <1>10 DEF CheckCommand, Reasons
  <2>2. QED
    BY <1>1, <1>2, <1>8, <1>10, <2>1 DEF Heard, CheckCommand
<1>11. CASE ForwardCommand
  <2>1. \A s \in DOMAIN pending' :
          pending'[s] # NotDone => s \in DOMAIN pending /\ pending'[s] = pending[s]
    BY <1>11 DEF ForwardCommand, Track
  <2>2. QED
    BY <1>1, <1>2, <1>7, <1>11, <2>1 DEF Heard, ForwardCommand
<1>12. CASE WaitExpired \/ WaitAborted
  <2>1. AckIsTruthful'
    BY <1>3, <1>5, <1>12 DEF WaitExpired, WaitAborted, Reasons
  <2>2. QED
    BY <1>1, <1>2, <1>6, <1>12, <2>1 DEF Heard, WaitExpired, WaitAborted
<1>13. CASE WaitContinues \/ LookAgain
  BY <1>1, <1>2, <1>7, <1>8, <1>13 DEF Heard, WaitContinues, LookAgain
<1>14. CASE LookDone
  <2> DEFINE ack == [pending[Job.seq] EXCEPT !.seq = Job.seq]
  <2>1. /\ pending[Job.seq] \in Results /\ pending[Job.seq] \in Said
        /\ pending[Job.seq].seq = Job.seq /\ AckJob(Job, ack) /\ Job \in Jobs
    BY <1>3, <1>14 DEF LookDone, Arrived, Heard, TypeOK
  <2>2. ack = pending[Job.seq] /\ ack \in Acks
    BY <2>1 DEF Results, Acks
  <2>3. AckIsTruthful'
    <3>1. ack \in Said
      BY <2>1, <2>2
    <3>2. \A c \in Clients : acks'[c] = acks[c] \/ acks'[c] = Append(acks[c], ack)
      BY <2>1, <2>2, SendAckSends
    <3>3. AckIsTruthful /\ acks' \in [Clients -> Seq(Acks)]
      BY DEF Heard, TypeOK
    <3>4. QED
      BY <2>2, <3>1, <3>2, <3>3, AcksGrow
  <2>4. QED
    BY <1>1, <1>2, <1>6, <1>14, <2>3 DEF Heard, LookDone
<1>15. QED
  BY <1>9, <1>10, <1>11, <1>12, <1>13, <1>14 DEF Work

\* on_cmd_result only moves what the topic holds.
LEMMA HeardOnCmdResult ==
  ASSUME TypeOK, TypeOK', Heard, Said \subseteq Said', OnCmdResult
  PROVE  Heard'
<1>1. UNCHANGED executed
  BY DEF OnCmdResult, robotVars
<1>2. Said' = Said
  BY <1>1 DEF Said
<1>3. ASSUME resultTopic # <<>>
      PROVE  /\ Message \in Said /\ Message \in Results
             /\ \A i \in DOMAIN Tail(resultTopic) : Tail(resultTopic)[i] \in Said
  <2>1. /\ Message = resultTopic[1] /\ Message \in Results
        /\ Len(resultTopic) \in Nat \ {0} /\ DOMAIN resultTopic = 1..Len(resultTopic)
        /\ DOMAIN Tail(resultTopic) = 1..Len(resultTopic) - 1
        /\ \A i \in 1..Len(resultTopic) - 1 : Tail(resultTopic)[i] = resultTopic[i + 1]
    BY <1>3, TailSeq DEF Message, TypeOK
  <2>2. 1 \in DOMAIN resultTopic
        /\ \A i \in 1..Len(resultTopic) - 1 : i + 1 \in DOMAIN resultTopic
    BY <2>1
  <2>3. QED
    BY <2>1, <2>2 DEF Heard
<1>4. ASSUME UNCHANGED acks
      PROVE  AckIsTruthful'
  BY <1>1, <1>4 DEF Heard, AckIsTruthful
<1>5. CASE MatchEstop
  BY <1>2, <1>3, <1>4, <1>5 DEF Heard, MatchEstop
<1>6. CASE ClearRaised
  BY <1>2, <1>4, <1>6 DEF Heard, ClearRaised, TypeOK
<1>7. CASE ClearValid
  <2>1. executor.msg \in Acks /\ executor.msg \in Said
    BY <1>7 DEF ClearValid, Heard, TypeOK, Results, Acks
  <2>2. AckIsTruthful'
    <3>1. \A c \in Clients :
            acks'[c] = acks[c] \/ acks'[c] = Append(acks[c], executor.msg)
      BY <1>7 DEF ClearValid, Broadcast
    <3>2. AckIsTruthful /\ acks' \in [Clients -> Seq(Acks)]
      BY DEF Heard, TypeOK
    <3>3. QED
      BY <2>1, <3>1, <3>2, AcksGrow
  <2>3. QED
    BY <1>2, <1>7, <2>2 DEF Heard, ClearValid
<1>8. CASE StoreResult
  <2>1. \A s \in DOMAIN pending' :
          /\ s \in DOMAIN pending
          /\ pending'[s] = IF s = Message.seq THEN Message ELSE pending[s]
    BY <1>8 DEF StoreResult
  <2>2. QED
    BY <1>2, <1>3, <1>4, <1>8, <2>1 DEF Heard, StoreResult
<1>9. QED
  BY <1>5, <1>6, <1>7, <1>8 DEF OnCmdResult

\* The robot publishes what it has said.
LEMMA HeardRobot ==
  ASSUME TypeOK, TypeOK', Heard, Said \subseteq Said', Robot
  PROVE  Heard'
<1>1. UNCHANGED <<executor, pending, acks>>
  BY DEF Robot
<1>2. AckIsTruthful'
  BY <1>1 DEF Heard, AckIsTruthful, Said
<1>3. CASE RobotExecutes
  <2>1. PICK res \in Results :
          executed' = Append(executed, res) /\ resultTopic' = Append(resultTopic, res)
    BY <1>3, RobotSays
  <2>2. executed \in Seq(Results) /\ resultTopic \in Seq(Results)
    BY DEF TypeOK
  <2>3. executed'[Len(executed) + 1] = res /\ Len(executed) + 1 \in DOMAIN executed'
    BY <2>1, <2>2, AppendSeq, LenProperties
  <2>4. res \in Said'
    BY <2>3 DEF Said
  <2>5. \A i \in DOMAIN resultTopic' :
          \/ resultTopic'[i] = res
          \/ i \in DOMAIN resultTopic /\ resultTopic'[i] = resultTopic[i]
    <3>1. Len(resultTopic) \in Nat /\ DOMAIN resultTopic = 1..Len(resultTopic)
      BY <2>2, LenProperties
    <3>2. /\ DOMAIN resultTopic' = 1..Len(resultTopic) + 1
          /\ \A i \in 1..Len(resultTopic) : resultTopic'[i] = resultTopic[i]
          /\ resultTopic'[Len(resultTopic) + 1] = res
      BY <2>1, <2>2, AppendSeq
    <3>3. \A i \in 1..Len(resultTopic) + 1 : i \in 1..Len(resultTopic) \/ i = Len(resultTopic) + 1
      BY <3>1
    <3>4. QED
      BY <3>1, <3>2, <3>3
  <2>6. \A i \in DOMAIN resultTopic' : resultTopic'[i] \in Said'
    BY <2>4, <2>5 DEF Heard
  <2>7. QED
    BY <1>1, <1>2, <2>6 DEF Heard
<1>4. CASE RobotDrops \/ RobotRestarts
  BY <1>1, <1>2, <1>4 DEF Heard, RobotDrops, RobotRestarts
<1>5. QED
  BY <1>3, <1>4 DEF Robot

\* Every step keeps it so.
LEMMA HeardStep ==
  ASSUME TypeOK, UrgentMatches, Heard, [Next]_vars
  PROVE  Heard'
<1>1. TypeOK'
  BY TypeStep
<1>2. Said \subseteq Said'
  BY <1>1, DoneStays
<1>3. CASE \/ \E c \in Clients : Connection(c)
           \/ DeadlinePasses \/ OnRobotState \/ StateAges \/ UNCHANGED vars
  <2>1. UNCHANGED <<executor, resultTopic, pending, acks, executed>>
    BY <1>3 DEF Connection, DeadlinePasses, OnRobotState, StateAges, vars, robotVars
  <2>2. QED
    BY <2>1 DEF Heard, Said, AckIsTruthful
<1>4. ASSUME NEW c \in Clients, Recv(c)
      PROVE  Heard'
  <2>1. UNCHANGED <<executor, resultTopic, acks, executed>>
    BY <1>4 DEF Recv, robotVars
  <2>2. \A s \in DOMAIN pending' :
          pending'[s] # NotDone => s \in DOMAIN pending /\ pending'[s] = pending[s]
    BY <1>4 DEF Recv, Receive, Enqueue, RaiseEstop, StoreEstopSeq,
                StoreEstopValid, PublishEstop, Track
  <2>3. QED
    BY <2>1, <2>2 DEF Heard, Said, AckIsTruthful
<1>5. QED
  BY <1>1, <1>2, <1>3, <1>4, HeardWork, HeardOnCmdResult, HeardRobot DEF Next

\* An acknowledgement with a verdict carries a verdict the robot gave on that
\* number, for any number of consoles and whatever is aborted or comes late.
THEOREM VerdictsAreTruthful == Spec => []AckIsTruthful
<1>1. Init => TypeOK /\ UrgentMatches /\ Heard
  <2>1. DOMAIN <<>> = {}
    OBVIOUS
  <2>2. Init => Heard
    BY <2>1 DEF Init, Heard, AckIsTruthful
  <2>3. QED
    BY <2>2, TypeInit
<1>2. TypeOK /\ UrgentMatches /\ Heard /\ [Next]_vars => TypeOK' /\ UrgentMatches' /\ Heard'
  BY TypeStep, HeardStep
<1>3. Heard => AckIsTruthful
  BY DEF Heard
<1>4. QED
  BY <1>1, <1>2, <1>3, PTL DEF Spec

-----------------------------------------------------------------------------
(***************************************************************************)
(* With one console: the service                                           *)
(*                                                                         *)
(* A command goes through the stages inbox, batch, queue, the worker's     *)
(* hands and cmdTopic to the robot; an ESTOP goes from the batch straight  *)
(* to cmdTopic.  The invariant says, of any two stages, what may precede   *)
(* what, where every frame comes from, and what is not answered yet.       *)
(***************************************************************************)
Items(s) == {s[i] : i \in DOMAIN s}

MayPrecede(e, f) == e.seq # f.seq /\ (e.seq < f.seq \/ (IsEstop(e) /\ ~IsEstop(f)))
Before(S, T)     == \A e \in S, f \in T : MayPrecede(e, f)
Ordered(s)       == \A i, j \in DOMAIN s : i < j => MayPrecede(s[i], s[j])

\* What the worker holds, and what of it the robot was not sent yet.
InHand == IF worker.pc = "idle" THEN {} ELSE {Job}
Unsent == IF worker.pc \in {"check", "publish"} THEN {Job} ELSE {}
Msg    == IF executor.pc = "idle" THEN {} ELSE {executor.msg}

Incoming == Items(inbox[Console])
Sorted   == Items(batch[Console])
Waiting  == Items(queue)
Topic    == Items(cmdTopic)
Answered == Items(acks[Console])
Handled  == Said \cup Topic \cup InHand \cup Waiting \cup Sorted

\* In every stage, and between the stages, only an ESTOP overtakes.
InOrder ==
  /\ Ordered(executed) /\ Ordered(cmdTopic) /\ Ordered(queue)
  /\ Ordered(batch[Console])
  /\ \A i, j \in DOMAIN inbox[Console] :
       i < j => inbox[Console][i].seq < inbox[Console][j].seq
  /\ Before(Said, Topic \cup Unsent \cup Waiting \cup Sorted)
  /\ Before(Topic, Unsent \cup Waiting \cup Sorted)
  /\ Before(InHand, Waiting \cup Sorted)
  /\ Before(Waiting, Sorted)
  /\ \A e \in Handled, f \in Incoming : e.seq < f.seq

\* Everything anywhere is about a command the console has sent.
Known(e) == e.seq \in DOMAIN sent[Console] /\ sent[Console][e.seq].cmd = e.cmd

Origins ==
  /\ \A n \in DOMAIN sent[Console] : sent[Console][n].seq = n
  /\ \A e \in Handled \cup Incoming \cup Answered : Known(e)
  /\ \A e \in InHand \cup Waiting : ~IsEstop(e)
  /\ asyncSeq # 0 =>
       asyncSeq \in DOMAIN sent[Console] /\ IsEstop(sent[Console][asyncSeq])
  /\ \A e \in Msg : IsEstop(e)

\* A command that may still be answered has not been.
Open(e) == \A a \in Answered : a.seq # e.seq

Unanswered ==
  /\ \A i, j \in DOMAIN acks[Console] :
       i # j => acks[Console][i].seq # acks[Console][j].seq
  /\ \A e \in InHand \cup Waiting \cup Sorted \cup Incoming : Open(e)
  /\ \A e \in Topic \cup Items(resultTopic) \cup Msg : IsEstop(e) => Open(e)
  /\ \A i, j \in DOMAIN resultTopic : i # j => resultTopic[i].seq # resultTopic[j].seq
  /\ \A e \in Msg, f \in Items(resultTopic) : e.seq # f.seq

Inv == InOrder /\ Origins /\ Unanswered

-----------------------------------------------------------------------------
(***************************************************************************)
(* Stages                                                                  *)
(***************************************************************************)
LEMMA ItemsAppend ==
  ASSUME NEW S, NEW s \in Seq(S), NEW e \in S
  PROVE  /\ Items(Append(s, e)) = Items(s) \cup {e}
         /\ Ordered(s) /\ (\A f \in Items(s) : MayPrecede(f, e)) => Ordered(Append(s, e))
<1>1. /\ Len(s) \in Nat /\ DOMAIN s = 1..Len(s)
      /\ DOMAIN Append(s, e) = 1..Len(s) + 1
      /\ \A i \in 1..Len(s) : Append(s, e)[i] = s[i]
      /\ Append(s, e)[Len(s) + 1] = e
  BY AppendSeq, LenProperties
<1>2. \A i \in 1..Len(s) + 1 : i \in 1..Len(s) \/ i = Len(s) + 1
  BY <1>1
<1>3. Items(Append(s, e)) = Items(s) \cup {e}
  <2>1. 1..Len(s) \subseteq 1..Len(s) + 1 /\ Len(s) + 1 \in 1..Len(s) + 1
    BY <1>1
  <2>2. QED
    BY <1>1, <1>2, <2>1 DEF Items
<1>4. ASSUME Ordered(s), \A f \in Items(s) : MayPrecede(f, e)
      PROVE  Ordered(Append(s, e))
  <2>1. SUFFICES ASSUME NEW i \in 1..Len(s) + 1, NEW j \in 1..Len(s) + 1, i < j
                 PROVE  MayPrecede(Append(s, e)[i], Append(s, e)[j])
    BY <1>1 DEF Ordered
  <2>2. i \in 1..Len(s)
    BY <1>1, <2>1
  <2>3. CASE j \in 1..Len(s)
    BY <1>1, <1>4, <2>1, <2>2, <2>3 DEF Ordered
  <2>4. CASE j = Len(s) + 1
    BY <1>1, <1>4, <2>2, <2>4 DEF Items
  <2>5. QED
    BY <1>2, <2>3, <2>4
<1>5. QED
  BY <1>3, <1>4

\* Taking the head off a stage.
LEMMA ItemsTail ==
  ASSUME NEW S, NEW s \in Seq(S), s # <<>>
  PROVE  /\ Head(s) \in S /\ Tail(s) \in Seq(S)
         /\ Head(s) \in Items(s) /\ Items(Tail(s)) \subseteq Items(s)
         /\ Ordered(s) => /\ Ordered(Tail(s))
                          /\ \A f \in Items(Tail(s)) : MayPrecede(Head(s), f)
<1>1. /\ Head(s) = s[1] /\ Head(s) \in S /\ Tail(s) \in Seq(S)
      /\ Len(s) \in Nat \ {0} /\ DOMAIN s = 1..Len(s)
      /\ DOMAIN Tail(s) = 1..Len(s) - 1
      /\ \A i \in 1..Len(s) - 1 : Tail(s)[i] = s[i + 1]
  BY TailSeq
<1>2. /\ 1 \in 1..Len(s)
      /\ \A i \in 1..Len(s) - 1 : i + 1 \in 1..Len(s) /\ 1 < i + 1
      /\ \A i, j \in 1..Len(s) - 1 : i < j => i + 1 < j + 1
  BY <1>1
<1>3. Head(s) \in Items(s) /\ Items(Tail(s)) \subseteq Items(s)
  BY <1>1, <1>2 DEF Items
<1>4. ASSUME Ordered(s)
      PROVE  Ordered(Tail(s)) /\ \A f \in Items(Tail(s)) : MayPrecede(Head(s), f)
  <2>1. Ordered(Tail(s))
    BY <1>1, <1>2, <1>4 DEF Ordered
  <2>2. \A i \in 1..Len(s) - 1 : MayPrecede(Head(s), Tail(s)[i])
    BY <1>1, <1>2, <1>4 DEF Ordered
  <2>3. QED
    BY <1>1, <2>1, <2>2 DEF Items
<1>5. QED
  BY <1>1, <1>3, <1>4

\* A stage a step leaves alone.
LEMMA Same ==
  /\ UNCHANGED executed => Said' = Said
  /\ UNCHANGED cmdTopic => Topic' = Topic
  /\ UNCHANGED queue => Waiting' = Waiting
  /\ UNCHANGED batch => Sorted' = Sorted
  /\ UNCHANGED inbox => Incoming' = Incoming
  /\ UNCHANGED acks => Answered' = Answered
  /\ UNCHANGED worker => InHand' = InHand /\ Unsent' = Unsent
  /\ UNCHANGED executor => Msg' = Msg
  BY DEF Said, Topic, Waiting, Sorted, Incoming, Answered, InHand, Unsent, Msg,
         Items, Job

\* What was not sent yet is in the hands of the worker.
LEMMA UnsentInHand == Unsent \subseteq InHand
  BY DEF Unsent, InHand

-----------------------------------------------------------------------------
(***************************************************************************)
(* The console and its receive thread                                      *)
(***************************************************************************)
LEMMA ServiceConnection ==
  ASSUME TypeOK, TypeOK', AllTraced, Clients = {Console}, Inv, Connection(Console)
  PROVE  Inv'
<1> USE DEF Connection, consoleVars, recvVars, asyncVars, workerVars, robotVars
<1>0. UNCHANGED <<executed, cmdTopic, queue, batch, acks, worker, executor,
                  asyncSeq, resultTopic>>
  OBVIOUS
<1>1. /\ Said' = Said /\ Topic' = Topic /\ Waiting' = Waiting /\ Sorted' = Sorted
      /\ Answered' = Answered /\ InHand' = InHand /\ Unsent' = Unsent /\ Msg' = Msg
  BY <1>0, Same
<1>2. CASE Hello(Console)
  <2>1. UNCHANGED <<sent, inbox>> /\ Incoming' = Incoming
    BY <1>2, Same DEF Hello
  <2>2. QED
    BY <1>0, <1>1, <2>1 DEF Inv, InOrder, Ordered, Before, Handled, Origins, Known,
                            Unanswered, Open
<1>3. CASE Close(Console)
  <2>1. UNCHANGED sent /\ inbox'[Console] = <<>>
    BY <1>3 DEF Close, TypeOK
  <2>2. Incoming' = {}
    BY <2>1 DEF Incoming, Items
  <2>3. InOrder'
    BY <1>0, <1>1, <2>1, <2>2 DEF Inv, InOrder, Ordered, Before, Handled
  <2>4. Origins' /\ Unanswered'
    BY <1>0, <1>1, <2>1, <2>2 DEF Inv, Origins, Handled, Known, Unanswered, Open
  <2>5. QED
    BY <2>3, <2>4 DEF Inv
<1>4. ASSUME NEW cmd \in Kinds, Send(Console, cmd)
      PROVE  Inv'
  <2> DEFINE f == [cmd |-> cmd, seq |-> NextSeq(Console)]
  <2>1. sent[Console] \in Seq(Frames) /\ inbox[Console] \in Seq(Frames)
    BY <1>4 DEF TypeOK, Send
  <2>2. Len(sent[Console]) \in Nat /\ DOMAIN sent[Console] = 1..Len(sent[Console])
        /\ Len(inbox[Console]) \in Nat /\ DOMAIN inbox[Console] = 1..Len(inbox[Console])
    BY <2>1, LenProperties
  <2>3. f \in Frames /\ f.seq = Len(sent[Console]) + 1 /\ f.cmd = cmd
    BY <1>4, <2>2, MaxSeqAssumption DEF Send, NextSeq, Frames, Seqs
  <2>4. sent'[Console] = Append(sent[Console], f) /\ inbox'[Console] = Append(inbox[Console], f)
    BY <1>4, <2>1 DEF Send, TypeOK
  <2>5. /\ DOMAIN sent'[Console] = 1..Len(sent[Console]) + 1
        /\ \A i \in 1..Len(sent[Console]) : sent'[Console][i] = sent[Console][i]
        /\ sent'[Console][Len(sent[Console]) + 1] = f
    BY <2>1, <2>3, <2>4, AppendSeq
  <2>6. /\ DOMAIN inbox'[Console] = 1..Len(inbox[Console]) + 1
        /\ \A i \in 1..Len(inbox[Console]) : inbox'[Console][i] = inbox[Console][i]
        /\ inbox'[Console][Len(inbox[Console]) + 1] = f
    BY <2>1, <2>3, <2>4, AppendSeq
  <2>7. Incoming' = Incoming \cup {f}
    BY <2>1, <2>3, <2>4, ItemsAppend DEF Incoming
  <2>8. \A e : Known(e) => e.seq \in 1..Len(sent[Console]) /\ e.seq < f.seq
    BY <2>2, <2>3 DEF Known
  <2>9. \A e \in Handled \cup Incoming \cup Answered : e.seq < f.seq
    BY <2>8 DEF Inv, Origins
  <2>10. InOrder'
    <3>1. \A i, j \in DOMAIN inbox'[Console] :
            i < j => inbox'[Console][i].seq < inbox'[Console][j].seq
      <4>1. SUFFICES ASSUME NEW i \in 1..Len(inbox[Console]) + 1,
                            NEW j \in 1..Len(inbox[Console]) + 1, i < j
                     PROVE  inbox'[Console][i].seq < inbox'[Console][j].seq
        BY <2>6
      <4>2. i \in 1..Len(inbox[Console])
        BY <2>2, <4>1
      <4>3. CASE j \in 1..Len(inbox[Console])
        BY <2>2, <2>6, <4>1, <4>2, <4>3 DEF Inv, InOrder
      <4>4. CASE j = Len(inbox[Console]) + 1
        <5>1. inbox[Console][i] \in Incoming
          BY <2>2, <4>2 DEF Incoming, Items
        <5>2. QED
          BY <2>6, <2>9, <4>2, <4>4, <5>1
      <4>5. QED
        BY <2>2, <4>3, <4>4
    <3>2. \A e \in Handled', g \in Incoming' : e.seq < g.seq
      BY <1>1, <2>7, <2>9 DEF Inv, InOrder, Handled
    <3>3. QED
      BY <1>0, <1>1, <3>1, <3>2 DEF Inv, InOrder, Ordered, Before
  <2>11. Origins'
    <3>1. \A e : Known(e) => /\ e.seq \in DOMAIN sent'[Console]
                             /\ sent'[Console][e.seq].cmd = e.cmd
      BY <2>2, <2>5 DEF Known
    <3>2. f.seq \in DOMAIN sent'[Console] /\ sent'[Console][f.seq] = f
      BY <2>2, <2>3, <2>5
    <3>3. \A n \in DOMAIN sent'[Console] : sent'[Console][n].seq = n
      BY <2>2, <2>3, <2>5 DEF Inv, Origins
    <3>4. \A e \in (Handled \cup Incoming \cup Answered)' :
            e.seq \in DOMAIN sent'[Console] /\ sent'[Console][e.seq].cmd = e.cmd
      BY <1>1, <2>7, <3>1, <3>2 DEF Inv, Origins, Handled
    <3>5. asyncSeq' # 0 => /\ asyncSeq' \in DOMAIN sent'[Console]
                           /\ IsEstop(sent'[Console][asyncSeq'])
      BY <1>0, <2>2, <2>5 DEF Inv, Origins
    <3>6. QED
      BY <1>1, <3>3, <3>4, <3>5 DEF Inv, Origins, Known
  <2>12. Unanswered'
    <3>1. \A a \in Answered : a.seq # f.seq
      <4>1. \A a \in Answered : a.seq \in 1..Len(sent[Console])
        BY <2>8 DEF Inv, Origins
      <4>2. QED
        BY <2>2, <2>3, <4>1
    <3>2. QED
      BY <1>0, <1>1, <2>7, <3>1 DEF Inv, Unanswered, Open
  <2>13. QED
    BY <2>10, <2>11, <2>12 DEF Inv
<1>5. QED
  BY <1>2, <1>3, <1>4

\* One recv: the frames received come out sorted, the others stay.
LEMMA ServiceReceive ==
  ASSUME TypeOK, TypeOK', Clients = {Console}, Inv, Recv(Console), Receive(Console)
  PROVE  Inv'
<1> USE DEF Recv, workerVars, robotVars
<1>0. /\ UNCHANGED <<executed, cmdTopic, queue, acks, worker, executor, sent,
                     asyncSeq, resultTopic>>
      /\ Said' = Said /\ Topic' = Topic /\ Waiting' = Waiting
      /\ Answered' = Answered /\ InHand' = InHand /\ Unsent' = Unsent /\ Msg' = Msg
  BY Same DEF Receive
<1>1. inbox[Console] \in Seq(Frames)
  BY DEF TypeOK
<1>2. Len(inbox[Console]) \in Nat /\ DOMAIN inbox[Console] = 1..Len(inbox[Console])
  BY <1>1, LenProperties
<1>3. PICK n \in 1..Len(inbox[Console]) :
        \E order \in StableOrders(SubSeq(inbox[Console], 1, n)) :
          /\ batch' = [batch EXCEPT ![Console] =
                         [i \in DOMAIN SubSeq(inbox[Console], 1, n) |->
                            SubSeq(inbox[Console], 1, n)[order[i]]]]
          /\ inbox' = [inbox EXCEPT ![Console] = SubSeq(@, n + 1, Len(@))]
  BY DEF Receive
<1>4. PICK order \in StableOrders(SubSeq(inbox[Console], 1, n)) :
          /\ batch' = [batch EXCEPT ![Console] =
                         [i \in DOMAIN SubSeq(inbox[Console], 1, n) |->
                            SubSeq(inbox[Console], 1, n)[order[i]]]]
          /\ inbox' = [inbox EXCEPT ![Console] = SubSeq(@, n + 1, Len(@))]
  BY <1>3
<1> DEFINE frames == SubSeq(inbox[Console], 1, n)
           sorted == [i \in DOMAIN frames |-> frames[order[i]]]
           rest == SubSeq(inbox[Console], n + 1, Len(inbox[Console]))
<1>5. order \in [DOMAIN frames -> DOMAIN frames]
  BY <1>4 DEF StableOrders
<1>6. /\ DOMAIN frames = 1..n /\ \A i \in 1..n : frames[i] = inbox[Console][i]
      /\ DOMAIN sorted = 1..n
      /\ \A i \in 1..n : order[i] \in 1..n /\ sorted[i] = inbox[Console][order[i]]
  BY <1>1, <1>5, Reordered, SMTT(30)
<1>7. /\ DOMAIN rest = 1..Len(inbox[Console]) - n
      /\ \A i \in 1..Len(inbox[Console]) - n : rest[i] = inbox[Console][n + i]
  BY <1>1, Remainder
<1>8. batch'[Console] = sorted /\ inbox'[Console] = rest /\ batch[Console] = <<>>
  BY <1>4 DEF TypeOK, Receive
<1>9. \A i, j \in 1..n : i < j =>
        LET f == inbox[Console][order[i]]
            g == inbox[Console][order[j]]
        IN  \/ IsEstop(f) /\ ~IsEstop(g)
            \/ (IsEstop(f) <=> IsEstop(g)) /\ order[i] < order[j]
  BY <1>4, <1>6 DEF StableOrders
<1>10. /\ n \in Nat
       /\ \A i \in 1..n : i \in 1..Len(inbox[Console])
       /\ \A i \in 1..Len(inbox[Console]) - n :
            n + i \in 1..Len(inbox[Console]) /\ \A j \in 1..n : j < n + i
  BY <1>2
<1>11. \A i, j \in 1..Len(inbox[Console]) :
         i < j => inbox[Console][i].seq < inbox[Console][j].seq
  BY <1>2 DEF Inv, InOrder
<1>12. \A i \in 1..Len(inbox[Console]) : inbox[Console][i].seq \in Nat
  <2>1. \A i \in 1..Len(inbox[Console]) : inbox[Console][i] \in Frames
    BY <1>1, ElementOfSeq
  <2>2. \A f \in Frames : f.seq \in Nat
    BY MaxSeqAssumption DEF Frames, Seqs
  <2>3. QED
    BY <2>1, <2>2
<1> HIDE DEF frames, sorted, rest
<1>13. Sorted' \subseteq Incoming /\ Incoming' \subseteq Incoming /\ Sorted = {}
  <2>1. Sorted' \subseteq Incoming
    BY <1>2, <1>6, <1>8, <1>10 DEF Sorted, Incoming, Items
  <2>2. Incoming' \subseteq Incoming
    BY <1>2, <1>7, <1>8, <1>10 DEF Incoming, Items
  <2>3. QED
    BY <1>8, <2>1, <2>2 DEF Sorted, Items
<1>14. InOrder'
  <2>1. Ordered(sorted)
    <3>1. SUFFICES ASSUME NEW i \in 1..n, NEW j \in 1..n, i < j
                   PROVE  MayPrecede(sorted[i], sorted[j])
      BY <1>6 DEF Ordered
    <3> DEFINE f == inbox[Console][order[i]]
               g == inbox[Console][order[j]]
    <3>2. sorted[i] = f /\ sorted[j] = g
      BY <1>6
    <3>3. f.seq \in Nat /\ g.seq \in Nat /\ order[i] \in Nat /\ order[j] \in Nat
      BY <1>6, <1>10, <1>12
    <3>4. CASE order[i] < order[j]
      <4>1. f.seq < g.seq
        BY <1>6, <1>10, <1>11, <3>4
      <4>2. QED
        BY <3>2, <3>3, <4>1 DEF MayPrecede
    <3>5. CASE IsEstop(f) /\ ~IsEstop(g)
      <4>1. order[i] # order[j]
        BY <3>5
      <4>2. order[i] < order[j] \/ order[j] < order[i]
        BY <3>3, <4>1
      <4>3. f.seq < g.seq \/ g.seq < f.seq
        BY <1>6, <1>10, <1>11, <4>2
      <4>4. QED
        BY <3>2, <3>3, <3>5, <4>3 DEF MayPrecede
    <3>6. QED
      BY <1>9, <3>1, <3>4, <3>5
  <2>2. \A i, j \in DOMAIN rest : i < j => rest[i].seq < rest[j].seq
    <3>1. SUFFICES ASSUME NEW i \in 1..Len(inbox[Console]) - n,
                          NEW j \in 1..Len(inbox[Console]) - n, i < j
                   PROVE  rest[i].seq < rest[j].seq
      BY <1>7
    <3>2. n + i \in 1..Len(inbox[Console]) /\ n + j \in 1..Len(inbox[Console]) /\ n + i < n + j
      BY <1>2, <1>10, <3>1
    <3>3. QED
      BY <1>7, <1>11, <3>2
  <2>3. \A e \in Sorted', f \in Incoming' : e.seq < f.seq
    <3>1. \A e \in Sorted' : \E i \in 1..n : e = inbox[Console][order[i]]
      BY <1>6, <1>8 DEF Sorted, Items
    <3>2. \A f \in Incoming' : \E j \in 1..Len(inbox[Console]) - n : f = inbox[Console][n + j]
      BY <1>7, <1>8 DEF Incoming, Items
    <3>3. ASSUME NEW i \in 1..n, NEW j \in 1..Len(inbox[Console]) - n
          PROVE  inbox[Console][order[i]].seq < inbox[Console][n + j].seq
      <4>1. order[i] \in 1..Len(inbox[Console]) /\ n + j \in 1..Len(inbox[Console])
        BY <1>6, <1>10
      <4>2. order[i] < n + j
        BY <1>6, <1>10
      <4>3. QED
        BY <1>11, <4>1, <4>2
    <3>4. QED
      BY <3>1, <3>2, <3>3
  <2>4. \A e \in Handled, f \in Incoming : e.seq < f.seq
    BY DEF Inv, InOrder
  <2>5. \A e \in Handled', f \in Incoming' : e.seq < f.seq
    BY <1>0, <1>13, <2>3, <2>4 DEF Handled
  <2>6. \A e \in Handled, f \in Sorted' : MayPrecede(e, f)
    <3>1. \A e \in Handled : e.seq \in Nat
      BY MaxSeqAssumption, LenProperties, SMTT(30) DEF Inv, Origins, Known, TypeOK
    <3>2. \A f \in Sorted' : f.seq \in Nat
      BY <1>6, <1>8, <1>10, <1>12 DEF Sorted, Items
    <3>3. QED
      BY <1>13, <2>4, <3>1, <3>2 DEF MayPrecede
  <2>7. Ordered(executed') /\ Ordered(cmdTopic') /\ Ordered(queue') /\ Ordered(batch'[Console])
    BY <1>0, <1>8, <2>1 DEF Inv, InOrder
  <2>8. QED
    BY <1>0, <1>8, <1>13, <2>2, <2>5, <2>6, <2>7, UnsentInHand
       DEF Inv, InOrder, Ordered, Before, Handled
<1>15. Origins'
  BY <1>0, <1>13 DEF Inv, Origins, Handled, Known
<1>16. Unanswered'
  BY <1>0, <1>13 DEF Inv, Unanswered, Open
<1>17. QED
  BY <1>14, <1>15, <1>16 DEF Inv

\* The frame at the head of the batch, and the batch without it.
LEMMA BatchHead ==
  ASSUME TypeOK, Clients = {Console}, Inv, batch[Console] # <<>>
  PROVE  /\ Current(Console) \in Frames /\ Current(Console) \in Sorted
         /\ Items(Tail(batch[Console])) \subseteq Sorted
         /\ Ordered(Tail(batch[Console]))
         /\ \A f \in Items(Tail(batch[Console])) : MayPrecede(Current(Console), f)
         /\ FrameDone(Console) => batch'[Console] = Tail(batch[Console])
<1>1. batch[Console] \in Seq(Frames) /\ Ordered(batch[Console])
  BY DEF TypeOK, Inv, InOrder
<1>2. QED
  BY <1>1, ItemsTail DEF Current, Sorted, FrameDone, TypeOK

\* A frame keeps its place whatever else it carries.
LEMMA SamePlace ==
  ASSUME NEW x, NEW y, x.seq = y.seq, x.cmd = y.cmd
  PROVE  /\ \A e : MayPrecede(e, x) <=> MayPrecede(e, y)
         /\ \A e : MayPrecede(x, e) <=> MayPrecede(y, e)
         /\ Known(x) <=> Known(y)
         /\ IsEstop(x) <=> IsEstop(y)
         /\ Open(x) <=> Open(y)
  BY DEF MayPrecede, Known, IsEstop, Open

\* enqueue_cmd: a frame goes from the batch to the queue.
LEMMA ServiceEnqueue ==
  ASSUME TypeOK, TypeOK', Clients = {Console}, Inv, Recv(Console), Enqueue(Console)
  PROVE  Inv'
<1> USE DEF Recv, workerVars, robotVars
<1> DEFINE x == [client |-> Console, cmd |-> Current(Console).cmd,
                 seq |-> Current(Console).seq]
<1>1. /\ UNCHANGED <<executed, cmdTopic, inbox, acks, worker, executor, sent,
                     asyncSeq, resultTopic>>
      /\ Said' = Said /\ Topic' = Topic /\ Incoming' = Incoming
      /\ Answered' = Answered /\ InHand' = InHand /\ Unsent' = Unsent /\ Msg' = Msg
  BY Same DEF Enqueue
<1>2. /\ Current(Console) \in Frames /\ Current(Console) \in Sorted
      /\ Sorted' \subseteq Sorted /\ Ordered(batch'[Console])
      /\ \A f \in Sorted' : MayPrecede(Current(Console), f)
  BY BatchHead DEF Enqueue, Sorted
<1>3. x \in Jobs /\ x.seq = Current(Console).seq /\ x.cmd = Current(Console).cmd
      /\ ~IsEstop(x)
  BY <1>2 DEF Jobs, Frames, Enqueue, IsEstop
<1>4. /\ \A e : MayPrecede(e, x) <=> MayPrecede(e, Current(Console))
      /\ \A e : MayPrecede(x, e) <=> MayPrecede(Current(Console), e)
      /\ Known(x) <=> Known(Current(Console))
      /\ Open(x) <=> Open(Current(Console))
  BY <1>3, SamePlace
<1>5. queue \in Seq(Jobs) /\ queue' = Append(queue, x)
  BY DEF TypeOK, Enqueue
<1>6. /\ Waiting' = Waiting \cup {x}
      /\ (\A f \in Waiting : MayPrecede(f, x)) => Ordered(queue')
  BY <1>3, <1>5, ItemsAppend DEF Waiting, Inv, InOrder
<1> HIDE DEF x
<1>7. InOrder'
  <2>1. \A e \in Said \cup Topic \cup InHand \cup Waiting : MayPrecede(e, x)
    BY <1>2, <1>4 DEF Inv, InOrder, Before
  <2>2. \A f \in Sorted' : MayPrecede(x, f)
    BY <1>2, <1>4
  <2>3. \A f \in Incoming' : x.seq < f.seq
    BY <1>1, <1>2, <1>3 DEF Inv, InOrder, Handled
  <2>4. Before(Said, Topic \cup Unsent \cup Waiting \cup Sorted)'
    BY <1>1, <1>2, <1>6, <2>1 DEF Inv, InOrder, Before
  <2>5. Before(Topic, Unsent \cup Waiting \cup Sorted)'
    BY <1>1, <1>2, <1>6, <2>1 DEF Inv, InOrder, Before
  <2>6. Before(InHand, Waiting \cup Sorted)' /\ Before(Waiting, Sorted)'
    BY <1>1, <1>2, <1>6, <2>1, <2>2 DEF Inv, InOrder, Before
  <2>7. \A e \in Handled', f \in Incoming' : e.seq < f.seq
    BY <1>1, <1>2, <1>6, <2>3 DEF Inv, InOrder, Handled
  <2>8. Ordered(executed') /\ Ordered(cmdTopic') /\ Ordered(queue') /\ Ordered(batch'[Console])
    BY <1>1, <1>2, <1>6, <2>1 DEF Inv, InOrder
  <2>9. QED
    BY <1>1, <2>4, <2>5, <2>6, <2>7, <2>8 DEF Inv, InOrder, Ordered
<1>8. Origins'
  BY <1>1, <1>2, <1>3, <1>4, <1>6 DEF Inv, Origins, Handled, Known
<1>9. Unanswered'
  BY <1>1, <1>2, <1>4, <1>6 DEF Inv, Unanswered, Open
<1>10. QED
  BY <1>7, <1>8, <1>9 DEF Inv

\* The atomics of urgent_estop: the number stored is that of an ESTOP.
LEMMA ServiceAtomics ==
  ASSUME TypeOK, UrgentMatches, Clients = {Console}, Inv, Recv(Console),
         \/ RaiseEstop(Console) \/ StoreEstopSeq(Console) \/ StoreEstopValid(Console)
  PROVE  Inv'
<1>1. /\ UNCHANGED <<executed, cmdTopic, queue, batch, inbox, acks, worker, executor,
                     sent, resultTopic>>
      /\ Said' = Said /\ Topic' = Topic /\ Incoming' = Incoming
      /\ Waiting' = Waiting /\ Sorted' = Sorted
      /\ Answered' = Answered /\ InHand' = InHand /\ Unsent' = Unsent /\ Msg' = Msg
  BY Same DEF Recv, workerVars, robotVars, RaiseEstop, StoreEstopSeq, StoreEstopValid
<1>2. asyncSeq' # 0 =>
        asyncSeq' \in DOMAIN sent[Console] /\ IsEstop(sent[Console][asyncSeq'])
  <2>1. CASE StoreEstopSeq(Console)
    <3>1. /\ asyncSeq' = Current(Console).seq /\ IsEstop(Current(Console))
          /\ batch[Console] # <<>>
      BY <2>1 DEF StoreEstopSeq, UrgentMatches
    <3>2. Known(Current(Console))
      BY <3>1, BatchHead DEF Inv, Origins, Handled
    <3>3. QED
      BY <3>1, <3>2 DEF Known, IsEstop
  <2>2. CASE UNCHANGED asyncSeq
    BY <2>2 DEF Inv, Origins
  <2>3. QED
    BY <2>1, <2>2 DEF RaiseEstop, StoreEstopValid
<1>3. InOrder'
  BY <1>1 DEF Inv, InOrder, Ordered, Before, Handled
<1>4. Origins'
  BY <1>1, <1>2 DEF Inv, Origins, Handled, Known
<1>5. Unanswered'
  BY <1>1 DEF Inv, Unanswered, Open
<1>6. QED
  BY <1>3, <1>4, <1>5 DEF Inv

\* An ESTOP overtakes what the worker holds and what waits in the queue.
LEMMA ServicePublishEstop ==
  ASSUME TypeOK, TypeOK', UrgentMatches, Clients = {Console}, Inv, Recv(Console),
         PublishEstop(Console)
  PROVE  Inv'
<1> USE DEF Recv, workerVars, robotVars
<1> DEFINE x == [cmd |-> Current(Console).cmd, seq |-> Current(Console).seq]
<1>1. /\ UNCHANGED <<executed, queue, inbox, acks, worker, executor, sent,
                     asyncSeq, resultTopic>>
      /\ Said' = Said /\ Waiting' = Waiting /\ Incoming' = Incoming
      /\ Answered' = Answered /\ InHand' = InHand /\ Unsent' = Unsent /\ Msg' = Msg
  BY Same DEF PublishEstop
<1>2. batch[Console] # <<>> /\ IsEstop(Current(Console))
  BY DEF PublishEstop, UrgentMatches
<1>3. /\ Current(Console) \in Frames /\ Current(Console) \in Sorted
      /\ Sorted' \subseteq Sorted /\ Ordered(batch'[Console])
      /\ \A f \in Sorted' : MayPrecede(Current(Console), f)
  BY <1>2, BatchHead DEF PublishEstop, Sorted
<1>4. x \in Frames /\ x.seq = Current(Console).seq /\ x.cmd = Current(Console).cmd
      /\ IsEstop(x)
  BY <1>2, <1>3 DEF Frames, IsEstop
<1>5. /\ \A e : MayPrecede(e, x) <=> MayPrecede(e, Current(Console))
      /\ \A e : MayPrecede(x, e) <=> MayPrecede(Current(Console), e)
      /\ Known(x) <=> Known(Current(Console))
      /\ Open(x) <=> Open(Current(Console))
  BY <1>4, SamePlace
<1>6. cmdTopic \in Seq(Frames) /\ cmdTopic' = Append(cmdTopic, x)
  BY DEF TypeOK, PublishEstop, PublishCmd
<1>7. /\ Topic' = Topic \cup {x}
      /\ (\A f \in Topic : MayPrecede(f, x)) => Ordered(cmdTopic')
  BY <1>4, <1>6, ItemsAppend DEF Topic, Inv, InOrder
<1> HIDE DEF x
<1>8. InOrder'
  <2>1. \A e \in Said \cup Topic \cup InHand \cup Waiting : MayPrecede(e, x)
    BY <1>3, <1>5 DEF Inv, InOrder, Before
  <2>2. \A f \in InHand \cup Waiting : MayPrecede(x, f)
    <3>1. \A f \in InHand \cup Waiting : f.seq # x.seq /\ ~IsEstop(f)
      BY <2>1 DEF MayPrecede, Inv, Origins
    <3>2. QED
      BY <1>4, <3>1 DEF MayPrecede
  <2>3. \A f \in Sorted' : MayPrecede(x, f)
    BY <1>3, <1>5
  <2>4. \A f \in Incoming' : x.seq < f.seq
    BY <1>1, <1>3, <1>4 DEF Inv, InOrder, Handled
  <2>5. Before(Said, Topic \cup Unsent \cup Waiting \cup Sorted)'
    BY <1>1, <1>3, <1>7, <2>1 DEF Inv, InOrder, Before
  <2>6. Before(Topic, Unsent \cup Waiting \cup Sorted)'
    BY <1>1, <1>3, <1>7, <2>2, <2>3, UnsentInHand DEF Inv, InOrder, Before
  <2>7. Before(InHand, Waiting \cup Sorted)' /\ Before(Waiting, Sorted)'
    BY <1>1, <1>3 DEF Inv, InOrder, Before
  <2>8. \A e \in Handled', f \in Incoming' : e.seq < f.seq
    BY <1>1, <1>3, <1>7, <2>4 DEF Inv, InOrder, Handled
  <2>9. Ordered(executed') /\ Ordered(cmdTopic') /\ Ordered(queue') /\ Ordered(batch'[Console])
    BY <1>1, <1>3, <1>7, <2>1 DEF Inv, InOrder
  <2>10. QED
    BY <1>1, <2>5, <2>6, <2>7, <2>8, <2>9 DEF Inv, InOrder, Ordered
<1>9. Origins'
  BY <1>1, <1>3, <1>5, <1>7 DEF Inv, Origins, Handled, Known
<1>10. Unanswered'
  BY <1>1, <1>3, <1>5, <1>7 DEF Inv, Unanswered, Open
<1>11. QED
  BY <1>8, <1>9, <1>10 DEF Inv

-----------------------------------------------------------------------------
(***************************************************************************)
(* The command worker                                                      *)
(***************************************************************************)
\* Results on their way are the robot's.
LEMMA ResultsSaid ==
  ASSUME Heard
  PROVE  Items(resultTopic) \subseteq Said /\ Msg \subseteq Said
  BY DEF Heard, Items, Msg

\* A frame sent to the console, or to nobody when it is gone.
LEMMA AcksAfter ==
  ASSUME TypeOK, NEW ack \in Acks,
         acks'[Console] = acks[Console] \/ acks'[Console] = Append(acks[Console], ack),
         Console \in Clients, Open(ack), Unanswered
  PROVE  /\ Answered' = Answered \/ Answered' = Answered \cup {ack}
         /\ \A i, j \in DOMAIN acks'[Console] :
              i # j => acks'[Console][i].seq # acks'[Console][j].seq
<1>1. acks[Console] \in Seq(Acks)
  BY DEF TypeOK
<1>2. CASE acks'[Console] = acks[Console]
  BY <1>2 DEF Answered, Items, Unanswered
<1>3. CASE acks'[Console] = Append(acks[Console], ack)
  <2>1. Answered' = Answered \cup {ack}
    BY <1>1, <1>3, ItemsAppend DEF Answered
  <2>2. /\ Len(acks[Console]) \in Nat /\ DOMAIN acks[Console] = 1..Len(acks[Console])
        /\ DOMAIN acks'[Console] = 1..Len(acks[Console]) + 1
        /\ \A i \in 1..Len(acks[Console]) : acks'[Console][i] = acks[Console][i]
        /\ acks'[Console][Len(acks[Console]) + 1] = ack
    BY <1>1, <1>3, AppendSeq, LenProperties
  <2>3. \A i \in 1..Len(acks[Console]) : acks[Console][i].seq # ack.seq
    BY <2>2 DEF Open, Answered, Items
  <2>4. \A i \in 1..Len(acks[Console]) + 1 :
          i \in 1..Len(acks[Console]) \/ i = Len(acks[Console]) + 1
    BY <2>2
  <2>5. \A i, j \in 1..Len(acks[Console]) :
          i # j => acks[Console][i].seq # acks[Console][j].seq
    BY <2>2 DEF Unanswered
  <2>6. QED
    BY <2>1, <2>2, <2>3, <2>4, <2>5
<1>4. QED
  BY <1>2, <1>3

\* The worker answers the command it holds or has just taken, and drops it.
LEMMA ServiceAckJob ==
  ASSUME TypeOK, TypeOK', Heard, Clients = {Console}, Inv,
         UNCHANGED <<executed, cmdTopic, batch, inbox, executor, sent, asyncSeq,
                     resultTopic>>,
         NEW job \in Jobs, NEW ack \in Acks, AckJob(job, ack),
         ack.seq = job.seq, ack.cmd = job.cmd, job \in Waiting \cup InHand,
         Waiting' \subseteq Waiting, Ordered(queue'),
         \A e \in Waiting' \cup Sorted : e.seq # job.seq
  PROVE  Inv'
<1>1. /\ Said' = Said /\ Topic' = Topic /\ Sorted' = Sorted /\ Incoming' = Incoming
      /\ Msg' = Msg
  BY Same
<1>2. InHand' = {} /\ Unsent' = {}
  BY DEF AckJob, InHand, Unsent
<1>3. Known(job) /\ Open(job) /\ ~IsEstop(job)
  BY DEF Inv, Origins, Handled, Unanswered
<1>4. Known(ack) /\ Open(ack) /\ ~IsEstop(ack)
  BY <1>3, SamePlace
<1>5. /\ Answered' = Answered \/ Answered' = Answered \cup {ack}
      /\ \A i, j \in DOMAIN acks'[Console] :
           i # j => acks'[Console][i].seq # acks'[Console][j].seq
  <2>1. acks'[Console] = acks[Console] \/ acks'[Console] = Append(acks[Console], ack)
    BY SendAckSends
  <2>2. Unanswered
    BY DEF Inv
  <2>3. QED
    BY <1>4, <2>1, <2>2, AcksAfter
<1>6. InOrder'
  BY <1>1, <1>2 DEF Inv, InOrder, Ordered, Before, Handled
<1>7. Origins'
  BY <1>1, <1>2, <1>4, <1>5 DEF Inv, Origins, Handled, Known
<1>8. Unanswered'
  <2>1. \A e \in Incoming : e.seq # job.seq
    <3>1. job \in Handled /\ \A e \in Incoming : job.seq < e.seq
      BY DEF Inv, InOrder, Handled
    <3>2. job.seq \in Nat
      BY MaxSeqAssumption DEF Jobs, Seqs
    <3>3. QED
      BY <3>1, <3>2
  <2>2. \A e \in Topic \cup Items(resultTopic) \cup Msg :
          IsEstop(e) => e.seq # job.seq
    <3>1. \A e \in Topic \cup Items(resultTopic) \cup Msg : Known(e)
      BY ResultsSaid DEF Inv, Origins, Handled
    <3>2. QED
      BY <1>3, <3>1 DEF Known, IsEstop
  <2>3. \A e \in InHand' \cup Waiting' \cup Sorted' \cup Incoming' : Open(e)'
    BY <1>1, <1>2, <1>5, <2>1 DEF Inv, Unanswered, Open
  <2>4. \A e \in Topic' \cup Items(resultTopic') \cup Msg' : IsEstop(e) => Open(e)'
    BY <1>1, <1>5, <2>2 DEF Inv, Unanswered, Open
  <2>5. QED
    BY <1>1, <1>5, <2>3, <2>4 DEF Inv, Unanswered
<1>9. QED
  BY <1>6, <1>7, <1>8 DEF Inv

\* cmd_worker_loop takes a command from the queue.
LEMMA ServiceTakeJob ==
  ASSUME TypeOK, TypeOK', Heard, Clients = {Console}, Inv, Work, TakeJob
  PROVE  Inv'
<1> USE DEF Work, consoleVars, recvVars, asyncVars, robotVars
<1> DEFINE job == Head(queue)
<1>1. /\ UNCHANGED <<executed, cmdTopic, batch, inbox, executor, sent, asyncSeq,
                     resultTopic>>
      /\ Said' = Said /\ Topic' = Topic /\ Sorted' = Sorted /\ Incoming' = Incoming
      /\ Msg' = Msg /\ InHand = {}
  BY Same DEF TakeJob, InHand
<1>2. /\ job \in Jobs /\ job \in Waiting /\ Waiting' \subseteq Waiting
      /\ Ordered(queue') /\ \A f \in Waiting' : MayPrecede(job, f)
  <2>1. queue \in Seq(Jobs) /\ queue # <<>> /\ queue' = Tail(queue) /\ Ordered(queue)
    BY DEF TakeJob, TypeOK, Inv, InOrder
  <2>2. QED
    BY <2>1, ItemsTail DEF Waiting
<1> HIDE DEF job
<1>3. \A e \in Waiting' \cup Sorted : MayPrecede(job, e) /\ e.seq # job.seq
  BY <1>2 DEF Inv, InOrder, Before, MayPrecede
<1>4. CASE AckJob(job, Answer(job, "proto_error"))
  <2>1. Answer(job, "proto_error") \in Acks
    BY <1>2 DEF Answer, Jobs, Acks, Reasons
  <2>2. /\ Answer(job, "proto_error").seq = job.seq
        /\ Answer(job, "proto_error").cmd = job.cmd
    BY DEF Answer
  <2>3. QED
    BY <1>1, <1>2, <1>3, <1>4, <2>1, <2>2, ServiceAckJob
<1>5. CASE /\ UNCHANGED acks
           /\ UNCHANGED worker \/ worker' = [pc |-> "check", job |-> job]
  <2>1. Answered' = Answered /\ InHand' \subseteq {job} /\ Unsent' \subseteq {job}
    BY <1>1, <1>5, Same DEF InHand, Unsent, Job
  <2>2. InOrder'
    <3>1. Before(Said, Topic \cup Unsent \cup Waiting \cup Sorted)'
      BY <1>1, <1>2, <2>1 DEF Inv, InOrder, Before
    <3>2. Before(Topic, Unsent \cup Waiting \cup Sorted)'
      BY <1>1, <1>2, <2>1 DEF Inv, InOrder, Before
    <3>3. Before(InHand, Waiting \cup Sorted)' /\ Before(Waiting, Sorted)'
      BY <1>1, <1>2, <1>3, <2>1 DEF Inv, InOrder, Before
    <3>4. \A e \in Handled', f \in Incoming' : e.seq < f.seq
      BY <1>1, <1>2, <2>1 DEF Inv, InOrder, Handled
    <3>5. QED
      BY <1>1, <1>2, <3>1, <3>2, <3>3, <3>4 DEF Inv, InOrder, Ordered
  <2>3. Origins'
    BY <1>1, <1>2, <2>1 DEF Inv, Origins, Handled, Known
  <2>4. Unanswered'
    BY <1>1, <1>2, <1>5, <2>1 DEF Inv, Unanswered, Open
  <2>5. QED
    BY <2>2, <2>3, <2>4 DEF Inv
<1>6. QED
  BY <1>4, <1>5 DEF TakeJob, job

\* The other steps of the worker.
LEMMA ServiceWork ==
  ASSUME TypeOK, TypeOK', Heard, Clients = {Console}, Inv, Work
  PROVE  Inv'
<1> USE DEF Work, consoleVars, recvVars, asyncVars, robotVars
<1>1. UNCHANGED <<executed, batch, inbox, executor, sent, asyncSeq, resultTopic>>
  OBVIOUS
<1>2. worker.pc # "idle" => Job \in Jobs /\ Job \in InHand
  BY DEF TypeOK, Job, InHand
<1>3. \A e \in Waiting \cup Sorted : worker.pc # "idle" => e.seq # Job.seq
  BY <1>2 DEF Inv, InOrder, Before, MayPrecede
<1>4. ASSUME NEW ack \in Acks, AckJob(Job, ack), ack.seq = Job.seq, ack.cmd = Job.cmd,
             worker.pc # "idle", UNCHANGED <<queue, cmdTopic>>
      PROVE  Inv'
  <2>1. Waiting' = Waiting /\ Ordered(queue')
    BY <1>4, Same DEF Inv, InOrder
  <2>2. QED
    BY <1>1, <1>2, <1>3, <1>4, <2>1, ServiceAckJob
<1>5. ASSUME NEW r \in Reasons, AckJob(Job, Answer(Job, r)), worker.pc # "idle",
             UNCHANGED <<queue, cmdTopic>>
      PROVE  Inv'
  <2>1. /\ Answer(Job, r) \in Acks /\ Answer(Job, r).seq = Job.seq
        /\ Answer(Job, r).cmd = Job.cmd
    BY <1>2, <1>5 DEF Answer, Jobs, Acks
  <2>2. QED
    BY <1>4, <1>5, <2>1
<1>6. ASSUME UNCHANGED <<queue, cmdTopic, acks>>, InHand' = InHand, Unsent' \subseteq Unsent
      PROVE  Inv'
  <2>1. /\ Said' = Said /\ Topic' = Topic /\ Sorted' = Sorted /\ Incoming' = Incoming
        /\ Waiting' = Waiting /\ Answered' = Answered /\ Msg' = Msg
    BY <1>1, <1>6, Same
  <2>2. InOrder'
    BY <1>1, <1>6, <2>1 DEF Inv, InOrder, Ordered, Before, Handled
  <2>3. Origins' /\ Unanswered'
    BY <1>1, <1>6, <2>1 DEF Inv, Origins, Handled, Known, Unanswered, Open
  <2>4. QED
    BY <2>2, <2>3 DEF Inv
<1>7. CASE CheckCommand
  <2>1. CASE worker' = [worker EXCEPT !.pc = "publish"] /\ UNCHANGED acks
    <3>1. InHand' = InHand /\ Unsent' = Unsent
      BY <1>7, <2>1 DEF CheckCommand, InHand, Unsent, Job, TypeOK
    <3>2. QED
      BY <1>6, <1>7, <2>1, <3>1 DEF CheckCommand
  <2>2. QED
    BY <1>5, <1>7, <2>1 DEF CheckCommand, Reasons
<1>8. CASE WaitExpired \/ WaitAborted
  BY <1>5, <1>8 DEF WaitExpired, WaitAborted, Reasons
<1>9. CASE WaitContinues \/ LookAgain
  <2>1. InHand' = InHand /\ Unsent' = Unsent
    BY <1>9 DEF WaitContinues, LookAgain, InHand, Unsent, Job, TypeOK
  <2>2. QED
    BY <1>6, <1>9, <2>1 DEF WaitContinues, LookAgain
<1>10. CASE LookDone
  <2> DEFINE ack == [pending[Job.seq] EXCEPT !.seq = Job.seq]
  <2>1. /\ pending[Job.seq] \in Results /\ pending[Job.seq] \in Said
        /\ pending[Job.seq].seq = Job.seq /\ AckJob(Job, ack)
        /\ worker.pc # "idle" /\ UNCHANGED <<queue, cmdTopic>>
    BY <1>10 DEF LookDone, Arrived, Heard, TypeOK
  <2>2. ack \in Acks /\ ack.seq = Job.seq /\ ack.cmd = pending[Job.seq].cmd
    BY <1>2, <2>1 DEF Results, Acks, Jobs
  <2>3. Known(Job) /\ Known(pending[Job.seq])
    BY <1>2, <2>1 DEF Inv, Origins, Handled
  <2>4. ack.cmd = Job.cmd
    BY <2>1, <2>2, <2>3 DEF Known
  <2> HIDE DEF ack
  <2>5. QED
    BY <1>4, <2>1, <2>2, <2>4
<1>11. CASE ForwardCommand
  <2> DEFINE x == [cmd |-> Job.cmd, seq |-> Job.seq]
  <2>1. /\ Job \in Jobs /\ Job \in InHand /\ Job \in Unsent
        /\ UNCHANGED <<queue, acks>> /\ cmdTopic' = Append(cmdTopic, x)
    BY <1>2, <1>11 DEF ForwardCommand, PublishCmd, Unsent
  <2>2. x \in Frames /\ x.seq = Job.seq /\ x.cmd = Job.cmd
    BY <2>1 DEF Jobs, Frames
  <2>3. /\ Said' = Said /\ Sorted' = Sorted /\ Incoming' = Incoming
        /\ Waiting' = Waiting /\ Answered' = Answered /\ Msg' = Msg
    BY <1>1, <2>1, Same
  <2>4. InHand' = InHand /\ Unsent' = {}
    BY <1>11 DEF ForwardCommand, InHand, Unsent, Job, TypeOK
  <2>5. /\ Topic' = Topic \cup {x}
        /\ (\A f \in Topic : MayPrecede(f, x)) => Ordered(cmdTopic')
    BY <2>1, <2>2, ItemsAppend DEF Topic, Inv, InOrder, TypeOK
  <2> HIDE DEF x
  <2>6. /\ \A e : MayPrecede(e, x) <=> MayPrecede(e, Job)
        /\ \A e : MayPrecede(x, e) <=> MayPrecede(Job, e)
        /\ Known(x) <=> Known(Job)
        /\ IsEstop(x) <=> IsEstop(Job)
    BY <2>2, SamePlace
  <2>7. InOrder'
    <3>1. \A e \in Said \cup Topic : MayPrecede(e, x)
      BY <2>1, <2>6 DEF Inv, InOrder, Before
    <3>2. \A f \in Waiting \cup Sorted : MayPrecede(x, f)
      BY <2>1, <2>6 DEF Inv, InOrder, Before
    <3>3. \A f \in Incoming : x.seq < f.seq
      BY <2>1, <2>2 DEF Inv, InOrder, Handled
    <3>4. Before(Said, Topic \cup Unsent \cup Waiting \cup Sorted)'
      BY <2>3, <2>4, <2>5, <3>1 DEF Inv, InOrder, Before
    <3>5. Before(Topic, Unsent \cup Waiting \cup Sorted)'
      BY <2>3, <2>4, <2>5, <3>2 DEF Inv, InOrder, Before
    <3>6. Before(InHand, Waiting \cup Sorted)' /\ Before(Waiting, Sorted)'
      BY <2>3, <2>4 DEF Inv, InOrder, Before
    <3>7. \A e \in Handled', f \in Incoming' : e.seq < f.seq
      BY <2>3, <2>4, <2>5, <3>3 DEF Inv, InOrder, Handled
    <3>8. Ordered(executed') /\ Ordered(cmdTopic') /\ Ordered(queue') /\ Ordered(batch'[Console])
      BY <1>1, <2>1, <2>5, <3>1 DEF Inv, InOrder
    <3>9. QED
      BY <1>1, <3>4, <3>5, <3>6, <3>7, <3>8 DEF Inv, InOrder, Ordered
  <2>8. Origins'
    BY <1>1, <2>1, <2>3, <2>4, <2>5, <2>6 DEF Inv, Origins, Handled, Known
  <2>9. Unanswered'
    <3>1. ~IsEstop(x)
      BY <2>1, <2>6 DEF Inv, Origins
    <3>2. QED
      BY <1>1, <2>1, <2>3, <2>4, <2>5, <3>1 DEF Inv, Unanswered, Open
  <2>10. QED
    BY <2>7, <2>8, <2>9 DEF Inv
<1>12. QED
  BY <1>7, <1>8, <1>9, <1>10, <1>11, ServiceTakeJob

-----------------------------------------------------------------------------
(***************************************************************************)
(* The executor and the robot                                              *)
(***************************************************************************)
LEMMA NumbersTail ==
  ASSUME NEW S, NEW s \in Seq(S), s # <<>>,
         \A i, j \in DOMAIN s : i # j => s[i].seq # s[j].seq
  PROVE  /\ \A i, j \in DOMAIN Tail(s) : i # j => Tail(s)[i].seq # Tail(s)[j].seq
         /\ \A f \in Items(Tail(s)) : Head(s).seq # f.seq
<1>1. /\ Head(s) = s[1] /\ Len(s) \in Nat \ {0} /\ DOMAIN s = 1..Len(s)
      /\ DOMAIN Tail(s) = 1..Len(s) - 1
      /\ \A i \in 1..Len(s) - 1 : Tail(s)[i] = s[i + 1]
  BY TailSeq
<1>2. /\ 1 \in 1..Len(s)
      /\ \A i \in 1..Len(s) - 1 : i + 1 \in 1..Len(s) /\ 1 # i + 1
      /\ \A i, j \in 1..Len(s) - 1 : i # j => i + 1 # j + 1
  BY <1>1
<1>3. \A i \in 1..Len(s) - 1 : Head(s).seq # Tail(s)[i].seq
  BY <1>1, <1>2
<1>4. QED
  BY <1>1, <1>2, <1>3 DEF Items

\* One more result, of a number not seen yet.
LEMMA NumbersAppend ==
  ASSUME NEW S, NEW s \in Seq(S), NEW e \in S,
         \A i, j \in DOMAIN s : i # j => s[i].seq # s[j].seq,
         \A f \in Items(s) : f.seq # e.seq
  PROVE  \A i, j \in DOMAIN Append(s, e) :
           i # j => Append(s, e)[i].seq # Append(s, e)[j].seq
<1>1. /\ Len(s) \in Nat /\ DOMAIN s = 1..Len(s)
      /\ DOMAIN Append(s, e) = 1..Len(s) + 1
      /\ \A i \in 1..Len(s) : Append(s, e)[i] = s[i]
      /\ Append(s, e)[Len(s) + 1] = e
  BY AppendSeq, LenProperties
<1>2. \A i \in 1..Len(s) + 1 : i \in 1..Len(s) \/ i = Len(s) + 1
  BY <1>1
<1>3. \A i \in 1..Len(s) : s[i].seq # e.seq
  BY <1>1 DEF Items
<1>4. QED
  BY <1>1, <1>2, <1>3

\* The executor touches neither the stages nor what was executed.
LEMMA ServiceOnCmdResult ==
  ASSUME TypeOK, TypeOK', Heard, Clients = {Console}, Inv, OnCmdResult
  PROVE  Inv'
<1> USE DEF OnCmdResult, consoleVars, recvVars, workerVars, robotVars
<1>1. /\ UNCHANGED <<executed, cmdTopic, queue, batch, inbox, worker, sent, asyncSeq>>
      /\ Said' = Said /\ Topic' = Topic /\ Sorted' = Sorted /\ Incoming' = Incoming
      /\ Waiting' = Waiting /\ InHand' = InHand /\ Unsent' = Unsent
  BY Same
<1>2. InOrder'
  BY <1>1 DEF Inv, InOrder, Ordered, Before, Handled
<1>3. ASSUME resultTopic # <<>>
      PROVE  /\ Message \in Results /\ Message \in Items(resultTopic)
             /\ Items(Tail(resultTopic)) \subseteq Items(resultTopic)
             /\ \A i, j \in DOMAIN Tail(resultTopic) :
                  i # j => Tail(resultTopic)[i].seq # Tail(resultTopic)[j].seq
             /\ \A f \in Items(Tail(resultTopic)) : Message.seq # f.seq
  <2>1. resultTopic \in Seq(Results)
    BY DEF TypeOK
  <2>2. \A i, j \in DOMAIN resultTopic : i # j => resultTopic[i].seq # resultTopic[j].seq
    BY DEF Inv, Unanswered
  <2>3. QED
    BY <1>3, <2>1, <2>2, ItemsTail, NumbersTail DEF Message
<1>4. CASE MatchEstop
  <2>1. /\ resultTopic # <<>> /\ asyncSeq = Message.seq /\ Msg' = {Message}
        /\ resultTopic' = Tail(resultTopic) /\ UNCHANGED acks /\ Answered' = Answered
    BY <1>4, Same DEF MatchEstop, Msg
  <2>2. Known(Message)
    BY <1>3, <2>1, ResultsSaid DEF Inv, Origins, Handled
  <2>3. IsEstop(Message)
    <3>1. Message.seq # 0
      BY <1>3, <2>1, MaxSeqAssumption DEF Results, Seqs
    <3>2. QED
      BY <2>1, <2>2, <3>1 DEF Inv, Origins, Known, IsEstop
  <2>4. Origins'
    BY <1>1, <2>1, <2>3 DEF Inv, Origins, Handled, Known
  <2>5. Unanswered'
    BY <1>1, <1>3, <2>1 DEF Inv, Unanswered, Open
  <2>6. QED
    BY <1>2, <2>4, <2>5 DEF Inv
<1>5. CASE ClearRaised
  <2>1. Msg' = Msg /\ UNCHANGED <<resultTopic, acks>> /\ Answered' = Answered
    BY <1>5, Same DEF ClearRaised, Msg, TypeOK
  <2>2. Origins' /\ Unanswered'
    BY <1>1, <2>1 DEF Inv, Origins, Handled, Known, Unanswered, Open
  <2>3. QED
    BY <1>2, <2>2 DEF Inv
<1>6. CASE ClearValid
  <2> DEFINE ack == executor.msg
  <2>1. /\ Msg = {ack} /\ Msg' = {} /\ UNCHANGED resultTopic /\ ack \in Acks
    BY <1>6 DEF ClearValid, Msg, TypeOK, Results, Acks
  <2>2. acks'[Console] = acks[Console] \/ acks'[Console] = Append(acks[Console], ack)
    BY <1>6 DEF ClearValid, Broadcast
  <2>3. ack \in Said /\ IsEstop(ack) /\ Open(ack) /\ Known(ack)
    BY <2>1, ResultsSaid DEF Inv, Origins, Handled, Unanswered
  <2>4. /\ Answered' = Answered \/ Answered' = Answered \cup {ack}
        /\ \A i, j \in DOMAIN acks'[Console] :
             i # j => acks'[Console][i].seq # acks'[Console][j].seq
    <3>1. Unanswered
      BY DEF Inv
    <3>2. QED
      BY <2>1, <2>2, <2>3, <3>1, AcksAfter
  <2> HIDE DEF ack
  <2>5. Origins'
    BY <1>1, <2>1, <2>3, <2>4 DEF Inv, Origins, Handled, Known
  <2>6. \A e \in InHand \cup Waiting : e.seq # ack.seq
    <3>1. \A e \in InHand \cup Waiting : Known(e) /\ ~IsEstop(e)
      BY DEF Inv, Origins, Handled
    <3>2. QED
      BY <2>3, <3>1 DEF Known, IsEstop
  <2>7. \A e \in Sorted \cup Topic : e.seq # ack.seq
    BY <2>3 DEF Inv, InOrder, Before, MayPrecede
  <2>8. \A e \in Incoming : e.seq # ack.seq
    <3>1. \A e \in Incoming : ack.seq < e.seq
      BY <2>3 DEF Inv, InOrder, Handled
    <3>2. ack.seq \in Nat
      BY <2>1, MaxSeqAssumption DEF Acks, Seqs
    <3>3. QED
      BY <3>1, <3>2
  <2>9. \A e \in Items(resultTopic) : e.seq # ack.seq
    BY <2>1 DEF Inv, Unanswered
  <2>10. Unanswered'
    <3>1. \A e \in InHand' \cup Waiting' \cup Sorted' \cup Incoming' : Open(e)'
      BY <1>1, <2>4, <2>6, <2>7, <2>8 DEF Inv, Unanswered, Open
    <3>2. \A e \in Topic' \cup Items(resultTopic') \cup Msg' : IsEstop(e) => Open(e)'
      BY <1>1, <2>1, <2>4, <2>7, <2>9 DEF Inv, Unanswered, Open
    <3>3. QED
      BY <2>1, <2>4, <3>1, <3>2 DEF Inv, Unanswered
  <2>11. QED
    BY <1>2, <2>5, <2>10 DEF Inv
<1>7. CASE StoreResult
  <2>1. /\ resultTopic # <<>> /\ resultTopic' = Tail(resultTopic)
        /\ UNCHANGED <<acks, executor>> /\ Answered' = Answered /\ Msg' = Msg
    BY <1>7, Same DEF StoreResult
  <2>2. Origins'
    BY <1>1, <2>1 DEF Inv, Origins, Handled, Known
  <2>3. Unanswered'
    BY <1>1, <1>3, <2>1 DEF Inv, Unanswered, Open
  <2>4. QED
    BY <1>2, <2>2, <2>3 DEF Inv
<1>8. QED
  BY <1>4, <1>5, <1>6, <1>7

\* The command at the head of the topic, and the topic without it.
LEMMA TopicHead ==
  ASSUME TypeOK, Inv, cmdTopic # <<>>, cmdTopic' = Tail(cmdTopic)
  PROVE  /\ Head(cmdTopic) \in Topic /\ Topic' \subseteq Topic /\ Ordered(cmdTopic')
         /\ \A f \in Topic' : MayPrecede(Head(cmdTopic), f)
<1>1. cmdTopic \in Seq(Frames) /\ Ordered(cmdTopic)
  BY DEF TypeOK, Inv, InOrder
<1>2. QED
  BY <1>1, ItemsTail DEF Topic

\* A command goes from the topic to the robot, or is lost there.
LEMMA ServiceRobot ==
  ASSUME TypeOK, TypeOK', Heard, Clients = {Console}, Inv, Robot
  PROVE  Inv'
<1> USE DEF Robot, consoleVars, recvVars, asyncVars, workerVars
<1>1. /\ UNCHANGED <<queue, batch, inbox, worker, executor, acks, sent, asyncSeq>>
      /\ Sorted' = Sorted /\ Incoming' = Incoming /\ Waiting' = Waiting
      /\ InHand' = InHand /\ Unsent' = Unsent /\ Msg' = Msg /\ Answered' = Answered
  BY Same
<1>2. CASE RobotExecutes
  <2>1. PICK v \in Verdicts :
          /\ Answer(Head(cmdTopic), v) \in Results
          /\ executed' = Append(executed, Answer(Head(cmdTopic), v))
          /\ resultTopic' = Append(resultTopic, Answer(Head(cmdTopic), v))
    BY <1>2, RobotSays
  <2> DEFINE cmd == Head(cmdTopic)
             res == Answer(Head(cmdTopic), v)
  <2>2. res.seq = cmd.seq /\ res.cmd = cmd.cmd
    BY DEF Answer
  <2>3. /\ cmd \in Topic /\ Topic' \subseteq Topic /\ Ordered(cmdTopic')
        /\ \A f \in Topic' : MayPrecede(cmd, f)
    BY <1>2, TopicHead DEF RobotExecutes
  <2>4. /\ \A e : MayPrecede(e, res) <=> MayPrecede(e, cmd)
        /\ \A e : MayPrecede(res, e) <=> MayPrecede(cmd, e)
        /\ Known(res) <=> Known(cmd)
        /\ IsEstop(res) <=> IsEstop(cmd)
        /\ Open(res) <=> Open(cmd)
    BY <2>2, SamePlace
  <2>5. executed \in Seq(Results) /\ resultTopic \in Seq(Results)
    BY DEF TypeOK
  <2>6. /\ Said' = Said \cup {res}
        /\ (\A f \in Said : MayPrecede(f, res)) => Ordered(executed')
    <3>1. Said = Items(executed) /\ Said' = Items(executed')
      BY DEF Said, Items
    <3>2. QED
      BY <2>1, <2>5, <3>1, ItemsAppend DEF Inv, InOrder
  <2>7. Items(resultTopic') = Items(resultTopic) \cup {res}
    BY <2>1, <2>5, ItemsAppend
  <2>8. res \in Results /\ resultTopic' = Append(resultTopic, res)
    BY <2>1
  <2> HIDE DEF cmd, res
  <2>9. \A e \in Said : MayPrecede(e, res) /\ e.seq # res.seq
    BY <2>3, <2>4 DEF Inv, InOrder, Before, MayPrecede
  <2>10. InOrder'
    <3>1. \A f \in Topic' \cup Unsent \cup Waiting \cup Sorted : MayPrecede(res, f)
      BY <2>3, <2>4 DEF Inv, InOrder, Before
    <3>2. \A f \in Incoming : res.seq < f.seq
      BY <2>2, <2>3 DEF Inv, InOrder, Handled
    <3>3. Before(Said, Topic \cup Unsent \cup Waiting \cup Sorted)'
      BY <1>1, <2>3, <2>6, <3>1 DEF Inv, InOrder, Before
    <3>4. Before(Topic, Unsent \cup Waiting \cup Sorted)'
      BY <1>1, <2>3 DEF Inv, InOrder, Before
    <3>5. Before(InHand, Waiting \cup Sorted)' /\ Before(Waiting, Sorted)'
      BY <1>1 DEF Inv, InOrder, Before
    <3>6. \A e \in Handled', f \in Incoming' : e.seq < f.seq
      BY <1>1, <2>3, <2>6, <3>2 DEF Inv, InOrder, Handled
    <3>7. Ordered(executed') /\ Ordered(cmdTopic') /\ Ordered(queue') /\ Ordered(batch'[Console])
      BY <1>1, <2>3, <2>6, <2>9 DEF Inv, InOrder
    <3>8. QED
      BY <1>1, <3>3, <3>4, <3>5, <3>6, <3>7 DEF Inv, InOrder, Ordered
  <2>11. Origins'
    BY <1>1, <2>3, <2>4, <2>6 DEF Inv, Origins, Handled, Known
  <2>12. Unanswered'
    <3>1. \A e \in Items(resultTopic) \cup Msg : e.seq # res.seq
      BY <2>9, ResultsSaid
    <3>2. \A i, j \in DOMAIN resultTopic' :
            i # j => resultTopic'[i].seq # resultTopic'[j].seq
      BY <2>5, <2>8, <3>1, NumbersAppend DEF Inv, Unanswered
    <3>3. QED
      BY <1>1, <2>3, <2>4, <2>7, <3>1, <3>2 DEF Inv, Unanswered, Open
  <2>13. QED
    BY <2>10, <2>11, <2>12 DEF Inv
<1>3. CASE RobotDrops
  <2>1. /\ UNCHANGED <<executed, resultTopic>> /\ Said' = Said
        /\ Topic' \subseteq Topic /\ Ordered(cmdTopic')
    BY <1>3, Same, TopicHead DEF RobotDrops
  <2>2. InOrder'
    BY <1>1, <2>1 DEF Inv, InOrder, Ordered, Before, Handled
  <2>3. Origins' /\ Unanswered'
    BY <1>1, <2>1 DEF Inv, Origins, Handled, Known, Unanswered, Open
  <2>4. QED
    BY <2>2, <2>3 DEF Inv
<1>4. CASE RobotRestarts
  <2>1. UNCHANGED <<cmdTopic, executed, resultTopic>> /\ Said' = Said /\ Topic' = Topic
    BY <1>4, Same DEF RobotRestarts
  <2>2. InOrder'
    BY <1>1, <2>1 DEF Inv, InOrder, Ordered, Before, Handled
  <2>3. Origins' /\ Unanswered'
    BY <1>1, <2>1 DEF Inv, Origins, Handled, Known, Unanswered, Open
  <2>4. QED
    BY <2>2, <2>3 DEF Inv
<1>5. QED
  BY <1>2, <1>3, <1>4

\* Time and the robot state change no stage.
LEMMA ServiceTime ==
  ASSUME Inv, DeadlinePasses \/ OnRobotState \/ StateAges \/ UNCHANGED vars
  PROVE  Inv'
<1>1. UNCHANGED <<executed, cmdTopic, queue, batch, inbox, worker, executor, acks,
                  sent, asyncSeq, resultTopic>>
  BY DEF DeadlinePasses, OnRobotState, StateAges, vars, consoleVars, recvVars,
         asyncVars, workerVars, robotVars
<1>2. /\ Said' = Said /\ Topic' = Topic /\ Sorted' = Sorted /\ Incoming' = Incoming
      /\ Waiting' = Waiting /\ InHand' = InHand /\ Unsent' = Unsent /\ Msg' = Msg
      /\ Answered' = Answered
  BY <1>1, Same
<1>3. InOrder'
  BY <1>1, <1>2 DEF Inv, InOrder, Ordered, Before, Handled
<1>4. Origins' /\ Unanswered'
  BY <1>1, <1>2 DEF Inv, Origins, Handled, Known, Unanswered, Open
<1>5. QED
  BY <1>3, <1>4 DEF Inv

\* No stage holds anything at the start.
LEMMA ServiceInit ==
  ASSUME Clients = {Console}, Init
  PROVE  Inv
<1>1. DOMAIN <<>> = {}
  OBVIOUS
<1>2. /\ Said = {} /\ Topic = {} /\ Sorted = {} /\ Incoming = {} /\ Waiting = {}
      /\ InHand = {} /\ Unsent = {} /\ Msg = {} /\ Answered = {}
      /\ Items(resultTopic) = {}
  BY <1>1 DEF Init, Said, Topic, Sorted, Incoming, Waiting, InHand, Unsent, Msg,
              Answered, Items
<1>3. InOrder
  BY <1>1, <1>2 DEF Init, InOrder, Ordered, Before, Handled
<1>4. Origins /\ Unanswered
  BY <1>1, <1>2 DEF Init, Origins, Handled, Unanswered
<1>5. QED
  BY <1>3, <1>4 DEF Inv

-----------------------------------------------------------------------------
(***************************************************************************)
(* Theorems                                                                *)
(***************************************************************************)
AllInv == TypeOK /\ UrgentMatches /\ AllTraced /\ PendingOwned /\ Heard /\ Inv

\* The whole invariant holds at the start.
LEMMA AllInit ==
  ASSUME Clients = {Console}
  PROVE  Init => AllInv
<1>1. DOMAIN <<>> = {}
  OBVIOUS
<1>2. Init => Heard
  BY <1>1 DEF Init, Heard, AckIsTruthful
<1>3. QED
  BY <1>2, PendingInit, ServiceInit DEF AllInv, PInv

\* Every step keeps the whole invariant.
LEMMA AllStep ==
  ASSUME Clients = {Console}
  PROVE  AllInv /\ [Next]_vars => AllInv'
<1> SUFFICES ASSUME AllInv, [Next]_vars PROVE AllInv'
  OBVIOUS
<1>1. TypeOK /\ UrgentMatches /\ AllTraced /\ PendingOwned /\ Heard /\ Inv
  BY DEF AllInv
<1>2. TypeOK' /\ UrgentMatches' /\ AllTraced' /\ PendingOwned'
  BY <1>1, PendingStep DEF PInv
<1>3. Heard'
  BY <1>1, HeardStep
<1>4. Inv'
  <2>1. CASE Connection(Console)
    BY <1>1, <1>2, <2>1, ServiceConnection
  <2>2. CASE Recv(Console)
    BY <1>1, <1>2, <2>2, ServiceReceive, ServiceEnqueue, ServiceAtomics,
       ServicePublishEstop DEF Recv
  <2>3. QED
    BY <1>1, <1>2, <2>1, <2>2, ServiceWork, ServiceOnCmdResult, ServiceRobot,
       ServiceTime DEF Next
<1>5. QED
  BY <1>2, <1>3, <1>4 DEF AllInv

\* The robot executes the commands of one console in the order they were sent,
\* however they are batched, sorted, queued and aborted; only an ESTOP overtakes.
THEOREM OrderIsKept ==
  ASSUME Clients = {Console}
  PROVE  Spec => []OrderKept
<1>1. AllInv => OrderKept
  <2> SUFFICES ASSUME TypeOK, Ordered(executed) PROVE OrderKept
    BY DEF AllInv, Inv, InOrder
  <2>1. \A i \in DOMAIN executed : executed[i].seq \in Nat
    <3>1. \A i \in DOMAIN executed : executed[i] \in Results
      BY ElementOfSeq, LenProperties DEF TypeOK
    <3>2. QED
      BY <3>1, MaxSeqAssumption DEF Results, Seqs
  <2>2. QED
    BY <2>1 DEF Ordered, MayPrecede, OrderKept
<1>2. QED
  BY <1>1, AllInit, AllStep, PTL DEF Spec

\* One console never gets two answers to a command, although a time-out, an abort
\* and the robot's late result are all ways to answer it.
THEOREM AnswersAreUnique ==
  ASSUME Clients = {Console}
  PROVE  Spec => []AnsweredOnce
<1>1. AllInv => AnsweredOnce
  BY DEF AllInv, Inv, Unanswered, AnsweredOnce
<1>2. QED
  BY <1>1, AllInit, AllStep, PTL DEF Spec

-----------------------------------------------------------------------------
(***************************************************************************)
(* Refinement                                                              *)
(***************************************************************************)
LEMMA Stutters ==
  ASSUME UNCHANGED <<link, sent, executed, acks>>
  PROVE  UNCHANGED Service!vars
  BY DEF Service!vars

\* The bridge answers a command that was asked for and not answered yet.
LEMMA Answers ==
  ASSUME NEW ack, Known(ack), Open(ack), UNCHANGED <<link, sent, executed>>,
         \/ acks'[Console] = acks[Console]
         \/ link[Console] # "closed" /\ acks'[Console] = Append(acks[Console], ack),
         \/ ack \in Said
         \/ /\ ~IsEstop(ack)
            /\ \E r \in Reasons : ack = [cmd |-> ack.cmd, seq |-> ack.seq, status |-> r]
  PROVE  [Service!Next]_(Service!vars)
<1>1. CASE acks'[Console] = acks[Console]
  BY <1>1 DEF Service!vars
<1>2. CASE link[Console] # "closed" /\ acks'[Console] = Append(acks[Console], ack)
  <2> DEFINE n == ack.seq
  <2>1. n \in DOMAIN sent[Console] /\ sent[Console][n].cmd = ack.cmd
    BY DEF Known
  <2>2. ~Service!Answered(n)
    BY DEF Service!Answered, Open, Answered, Items
  <2>3. ack \in Said => Service!Confirm(n)
    BY <1>2 DEF Service!Confirm, Said
  <2>4. ack \notin Said => Service!Refuse(n)
    BY <1>2, <2>1 DEF Service!Refuse, IsEstop
  <2>5. Service!Answer
    BY <1>2, <2>1, <2>2, <2>3, <2>4 DEF Service!Answer
  <2>6. QED
    BY <2>5 DEF Service!Next
<1>3. QED
  BY <1>1, <1>2

\* The console asks and leaves.
LEMMA RefinesConnection ==
  ASSUME TypeOK, Clients = {Console}, Connection(Console)
  PROVE  [Service!Next]_(Service!vars)
<1> USE DEF Connection, robotVars
<1>1. CASE Hello(Console)
  BY <1>1 DEF Hello, Service!vars, TypeOK
<1>2. CASE Close(Console)
  BY <1>2 DEF Close, Service!Close, Service!Next, TypeOK
<1>3. ASSUME NEW cmd \in Kinds, Send(Console, cmd)
      PROVE  [Service!Next]_(Service!vars)
  <2>1. sent'[Console] = Append(sent[Console], [cmd |-> cmd, seq |-> Len(sent[Console]) + 1])
    BY <1>3 DEF Send, NextSeq, TypeOK
  <2>2. Service!Ask
    BY <1>3, <2>1 DEF Send, Service!Ask
  <2>3. QED
    BY <2>2 DEF Service!Next
<1>4. QED
  BY <1>1, <1>2, <1>3

\* The worker answers or does nothing the console could see.
LEMMA RefinesWork ==
  ASSUME TypeOK, Heard, Clients = {Console}, Inv, Work
  PROVE  [Service!Next]_(Service!vars)
<1> USE DEF Work, consoleVars, robotVars
<1>1. UNCHANGED <<link, sent, executed>>
  OBVIOUS
<1>2. worker.pc # "idle" => Job \in Jobs /\ Job \in InHand
  BY DEF TypeOK, Job, InHand
<1>3. ASSUME NEW job \in Jobs, NEW ack, AckJob(job, ack)
      PROVE  \/ acks'[Console] = acks[Console]
             \/ link[Console] # "closed" /\ acks'[Console] = Append(acks[Console], ack)
  BY <1>3 DEF AckJob, SendAck, TypeOK, Jobs
<1>4. ASSUME NEW job \in Jobs, NEW r \in Reasons, AckJob(job, Answer(job, r)),
             job \in InHand \cup Waiting
      PROVE  [Service!Next]_(Service!vars)
  <2> DEFINE ack == Answer(job, r)
  <2>1. ack = [cmd |-> ack.cmd, seq |-> ack.seq, status |-> r]
        /\ ack.cmd = job.cmd /\ ack.seq = job.seq
    BY DEF Answer
  <2>2. Known(job) /\ Open(job) /\ ~IsEstop(job)
    BY <1>4 DEF Inv, Origins, Handled, Unanswered
  <2>3. Known(ack) /\ Open(ack) /\ ~IsEstop(ack)
    BY <2>1, <2>2, SamePlace
  <2>4. \/ acks'[Console] = acks[Console]
        \/ link[Console] # "closed" /\ acks'[Console] = Append(acks[Console], ack)
    BY <1>3, <1>4
  <2> HIDE DEF ack
  <2>5. QED
    BY <1>1, <2>1, <2>3, <2>4, Answers
<1>5. CASE UNCHANGED acks
  BY <1>1, <1>5, Stutters
<1>6. CASE TakeJob
  <2>1. Head(queue) \in Jobs /\ Head(queue) \in Waiting
    BY <1>6, ItemsTail DEF TakeJob, TypeOK, Waiting
  <2>2. QED
    BY <1>4, <1>5, <1>6, <2>1 DEF TakeJob, Reasons
<1>7. CASE CheckCommand \/ WaitExpired \/ WaitAborted
  <2>1. worker.pc # "idle"
        /\ (UNCHANGED acks \/ \E r \in Reasons : AckJob(Job, Answer(Job, r)))
    BY <1>7 DEF CheckCommand, WaitExpired, WaitAborted, Reasons
  <2>2. QED
    BY <1>2, <1>4, <1>5, <2>1
<1>8. CASE LookDone
  <2> DEFINE ack == [pending[Job.seq] EXCEPT !.seq = Job.seq]
  <2>1. /\ pending[Job.seq] \in Results /\ pending[Job.seq] \in Said
        /\ pending[Job.seq].seq = Job.seq /\ AckJob(Job, ack) /\ worker.pc # "idle"
    BY <1>8 DEF LookDone, Arrived, Heard, TypeOK
  <2>2. ack = pending[Job.seq] /\ ack.seq = Job.seq
    BY <2>1 DEF Results
  <2>3. Known(ack) /\ Open(ack)
    <3>1. Open(Job)
      BY <1>2, <2>1 DEF Inv, Unanswered
    <3>2. QED
      BY <2>1, <2>2, <3>1 DEF Inv, Origins, Handled, Open
  <2>4. \/ acks'[Console] = acks[Console]
        \/ link[Console] # "closed" /\ acks'[Console] = Append(acks[Console], ack)
    BY <1>2, <1>3, <2>1
  <2>5. ack \in Said
    BY <2>1, <2>2
  <2> HIDE DEF ack
  <2>6. QED
    BY <1>1, <2>3, <2>4, <2>5, Answers
<1>9. QED
  BY <1>5, <1>6, <1>7, <1>8 DEF ForwardCommand, WaitContinues, LookAgain

\* The executor answers an ESTOP or does nothing the console could see.
LEMMA RefinesOnCmdResult ==
  ASSUME TypeOK, Heard, Clients = {Console}, Inv, OnCmdResult
  PROVE  [Service!Next]_(Service!vars)
<1>1. UNCHANGED <<link, sent, executed>>
  BY DEF OnCmdResult, consoleVars, robotVars
<1>2. CASE UNCHANGED acks
  BY <1>1, <1>2, Stutters
<1>3. CASE ClearValid
  <2>1. executor.msg \in Msg
    BY <1>3 DEF ClearValid, Msg
  <2>2. executor.msg \in Said /\ Known(executor.msg) /\ Open(executor.msg)
    BY <2>1, ResultsSaid DEF Inv, Origins, Handled, Unanswered
  <2>3. \/ acks'[Console] = acks[Console]
        \/ link[Console] # "closed" /\ acks'[Console] = Append(acks[Console], executor.msg)
    BY <1>3 DEF ClearValid, Broadcast
  <2>4. QED
    BY <1>1, <2>2, <2>3, Answers
<1>4. QED
  BY <1>2, <1>3 DEF OnCmdResult, MatchEstop, ClearRaised, StoreResult

\* The robot executes what was asked for, in an order that is allowed.
LEMMA RefinesRobot ==
  ASSUME TypeOK, Clients = {Console}, Inv, Robot
  PROVE  [Service!Next]_(Service!vars)
<1>1. UNCHANGED <<link, sent, acks>>
  BY DEF Robot, consoleVars
<1>2. CASE RobotDrops \/ RobotRestarts
  BY <1>1, <1>2, Stutters DEF RobotDrops, RobotRestarts
<1>3. CASE RobotExecutes
  <2>1. PICK v \in Verdicts : executed' = Append(executed, Answer(Head(cmdTopic), v))
    BY <1>3, RobotSays
  <2> DEFINE cmd == Head(cmdTopic)
             n == cmd.seq
  <2>2. cmd \in Topic
    BY <1>3, TopicHead DEF RobotExecutes
  <2> HIDE DEF cmd
  <2>3. /\ n \in DOMAIN sent[Console] /\ sent[Console][n].cmd = cmd.cmd
        /\ sent[Console][n].seq = n
    BY <2>2 DEF Inv, Origins, Handled, Known
  <2>4. Answer(cmd, v) = [cmd |-> sent[Console][n].cmd, seq |-> n, status |-> v]
    BY <2>3 DEF Answer
  <2>5. \A i \in DOMAIN executed : Service!MayPrecede(executed[i], sent[Console][n])
    <3>1. \A i \in DOMAIN executed : MayPrecede(executed[i], cmd)
      BY <2>2 DEF Inv, InOrder, Before, Said
    <3>2. QED
      BY <2>3, <3>1 DEF MayPrecede, Service!MayPrecede, IsEstop
  <2>6. Service!Execute
    BY <1>1, <2>1, <2>3, <2>4, <2>5 DEF Service!Execute, cmd
  <2>7. QED
    BY <2>6 DEF Service!Next
<1>4. QED
  BY <1>2, <1>3 DEF Robot

\* Every step is a step of the service or a stutter.
LEMMA Refines ==
  ASSUME Clients = {Console}
  PROVE  AllInv /\ [Next]_vars => [Service!Next]_(Service!vars)
<1> SUFFICES ASSUME AllInv, [Next]_vars PROVE [Service!Next]_(Service!vars)
  OBVIOUS
<1>1. TypeOK /\ Heard /\ Inv
  BY DEF AllInv
<1>2. CASE Connection(Console)
  BY <1>1, <1>2, RefinesConnection
<1>3. CASE \/ Recv(Console) \/ DeadlinePasses \/ OnRobotState \/ StateAges
           \/ UNCHANGED vars
  <2>1. UNCHANGED <<link, sent, executed, acks>>
    BY <1>3 DEF Recv, DeadlinePasses, OnRobotState, StateAges, vars, consoleVars,
                robotVars
  <2>2. QED
    BY <2>1, Stutters
<1>4. QED
  BY <1>1, <1>2, <1>3, RefinesWork, RefinesOnCmdResult, RefinesRobot DEF Next

\* With one console, the threads, the queue, the topics and the robot together
\* are a CommandService: executed at most once and in order but for ESTOP,
\* answered at most once and truthfully, no ESTOP ever refused.
THEOREM BridgeImplementsService ==
  ASSUME Clients = {Console}
  PROVE  Spec => ImplementsService
<1>1. Init => Service!Init
  BY DEF Init, Service!Init
<1>2. QED
  BY <1>1, AllInit, AllStep, Refines, PTL DEF Spec, ImplementsService, Service!Spec
=============================================================================
