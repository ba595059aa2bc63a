------------------------------- MODULE Bridge -------------------------------
(***************************************************************************)
(* The command path of the bridge: from the bytes a console sends to the   *)
(* acknowledgement it gets (bridge/src/tcp_server.cpp, bridge_node.cpp).   *)
(*                                                                         *)
(* Threads: one receive thread per client, the command worker, and the ROS *)
(* executor.  A step ends where a thread releases a lock or touches an     *)
(* atomic that another thread reads; estop_raised_, async_estop_seq_ and   *)
(* async_estop_seq_valid_ are separate atomics and change in separate      *)
(* steps.  The consoles and the robot are the environment.                 *)
(***************************************************************************)
EXTENDS Naturals, Sequences, FiniteSets

CONSTANTS
  Clients,      \* connections accepted by the server, one Client object each
  MaxSeq,       \* bound on the commands a console sends on one connection
  RobotIgnores  \* whether the robot may be down: leave a command unanswered,
                \* or be configured anew

ASSUME ClientsAssumption == Clients # {}
ASSUME MaxSeqAssumption  == MaxSeq \in Nat \ {0}
ASSUME IgnoresAssumption == RobotIgnores \in BOOLEAN

VARIABLES
  link,         \* link[c]: "tcp" before HELLO, "ready" after it, "closed"
  sent,         \* history: the commands sent on each connection
  inbox,        \* bytes of c not yet received, as frames
  batch,        \* frames of the current batch of c's receive thread
  urgent,       \* where c's receive thread is inside urgent_estop
  queue,        \* cmd_queue_
  worker,       \* the command worker: pc and job
  late,         \* the worker's 2000 ms are over
  pending,      \* pending_: seq -> result, NotDone before it arrives
  raised,       \* estop_raised_
  asyncSeq,     \* async_estop_seq_
  asyncValid,   \* async_estop_seq_valid_
  executor,     \* the ROS executor inside on_cmd_result: pc and message
  snapshot,     \* "estop" of robot_state_json_
  fresh,        \* robot_state_fresh()
  cmdTopic,     \* botcockpit/cmd, published and not yet taken by the robot
  resultTopic,  \* botcockpit/cmd_result, not yet taken by the bridge
  stateTopic,   \* botcockpit/state: changes of the estop flag not yet taken
  estop,        \* the robot's estop flag
  executed,     \* history: what the robot did, in order
  acks          \* acks[c]: CMD_ACK frames sent to c

consoleVars == <<link, sent, inbox>>
recvVars    == <<batch, urgent>>
asyncVars   == <<raised, asyncSeq, asyncValid>>
workerVars  == <<worker, late>>
stateVars   == <<snapshot, fresh, stateTopic>>
robotVars   == <<estop, executed>>

vars == <<consoleVars, recvVars, asyncVars, workerVars, stateVars, robotVars,
          queue, pending, executor, cmdTopic, resultTopic, acks>>

-----------------------------------------------------------------------------
(***************************************************************************)
(* Values                                                                  *)
(***************************************************************************)
Seqs == 1..MaxSeq

\* CMD_TASK stands for every task and for CMD_MODE = AUTO, which handle_command
\* treats alike; CMD_RESET also stands for the other modes and parameters,
\* which it forwards in every state.
Kinds == {"CMD_ESTOP", "CMD_RESET", "CMD_TASK"}

Frames == [cmd : Kinds, seq : Seqs]
Jobs   == [client : Clients, cmd : Kinds, seq : Seqs]
NoJob  == [cmd |-> "none"]

\* What a CMD_ACK says: the robot's verdict, or a reason the bridge gives.
Verdicts == {"ACCEPTED", "REJECTED"}
Reasons  == {"estop_active", "timeout", "proto_error"}
Results  == [cmd : Kinds, seq : Seqs, status : Verdicts]
Acks     == [cmd : Kinds, seq : Seqs, status : Verdicts \cup Reasons]
NotDone  == [cmd |-> "none"]
NoResult == [cmd |-> "none"]

IsEstop(f) == f.cmd = "CMD_ESTOP"
Motion     == {"CMD_TASK"}

\* Faulty variant: the batch is handled in the reverse order.
ReversedOrders(frames) ==
  {[i \in DOMAIN frames |-> Len(frames) + 1 - i]}

\* std::stable_sort of a batch, ESTOP first: the order in which its frames are
\* handled; there is exactly one.
StableOrders(frames) ==
  {order \in [DOMAIN frames -> DOMAIN frames] :
     \A i, j \in DOMAIN frames : i < j =>
       LET f == frames[order[i]]
           g == frames[order[j]]
       IN  \/ IsEstop(f) /\ ~IsEstop(g)
           \/ (IsEstop(f) <=> IsEstop(g)) /\ order[i] < order[j]}

Answer(job, status) == [cmd |-> job.cmd, seq |-> job.seq, status |-> status]

-----------------------------------------------------------------------------
Init ==
  /\ link = [c \in Clients |-> "tcp"]
  /\ sent = [c \in Clients |-> <<>>]
  /\ inbox = [c \in Clients |-> <<>>]
  /\ batch = [c \in Clients |-> <<>>]
  /\ urgent = [c \in Clients |-> "idle"]
  /\ queue = <<>>
  /\ worker = [pc |-> "idle", job |-> NoJob] /\ late = FALSE
  /\ pending = <<>>
  /\ raised = FALSE /\ asyncSeq = 0 /\ asyncValid = FALSE
  /\ executor = [pc |-> "idle", msg |-> NoResult]
  /\ snapshot = FALSE /\ fresh = FALSE
  /\ cmdTopic = <<>> /\ resultTopic = <<>> /\ stateTopic = <<>>
  /\ estop = FALSE
  /\ executed = <<>>
  /\ acks = [c \in Clients |-> <<>>]

-----------------------------------------------------------------------------
(***************************************************************************)
(* Sending acknowledgements and editing the pending table                  *)
(***************************************************************************)
\* send_frame: nothing is sent once the client's descriptor is gone.
SendAck(c, ack) ==
  acks' = [acks EXCEPT ![c] = IF link[c] = "closed" THEN @ ELSE Append(@, ack)]

\* complete_async_ack: every client past its HELLO gets the frame.
Broadcast(ack) ==
  acks' = [c \in Clients |->
             IF link[c] = "ready" THEN Append(acks[c], ack) ELSE acks[c]]

Track(seq) ==
  pending' = [s \in DOMAIN pending \cup {seq} |->
                IF s = seq THEN NotDone ELSE pending[s]]

Erase(seq) == pending' = [s \in DOMAIN pending \ {seq} |-> pending[s]]

PublishCmd(f) == cmdTopic' = Append(cmdTopic, [cmd |-> f.cmd, seq |-> f.seq])

-----------------------------------------------------------------------------
(***************************************************************************)
(* The consoles (environment)                                              *)
(***************************************************************************)
\* Faulty variant: the sequence numbers of a console start at 0.
NextSeqFromZero(c) == Len(sent[c])

\* next_seq_ starts at 1 on every console: two consoles use the same numbers.
NextSeq(c) == Len(sent[c]) + 1

Send(c, cmd) ==
  LET f == [cmd |-> cmd, seq |-> NextSeq(c)] IN
  /\ link[c] # "closed" /\ Len(sent[c]) < MaxSeq
  /\ sent' = [sent EXCEPT ![c] = Append(@, f)]
  /\ inbox' = [inbox EXCEPT ![c] = Append(@, f)]
  /\ UNCHANGED link

\* The connection ends: recv returns 0 and the thread closes the descriptor.
\* Bytes not received are lost when the peer or the watchdog shut it down.
Close(c) ==
  /\ link[c] # "closed" /\ batch[c] = <<>>
  /\ link' = [link EXCEPT ![c] = "closed"]
  /\ inbox' = [inbox EXCEPT ![c] = <<>>]
  /\ UNCHANGED sent

-----------------------------------------------------------------------------
(***************************************************************************)
(* Receive threads                                                         *)
(***************************************************************************)
\* handle_frame of an accepted HELLO
Hello(c) ==
  /\ link[c] = "tcp" /\ batch[c] = <<>>
  /\ link' = [link EXCEPT ![c] = "ready"]
  /\ UNCHANGED <<sent, inbox>>

\* One recv takes any number of the frames that have arrived.
Receive(c) ==
  /\ link[c] # "closed" /\ batch[c] = <<>>
  /\ \E n \in 1..Len(inbox[c]) :
       LET frames == SubSeq(inbox[c], 1, n) IN
       /\ \E order \in StableOrders(frames) :
            batch' = [batch EXCEPT ![c] =
                        [i \in DOMAIN frames |-> frames[order[i]]]]
       /\ inbox' = [inbox EXCEPT ![c] = SubSeq(@, n + 1, Len(@))]
  /\ UNCHANGED <<urgent, queue, raised, asyncSeq, asyncValid, pending, cmdTopic>>

Current(c) == Head(batch[c])

FrameDone(c) == batch' = [batch EXCEPT ![c] = Tail(@)]

\* Faulty variant: an ESTOP goes through the command queue.
EnqueueEveryCommand(c) ==
  /\ batch[c] # <<>> /\ urgent[c] = "idle"
  /\ queue' = Append(queue, [client |-> c, cmd |-> Current(c).cmd,
                             seq |-> Current(c).seq])
  /\ FrameDone(c)
  /\ UNCHANGED <<inbox, urgent, raised, asyncSeq, asyncValid, pending, cmdTopic>>

\* enqueue_cmd of a command that is not urgent
Enqueue(c) ==
  /\ batch[c] # <<>> /\ ~IsEstop(Current(c))
  /\ queue' = Append(queue, [client |-> c, cmd |-> Current(c).cmd,
                             seq |-> Current(c).seq])
  /\ FrameDone(c)
  /\ UNCHANGED <<inbox, urgent, raised, asyncSeq, asyncValid, pending, cmdTopic>>

\* enqueue_cmd of an ESTOP calls urgent_estop on this thread: four steps, one
\* for each atomic, the last one for the pending table and the publication.
RaiseEstop(c) ==
  /\ batch[c] # <<>> /\ IsEstop(Current(c)) /\ urgent[c] = "idle"
  /\ raised' = TRUE
  /\ urgent' = [urgent EXCEPT ![c] = "seq"]
  /\ UNCHANGED <<inbox, batch, queue, asyncSeq, asyncValid, pending, cmdTopic>>

StoreEstopSeq(c) ==
  /\ urgent[c] = "seq"
  /\ asyncSeq' = Current(c).seq
  /\ urgent' = [urgent EXCEPT ![c] = "valid"]
  /\ UNCHANGED <<inbox, batch, queue, raised, asyncValid, pending, cmdTopic>>

StoreEstopValid(c) ==
  /\ urgent[c] = "valid"
  /\ asyncValid' = TRUE
  /\ urgent' = [urgent EXCEPT ![c] = "publish"]
  /\ UNCHANGED <<inbox, batch, queue, raised, asyncSeq, pending, cmdTopic>>

PublishEstop(c) ==
  /\ urgent[c] = "publish"
  /\ Track(Current(c).seq)
  /\ PublishCmd(Current(c))
  /\ urgent' = [urgent EXCEPT ![c] = "idle"]
  /\ FrameDone(c)
  /\ UNCHANGED <<inbox, queue, raised, asyncSeq, asyncValid>>

-----------------------------------------------------------------------------
(***************************************************************************)
(* The command worker                                                      *)
(***************************************************************************)
Job == worker.job

\* The worker sends the acknowledgement of job and goes back to the queue.
AckJob(job, ack) ==
  /\ SendAck(job.client, ack)
  /\ worker' = [pc |-> "idle", job |-> NoJob]

\* Faulty variant: cmd_queue_.front() without the pop_front().
TakeJobWithoutPop ==
  /\ worker.pc = "idle" /\ queue # <<>>
  /\ link[Head(queue).client] = "ready"
  /\ worker' = [pc |-> "check", job |-> Head(queue)]
  /\ UNCHANGED <<queue, late, pending, cmdTopic, acks>>

\* cmd_worker_loop takes a job; one whose client is gone is dropped, one that
\* came before HELLO is refused.
TakeJob ==
  /\ worker.pc = "idle" /\ queue # <<>>
  /\ queue' = Tail(queue)
  /\ LET job == Head(queue) IN
       \/ /\ link[job.client] = "closed"
          /\ UNCHANGED <<worker, acks>>
       \/ /\ link[job.client] = "tcp"
          /\ AckJob(job, Answer(job, "proto_error"))
       \/ /\ link[job.client] = "ready"
          /\ worker' = [pc |-> "check", job |-> job]
          /\ UNCHANGED acks
  /\ UNCHANGED <<late, pending, cmdTopic>>

\* handle_command: the robot must be alive, and not in ESTOP for a motion.
CheckCommand ==
  /\ worker.pc = "check"
  /\ \/ /\ ~fresh
        /\ AckJob(Job, Answer(Job, "timeout"))
     \/ /\ fresh /\ Job.cmd \in Motion /\ snapshot
        /\ AckJob(Job, Answer(Job, "estop_active"))
     \/ /\ fresh /\ ~(Job.cmd \in Motion /\ snapshot)
        /\ worker' = [worker EXCEPT !.pc = "publish"]
        /\ UNCHANGED acks
  /\ UNCHANGED <<queue, late, pending, cmdTopic>>

ForwardCommand ==
  /\ worker.pc = "publish"
  /\ Track(Job.seq)
  /\ PublishCmd(Job)
  /\ worker' = [worker EXCEPT !.pc = "wait"]
  /\ late' = FALSE
  /\ UNCHANGED <<queue, acks>>

\* Time passes: ACK_TIMEOUT_MS since the wait began.
DeadlinePasses ==
  /\ worker.pc \in {"wait", "look"} /\ ~late
  /\ late' = TRUE
  /\ UNCHANGED <<consoleVars, recvVars, asyncVars, worker, stateVars, robotVars,
                 queue, pending, executor, cmdTopic, resultTopic, acks>>

\* wait_cmd_result, head of the loop: the deadline, then estop_raised_.
WaitExpired ==
  /\ worker.pc = "wait" /\ late
  /\ Erase(Job.seq)
  /\ AckJob(Job, Answer(Job, "timeout"))
  /\ UNCHANGED <<queue, late, cmdTopic>>

WaitAborted ==
  /\ worker.pc = "wait" /\ ~late /\ raised
  /\ Erase(Job.seq)
  /\ AckJob(Job, Answer(Job, "estop_active"))
  /\ UNCHANGED <<queue, late, cmdTopic>>

WaitContinues ==
  /\ worker.pc = "wait" /\ ~late /\ ~raised
  /\ worker' = [worker EXCEPT !.pc = "look"]
  /\ UNCHANGED <<queue, late, pending, cmdTopic, acks>>

Arrived(seq) == seq \in DOMAIN pending /\ pending[seq] # NotDone

\* wait_cmd_result, rest of the loop: the entry of this command.  The frame
\* carries the seq of the job, its payload the robot's answer.
LookDone ==
  /\ worker.pc = "look" /\ Arrived(Job.seq)
  /\ Erase(Job.seq)
  /\ AckJob(Job, [pending[Job.seq] EXCEPT !.seq = Job.seq])
  /\ UNCHANGED <<queue, late, cmdTopic>>

\* Faulty variant: the deadline starts anew at every turn of the loop.
LookAgainRestartsWait ==
  /\ worker.pc = "look" /\ ~Arrived(Job.seq)
  /\ worker' = [worker EXCEPT !.pc = "wait"]
  /\ late' = FALSE
  /\ UNCHANGED <<queue, pending, cmdTopic, acks>>

LookAgain ==
  /\ worker.pc = "look" /\ ~Arrived(Job.seq)
  /\ worker' = [worker EXCEPT !.pc = "wait"]
  /\ UNCHANGED <<queue, late, pending, cmdTopic, acks>>

-----------------------------------------------------------------------------
(***************************************************************************)
(* The ROS executor                                                        *)
(***************************************************************************)
Message == Head(resultTopic)

\* on_cmd_result of the result of the latest ESTOP
MatchEstop ==
  /\ executor.pc = "idle" /\ resultTopic # <<>>
  /\ asyncValid /\ asyncSeq = Message.seq
  /\ executor' = [pc |-> "raised", msg |-> Message]
  /\ resultTopic' = Tail(resultTopic)
  /\ UNCHANGED <<raised, asyncValid, pending, acks>>

ClearRaised ==
  /\ executor.pc = "raised"
  /\ raised' = FALSE
  /\ executor' = [executor EXCEPT !.pc = "valid"]
  /\ UNCHANGED <<asyncValid, pending, resultTopic, acks>>

\* complete_async_ack follows async_estop_seq_valid_ = false.
ClearValid ==
  /\ executor.pc = "valid"
  /\ asyncValid' = FALSE
  /\ Broadcast(executor.msg)
  /\ executor' = [pc |-> "idle", msg |-> NoResult]
  /\ UNCHANGED <<raised, pending, resultTopic>>

\* Faulty variant: the result completes the waiting command, whatever its seq.
StoreResultAnySeq ==
  /\ executor.pc = "idle" /\ resultTopic # <<>>
  /\ ~(asyncValid /\ asyncSeq = Message.seq)
  /\ pending' = [s \in DOMAIN pending |->
                   IF pending[s] = NotDone THEN Message ELSE pending[s]]
  /\ resultTopic' = Tail(resultTopic)
  /\ UNCHANGED <<raised, asyncValid, executor, acks>>

\* on_cmd_result of any other result: without an entry it is dropped.
StoreResult ==
  /\ executor.pc = "idle" /\ resultTopic # <<>>
  /\ ~(asyncValid /\ asyncSeq = Message.seq)
  /\ pending' = [s \in DOMAIN pending |->
                   IF s = Message.seq THEN Message ELSE pending[s]]
  /\ resultTopic' = Tail(resultTopic)
  /\ UNCHANGED <<raised, asyncValid, executor, acks>>

\* on_robot_state; with no change in flight the message repeats the last one.
OnRobotState ==
  /\ executor.pc = "idle"
  /\ fresh' = TRUE
  /\ IF stateTopic = <<>>
       THEN snapshot' = estop /\ UNCHANGED stateTopic
       ELSE snapshot' = Head(stateTopic) /\ stateTopic' = Tail(stateTopic)
  /\ UNCHANGED <<consoleVars, recvVars, asyncVars, workerVars, robotVars, queue,
                 pending, executor, cmdTopic, resultTopic, acks>>

\* Time passes: the last state becomes older than HB_TIMEOUT_MS.
StateAges ==
  /\ fresh
  /\ fresh' = FALSE
  /\ UNCHANGED <<consoleVars, recvVars, asyncVars, workerVars, snapshot,
                 stateTopic, robotVars, queue, pending, executor, cmdTopic,
                 resultTopic, acks>>

-----------------------------------------------------------------------------
(***************************************************************************)
(* The robot (environment): FakeRobot seen through its topics              *)
(***************************************************************************)
\* What the robot may answer, and the estop flag it is left with.  A task may
\* be accepted in ESTOP: cancel is.
Outcomes(f) ==
  IF IsEstop(f) THEN {<<"ACCEPTED", TRUE>>}
  ELSE {<<"REJECTED", estop>>, <<"ACCEPTED", estop>>}
         \cup (IF f.cmd = "CMD_RESET" THEN {<<"ACCEPTED", FALSE>>} ELSE {})

RobotExecutes ==
  /\ cmdTopic # <<>>
  /\ cmdTopic' = Tail(cmdTopic)
  /\ \E o \in Outcomes(Head(cmdTopic)) :
       LET res == Answer(Head(cmdTopic), o[1]) IN
       /\ estop' = o[2]
       /\ executed' = Append(executed, res)
       /\ resultTopic' = Append(resultTopic, res)
       /\ stateTopic' = IF o[2] = estop THEN stateTopic
                                        ELSE Append(stateTopic, o[2])

\* The node is not configured or not running: nobody takes the message.
RobotDrops ==
  /\ RobotIgnores /\ cmdTopic # <<>>
  /\ cmdTopic' = Tail(cmdTopic)
  /\ UNCHANGED <<estop, executed, resultTopic, stateTopic>>

\* on_configure forgets an engaged estop, and publishes.
RobotRestarts ==
  /\ RobotIgnores /\ estop
  /\ estop' = FALSE
  /\ stateTopic' = Append(stateTopic, FALSE)
  /\ UNCHANGED <<cmdTopic, executed, resultTopic>>

-----------------------------------------------------------------------------
\* Each thread, and what it leaves to the others.
Connection(c) ==
  /\ Hello(c) \/ Close(c) \/ \E cmd \in Kinds : Send(c, cmd)
  /\ UNCHANGED <<recvVars, asyncVars, workerVars, stateVars, robotVars, queue,
                 pending, executor, cmdTopic, resultTopic, acks>>

Recv(c) ==
  /\ \/ Receive(c) \/ Enqueue(c)
     \/ RaiseEstop(c) \/ StoreEstopSeq(c) \/ StoreEstopValid(c) \/ PublishEstop(c)
  /\ UNCHANGED <<link, sent, workerVars, stateVars, robotVars, executor,
                 resultTopic, acks>>

Work ==
  /\ \/ TakeJob \/ CheckCommand \/ ForwardCommand
     \/ WaitExpired \/ WaitAborted \/ WaitContinues \/ LookDone \/ LookAgain
  /\ UNCHANGED <<consoleVars, recvVars, asyncVars, stateVars, robotVars,
                 executor, resultTopic>>

OnCmdResult ==
  /\ MatchEstop \/ ClearRaised \/ ClearValid \/ StoreResult
  /\ UNCHANGED <<consoleVars, recvVars, asyncSeq, workerVars, stateVars,
                 robotVars, queue, cmdTopic>>

Robot ==
  /\ RobotExecutes \/ RobotDrops \/ RobotRestarts
  /\ UNCHANGED <<consoleVars, recvVars, asyncVars, workerVars, snapshot, fresh,
                 queue, pending, executor, acks>>

Next ==
  \/ \E c \in Clients : Connection(c) \/ Recv(c)
  \/ Work
  \/ DeadlinePasses
  \/ OnCmdResult
  \/ OnRobotState
  \/ StateAges
  \/ Robot

\* Threads run and time passes.
Fairness == /\ \A c \in Clients : WF_vars(Recv(c))
            /\ WF_vars(Work) /\ WF_vars(DeadlinePasses) /\ WF_vars(OnCmdResult)

Spec == Init /\ [][Next]_vars /\ Fairness

-----------------------------------------------------------------------------
(***************************************************************************)
(* Properties                                                              *)
(***************************************************************************)
\* Frames, results and table entries are well formed; sequence number 0, which
\* sendFrame uses for "not sent", is never on the wire.
TypeOK ==
  /\ link \in [Clients -> {"tcp", "ready", "closed"}]
  /\ sent \in [Clients -> Seq(Frames)]
  /\ inbox \in [Clients -> Seq(Frames)]
  /\ batch \in [Clients -> Seq(Frames)]
  /\ urgent \in [Clients -> {"idle", "seq", "valid", "publish"}]
  /\ queue \in Seq(Jobs)
  /\ worker \in [pc : {"idle"}, job : {NoJob}]
                  \cup [pc : {"check", "publish", "wait", "look"}, job : Jobs]
  /\ late \in BOOLEAN /\ raised \in BOOLEAN /\ asyncValid \in BOOLEAN
  /\ asyncSeq \in Seqs \cup {0}
  /\ DOMAIN pending \subseteq Seqs
  /\ pending \in [DOMAIN pending -> Results \cup {NotDone}]
  /\ executor \in [pc : {"idle"}, msg : {NoResult}]
                    \cup [pc : {"raised", "valid"}, msg : Results]
  /\ snapshot \in BOOLEAN /\ fresh \in BOOLEAN /\ estop \in BOOLEAN
  /\ stateTopic \in Seq(BOOLEAN)
  /\ cmdTopic \in Seq(Frames)
  /\ resultTopic \in Seq(Results)
  /\ executed \in Seq(Results)
  /\ acks \in [Clients -> Seq(Acks)]

\* An acknowledgement that carries the robot's verdict carries the verdict of
\* that very command, although time-outs, aborts and late results come in
\* every order (wait_cmd_result against on_cmd_result).  A verdict names the
\* command and its number, not the console.
AckIsTruthful ==
  \A c \in Clients : \A i \in DOMAIN acks[c] :
    acks[c][i].status \in Verdicts =>
      \E j \in DOMAIN executed : executed[j] = acks[c][i]

\* No command is answered twice: a result that comes after the time-out or the
\* abort of its command is dropped.  One console.
AnsweredOnce ==
  \A c \in Clients : \A i, j \in DOMAIN acks[c] :
    i # j => acks[c][i].seq # acks[c][j].seq

\* The robot executes the commands of a console in the order they were sent,
\* through batches, sorting, queue and topic; only an ESTOP overtakes.
OrderKept ==
  \A i, j \in DOMAIN executed :
    i < j /\ executed[i].seq > executed[j].seq => IsEstop(executed[i])

\* pending_ holds the command the worker waits for and ESTOPs, nothing else: no
\* other command leaves an entry behind for a later one.
PendingOwned ==
  \A s \in DOMAIN pending :
    \/ worker.pc \in {"wait", "look"} /\ Job.seq = s
    \/ \E c \in Clients : s \in DOMAIN sent[c] /\ IsEstop(sent[c][s])

\* The bridge, the topics and the robot together are what the one console takes
\* them for: each command is executed at most once and in order but for ESTOP,
\* and answered at most once, with the robot's verdict on it or a refusal of the
\* bridge, never a refusal for an ESTOP.
Console == CHOOSE c \in Clients : TRUE

Service == INSTANCE CommandService
             WITH Urgent <- {"CMD_ESTOP"}, Refusals <- Reasons,
                  open <- link[Console] # "closed", asked <- sent[Console],
                  done <- executed, answers <- acks[Console]

ImplementsService == Service!Spec

\* Every command that reaches the bridge is answered while its console is
\* connected, even by a robot that never answers (the 2000 ms deadline).
CommandsAnswered ==
  \A c \in Clients, n \in Seqs :
    (n \in DOMAIN sent[c] /\ ~IsEstop(sent[c][n]) /\ link[c] # "closed") ~>
      (link[c] = "closed" \/ \E i \in DOMAIN acks[c] : acks[c][i].seq = n)

\* An ESTOP that reaches the bridge is published, whatever the queue holds and
\* whatever the worker waits for (enqueue_cmd, urgent path): it is never
\* refused, aborted or lost as a queued command can be.
EstopForwarded ==
  \A c \in Clients, n \in Seqs :
    (\E i \in DOMAIN inbox[c] : inbox[c][i] = [cmd |-> "CMD_ESTOP", seq |-> n]) ~>
      \/ link[c] = "closed"
      \/ \E i \in DOMAIN cmdTopic : cmdTopic[i] = [cmd |-> "CMD_ESTOP", seq |-> n]

-----------------------------------------------------------------------------
(***************************************************************************)
(* What docs and comments say of the bridge and the code does not do       *)
(***************************************************************************)
AnsweringSpec == Spec /\ WF_vars(Robot)

\* docs/WEEK2.md B2: every command a console sends sees its CMD_ACK.  A second
\* ESTOP overwrites async_estop_seq_, and the result of the first is kept in
\* pending_, where nobody waits for it.
EstopAcknowledged ==
  \A c \in Clients, n \in Seqs :
    (/\ link[c] = "ready"
     /\ \E i \in DOMAIN inbox[c] : inbox[c][i] = [cmd |-> "CMD_ESTOP", seq |-> n]) ~>
      (link[c] = "closed" \/ \E i \in DOMAIN acks[c] : acks[c][i].seq = n)

\* docs/PROTOCOL.md section 7 rule 4: during ESTOP the bridge forwards no motion
\* command.  The test in handle_command reads the last state received, which
\* lags behind the robot and behind the ESTOP the bridge itself has published.
NoMotionForwardedInEstop ==
  [][estop /\ Len(cmdTopic') > Len(cmdTopic) =>
       cmdTopic'[Len(cmdTopic')].cmd \notin Motion]_vars

EstopOutstanding ==
  \/ \E c \in Clients : urgent[c] # "idle"
  \/ \E i \in DOMAIN cmdTopic : IsEstop(cmdTopic[i])
  \/ \E i \in DOMAIN resultTopic : IsEstop(resultTopic[i])
  \/ executor.pc # "idle"

\* bridge_node.cpp:238: a wait is aborted when an ESTOP was raised meanwhile.
\* The three atomics are not updated together: the result of one ESTOP can
\* clear the marker of the next and leave estop_raised_ on for good, and every
\* later command is then answered estop_active with no ESTOP outstanding.
AbortOnlyDuringEstop ==
  [][worker.pc = "wait" /\ ~late /\ worker'.pc = "idle" => EstopOutstanding]_vars
=============================================================================
