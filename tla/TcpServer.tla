----------------------------- MODULE TcpServer -----------------------------
(***************************************************************************)
(* Connections of the bridge from accept to removal, the heartbeat         *)
(* watchdog, the report that a console is online, and stop()               *)
(* (bridge/src/tcp_server.cpp; delta_timer_cb of bridge_node.cpp).         *)
(*                                                                         *)
(* Threads: acceptor, one detached receive thread per Client object,       *)
(* watchdog, command worker, executor (delta timer) and the thread that    *)
(* calls stop().  The kernel gives a closed descriptor to the next         *)
(* connection.  What the commands do is in module Bridge.                  *)
(*                                                                         *)
(* Time: a tick is HB_TIMEOUT_MS; instants are kept as ages, the ticks     *)
(* since then, up to a bound beyond which nothing changes.                 *)
(***************************************************************************)
EXTENDS Integers, FiniteSets

CONSTANTS
  Clients,   \* the Client objects, one per connection ever accepted
  Fds,       \* descriptors the kernel has for connections
  Stories    \* bound: "timeouts" (time passes, no stop) and "shutdown" (stop() at
             \* any moment, no time-out) are explored apart

\* No descriptor (the code's -1), and no connection at a descriptor
NoFd   == -1
Nobody == "nobody"

ASSUME ClientsAssumption == IsFiniteSet(Clients) /\ Nobody \notin Clients
ASSUME FdsAssumption     == IsFiniteSet(Fds) /\ Fds \subseteq Nat
ASSUME StoriesAssumption == Stories \subseteq {"timeouts", "shutdown"}

VARIABLES
  story,     \* the story of this behaviour
  stop,      \* where stop() is
  acceptor,  \* the client accept_thread_ is about to register, or where it is
  clients,   \* clients_
  fd,        \* fd[c]: Client::fd, NoFd for -1
  hello,     \* hello[c]: Client::hello_ok
  rxAge,     \* rxAge[c]: ticks since last_rx_ms
  hbAge,     \* hbAge[c]: ticks since last_hb_rx_ms
  thread,    \* thread[c]: c's receive thread: pc, the descriptor in its hand
  watch,     \* watchdog_thread_
  worker,    \* cmd_thread_
  job,       \* cmd_queue_ is not empty
  online,    \* the last botcockpit/console message
  owner,     \* kernel: the connection a descriptor belongs to
  shut       \* kernel: shut[c], the connection is shut down or the peer has left

clientVars == <<clients, fd, hello>>
ages       == <<rxAge, hbAge>>
workerVars == <<worker, job>>
kernelVars == <<owner, shut>>

vars == <<story, stop, acceptor, clientVars, ages, thread, watch, workerVars,
          kernelVars, online>>

-----------------------------------------------------------------------------
Frames == {"HELLO", "HEARTBEAT", "CMD"}

\* In ticks: HB_TIMEOUT_MS, how long a pass of the watchdog may take, and the
\* ages beyond which nothing changes.
Timeout == 1
MaxLag  == 1
MaxHbAge == Timeout + MaxLag + 1
MaxRxAge == 2 * Timeout + MaxLag + 1

Older(age, bound) == IF age = bound THEN bound ELSE age + 1

\* running_, and whether listen_fd_ is open
Running   == stop = "no"
Listening == stop \in {"no", "notify", "listener"}

Init ==
  /\ story \in Stories
  /\ stop = "no"
  /\ acceptor = "accept"
  /\ clients = {}
  /\ fd = [c \in Clients |-> NoFd]
  /\ hello = [c \in Clients |-> FALSE]
  /\ rxAge = [c \in Clients |-> 0] /\ hbAge = [c \in Clients |-> 0]
  /\ thread = [c \in Clients |-> [pc |-> "unborn", fd |-> NoFd]]
  /\ watch = [pc |-> "sleep", lag |-> 0, todo |-> {}, target |-> NoFd]
  /\ worker = "awake" /\ job = FALSE
  /\ online = FALSE
  /\ owner = [f \in Fds |-> Nobody]
  /\ shut = [c \in Clients |-> FALSE]

-----------------------------------------------------------------------------
(***************************************************************************)
(* The consoles and time (environment)                                     *)
(***************************************************************************)
\* A console leaves, or its machine or its network does.
PeerEnds(c) ==
  /\ \E f \in Fds : owner[f] = c
  /\ ~shut[c]
  /\ shut' = [shut EXCEPT ![c] = TRUE]
  /\ UNCHANGED <<story, stop, acceptor, clientVars, ages, thread, watch, workerVars,
                 owner, online>>

\* Ages are kept while the watchdog can read them.
Tick ==
  /\ story = "timeouts"
  /\ watch.pc \in {"sampled", "pass", "strike"} => watch.lag < MaxLag
  /\ rxAge' = [c \in Clients |->
                 IF fd[c] = NoFd THEN 0 ELSE Older(rxAge[c], MaxRxAge)]
  /\ hbAge' = [c \in Clients |->
                 IF fd[c] = NoFd THEN 0 ELSE Older(hbAge[c], MaxHbAge)]
  /\ watch' = [watch EXCEPT
                 !.lag = IF watch.pc \in {"sleep", "ended"} THEN 0 ELSE @ + 1]
  /\ UNCHANGED <<story, stop, acceptor, clientVars, thread, workerVars, kernelVars,
                 online>>

-----------------------------------------------------------------------------
(***************************************************************************)
(* accept_loop                                                             *)
(***************************************************************************)
FreeFds == {f \in Fds : owner[f] = Nobody}

\* accept() gives the lowest free descriptor; the new Client is not in clients_.
Accept(c) ==
  /\ acceptor = "accept" /\ Listening
  /\ thread[c].pc = "unborn"
  /\ \E f \in FreeFds :
       /\ \A g \in FreeFds : f <= g
       /\ owner' = [owner EXCEPT ![f] = c]
       /\ fd' = [fd EXCEPT ![c] = f]
  /\ thread' = [thread EXCEPT ![c].pc = "accepted"]
  /\ acceptor' = "register"
  /\ UNCHANGED <<story, stop, clients, hello, ages, watch, workerVars, shut, online>>

\* clients_.push_back and the start of the detached receive thread
Register(c) ==
  /\ thread[c].pc = "accepted" /\ stop # "clients"
  /\ clients' = clients \cup {c}
  /\ thread' = [thread EXCEPT ![c].pc = "loop"]
  /\ acceptor' = "accept"
  /\ UNCHANGED <<story, stop, fd, hello, ages, watch, workerVars, kernelVars, online>>

\* The loop ends at its head, or when accept() fails and running_ is false.
AcceptorEnds ==
  /\ acceptor = "accept" /\ ~Running
  /\ acceptor' = "ended"
  /\ UNCHANGED <<story, stop, clientVars, ages, thread, watch, workerVars, kernelVars,
                 online>>

-----------------------------------------------------------------------------
(***************************************************************************)
(* client_loop, the receive thread of c                                    *)
(***************************************************************************)
GoTo(c, pc) == thread' = [thread EXCEPT ![c].pc = pc]

\* Head of the loop: running_, then the descriptor.
LoadFd(c) ==
  /\ thread[c].pc = "loop"
  /\ IF Running /\ fd[c] # NoFd
       THEN thread' = [thread EXCEPT ![c] = [pc |-> "recv", fd |-> fd[c]]]
       ELSE GoTo(c, "leave")
  /\ UNCHANGED <<clientVars, ages, workerVars, kernelVars>>

\* recv returns a frame its console sent, and the time is noted.  The frames
\* of a console come before its end of stream.
Recv(c) ==
  /\ thread[c].pc = "recv" /\ owner[thread[c].fd] # Nobody
  /\ ~shut[owner[thread[c].fd]]
  /\ \E frame \in Frames : thread' = [thread EXCEPT ![c] = [pc |-> frame, fd |-> NoFd]]
  /\ rxAge' = [rxAge EXCEPT ![c] = 0]
  /\ UNCHANGED <<clientVars, hbAge, workerVars, kernelVars>>

\* recv returns 0, or fails because stop() closed the descriptor.
RecvEnds(c) ==
  /\ thread[c].pc = "recv"
  /\ LET d == owner[thread[c].fd] IN d # Nobody => shut[d]
  /\ GoTo(c, "leave")
  /\ UNCHANGED <<clientVars, ages, workerVars, kernelVars>>

\* handle_frame of a HELLO the server accepts; last_hb_rx_ms is left alone.
HandleHello(c) ==
  /\ thread[c].pc = "HELLO"
  /\ hello' = [hello EXCEPT ![c] = TRUE]
  /\ GoTo(c, "loop")
  /\ UNCHANGED <<clients, fd, ages, workerVars, kernelVars>>

HandleHeartbeat(c) ==
  /\ thread[c].pc = "HEARTBEAT"
  /\ hbAge' = [hbAge EXCEPT ![c] = 0]
  /\ GoTo(c, "loop")
  /\ UNCHANGED <<clientVars, rxAge, workerVars, kernelVars>>

\* notify_one or notify_all of queue_cv_
Notify == worker' = IF worker \in {"asleep", "overslept"} THEN "awake" ELSE worker

\* enqueue_cmd of a command that is not urgent; the worker holds queue_mu_ from
\* its test to its sleep.
HandleCmd(c) ==
  /\ thread[c].pc = "CMD" /\ worker # "tested"
  /\ job' = TRUE
  /\ Notify
  /\ GoTo(c, "loop")
  /\ UNCHANGED <<clientVars, ages, kernelVars>>

\* Faulty variant: fd is read, and the Client keeps it.
LeaveKeepingFd(c) ==
  /\ thread[c].pc = "leave"
  /\ thread' = [thread EXCEPT ![c] = [pc |-> "close", fd |-> fd[c]]]
  /\ UNCHANGED <<clientVars, ages, workerVars, kernelVars>>

\* After the loop: fd.exchange(-1), by which stop() and this thread settle who
\* closes.
Leave(c) ==
  /\ thread[c].pc = "leave"
  /\ thread' = [thread EXCEPT ![c] = [pc |-> "close", fd |-> fd[c]]]
  /\ fd' = [fd EXCEPT ![c] = NoFd]
  /\ rxAge' = [rxAge EXCEPT ![c] = 0] /\ hbAge' = [hbAge EXCEPT ![c] = 0]
  /\ UNCHANGED <<clients, hello, workerVars, kernelVars>>

\* ::close: the connection is gone and the kernel may give f again.
Free(f) ==
  IF f = NoFd THEN UNCHANGED <<owner, shut>>
  ELSE /\ owner' = [owner EXCEPT ![f] = Nobody]
       /\ shut' = [c \in Clients |-> shut[c] /\ owner[f] # c]

\* Faulty variant: a thread that ends on stop() leaves the descriptor to stop().
CloseIfRunning(c) ==
  /\ thread[c].pc = "close"
  /\ IF Running THEN Free(thread[c].fd) ELSE UNCHANGED kernelVars
  /\ thread' = [thread EXCEPT ![c] = [pc |-> "remove", fd |-> NoFd]]
  /\ UNCHANGED <<clientVars, ages, workerVars>>

Close(c) ==
  /\ thread[c].pc = "close"
  /\ Free(thread[c].fd)
  /\ thread' = [thread EXCEPT ![c] = [pc |-> "remove", fd |-> NoFd]]
  /\ UNCHANGED <<clientVars, ages, workerVars>>

\* Faulty variant: remove_client looks for the descriptor, which is -1 by now.
RemoveByDescriptor(c) ==
  /\ thread[c].pc = "remove" /\ stop # "clients"
  /\ GoTo(c, "ended")
  /\ UNCHANGED <<clients, fd, hello, ages, workerVars, kernelVars>>

\* remove_client, under clients_mu_; nobody reads the Client any more.
Remove(c) ==
  /\ thread[c].pc = "remove" /\ stop # "clients"
  /\ clients' = clients \ {c}
  /\ hello' = [hello EXCEPT ![c] = FALSE]
  /\ GoTo(c, "ended")
  /\ UNCHANGED <<fd, ages, workerVars, kernelVars>>

-----------------------------------------------------------------------------
(***************************************************************************)
(* heartbeat_watchdog                                                      *)
(***************************************************************************)
\* A pass: now = now_ms(), then the snapshot of clients_, under clients_mu_.
Sample ==
  /\ watch.pc = "sleep" /\ Running
  /\ watch' = [watch EXCEPT !.pc = "sampled", !.lag = 0]
  /\ UNCHANGED shut

Snapshot ==
  /\ watch.pc = "sampled" /\ stop # "clients"
  /\ watch' = [watch EXCEPT !.pc = "pass", !.todo = clients]
  /\ UNCHANGED shut

\* Faulty variant: any frame counts as a heartbeat.
ReferenceAnyFrame(c) == rxAge[c]

\* ref of the watchdog: the last heartbeat, or before HELLO the last bytes.
Reference(c) == IF hello[c] THEN hbAge[c] ELSE rxAge[c]

\* Faulty variant: a client before its HELLO has no more time than later.
LimitAlike(c) == Timeout

Limit(c) == IF hello[c] THEN Timeout ELSE 2 * Timeout

\* now - ref > limit on unsigned numbers: a ref newer than now is a huge age.
Expired(c) ==
  LET elapsed == Reference(c) - watch.lag IN elapsed < 0 \/ elapsed > Limit(c)

\* The watchdog loads c's descriptor and decides.
Inspect(c) ==
  /\ watch.pc = "pass" /\ c \in watch.todo
  /\ watch' = IF fd[c] # NoFd /\ Expired(c)
                THEN [watch EXCEPT !.pc = "strike", !.target = fd[c],
                                   !.todo = @ \ {c}]
                ELSE [watch EXCEPT !.todo = @ \ {c}]
  /\ UNCHANGED shut

\* shutdown(fd) reaches whatever connection has the descriptor by now.
Strike ==
  /\ watch.pc = "strike"
  /\ LET d == owner[watch.target] IN
       shut' = IF d = Nobody THEN shut ELSE [shut EXCEPT ![d] = TRUE]
  /\ watch' = [watch EXCEPT !.pc = "pass", !.target = NoFd]

PassEnds ==
  /\ watch.pc = "pass" /\ watch.todo = {}
  /\ watch' = [watch EXCEPT !.pc = "sleep", !.lag = 0]
  /\ UNCHANGED shut

WatchdogEnds ==
  /\ watch.pc = "sleep" /\ ~Running
  /\ watch' = [watch EXCEPT !.pc = "ended"]
  /\ UNCHANGED shut

-----------------------------------------------------------------------------
(***************************************************************************)
(* cmd_worker_loop: queue_cv_ and what stop() needs of it                  *)
(***************************************************************************)
\* The wait, under queue_mu_: its predicate, then the sleep.  A worker that goes
\* to sleep although running_ is already false has "overslept".  A job taken is
\* done in bounded time (module Bridge), and the queue is drained before the end.
TestQueue ==
  /\ worker = "awake" /\ story = "shutdown"
  /\ IF job THEN job' \in BOOLEAN /\ UNCHANGED worker
            ELSE /\ worker' = IF Running THEN "tested" ELSE "ended"
                 /\ UNCHANGED job

FallAsleep ==
  /\ worker = "tested"
  /\ worker' = IF Running THEN "asleep" ELSE "overslept"
  /\ UNCHANGED job

-----------------------------------------------------------------------------
(***************************************************************************)
(* delta_timer_cb                                                          *)
(***************************************************************************)
\* client_count() > 0
ConsoleReady == \E c \in clients : fd[c] # NoFd /\ hello[c]

\* The timer stops with the executor, before stop() is called.
Report ==
  /\ Running
  /\ online' = ConsoleReady
  /\ UNCHANGED <<story, stop, acceptor, clientVars, ages, thread, watch, workerVars,
                 kernelVars>>

-----------------------------------------------------------------------------
(***************************************************************************)
(* stop()                                                                  *)
(***************************************************************************)
\* running_.exchange(false)
StopBegins ==
  /\ story = "shutdown" /\ stop = "no"
  /\ stop' = "notify"
  /\ UNCHANGED <<clients, fd, kernelVars, worker>>

\* Faulty variant: stop() does not wake the worker.
StopWithoutNotify ==
  /\ stop = "notify"
  /\ stop' = "listener"
  /\ UNCHANGED <<clients, fd, kernelVars, worker>>

\* queue_cv_.notify_all(), without queue_mu_
StopNotifies ==
  /\ stop = "notify"
  /\ Notify
  /\ stop' = "listener"
  /\ UNCHANGED <<clients, fd, kernelVars>>

StopClosesListener ==
  /\ stop = "listener"
  /\ stop' = "clients"
  /\ UNCHANGED <<clients, fd, kernelVars, worker>>

\* Under clients_mu_: exchange, shutdown and close for each registered client.
StopClosesClient ==
  /\ stop = "clients"
  /\ \E c \in clients :
       /\ fd[c] # NoFd
       /\ fd' = [fd EXCEPT ![c] = NoFd]
       /\ Free(fd[c])
  /\ UNCHANGED <<stop, clients, worker>>

StopJoins ==
  /\ stop = "clients" /\ \A c \in clients : fd[c] = NoFd
  /\ stop' = "join"
  /\ UNCHANGED <<clients, fd, kernelVars, worker>>

\* The three joins and clients_.clear(); receive threads are not waited for.
StopReturns ==
  /\ stop = "join"
  /\ acceptor = "ended" /\ watch.pc = "ended" /\ worker = "ended"
  /\ stop' = "returned"
  /\ clients' = {}
  /\ UNCHANGED <<fd, kernelVars, worker>>

-----------------------------------------------------------------------------
Acceptor == (\E c \in Clients : Accept(c) \/ Register(c)) \/ AcceptorEnds

\* What the receive thread does of itself, and what its console makes it do.
Receiver(c) ==
  /\ \/ LoadFd(c) \/ RecvEnds(c)
     \/ HandleHello(c) \/ HandleHeartbeat(c) \/ HandleCmd(c)
     \/ Leave(c) \/ Close(c) \/ Remove(c)
  /\ UNCHANGED <<story, stop, acceptor, watch, online>>

Arrival(c) == Recv(c) /\ UNCHANGED <<story, stop, acceptor, watch, online>>

Watchdog ==
  /\ \/ Sample \/ Snapshot \/ (\E c \in Clients : Inspect(c)) \/ Strike
     \/ PassEnds \/ WatchdogEnds
  /\ UNCHANGED <<story, stop, acceptor, clientVars, ages, thread, workerVars, owner,
                 online>>

Worker ==
  /\ TestQueue \/ FallAsleep
  /\ UNCHANGED <<story, stop, acceptor, clientVars, ages, thread, watch, kernelVars,
                 online>>

Stop ==
  /\ \/ StopBegins \/ StopNotifies \/ StopClosesListener \/ StopClosesClient
     \/ StopJoins \/ StopReturns
  /\ UNCHANGED <<story, acceptor, hello, ages, thread, watch, job, online>>

Next ==
  \/ \E c \in Clients : PeerEnds(c) \/ Arrival(c) \/ Receiver(c)
  \/ Acceptor \/ Watchdog \/ Worker \/ Report \/ Stop
  \/ Tick

\* Threads run, timers fire and time passes; stop() is called or not, and once
\* called it goes on.  Nothing makes a console connect, send or leave.
Fairness ==
  /\ WF_vars(Tick) /\ WF_vars(Watchdog) /\ WF_vars(Worker) /\ WF_vars(Report)
  /\ WF_vars(AcceptorEnds) /\ WF_vars(Stop /\ stop # "no")
  /\ \A c \in Clients : WF_vars(Register(c)) /\ WF_vars(Receiver(c))

Spec == Init /\ [][Next]_vars /\ Fairness

-----------------------------------------------------------------------------
(***************************************************************************)
(* Properties                                                              *)
(***************************************************************************)
\* Fields are in range, and clients_ lists no client whose thread is not running.
TypeOK ==
  /\ \A c \in clients : thread[c].pc \notin {"unborn", "accepted", "ended"}
  /\ story \in Stories
  /\ stop \in {"no", "notify", "listener", "clients", "join", "returned"}
  /\ acceptor \in {"accept", "register", "ended"}
  /\ clients \subseteq Clients
  /\ fd \in [Clients -> Fds \cup {NoFd}]
  /\ hello \in [Clients -> BOOLEAN]
  /\ rxAge \in [Clients -> 0..MaxRxAge] /\ hbAge \in [Clients -> 0..MaxHbAge]
  /\ thread \in [Clients ->
       [pc : {"unborn", "accepted", "loop", "recv", "leave", "close", "remove",
              "ended"} \cup Frames,
        fd : Fds \cup {NoFd}]]
  /\ watch \in [pc : {"sleep", "sampled", "pass", "strike", "ended"},
                lag : 0..MaxLag, todo : SUBSET Clients, target : Fds \cup {NoFd}]
  /\ worker \in {"awake", "tested", "asleep", "overslept", "ended"}
  /\ job \in BOOLEAN /\ online \in BOOLEAN
  /\ owner \in [Fds -> Clients \cup {Nobody}]
  /\ shut \in [Clients -> BOOLEAN]

\* The descriptor in a Client is open and its own, however the receive thread
\* and stop() race to close it (fd.exchange(-1)): no thread that reads it from a
\* live Client reaches another console, and none closes or receives from the
\* connection of another.
DescriptorsOwned ==
  \A c \in Clients :
    /\ fd[c] # NoFd => owner[fd[c]] = c
    /\ thread[c].pc = "recv" => owner[thread[c].fd] \in {c, Nobody}
    /\ thread[c].pc = "close" /\ thread[c].fd # NoFd => owner[thread[c].fd] = c

Silent(c) == IF hello[c] THEN hbAge[c] > Timeout ELSE rxAge[c] > 2 * Timeout

\* The watchdog shuts down a console that went silent, and otherwise only one the
\* server accepted or heard from during that very pass: its time is newer than
\* the pass's and the unsigned difference wraps, or it has got the descriptor of
\* the console that was inspected.
WatchdogHonest ==
  [][\A c \in Clients :
       watch.pc = "strike" /\ watch'.pc = "pass" /\ ~shut[c] /\ shut'[c] =>
         \/ Silent(c)
         \/ rxAge[c] <= watch.lag
         \/ hbAge[c] <= watch.lag]_vars

\* docs/PROTOCOL.md section 3: when no console sends heartbeats any more, however
\* many commands it sends, the robot is told that none is online (watchdog,
\* receive thread, client_count and delta timer together).
SilenceReported ==
  story = "timeouts" /\ <>[](\A c \in Clients : thread[c].pc # "HEARTBEAT")
    => <>[](~online)

\* stop() returns, unless the worker tested running_ just before stop() cleared
\* it and went to sleep just after the notification: notify_all without
\* queue_mu_ is then lost, and the join waits for ever.
StopEnds == stop = "notify" ~> (stop = "returned" \/ worker = "overslept")

\* After stop() every descriptor is given back, a connection accepted while
\* stop() ran included, which only its detached thread can close.
DescriptorsReleased == stop # "no" ~> \A f \in Fds : owner[f] = Nobody
=============================================================================
