-------------------------- MODULE TcpServerProofs --------------------------
(***************************************************************************)
(* Proofs about module TcpServer, for any clients, descriptors and         *)
(* stories: who owns a descriptor.  Client::fd alone decides: whoever      *)
(* exchanges it for -1 closes it, so an open descriptor is in one Client,  *)
(* or in the hand of the one thread about to close it.                     *)
(***************************************************************************)
EXTENDS TcpServer, TLAPS

\* A receive thread in recv() holds the descriptor of its Client, unless stop()
\* has closed it; the listener is closed before, and nobody gets it again.
InRecv(c) ==
  /\ thread[c].fd \in Fds
  /\ \/ fd[c] = thread[c].fd
     \/ ~Listening /\ owner[thread[c].fd] = Nobody

Owned(c) ==
  /\ fd[c] # NoFd => owner[fd[c]] = c
  /\ thread[c].pc = "recv" => InRecv(c)
  /\ thread[c].pc = "close" /\ thread[c].fd # NoFd => owner[thread[c].fd] = c
  /\ thread[c].pc \in {"close", "remove", "ended"} => fd[c] = NoFd

IInv == TypeOK /\ \A c \in Clients : Owned(c)

-----------------------------------------------------------------------------
Threads == [pc : {"unborn", "accepted", "loop", "recv", "leave", "close", "remove",
                  "ended"} \cup Frames,
            fd : Fds \cup {NoFd}]

Watches == [pc : {"sleep", "sampled", "pass", "strike", "ended"},
            lag : 0..MaxLag, todo : SUBSET Clients, target : Fds \cup {NoFd}]

LEMMA Descriptors == NoFd \notin Fds
  BY FdsAssumption DEF NoFd

\* A thread goes on; a client that ends or begins is not in clients_.
LEMMA ThreadMoves ==
  ASSUME TypeOK, NEW c \in Clients, NEW t \in Threads,
         thread' = [thread EXCEPT ![c] = t]
  PROVE  /\ thread' \in [Clients -> Threads]
         /\ thread'[c] = t
         /\ \A d \in Clients : d # c => thread'[d] = thread[d]
  BY DEF TypeOK, Threads

LEMMA PcMoves ==
  ASSUME TypeOK, NEW c \in Clients, NEW pc \in {"loop", "leave", "ended"}, GoTo(c, pc)
  PROVE  /\ thread' \in [Clients -> Threads]
         /\ thread'[c].pc = pc
         /\ \A d \in Clients : d # c => thread'[d] = thread[d]
  BY DEF TypeOK, Threads, GoTo

LEMMA AgesType ==
  ASSUME TypeOK, NEW c \in Clients
  PROVE  /\ [rxAge EXCEPT ![c] = 0] \in [Clients -> 0..MaxRxAge]
         /\ [hbAge EXCEPT ![c] = 0] \in [Clients -> 0..MaxHbAge]
<1>1. 0 \in 0..MaxRxAge /\ 0 \in 0..MaxHbAge
  BY DEF MaxRxAge, MaxHbAge, Timeout, MaxLag
<1>2. QED
  BY <1>1 DEF TypeOK

LEMMA FreeType ==
  ASSUME TypeOK, NEW f \in Fds \cup {NoFd}, Free(f)
  PROVE  /\ owner' \in [Fds -> Clients \cup {Nobody}]
         /\ shut' \in [Clients -> BOOLEAN]
         /\ \A g \in Fds : owner'[g] = IF g = f THEN Nobody ELSE owner[g]
<1>1. CASE f = NoFd
  BY <1>1, Descriptors DEF Free, TypeOK
<1>2. CASE f # NoFd
  <2>1. \A c \in Clients : (shut[c] /\ owner[f] # c) \in BOOLEAN
    OBVIOUS
  <2>2. shut' \in [Clients -> BOOLEAN]
    BY <1>2, <2>1 DEF Free
  <2>3. owner' = [owner EXCEPT ![f] = Nobody] /\ f \in Fds
    BY <1>2 DEF Free
  <2>4. QED
    BY <2>2, <2>3 DEF TypeOK
<1>3. QED
  BY <1>1, <1>2

\* The receive thread of c
LEMMA ReceiverStep ==
  ASSUME IInv, NEW c \in Clients, Receiver(c) \/ Arrival(c)
  PROVE  IInv'
<1>. USE DEF clientVars, ages, workerVars, kernelVars
<1>1. TypeOK /\ \A d \in Clients : Owned(d)
  BY DEF IInv
<1>2. /\ thread[c] \in Threads /\ fd[c] \in Fds \cup {NoFd}
      /\ UNCHANGED <<story, stop, acceptor, watch, online>>
  BY <1>1 DEF TypeOK, Threads, Receiver, Arrival
<1>3. ASSUME thread' \in [Clients -> Threads], clients' = clients,
             \A d \in Clients : d # c => thread'[d] = thread[d],
             thread'[c].pc \notin {"unborn", "accepted", "ended"},
             fd' \in [Clients -> Fds \cup {NoFd}],
             hello' \in [Clients -> BOOLEAN],
             rxAge' \in [Clients -> 0..MaxRxAge], hbAge' \in [Clients -> 0..MaxHbAge],
             worker' \in {"awake", "tested", "asleep", "overslept", "ended"},
             job' \in BOOLEAN,
             owner' \in [Fds -> Clients \cup {Nobody}],
             shut' \in [Clients -> BOOLEAN]
      PROVE  TypeOK'
  BY <1>1, <1>2, <1>3 DEF TypeOK, Threads
<1>4. ASSUME UNCHANGED <<fd, owner>>,
             \A d \in Clients : d # c => thread'[d] = thread[d],
             thread'[c].pc = "recv" => thread'[c].fd = fd[c] /\ fd[c] \in Fds,
             thread'[c].pc \notin {"close", "remove", "ended"}
      PROVE  \A d \in Clients : Owned(d)'
  <2>1. ASSUME NEW d \in Clients
        PROVE  Owned(d)'
    BY <1>1, <1>2, <1>4 DEF Owned, InRecv, Listening
  <2>2. QED
    BY <2>1
<1>5. CASE LoadFd(c)
  <2>1. CASE Running /\ fd[c] # NoFd
    <3>. DEFINE t == [pc |-> "recv", fd |-> fd[c]]
    <3>1. t \in Threads /\ thread' = [thread EXCEPT ![c] = t]
      BY <1>2, <1>5, <2>1 DEF LoadFd, Threads
    <3>2. /\ thread' \in [Clients -> Threads] /\ thread'[c] = t
          /\ \A d \in Clients : d # c => thread'[d] = thread[d]
      BY <1>1, <3>1, ThreadMoves
    <3>3. TypeOK'
      BY <1>1, <1>3, <1>5, <3>2 DEF LoadFd, TypeOK
    <3>4. \A d \in Clients : Owned(d)'
      BY <1>2, <1>4, <1>5, <2>1, <3>2 DEF LoadFd
    <3>5. QED
      BY <3>3, <3>4 DEF IInv
  <2>2. CASE ~(Running /\ fd[c] # NoFd)
    <3>1. GoTo(c, "leave") /\ "leave" \in {"loop", "leave", "ended"}
      BY <1>5, <2>2 DEF LoadFd
    <3>2. /\ thread' \in [Clients -> Threads] /\ thread'[c].pc = "leave"
          /\ \A d \in Clients : d # c => thread'[d] = thread[d]
      BY <1>1, <3>1, PcMoves
    <3>3. TypeOK'
      BY <1>1, <1>3, <1>5, <3>2 DEF LoadFd, TypeOK
    <3>4. \A d \in Clients : Owned(d)'
      BY <1>4, <1>5, <3>2 DEF LoadFd
    <3>5. QED
      BY <3>3, <3>4 DEF IInv
  <2>3. QED
    BY <2>1, <2>2
<1>6. CASE Arrival(c)
  <2>1. PICK frame \in Frames :
          thread' = [thread EXCEPT ![c] = [pc |-> frame, fd |-> NoFd]]
    BY <1>6 DEF Arrival, Recv
  <2>2. [pc |-> frame, fd |-> NoFd] \in Threads
    BY DEF Threads
  <2>3. /\ thread' \in [Clients -> Threads] /\ thread'[c].pc = frame
        /\ \A d \in Clients : d # c => thread'[d] = thread[d]
    BY <1>1, <2>1, <2>2, ThreadMoves
  <2>4. TypeOK'
    BY <1>1, <1>3, <1>6, <2>3, AgesType DEF Arrival, Recv, TypeOK, Frames
  <2>5. \A d \in Clients : Owned(d)'
    BY <1>4, <1>6, <2>3 DEF Arrival, Recv, Frames
  <2>6. QED
    BY <2>4, <2>5 DEF IInv
<1>7. CASE RecvEnds(c)
  <2>1. /\ thread' \in [Clients -> Threads] /\ thread'[c].pc = "leave"
        /\ \A d \in Clients : d # c => thread'[d] = thread[d]
    <3>1. GoTo(c, "leave") /\ "leave" \in {"loop", "leave", "ended"}
      BY <1>7 DEF RecvEnds
    <3>2. QED
      BY <1>1, <3>1, PcMoves
  <2>2. TypeOK'
    BY <1>1, <1>3, <1>7, <2>1 DEF RecvEnds, TypeOK
  <2>3. \A d \in Clients : Owned(d)'
    BY <1>4, <1>7, <2>1 DEF RecvEnds
  <2>4. QED
    BY <2>2, <2>3 DEF IInv
<1>8. CASE HandleHello(c) \/ HandleHeartbeat(c) \/ HandleCmd(c)
  <2>1. /\ GoTo(c, "loop") /\ "loop" \in {"loop", "leave", "ended"}
        /\ UNCHANGED <<clients, fd, owner, shut>>
    BY <1>8 DEF HandleHello, HandleHeartbeat, HandleCmd
  <2>2. /\ thread' \in [Clients -> Threads] /\ thread'[c].pc = "loop"
        /\ \A d \in Clients : d # c => thread'[d] = thread[d]
    BY <1>1, <2>1, PcMoves
  <2>3. TypeOK'
    <3>1. CASE HandleHello(c)
      BY <1>1, <1>3, <2>1, <2>2, <3>1 DEF HandleHello, TypeOK
    <3>2. CASE HandleHeartbeat(c)
      BY <1>1, <1>3, <2>1, <2>2, <3>2, AgesType DEF HandleHeartbeat, TypeOK
    <3>3. CASE HandleCmd(c)
      BY <1>1, <1>3, <2>1, <2>2, <3>3 DEF HandleCmd, Notify, TypeOK
    <3>4. QED
      BY <1>8, <3>1, <3>2, <3>3
  <2>4. \A d \in Clients : Owned(d)'
    BY <1>4, <2>1, <2>2
  <2>5. QED
    BY <2>3, <2>4 DEF IInv
<1>9. CASE Leave(c)
  <2>. DEFINE t == [pc |-> "close", fd |-> fd[c]]
  <2>1. t \in Threads /\ thread' = [thread EXCEPT ![c] = t]
    BY <1>2, <1>9 DEF Leave, Threads
  <2>2. /\ thread' \in [Clients -> Threads] /\ thread'[c] = t
        /\ \A d \in Clients : d # c => thread'[d] = thread[d]
    BY <1>1, <2>1, ThreadMoves
  <2>3. /\ fd' \in [Clients -> Fds \cup {NoFd}] /\ fd'[c] = NoFd
        /\ \A d \in Clients : d # c => fd'[d] = fd[d]
        /\ UNCHANGED <<owner, shut, clients, hello, worker, job>>
    BY <1>1, <1>9 DEF Leave, TypeOK
  <2>4. TypeOK'
    BY <1>1, <1>3, <1>9, <2>2, <2>3, AgesType DEF Leave, TypeOK
  <2>5. ASSUME NEW d \in Clients
        PROVE  Owned(d)'
    BY <1>1, <1>2, <2>2, <2>3 DEF Owned, InRecv, Listening
  <2>6. QED
    BY <2>4, <2>5 DEF IInv
<1>10. CASE Close(c)
  <2>. DEFINE f == thread[c].fd
              t == [pc |-> "remove", fd |-> NoFd]
  <2>1. /\ t \in Threads /\ thread' = [thread EXCEPT ![c] = t]
        /\ f \in Fds \cup {NoFd}
    BY <1>2, <1>10 DEF Close, Threads
  <2>2. /\ thread' \in [Clients -> Threads] /\ thread'[c] = t
        /\ \A d \in Clients : d # c => thread'[d] = thread[d]
    BY <1>1, <2>1, ThreadMoves
  <2>3. /\ owner' \in [Fds -> Clients \cup {Nobody}]
        /\ shut' \in [Clients -> BOOLEAN]
        /\ \A g \in Fds : owner'[g] = IF g = f THEN Nobody ELSE owner[g]
    BY <1>1, <1>10, <2>1, FreeType DEF Close
  <2>4. /\ UNCHANGED <<clients, fd, hello, rxAge, hbAge, worker, job>>
        /\ thread[c].pc = "close"
    BY <1>10 DEF Close
  <2>5. TypeOK'
    BY <1>1, <1>3, <2>2, <2>3, <2>4 DEF TypeOK
  <2>6. /\ fd[c] = NoFd /\ (f # NoFd => owner[f] = c)
    BY <1>1, <2>4 DEF Owned
  <2>. HIDE DEF f
  <2>7. ASSUME NEW d \in Clients
        PROVE  Owned(d)'
    <3>1. CASE d = c
      BY <2>2, <2>4, <2>6, <3>1 DEF Owned
    <3>2. CASE d # c
      <4>1. thread'[d] = thread[d] /\ fd'[d] = fd[d] /\ fd[d] \in Fds \cup {NoFd}
            /\ thread[d].fd \in Fds \cup {NoFd} /\ Owned(d)
        BY <1>1, <2>2, <2>4, <3>2 DEF TypeOK
      <4>2. fd[d] # NoFd => owner'[fd[d]] = d
        BY <2>3, <2>6, <3>2, <4>1, Descriptors DEF Owned
      <4>3. thread[d].pc = "recv" => InRecv(d)'
        BY <1>2, <2>3, <2>6, <3>2, <4>1 DEF Owned, InRecv, Listening
      <4>4. thread[d].pc = "close" /\ thread[d].fd # NoFd => owner'[thread[d].fd] = d
        BY <2>3, <2>6, <3>2, <4>1 DEF Owned
      <4>5. QED
        BY <4>1, <4>2, <4>3, <4>4 DEF Owned
    <3>3. QED
      BY <3>1, <3>2
  <2>8. QED
    BY <2>5, <2>7 DEF IInv
<1>11. CASE Remove(c)
  <2>1. /\ thread' \in [Clients -> Threads] /\ thread'[c].pc = "ended"
        /\ \A d \in Clients : d # c => thread'[d] = thread[d]
    <3>1. GoTo(c, "ended") /\ "ended" \in {"loop", "leave", "ended"}
      BY <1>11 DEF Remove
    <3>2. QED
      BY <1>1, <3>1, PcMoves
  <2>2. /\ clients' = clients \ {c} /\ hello' \in [Clients -> BOOLEAN]
        /\ UNCHANGED <<fd, rxAge, hbAge, worker, job, owner, shut>>
        /\ thread[c].pc = "remove"
    BY <1>1, <1>11 DEF Remove, TypeOK
  <2>3. TypeOK'
    BY <1>1, <1>2, <2>1, <2>2 DEF TypeOK, Threads
  <2>4. ASSUME NEW d \in Clients
        PROVE  Owned(d)'
    BY <1>1, <1>2, <2>1, <2>2 DEF Owned, InRecv, Listening
  <2>5. QED
    BY <2>3, <2>4 DEF IInv
<1>12. QED
  BY <1>5, <1>6, <1>7, <1>8, <1>9, <1>10, <1>11 DEF Receiver

LEMMA AcceptorStep ==
  ASSUME IInv, Acceptor
  PROVE  IInv'
<1>. USE DEF clientVars, ages, workerVars, kernelVars
<1>1. TypeOK /\ \A d \in Clients : Owned(d)
  BY DEF IInv
<1>2. ASSUME NEW c \in Clients, Accept(c)
      PROVE  IInv'
  <2>1. PICK f \in FreeFds : /\ owner' = [owner EXCEPT ![f] = c]
                             /\ fd' = [fd EXCEPT ![c] = f]
    BY <1>2 DEF Accept
  <2>2. /\ f \in Fds /\ owner[f] = Nobody
    BY <2>1 DEF FreeFds
  <2>3. /\ thread' \in [Clients -> Threads] /\ thread'[c].pc = "accepted"
        /\ \A d \in Clients : d # c => thread'[d] = thread[d]
    BY <1>1, <1>2 DEF Accept, TypeOK, Threads
  <2>4. /\ thread[c].pc = "unborn" /\ Listening /\ acceptor' = "register"
        /\ UNCHANGED <<story, stop, clients, hello, rxAge, hbAge, watch, worker, job,
                       shut, online>>
    BY <1>2 DEF Accept
  <2>5. /\ fd' \in [Clients -> Fds \cup {NoFd}] /\ fd'[c] = f
        /\ \A d \in Clients : d # c => fd'[d] = fd[d]
        /\ owner' \in [Fds -> Clients \cup {Nobody}] /\ owner'[f] = c
        /\ \A g \in Fds : g # f => owner'[g] = owner[g]
    BY <1>1, <2>1, <2>2 DEF TypeOK
  <2>6. TypeOK'
    BY <1>1, <2>3, <2>4, <2>5 DEF TypeOK, Threads
  <2>7. ASSUME NEW d \in Clients
        PROVE  Owned(d)'
    <3>1. CASE d = c
      BY <2>3, <2>5, <3>1 DEF Owned
    <3>2. CASE d # c
      <4>1. /\ thread'[d] = thread[d] /\ fd'[d] = fd[d] /\ Owned(d)
            /\ fd[d] \in Fds \cup {NoFd} /\ thread[d].fd \in Fds \cup {NoFd}
            /\ d # Nobody
        BY <1>1, <2>3, <2>5, <3>2, ClientsAssumption DEF TypeOK
      <4>2. fd[d] # NoFd => fd[d] # f /\ owner'[fd[d]] = d
        BY <2>2, <2>5, <4>1 DEF Owned
      <4>3. thread[d].pc = "recv" => InRecv(d)'
        BY <2>4, <4>1 DEF Owned, InRecv
      <4>4. thread[d].pc = "close" /\ thread[d].fd # NoFd => owner'[thread[d].fd] = d
        BY <2>2, <2>5, <4>1 DEF Owned
      <4>5. QED
        BY <4>1, <4>2, <4>3, <4>4 DEF Owned
    <3>3. QED
      BY <3>1, <3>2
  <2>8. QED
    BY <2>6, <2>7 DEF IInv
<1>3. ASSUME NEW c \in Clients, Register(c)
      PROVE  IInv'
  <2>1. /\ thread' \in [Clients -> Threads] /\ thread'[c].pc = "loop"
        /\ \A d \in Clients : d # c => thread'[d] = thread[d]
    BY <1>1, <1>3 DEF Register, TypeOK, Threads
  <2>2. /\ clients' = clients \cup {c} /\ acceptor' = "accept"
        /\ UNCHANGED <<story, stop, fd, hello, rxAge, hbAge, watch, worker, job, owner,
                       shut, online>>
    BY <1>3 DEF Register
  <2>3. TypeOK'
    BY <1>1, <2>1, <2>2 DEF TypeOK, Threads
  <2>4. ASSUME NEW d \in Clients
        PROVE  Owned(d)'
    BY <1>1, <2>1, <2>2 DEF Owned, InRecv, Listening
  <2>5. QED
    BY <2>3, <2>4 DEF IInv
<1>4. ASSUME AcceptorEnds
      PROVE  IInv'
  <2>1. TypeOK'
    BY <1>1, <1>4 DEF AcceptorEnds, TypeOK
  <2>2. ASSUME NEW d \in Clients
        PROVE  Owned(d)'
    BY <1>1, <1>4 DEF AcceptorEnds, Owned, InRecv, Listening
  <2>3. QED
    BY <2>1, <2>2 DEF IInv
<1>5. QED
  BY <1>2, <1>3, <1>4 DEF Acceptor

\* Steps of the others leave fd, owner and the threads alone.
LEMMA OwnedElsewhere ==
  ASSUME IInv, UNCHANGED <<fd, owner, thread, stop>>
  PROVE  \A d \in Clients : Owned(d)'
<1>1. ASSUME NEW d \in Clients
      PROVE  Owned(d)'
  BY <1>1 DEF IInv, Owned, InRecv, Listening
<1>2. QED
  BY <1>1

LEMMA OthersStep ==
  ASSUME IInv,
         \/ \E c \in Clients : PeerEnds(c)
         \/ Watchdog \/ Worker \/ Report \/ Tick \/ UNCHANGED vars
  PROVE  IInv'
<1>. USE DEF clientVars, ages, workerVars, kernelVars
<1>1. TypeOK
  BY DEF IInv
<1>2. UNCHANGED <<fd, owner, thread, stop, story, acceptor, clients, hello>>
  BY DEF PeerEnds, Watchdog, Worker, Report, Tick, vars
<1>3. \A d \in Clients : Owned(d)'
  BY <1>2, OwnedElsewhere
<1>4. CASE \E c \in Clients : PeerEnds(c)
  BY <1>1, <1>3, <1>4 DEF PeerEnds, TypeOK, IInv
<1>5. CASE Watchdog
  <2>1. shut' \in [Clients -> BOOLEAN]
    BY <1>1, <1>5 DEF Watchdog, Sample, Snapshot, Inspect, Strike, PassEnds,
                      WatchdogEnds, TypeOK
  <2>2. watch' \in Watches
    <3>0. watch \in Watches /\ 0 \in 0..MaxLag
      BY <1>1 DEF TypeOK, Watches, MaxLag
    <3>1. CASE Sample \/ Snapshot \/ Strike \/ PassEnds \/ WatchdogEnds
      BY <1>1, <3>0, <3>1 DEF Sample, Snapshot, Strike, PassEnds, WatchdogEnds, TypeOK,
                              Watches
    <3>2. ASSUME NEW c \in Clients, Inspect(c)
          PROVE  watch' \in Watches
      <4>1. fd[c] \in Fds \cup {NoFd}
        BY <1>1 DEF TypeOK
      <4>2. QED
        BY <3>0, <3>2, <4>1 DEF Inspect, Watches
    <3>3. QED
      BY <1>5, <3>1, <3>2 DEF Watchdog
  <2>3. QED
    BY <1>1, <1>3, <1>5, <2>1, <2>2 DEF Watchdog, TypeOK, Watches, IInv
<1>6. CASE Worker
  BY <1>1, <1>3, <1>6 DEF Worker, TestQueue, FallAsleep, TypeOK, IInv
<1>7. CASE Report
  <2>1. ConsoleReady \in BOOLEAN
    BY DEF ConsoleReady
  <2>2. QED
    BY <1>1, <1>3, <1>7, <2>1 DEF Report, TypeOK, IInv
<1>8. CASE Tick
  <2>1. /\ rxAge' \in [Clients -> 0..MaxRxAge] /\ hbAge' \in [Clients -> 0..MaxHbAge]
    <3>1. MaxRxAge = 4 /\ MaxHbAge = 3
      BY DEF MaxRxAge, MaxHbAge, MaxLag, Timeout
    <3>2. ASSUME NEW n \in {3, 4}, NEW k \in 0..n
          PROVE  Older(k, n) \in 0..n /\ 0 \in 0..n
      BY DEF Older
    <3>3. /\ rxAge \in [Clients -> 0..MaxRxAge]
          /\ hbAge \in [Clients -> 0..MaxHbAge]
      BY <1>1 DEF TypeOK
    <3>4. /\ rxAge' = [c \in Clients |->
                         IF fd[c] = NoFd THEN 0 ELSE Older(rxAge[c], MaxRxAge)]
          /\ hbAge' = [c \in Clients |->
                         IF fd[c] = NoFd THEN 0 ELSE Older(hbAge[c], MaxHbAge)]
      BY <1>8 DEF Tick
    <3>5. \A c \in Clients :
            /\ Older(rxAge[c], MaxRxAge) \in 0..MaxRxAge /\ 0 \in 0..MaxRxAge
            /\ Older(hbAge[c], MaxHbAge) \in 0..MaxHbAge /\ 0 \in 0..MaxHbAge
      BY <3>1, <3>2, <3>3
    <3>6. QED
      BY <3>4, <3>5
  <2>2. watch' \in Watches
    <3>1. watch \in Watches /\ watch.lag \in 0..MaxLag
      BY <1>1 DEF TypeOK, Watches
    <3>2. (IF watch.pc \in {"sleep", "ended"} THEN 0 ELSE watch.lag + 1) \in 0..MaxLag
      BY <1>8, <3>1 DEF Tick, Watches, MaxLag
    <3>3. QED
      BY <1>8, <3>1, <3>2 DEF Tick, Watches
  <2>3. QED
    BY <1>1, <1>3, <1>8, <2>1, <2>2 DEF Tick, TypeOK, Watches, IInv
<1>9. CASE UNCHANGED vars
  BY <1>1, <1>3, <1>9 DEF vars, TypeOK, IInv
<1>10. QED
  BY <1>4, <1>5, <1>6, <1>7, <1>8, <1>9

LEMMA StopStep ==
  ASSUME IInv, Stop
  PROVE  IInv'
<1>. USE DEF clientVars, ages, workerVars, kernelVars
<1>1. TypeOK /\ \A d \in Clients : Owned(d)
  BY DEF IInv
<1>2. UNCHANGED <<story, acceptor, hello, rxAge, hbAge, thread, watch, job, online>>
  BY DEF Stop
<1>3. CASE StopBegins \/ StopNotifies \/ StopClosesListener \/ StopJoins \/ StopReturns
  <2>1. /\ UNCHANGED <<fd, owner, shut>>
        /\ stop' \in {"notify", "listener", "clients", "join", "returned"}
        /\ clients' \in {clients, {}}
        /\ worker' \in {"awake", "tested", "asleep", "overslept", "ended"}
        /\ Listening' => Listening
    BY <1>1, <1>3 DEF StopBegins, StopNotifies, StopClosesListener, StopJoins,
                      StopReturns, Notify, Listening, TypeOK
  <2>2. TypeOK'
    BY <1>1, <1>2, <2>1 DEF TypeOK
  <2>3. ASSUME NEW d \in Clients
        PROVE  Owned(d)'
    BY <1>1, <1>2, <2>1 DEF Owned, InRecv
  <2>4. QED
    BY <2>2, <2>3 DEF IInv
<1>4. CASE StopClosesClient
  <2>1. PICK c \in clients : /\ fd[c] # NoFd
                             /\ fd' = [fd EXCEPT ![c] = NoFd]
                             /\ Free(fd[c])
    BY <1>4 DEF StopClosesClient
  <2>. DEFINE f == fd[c]
  <2>2. /\ c \in Clients /\ f \in Fds /\ f # NoFd /\ owner[f] = c
        /\ stop = "clients" /\ UNCHANGED <<stop, clients, worker>>
    BY <1>1, <1>4, <2>1 DEF StopClosesClient, TypeOK, Owned
  <2>3. /\ owner' \in [Fds -> Clients \cup {Nobody}]
        /\ shut' \in [Clients -> BOOLEAN]
        /\ \A g \in Fds : owner'[g] = IF g = f THEN Nobody ELSE owner[g]
    BY <1>1, <2>1, <2>2, FreeType
  <2>4. /\ fd' \in [Clients -> Fds \cup {NoFd}] /\ fd'[c] = NoFd
        /\ \A d \in Clients : d # c => fd'[d] = fd[d]
    BY <1>1, <2>1, <2>2 DEF TypeOK
  <2>5. TypeOK'
    BY <1>1, <1>2, <2>2, <2>3, <2>4 DEF TypeOK
  <2>6. ~Listening /\ ~Listening'
    BY <2>2 DEF Listening
  <2>. HIDE DEF f
  <2>7. ASSUME NEW d \in Clients
        PROVE  Owned(d)'
    <3>1. /\ Owned(d) /\ Owned(c) /\ thread' = thread
          /\ fd[d] \in Fds \cup {NoFd} /\ thread[d].fd \in Fds \cup {NoFd}
      BY <1>1, <1>2, <2>2 DEF TypeOK
    <3>2. fd'[d] # NoFd => owner'[fd'[d]] = d
      BY <2>2, <2>3, <2>4, <3>1 DEF Owned
    <3>3. thread[d].pc = "recv" => InRecv(d)'
      <4>1. CASE d = c
        BY <2>3, <2>6, <3>1, <4>1 DEF Owned, InRecv, f
      <4>2. CASE d # c
        BY <2>3, <2>4, <2>6, <3>1, <4>2 DEF Owned, InRecv
      <4>3. QED
        BY <4>1, <4>2
    <3>4. thread[d].pc = "close" /\ thread[d].fd # NoFd => owner'[thread[d].fd] = d
      BY <2>2, <2>3, <3>1 DEF Owned, f
    <3>5. thread[d].pc \in {"close", "remove", "ended"} => fd'[d] = NoFd
      BY <2>4, <3>1 DEF Owned
    <3>6. QED
      BY <3>1, <3>2, <3>3, <3>4, <3>5 DEF Owned
  <2>8. QED
    BY <2>5, <2>7 DEF IInv
<1>5. QED
  BY <1>3, <1>4 DEF Stop

LEMMA InductiveInit == Init => IInv
<1>1. SUFFICES ASSUME Init PROVE IInv
  OBVIOUS
<1>2. TypeOK
  <2>1. /\ [pc |-> "unborn", fd |-> NoFd] \in Threads
        /\ [pc |-> "sleep", lag |-> 0, todo |-> {}, target |-> NoFd] \in Watches
    BY DEF Threads, Watches, MaxLag
  <2>2. 0 \in 0..MaxRxAge /\ 0 \in 0..MaxHbAge
    BY DEF MaxRxAge, MaxHbAge, MaxLag, Timeout
  <2>3. /\ thread \in [Clients -> Threads] /\ watch \in Watches
        /\ rxAge \in [Clients -> 0..MaxRxAge] /\ hbAge \in [Clients -> 0..MaxHbAge]
        /\ fd \in [Clients -> Fds \cup {NoFd}] /\ hello \in [Clients -> BOOLEAN]
        /\ owner \in [Fds -> Clients \cup {Nobody}] /\ shut \in [Clients -> BOOLEAN]
    BY <1>1, <2>1, <2>2 DEF Init
  <2>4. QED
    BY <1>1, <2>3 DEF Init, TypeOK, Threads, Watches
<1>3. \A c \in Clients : Owned(c)
  BY <1>1 DEF Init, Owned
<1>4. QED
  BY <1>2, <1>3 DEF IInv

LEMMA InductiveInvariant == Spec => []IInv
<1>1. IInv /\ [Next]_vars => IInv'
  BY ReceiverStep, AcceptorStep, OthersStep, StopStep DEF Next
<1>2. QED
  BY <1>1, InductiveInit, PTL DEF Spec

\* Every field stays in its range, and clients_ lists only clients whose receive
\* thread runs.
THEOREM TypeCorrect == Spec => []TypeOK
<1>1. IInv => TypeOK
  BY DEF IInv
<1>2. QED
  BY <1>1, InductiveInvariant, PTL

\* No thread closes, receives from or reaches the connection of another console,
\* however stop(), the receive threads and the kernel's reuse of descriptors
\* interleave (Client::fd is exchanged for -1 before ::close).
THEOREM DescriptorsAreOwned == Spec => []DescriptorsOwned
<1>1. IInv => DescriptorsOwned
  <2>1. ASSUME IInv, NEW c \in Clients
        PROVE  /\ fd[c] # NoFd => owner[fd[c]] = c
               /\ thread[c].pc = "recv" => owner[thread[c].fd] \in {c, Nobody}
               /\ thread[c].pc = "close" /\ thread[c].fd # NoFd
                    => owner[thread[c].fd] = c
    <3>1. Owned(c) /\ TypeOK
      BY <2>1 DEF IInv
    <3>2. QED
      BY <3>1, Descriptors DEF Owned, InRecv
  <2>2. QED
    BY <2>1 DEF DescriptorsOwned
<1>2. QED
  BY <1>1, InductiveInvariant, PTL

-----------------------------------------------------------------------------
(***************************************************************************)
(* The watchdog                                                            *)
(***************************************************************************)
\* What the watchdog may shut down.
Due(c) == Silent(c) \/ rxAge[c] <= watch.lag \/ hbAge[c] <= watch.lag

\* An open descriptor is in its Client or in the hand of a thread about to close.
Held(c) ==
  \A f \in Fds : owner[f] = c =>
    fd[c] = f \/ (thread[c].pc = "close" /\ thread[c].fd = f)

\* A console nobody has accepted is young, and the HELLO in hand is newer than
\* any heartbeat handled.
Aged(c) ==
  /\ thread[c].pc = "unborn" => fd[c] = NoFd /\ rxAge[c] = 0
  /\ thread[c].pc = "HELLO" => rxAge[c] <= hbAge[c] \/ hbAge[c] = MaxHbAge

\* Whoever has the descriptor by now may be struck.
StrikeIsDue ==
  watch.pc = "strike" =>
    /\ watch.target \in Fds
    /\ \A c \in Clients : owner[watch.target] = c => Due(c)

WInv == /\ IInv /\ StrikeIsDue
        /\ \A c \in Clients : Held(c) /\ Aged(c)

LEMMA Numbers ==
  ASSUME TypeOK
  PROVE  /\ watch.lag \in 0..1
         /\ \A c \in Clients : rxAge[c] \in 0..4 /\ hbAge[c] \in 0..3
         /\ MaxHbAge = 3 /\ MaxRxAge = 4 /\ MaxLag = 1 /\ Timeout = 1
BY DEF TypeOK, MaxHbAge, MaxRxAge, MaxLag, Timeout

\* HELLO makes the heartbeats count: a console that was silent still is.
LEMMA HelloStaysDue ==
  ASSUME WInv, NEW c \in Clients, HandleHello(c), Due(c), watch' = watch
  PROVE  Due(c)'
<1>1. /\ hello \in [Clients -> BOOLEAN] /\ thread[c].pc = "HELLO"
      /\ rxAge[c] <= hbAge[c] \/ hbAge[c] = 3
      /\ watch.lag \in 0..1 /\ rxAge[c] \in 0..4 /\ hbAge[c] \in 0..3
  BY Numbers DEF WInv, IInv, TypeOK, HandleHello, Aged
<1>2. hello' = [hello EXCEPT ![c] = TRUE] /\ rxAge' = rxAge /\ hbAge' = hbAge
  BY DEF HandleHello, ages
<1>3. hello'[c]
  BY <1>1, <1>2
<1>4. CASE rxAge[c] <= watch.lag \/ hbAge[c] <= watch.lag
  BY <1>2, <1>4 DEF Due
<1>5. CASE Silent(c)
  <2>1. hbAge[c] > 1
    BY <1>1, <1>5 DEF Silent, Timeout
  <2>2. QED
    BY <1>2, <1>3, <2>1 DEF Due, Silent, Timeout
<1>6. QED
  BY <1>4, <1>5 DEF Due

\* Younger consoles stay due, and so does any whose age and HELLO are unchanged.
LEMMA DueKept ==
  ASSUME TypeOK, NEW c \in Clients, watch'.lag = watch.lag,
         \/ rxAge'[c] = 0 \/ hbAge'[c] = 0
         \/ Due(c) /\ UNCHANGED <<hello[c], rxAge[c], hbAge[c]>>
  PROVE  Due(c)'
<1>1. watch.lag \in 0..1
  BY Numbers
<1>2. CASE rxAge'[c] = 0 \/ hbAge'[c] = 0
  BY <1>1, <1>2 DEF Due
<1>3. CASE Due(c) /\ UNCHANGED <<hello[c], rxAge[c], hbAge[c]>>
  BY <1>3 DEF Due, Silent
<1>4. QED
  BY <1>2, <1>3

LEMMA WatchedReceiver ==
  ASSUME WInv, NEW c \in Clients, Receiver(c) \/ Arrival(c)
  PROVE  WInv'
<1>. USE DEF clientVars, ages, workerVars, kernelVars
<1>1. /\ TypeOK /\ StrikeIsDue /\ \A d \in Clients : Owned(d) /\ Held(d) /\ Aged(d)
  BY DEF WInv, IInv
<1>2. IInv' /\ TypeOK'
  BY ReceiverStep DEF WInv, IInv
<1>3. /\ UNCHANGED <<stop, watch>>
      /\ fd \in [Clients -> Fds \cup {NoFd}] /\ thread \in [Clients -> Threads]
      /\ owner \in [Fds -> Clients \cup {Nobody}]
      /\ rxAge \in [Clients -> 0..MaxRxAge] /\ hbAge \in [Clients -> 0..MaxHbAge]
      /\ hello \in [Clients -> BOOLEAN]
  BY <1>1 DEF Receiver, Arrival, TypeOK, Threads
<1>4. \A d \in Clients : d # c =>
        /\ thread'[d] = thread[d] /\ fd'[d] = fd[d]
        /\ UNCHANGED <<hello[d], rxAge[d], hbAge[d]>>
  BY <1>3 DEF Receiver, Arrival, LoadFd, Recv, RecvEnds, HandleHello, HandleHeartbeat,
              HandleCmd, Leave, Close, Remove, GoTo
<1>5. \A f \in Fds : owner'[f] = owner[f] \/ (owner'[f] = Nobody /\ Close(c))
  <2>1. CASE Close(c)
    <3>1. thread[c].fd \in Fds \cup {NoFd} /\ Free(thread[c].fd)
      BY <1>3, <2>1 DEF Close, Threads
    <3>2. \A f \in Fds : owner'[f] = IF f = thread[c].fd THEN Nobody ELSE owner[f]
      BY <1>1, <3>1, FreeType
    <3>3. QED
      BY <2>1, <3>2
  <2>2. CASE ~Close(c)
    BY <2>2 DEF Receiver, Arrival, LoadFd, Recv, RecvEnds, HandleHello, HandleHeartbeat,
                HandleCmd, Leave, Remove
  <2>3. QED
    BY <2>1, <2>2
<1>6. Nobody \notin Clients
  BY ClientsAssumption
<1>7. Held(c)'
  <2>1. CASE Leave(c)
    BY <1>1, <1>3, <2>1 DEF Leave, Held, Owned, Threads
  <2>2. CASE Close(c)
    <3>1. thread[c].fd \in Fds \cup {NoFd} /\ Free(thread[c].fd) /\ fd[c] = NoFd
          /\ thread[c].pc = "close" /\ fd' = fd
      BY <1>1, <1>3, <2>2 DEF Close, Threads, Owned
    <3>2. \A f \in Fds : owner'[f] = IF f = thread[c].fd THEN Nobody ELSE owner[f]
      BY <1>1, <3>1, FreeType
    <3>3. \A f \in Fds : owner'[f] # c
      BY <1>1, <1>6, <3>1, <3>2, Descriptors DEF Held
    <3>4. QED
      BY <3>3 DEF Held
  <2>3. CASE ~Leave(c) /\ ~Close(c)
    <3>1. thread[c].pc # "close" /\ owner' = owner /\ fd' = fd
      BY <2>3 DEF Receiver, Arrival, LoadFd, Recv, RecvEnds, HandleHello,
                  HandleHeartbeat, HandleCmd, Remove, Frames
    <3>2. QED
      BY <1>1, <3>1 DEF Held
  <2>4. QED
    BY <2>1, <2>2, <2>3
<1>8. \A d \in Clients : Held(d)'
  BY <1>1, <1>4, <1>5, <1>6, <1>7 DEF Held
<1>9. Aged(c)'
  <2>1. thread'[c].pc # "unborn"
    BY <1>3 DEF Receiver, Arrival, LoadFd, Recv, RecvEnds, HandleHello, HandleHeartbeat,
                HandleCmd, Leave, Close, Remove, GoTo, Frames, Threads
  <2>2. CASE Recv(c)
    BY <1>1, <1>3, <2>1, <2>2, Numbers DEF Recv, Aged, MaxRxAge
  <2>3. CASE ~Recv(c)
    <3>1. thread'[c].pc # "HELLO"
      BY <1>3, <2>3 DEF Receiver, Arrival, LoadFd, RecvEnds, HandleHello,
           HandleHeartbeat, HandleCmd, Leave, Close, Remove, GoTo, Threads
    <3>2. QED
      BY <2>1, <3>1 DEF Aged
  <2>4. QED
    BY <2>2, <2>3
<1>10. \A d \in Clients : Aged(d)'
  BY <1>1, <1>4, <1>9 DEF Aged
<1>11. ASSUME NEW d \in Clients, Due(d), d # c \/ ~Remove(c)
       PROVE  Due(d)'
  <2>1. CASE d # c
    BY <1>1, <1>3, <1>4, <1>11, <2>1, DueKept
  <2>2. CASE d = c /\ HandleHello(c)
    BY <1>3, <1>11, <2>2, HelloStaysDue
  <2>3. CASE d = c /\ ~HandleHello(c) /\ ~Remove(c)
    <3>1. \/ rxAge'[c] = 0 \/ hbAge'[c] = 0
          \/ UNCHANGED <<hello[c], rxAge[c], hbAge[c]>>
      BY <1>3, <2>3 DEF Receiver, Arrival, LoadFd, Recv, RecvEnds, HandleHeartbeat,
                        HandleCmd, Leave, Close
    <3>2. QED
      BY <1>1, <1>3, <1>11, <2>3, <3>1, DueKept
  <2>4. QED
    BY <1>11, <2>1, <2>2, <2>3
<1>12. StrikeIsDue'
  <2>1. SUFFICES ASSUME watch.pc = "strike", NEW d \in Clients,
                        watch.target \in Fds, owner'[watch.target] = d
                 PROVE  Due(d)'
    BY <1>1, <1>3 DEF StrikeIsDue
  <2>2. owner[watch.target] = d /\ Due(d)
    BY <1>1, <1>5, <1>6, <2>1 DEF StrikeIsDue
  <2>3. ~(d = c /\ Remove(c))
    BY <1>1, <1>3, <2>1, <2>2, Descriptors DEF Held, Owned, Remove
  <2>4. QED
    BY <1>11, <2>2, <2>3
<1>13. QED
  BY <1>2, <1>8, <1>10, <1>12 DEF WInv

LEMMA WatchedAcceptor ==
  ASSUME WInv, Acceptor
  PROVE  WInv'
<1>. USE DEF clientVars, ages, workerVars, kernelVars
<1>1. /\ TypeOK /\ StrikeIsDue /\ \A d \in Clients : Owned(d) /\ Held(d) /\ Aged(d)
      /\ IInv
  BY DEF WInv, IInv
<1>2. IInv'
  BY <1>1, AcceptorStep
<1>3. /\ fd \in [Clients -> Fds \cup {NoFd}] /\ thread \in [Clients -> Threads]
      /\ owner \in [Fds -> Clients \cup {Nobody}]
      /\ Nobody \notin Clients
  BY <1>1, ClientsAssumption DEF TypeOK, Threads
<1>4. UNCHANGED <<watch, hello, rxAge, hbAge>>
  BY DEF Acceptor, Accept, Register, AcceptorEnds
<1>5. \A d \in Clients : Due(d)' = Due(d)
  BY <1>4 DEF Due, Silent
<1>6. ASSUME NEW c \in Clients, Accept(c)
      PROVE  WInv'
  <2>1. PICK f \in FreeFds : /\ owner' = [owner EXCEPT ![f] = c]
                             /\ fd' = [fd EXCEPT ![c] = f]
    BY <1>6 DEF Accept
  <2>2. /\ f \in Fds /\ owner[f] = Nobody
    BY <2>1 DEF FreeFds
  <2>3. /\ thread[c].pc = "unborn" /\ thread'[c].pc = "accepted"
        /\ \A d \in Clients : d # c => thread'[d] = thread[d]
    BY <1>3, <1>6 DEF Accept, Threads
  <2>4. /\ fd'[c] = f /\ \A d \in Clients : d # c => fd'[d] = fd[d]
        /\ owner'[f] = c /\ \A g \in Fds : g # f => owner'[g] = owner[g]
    BY <1>3, <2>1, <2>2
  <2>5. /\ fd[c] = NoFd /\ rxAge[c] = 0
    BY <1>1, <2>3 DEF Aged
  <2>6. ASSUME NEW d \in Clients
        PROVE  Held(d)' /\ Aged(d)'
    <3>1. CASE d = c
      <4>1. \A g \in Fds : owner[g] # c
        BY <1>1, <2>3, <2>5, Descriptors DEF Held
      <4>2. QED
        BY <2>3, <2>4, <3>1, <4>1 DEF Held, Aged
    <3>2. CASE d # c
      BY <1>1, <1>4, <2>3, <2>4, <3>2 DEF Held, Aged
    <3>3. QED
      BY <3>1, <3>2
  <2>7. StrikeIsDue'
    <3>1. SUFFICES ASSUME watch.pc = "strike", NEW d \in Clients,
                          watch.target \in Fds, owner'[watch.target] = d
                   PROVE  Due(d)
      BY <1>1, <1>4, <1>5 DEF StrikeIsDue
    <3>2. CASE watch.target = f
      <4>1. d = c
        BY <2>4, <3>1, <3>2
      <4>2. QED
        BY <1>1, <2>5, <4>1, Numbers DEF Due
    <3>3. CASE watch.target # f
      BY <1>1, <2>4, <3>1, <3>3 DEF StrikeIsDue
    <3>4. QED
      BY <3>2, <3>3
  <2>8. QED
    BY <1>2, <2>6, <2>7 DEF WInv
<1>7. ASSUME AcceptorEnds \/ \E c \in Clients : Register(c)
      PROVE  WInv'
  <2>1. UNCHANGED <<fd, owner>>
    BY <1>7 DEF AcceptorEnds, Register
  <2>2. ASSUME NEW d \in Clients
        PROVE  \/ thread'[d] = thread[d]
               \/ thread[d].pc = "accepted" /\ thread'[d].pc = "loop"
    <3>1. CASE AcceptorEnds
      BY <3>1 DEF AcceptorEnds
    <3>2. ASSUME NEW c \in Clients, Register(c)
          PROVE  \/ thread'[d] = thread[d]
                 \/ thread[d].pc = "accepted" /\ thread'[d].pc = "loop"
      <4>1. /\ thread[c].pc = "accepted" /\ thread[c] \in Threads
            /\ thread' = [thread EXCEPT ![c].pc = "loop"]
        BY <1>3, <3>2 DEF Register
      <4>2. CASE d = c
        BY <1>3, <4>1, <4>2 DEF Threads
      <4>3. CASE d # c
        BY <1>3, <4>1, <4>3
      <4>4. QED
        BY <4>2, <4>3
    <3>3. QED
      BY <1>7, <3>1, <3>2
  <2>3. ASSUME NEW d \in Clients
        PROVE  Held(d)' /\ Aged(d)'
    BY <1>1, <1>4, <2>1, <2>2 DEF Held, Aged
  <2>4. StrikeIsDue'
    BY <1>1, <1>4, <1>5, <2>1 DEF StrikeIsDue
  <2>5. QED
    BY <1>2, <2>3, <2>4 DEF WInv
<1>8. QED
  BY <1>6, <1>7 DEF Acceptor

\* The watchdog decides on a client it may shut down.
LEMMA WatchedInspect ==
  ASSUME WInv, NEW c \in Clients, Inspect(c), watch'.pc = "strike",
         UNCHANGED <<owner, fd, hello, rxAge, hbAge>>
  PROVE  StrikeIsDue'
<1>1. TypeOK /\ Owned(c)
  BY DEF WInv, IInv
<1>2. /\ watch \in Watches /\ watch.pc = "pass"
      /\ fd[c] # NoFd /\ Expired(c)
      /\ watch' = [watch EXCEPT !.pc = "strike", !.target = fd[c], !.todo = @ \ {c}]
  <2>1. watch \in Watches /\ watch.pc = "pass"
    BY <1>1 DEF TypeOK, Watches, Inspect
  <2>2. CASE fd[c] # NoFd /\ Expired(c)
    BY <2>1, <2>2 DEF Inspect
  <2>3. CASE ~(fd[c] # NoFd /\ Expired(c))
    <3>1. watch' = [watch EXCEPT !.todo = @ \ {c}]
      BY <2>3 DEF Inspect
    <3>2. QED
      BY <2>1, <3>1 DEF Watches
  <2>4. QED
    BY <2>2, <2>3
<1>3. watch'.target = fd[c] /\ watch'.lag = watch.lag
  BY <1>2 DEF Watches
<1>4. /\ watch.lag \in 0..1 /\ rxAge[c] \in 0..4 /\ hbAge[c] \in 0..3
  BY <1>1, Numbers
<1>5. Due(c)
  <2>1. CASE hello[c]
    BY <1>2, <1>4, <2>1 DEF Expired, Reference, Limit, Due, Silent, Timeout
  <2>2. CASE ~hello[c]
    BY <1>2, <1>4, <2>2 DEF Expired, Reference, Limit, Due, Silent, Timeout
  <2>3. QED
    BY <2>1, <2>2
<1>6. Due(c)'
  BY <1>3, <1>5 DEF Due, Silent
<1>7. owner[fd[c]] = c /\ fd[c] \in Fds
  BY <1>1, <1>2 DEF Owned, TypeOK
<1>8. QED
  BY <1>3, <1>6, <1>7 DEF StrikeIsDue

LEMMA WatchedTick ==
  ASSUME WInv, Tick
  PROVE  WInv'
<1>. USE DEF clientVars, workerVars, kernelVars
<1>1. /\ TypeOK /\ StrikeIsDue /\ \A d \in Clients : Owned(d) /\ Held(d) /\ Aged(d)
      /\ IInv
  BY DEF WInv, IInv
<1>2. IInv'
  BY <1>1, OthersStep
<1>3. UNCHANGED <<fd, owner, thread, hello>>
  BY DEF Tick
<1>4. /\ watch \in Watches /\ watch.lag \in 0..1
      /\ \A d \in Clients : rxAge[d] \in 0..4 /\ hbAge[d] \in 0..3
  BY <1>1, Numbers DEF TypeOK, Watches
<1>5. \A d \in Clients :
        /\ rxAge'[d] = IF fd[d] = NoFd THEN 0 ELSE IF rxAge[d] = 4 THEN 4 ELSE rxAge[d] + 1
        /\ hbAge'[d] = IF fd[d] = NoFd THEN 0 ELSE IF hbAge[d] = 3 THEN 3 ELSE hbAge[d] + 1
  BY DEF Tick, Older, MaxRxAge, MaxHbAge, MaxLag, Timeout
<1>6. ASSUME NEW d \in Clients
      PROVE  Held(d)' /\ Aged(d)'
  <2>1. Held(d)'
    BY <1>1, <1>3 DEF Held
  <2>2. thread[d].pc = "unborn" => fd'[d] = NoFd /\ rxAge'[d] = 0
    BY <1>1, <1>3, <1>5 DEF Aged
  <2>3. thread[d].pc = "HELLO" => rxAge'[d] <= hbAge'[d] \/ hbAge'[d] = MaxHbAge
    BY <1>1, <1>4, <1>5 DEF Aged, MaxHbAge, MaxLag, Timeout
  <2>4. QED
    BY <1>3, <2>1, <2>2, <2>3 DEF Aged
<1>7. StrikeIsDue'
  <2>1. SUFFICES ASSUME watch'.pc = "strike", NEW d \in Clients,
                        watch'.target \in Fds, owner[watch'.target] = d
                 PROVE  Due(d)'
    <3>1. watch'.pc = watch.pc /\ watch'.target = watch.target
      BY <1>4 DEF Tick, Watches
    <3>2. QED
      BY <1>1, <1>3, <3>1 DEF StrikeIsDue
  <2>2. /\ watch.pc = "strike" /\ watch'.target = watch.target
        /\ watch'.lag = watch.lag + 1
    BY <1>4, <2>1 DEF Tick, Watches
  <2>3. Due(d)
    BY <1>1, <2>1, <2>2 DEF StrikeIsDue
  <2>4. CASE rxAge[d] <= watch.lag \/ hbAge[d] <= watch.lag
    <3>1. rxAge'[d] <= watch.lag + 1 \/ hbAge'[d] <= watch.lag + 1
      BY <1>4, <1>5, <2>4
    <3>2. QED
      BY <2>2, <3>1 DEF Due
  <2>5. CASE Silent(d)
    <3>1. CASE fd[d] = NoFd
      BY <1>4, <1>5, <2>2, <3>1 DEF Due
    <3>2. CASE fd[d] # NoFd
      <4>1. rxAge'[d] >= rxAge[d] /\ hbAge'[d] >= hbAge[d]
        BY <1>4, <1>5, <3>2
      <4>2. rxAge'[d] \in 0..4 /\ hbAge'[d] \in 0..3
        BY <1>4, <1>5
      <4>3. Silent(d)'
        BY <1>3, <1>4, <2>5, <4>1, <4>2 DEF Silent, Timeout
      <4>4. QED
        BY <4>3 DEF Due
    <3>3. QED
      BY <3>1, <3>2
  <2>6. QED
    BY <2>3, <2>4, <2>5 DEF Due
<1>8. QED
  BY <1>2, <1>6, <1>7 DEF WInv

LEMMA WatchedOthers ==
  ASSUME WInv,
         \/ \E c \in Clients : PeerEnds(c)
         \/ Watchdog \/ Worker \/ Report \/ UNCHANGED vars
  PROVE  WInv'
<1>. USE DEF clientVars, ages, workerVars, kernelVars
<1>1. /\ TypeOK /\ StrikeIsDue /\ \A d \in Clients : Owned(d) /\ Held(d) /\ Aged(d)
      /\ IInv
  BY DEF WInv, IInv
<1>2. IInv'
  BY <1>1, OthersStep
<1>3. UNCHANGED <<fd, owner, thread, hello, rxAge, hbAge>>
  BY DEF PeerEnds, Watchdog, Worker, Report, vars
<1>4. \A d \in Clients : Held(d)' /\ Aged(d)'
  BY <1>1, <1>3 DEF Held, Aged
<1>5. StrikeIsDue'
  <2>1. CASE watch' = watch
    BY <1>1, <1>3, <2>1 DEF StrikeIsDue, Due, Silent
  <2>2. CASE \E c \in Clients : Inspect(c)
    <3>1. PICK c \in Clients : Inspect(c)
      BY <2>2
    <3>2. CASE watch'.pc = "strike"
      BY <1>3, <3>1, <3>2, WatchedInspect
    <3>3. CASE watch'.pc # "strike"
      BY <3>3 DEF StrikeIsDue
    <3>4. QED
      BY <3>2, <3>3
  <2>3. CASE Sample \/ Snapshot \/ Strike \/ PassEnds \/ WatchdogEnds
    <3>1. watch'.pc # "strike"
      <4>1. watch \in Watches
        BY <1>1 DEF TypeOK, Watches
      <4>2. QED
        BY <2>3, <4>1 DEF Sample, Snapshot, Strike, PassEnds, WatchdogEnds, Watches
    <3>2. QED
      BY <3>1 DEF StrikeIsDue
  <2>4. QED
    BY <2>1, <2>2, <2>3 DEF PeerEnds, Watchdog, Worker, Report, vars
<1>6. QED
  BY <1>2, <1>4, <1>5 DEF WInv

LEMMA WatchedStop ==
  ASSUME WInv, Stop
  PROVE  WInv'
<1>. USE DEF clientVars, ages, workerVars, kernelVars
<1>1. /\ TypeOK /\ StrikeIsDue /\ \A d \in Clients : Owned(d) /\ Held(d) /\ Aged(d)
      /\ IInv
  BY DEF WInv, IInv
<1>2. IInv'
  BY <1>1, StopStep
<1>3. UNCHANGED <<hello, rxAge, hbAge, thread, watch>>
  BY DEF Stop
<1>4. \A d \in Clients : Due(d)' = Due(d)
  BY <1>3 DEF Due, Silent
<1>5. CASE StopClosesClient
  <2>1. PICK c \in clients : /\ fd[c] # NoFd
                             /\ fd' = [fd EXCEPT ![c] = NoFd]
                             /\ Free(fd[c])
    BY <1>5 DEF StopClosesClient
  <2>2. /\ c \in Clients /\ fd[c] \in Fds /\ owner[fd[c]] = c
        /\ fd \in [Clients -> Fds \cup {NoFd}] /\ Nobody \notin Clients
    BY <1>1, <2>1, ClientsAssumption DEF TypeOK, Owned
  <2>3. \A g \in Fds : owner'[g] = IF g = fd[c] THEN Nobody ELSE owner[g]
    BY <1>1, <2>1, <2>2, FreeType
  <2>4. fd'[c] = NoFd /\ \A d \in Clients : d # c => fd'[d] = fd[d]
    BY <2>1, <2>2
  <2>5. ASSUME NEW d \in Clients
        PROVE  Held(d)' /\ Aged(d)'
    <3>1. Aged(d)'
      BY <1>1, <1>3, <2>4 DEF Aged
    <3>2. Held(d)'
      <4>1. SUFFICES ASSUME NEW g \in Fds, owner'[g] = d
                     PROVE  fd'[d] = g \/ (thread[d].pc = "close" /\ thread[d].fd = g)
        BY <1>3 DEF Held
      <4>2. g # fd[c] /\ owner[g] = d
        BY <2>2, <2>3, <4>1
      <4>3. fd[d] = g \/ (thread[d].pc = "close" /\ thread[d].fd = g)
        BY <1>1, <4>2 DEF Held
      <4>4. QED
        BY <2>4, <4>2, <4>3
    <3>3. QED
      BY <3>1, <3>2
  <2>6. StrikeIsDue'
    <3>1. SUFFICES ASSUME watch.pc = "strike", NEW d \in Clients,
                          watch.target \in Fds, owner'[watch.target] = d
                   PROVE  Due(d)
      BY <1>1, <1>3, <1>4 DEF StrikeIsDue
    <3>2. owner[watch.target] = d
      BY <2>2, <2>3, <3>1
    <3>3. QED
      BY <1>1, <3>1, <3>2 DEF StrikeIsDue
  <2>7. QED
    BY <1>2, <2>5, <2>6 DEF WInv
<1>6. CASE ~StopClosesClient
  <2>1. UNCHANGED <<fd, owner>>
    BY <1>6 DEF Stop, StopBegins, StopNotifies, StopClosesListener, StopJoins, StopReturns
  <2>2. \A d \in Clients : Held(d)' /\ Aged(d)'
    BY <1>1, <1>3, <2>1 DEF Held, Aged
  <2>3. StrikeIsDue'
    BY <1>1, <1>3, <1>4, <2>1 DEF StrikeIsDue
  <2>4. QED
    BY <1>2, <2>2, <2>3 DEF WInv
<1>7. QED
  BY <1>5, <1>6

LEMMA WatchedInit == Init => WInv
<1>1. SUFFICES ASSUME Init PROVE WInv
  OBVIOUS
<1>2. IInv
  BY <1>1, InductiveInit
<1>3. StrikeIsDue
  BY <1>1 DEF Init, StrikeIsDue
<1>4. \A c \in Clients : Held(c) /\ Aged(c)
  BY <1>1, ClientsAssumption DEF Init, Held, Aged
<1>5. QED
  BY <1>2, <1>3, <1>4 DEF WInv

\* The watchdog shuts down a silent console, or one accepted or heard from during
\* that very pass (the unsigned difference, and shutdown() by descriptor).
THEOREM WatchdogIsHonest == Spec => WatchdogHonest
<1>. DEFINE A == \A c \in Clients :
                   watch.pc = "strike" /\ watch'.pc = "pass" /\ ~shut[c] /\ shut'[c] =>
                     \/ Silent(c)
                     \/ rxAge[c] <= watch.lag
                     \/ hbAge[c] <= watch.lag
<1>1. WInv /\ [Next]_vars => WInv'
  BY WatchedReceiver, WatchedAcceptor, WatchedTick, WatchedOthers, WatchedStop DEF Next
<1>2. WInv /\ [Next]_vars => [A]_vars
  <2>1. SUFFICES ASSUME WInv, Next, NEW c \in Clients,
                        watch.pc = "strike", watch'.pc = "pass", ~shut[c], shut'[c]
                 PROVE  Due(c)
    BY DEF Due
  <2>2. TypeOK /\ StrikeIsDue
    BY <2>1 DEF WInv, IInv
  <2>3. Strike
    <3>1. watch' # watch
      BY <2>1
    <3>2. \A d \in Clients : ~Inspect(d)
      BY <2>1 DEF Inspect
    <3>3. ~Sample /\ ~Snapshot /\ ~PassEnds /\ ~WatchdogEnds
      BY <2>1 DEF Sample, Snapshot, PassEnds, WatchdogEnds
    <3>4. ~Tick
      <4>1. watch \in Watches
        BY <2>2 DEF TypeOK, Watches
      <4>2. QED
        BY <2>1, <4>1 DEF Tick, Watches
    <3>5. Watchdog
      BY <2>1, <3>1, <3>4 DEF Next, PeerEnds, Arrival, Receiver, Acceptor, Accept,
                              Register, AcceptorEnds, Worker, Report, Stop
    <3>6. QED
      BY <3>2, <3>3, <3>5 DEF Watchdog
  <2>4. owner[watch.target] = c
    BY <2>1, <2>2, <2>3 DEF Strike, TypeOK
  <2>5. QED
    BY <2>1, <2>2, <2>4 DEF StrikeIsDue
<1>3. QED
  BY <1>1, <1>2, WatchedInit, PTL DEF Spec, WatchdogHonest
=============================================================================
