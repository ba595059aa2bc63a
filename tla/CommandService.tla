--------------------------- MODULE CommandService ---------------------------
(***************************************************************************)
(* What the bridge promises one console, whatever threads, queues, topics  *)
(* and time-outs lie between a command and its CMD_ACK: a command that is  *)
(* asked for is executed at most once, in the order asked for except that  *)
(* an urgent command may overtake; it is answered at most once; an answer  *)
(* is the robot's own verdict on it or a refusal of the bridge, and the    *)
(* bridge refuses no urgent command.                                       *)
(***************************************************************************)
EXTENDS Naturals, Sequences

CONSTANTS
  Kinds,     \* the commands
  Urgent,    \* those that may overtake
  Verdicts,  \* what the robot says of a command it has taken
  Refusals   \* the reasons of the bridge

VARIABLES
  open,      \* the console is connected
  asked,     \* the commands it sent, the n-th one with sequence number n
  done,      \* what the robot took, in order, with its verdict
  answers    \* the answers the console was sent

vars == <<open, asked, done, answers>>

\* e was taken before f is.
MayPrecede(e, f) ==
  /\ e.seq # f.seq
  /\ e.seq < f.seq \/ (e.cmd \in Urgent /\ f.cmd \notin Urgent)

Answered(n) == \E i \in DOMAIN answers : answers[i].seq = n

Init == open = TRUE /\ asked = <<>> /\ done = <<>> /\ answers = <<>>

Ask ==
  /\ open
  /\ \E k \in Kinds :
       asked' = Append(asked, [cmd |-> k, seq |-> Len(asked) + 1])
  /\ UNCHANGED <<open, done, answers>>

Execute ==
  /\ \E n \in DOMAIN asked, v \in Verdicts :
       /\ \A i \in DOMAIN done : MayPrecede(done[i], asked[n])
       /\ done' = Append(done, [cmd |-> asked[n].cmd, seq |-> n, status |-> v])
  /\ UNCHANGED <<open, asked, answers>>

\* The verdict of the robot on the n-th command.
Confirm(n) ==
  \E i \in DOMAIN done :
    done[i].seq = n /\ answers' = Append(answers, done[i])

Refuse(n) ==
  /\ asked[n].cmd \notin Urgent
  /\ \E r \in Refusals :
       answers' = Append(answers, [cmd |-> asked[n].cmd, seq |-> n, status |-> r])

Answer ==
  /\ open
  /\ \E n \in DOMAIN asked : ~Answered(n) /\ (Confirm(n) \/ Refuse(n))
  /\ UNCHANGED <<open, asked, done>>

Close ==
  /\ open
  /\ open' = FALSE
  /\ UNCHANGED <<asked, done, answers>>

Next == Ask \/ Execute \/ Answer \/ Close

Spec == Init /\ [][Next]_vars
=============================================================================
