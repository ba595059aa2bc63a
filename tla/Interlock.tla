------------------------------ MODULE Interlock ------------------------------
(***************************************************************************)
(* What the robot promises whoever stands beside it and whoever commands   *)
(* it, whatever its phases, node states and published flags are: it sets   *)
(* out only on a task it accepts, when nobody pressed the estop, a console *)
(* is heard and no error is listed; each of these taken away halts it in   *)
(* the same step; an estop, or a console lost on the way, takes the task   *)
(* from it for good; and what it rejects moves nothing.                    *)
(***************************************************************************)
CONSTANTS
  Tasks,    \* what it may be sent on
  Nothing,  \* no task
  Errors,   \* the errors that halt it
  Curable   \* those a reset may clear

VARIABLES
  estop,   \* the estop is latched
  heard,   \* a console is heard
  errors,  \* the errors listed
  moving,
  task,    \* what it may set out on again without being sent anew
  answer   \* its answer to the last command

state == <<estop, heard, errors, moving, task>>
vars  == <<state, answer>>

Commands == {"CMD_ESTOP", "CMD_RESET", "CMD_TASK", "CMD_MODE",
             "INJECT_FAULT", "CLEAR_FAULT", "other"}
Verdicts == {"ACCEPTED", "REJECTED", "DONE"}

Init ==
  /\ estop = FALSE /\ heard = FALSE /\ errors = {}
  /\ moving = FALSE /\ task = Nothing
  /\ answer = [cmd |-> "none"]

-----------------------------------------------------------------------------
Clear == ~estop /\ heard /\ errors = {}

Start ==
  /\ Clear /\ ~moving
  /\ moving' = TRUE /\ task' \in Tasks
  /\ UNCHANGED <<estop, heard, errors>>

Resume ==
  /\ Clear /\ ~moving /\ task # Nothing
  /\ moving' = TRUE
  /\ UNCHANGED <<estop, heard, errors, task>>

\* paused, arrived, or deactivated on the way
Halt ==
  /\ moving
  /\ moving' = FALSE
  /\ UNCHANGED <<estop, heard, errors, task>>

Cancel ==
  /\ moving' = FALSE /\ task' = Nothing
  /\ UNCHANGED <<estop, heard, errors>>

Fail ==
  /\ \E e \in Errors : errors' = errors \cup {e}
  /\ moving' = FALSE
  /\ UNCHANGED <<estop, heard, task>>

\* Errors are cleared; a robot that moves has none.
Repair ==
  /\ moving => errors = {}
  /\ errors' = {}
  /\ UNCHANGED <<estop, heard, moving, task>>

Engage ==
  /\ estop' = TRUE /\ moving' = FALSE /\ task' = Nothing
  /\ UNCHANGED <<heard, errors>>

Reset ==
  /\ errors \subseteq Curable
  /\ estop' = FALSE /\ errors' = {} /\ moving' = FALSE /\ task' = Nothing
  /\ UNCHANGED heard

Lose ==
  /\ heard
  /\ heard' = FALSE /\ moving' = FALSE
  /\ task' = IF moving THEN Nothing ELSE task
  /\ UNCHANGED <<estop, errors>>

Hear ==
  /\ heard' = TRUE
  /\ UNCHANGED <<estop, errors, moving, task>>

\* The node is configured anew.
Restart ==
  /\ ~moving
  /\ estop' = FALSE /\ heard' = FALSE /\ errors' = {}
  /\ moving' = FALSE /\ task' = Nothing

-----------------------------------------------------------------------------
\* What it does unasked.
Itself == Halt \/ (moving /\ Fail) \/ Lose \/ Hear

\* What it does on command c when it answers v.
Command(c, v) ==
  \/ c = "CMD_ESTOP" /\ v = "ACCEPTED" /\ Engage
  \/ c = "CMD_RESET" /\ v = "ACCEPTED" /\ Reset
  \/ c = "CMD_TASK" /\ v = "ACCEPTED" /\ (Start \/ Resume \/ Halt \/ Cancel)
  \/ c = "CMD_TASK" /\ v = "REJECTED" /\ ~moving /\ Fail
  \/ c = "INJECT_FAULT" /\ v = "ACCEPTED" /\ Fail
  \/ c = "CLEAR_FAULT" /\ v = "ACCEPTED" /\ Repair
  \/ <<c, v>> \in {<<"CMD_MODE", "ACCEPTED">>, <<"CMD_TASK", "DONE">>}
       /\ UNCHANGED state
  \/ c # "CMD_ESTOP" /\ v = "REJECTED" /\ UNCHANGED state

Obey ==
  \E c \in Commands, v \in Verdicts :
    answer' = [cmd |-> c, status |-> v] /\ Command(c, v)

Next ==
  \/ UNCHANGED answer /\ (Itself \/ Restart)
  \/ Obey

Spec == Init /\ [][Next]_vars
=============================================================================
