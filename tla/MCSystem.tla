------------------------------ MODULE MCSystem ------------------------------
(* Instances of System for TLC; the values are in the configuration. *)
EXTENDS System

\* A task and its ESTOP; and a RESET sent before the ESTOP, which a batch may put
\* behind it, with a task after both.
MCScripts ==
  UNION {{SubSeq(s, 1, n) : n \in 0..Len(s)} :
           s \in {<<"CMD_TASK", "CMD_ESTOP">>,
                  <<"CMD_RESET", "CMD_ESTOP", "CMD_TASK">>}}
=============================================================================
