---------------------------- MODULE MCFakeRobot ----------------------------
(* Model-checking instance of FakeRobot and the pages that show it. *)
EXTENDS ConsolePages
============================================================================
