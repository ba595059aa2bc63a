---------------------------- MODULE MCTcpServer ----------------------------
(* Instances of TcpServer for TLC; the values are in the configuration. *)
EXTENDS TcpServer
=============================================================================
