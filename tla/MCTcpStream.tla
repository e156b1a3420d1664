---------------------------- MODULE MCTcpStream ----------------------------
(* An instance of TcpStream for TLC: see the cfg file. *)
EXTENDS TcpStream
=============================================================================
