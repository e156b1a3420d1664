---------------------------- MODULE MCEchoServer ----------------------------
(* An instance of EchoServer for TLC: see the cfg file. *)
EXTENDS EchoServer, TLC

CONSTANTS a, c1, c2, c3, l, s1, s2, s3

(* One that runs, one that is deleted when the next one ends, one to come. *)
ThreeHandlers == {a, c1, c2, c3}
TheirSockets == {l, s1, s2, s3}
StackOf == c1 :> s1 @@ c2 :> s2 @@ c3 :> s3
NoChans == {}
NoSleeps == {}
=============================================================================
