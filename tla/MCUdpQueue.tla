----------------------------- MODULE MCUdpQueue -----------------------------
(* Instances of UdpQueue for TLC: see the cfg files. *)
EXTENDS UdpQueue

(* A cell shorter than a head, as long as it, and a cell longer.           *)
AroundHead == {2, 3, 4}
OneLength == {3}
=============================================================================
