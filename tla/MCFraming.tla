----------------------------- MODULE MCFraming -----------------------------
(* An instance of Framing for TLC: a head of two cells, a buffer of four,  *)
(* and lengths below a head, of a head, between, of a buffer and above.    *)
EXTENDS Framing

SomeLengths == {1, 2, 3, 4, 5}
=============================================================================
