------------------------------- MODULE MCEpoll -------------------------------
(* Instances of Epoll for TLC. *)
EXTENDS Epoll, TLC

CONSTANTS c1, c2, c3, h1, s1, s2

ThreeCoroutines == {c1, c2, c3}
OneChan == {h1}
OneSocket == {s1}
TwoSockets == {s1, s2}

(* Sleeps of one second, of a whole turn of the wheel, and beyond it. *)
ShortSleeps == {1}
AllSleeps == 1..(MaxSleep + 1)

Symmetry == Permutations(Coroutines) \cup Permutations(Sockets)
=============================================================================
