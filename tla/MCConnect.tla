----------------------------- MODULE MCConnect -----------------------------
(* Instances of Connect for TLC. *)
EXTENDS Connect, TLC

CONSTANTS c1, c2, t1, t2, t3, h1, h2, s1, s2

TwoCallers == {c1, c2}
OneConnecter == {c1}
OneReader == {c2}
TwoTimers == {c1, c2, t1, t2}
ThreeTimers == {c1, c2, t1, t2, t3}
TwoChans == {h1, h2}
TwoSockets == {s1, s2}
ChanOfCaller == c1 :> h1 @@ c2 :> h2

OneSecond == {1}
NoneOrTwo == {0, 2}
OneOrTwo == {1, 2}

TimerSymmetry == Permutations({t1, t2, t3})
=============================================================================
