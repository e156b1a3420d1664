----------------------------- MODULE SendStream -----------------------------
(***************************************************************************)
(* What a socket of goserver/tcpsocket promises to the goroutines that     *)
(* write to it, with no lock, double buffer, notification channel or       *)
(* sending goroutine in sight: messages are accepted whole and in one      *)
(* order, and at any time the connection has taken a prefix of them, until *)
(* it breaks or is closed. GoSocket.tla is shown to implement this module. *)
(***************************************************************************)
EXTENDS Naturals, Sequences

CONSTANT Messages    \* the messages there are: sequences of units

VARIABLES accepted,  \* the units of all messages accepted, in order
          wire,      \* the units the connection has taken
          broken,    \* a write to the connection has failed
          closed     \* the socket is closed

vars == <<accepted, wire, broken, closed>>

Init ==
  /\ accepted = <<>>
  /\ wire = <<>>
  /\ broken = FALSE
  /\ closed = FALSE

(* A message is accepted, all of it at once. *)
Accept(msg) ==
  /\ ~closed
  /\ accepted' = accepted \o msg
  /\ UNCHANGED <<wire, broken, closed>>

(* The connection has taken the first n units accepted. *)
Taken(n) == wire' = SubSeq(accepted, 1, n)

(* The connection takes more of what was accepted. *)
Deliver ==
  /\ ~broken
  /\ ~closed
  /\ \E n \in Len(wire)..Len(accepted) : Taken(n)
  /\ UNCHANGED <<accepted, broken, closed>>

(* The connection breaks: it takes nothing more after that. *)
Break ==
  /\ ~broken
  /\ \E n \in Len(wire)..Len(accepted) : Taken(n) /\ (closed => n = Len(wire))
  /\ broken' = TRUE
  /\ UNCHANGED <<accepted, closed>>

(* The socket is closed: it accepts and delivers nothing after that. *)
Close ==
  /\ closed' = TRUE
  /\ UNCHANGED <<accepted, wire, broken>>

Next == (\E msg \in Messages : Accept(msg)) \/ Deliver \/ Break \/ Close

Spec == Init /\ [][Next]_vars
=============================================================================
