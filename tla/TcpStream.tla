----------------------------- MODULE TcpStream -----------------------------
(***************************************************************************)
(* The byte stream of TcpSocket in src/wrapsocket.cpp: Write with its      *)
(* write buffer, OnOut, Read, OnIn and Close, on an edge-triggered epoll   *)
(* descriptor and a kernel whose send buffer fills and drains while the    *)
(* thread works. Any coroutine writes and closes whenever it has the CPU;  *)
(* one reads. What the scheduler does with coroutines is in Epoll.tla:     *)
(* here an action is a call, or a piece of one between two system calls.   *)
(***************************************************************************)
EXTENDS Naturals, Sequences, FiniteSets

CONSTANTS
  SndBuf,    \* the units the kernel's send buffer takes
  MaxWrite,  \* bound: the units of one Write
  MaxUnits,  \* bound: the units written to one connection
  MaxOpens,  \* bound: the connections there are, one after the other
  MaxArrive  \* bound: the units in the kernel's receive buffer

ASSUME SizesAssumption ==
  /\ SndBuf \in Nat \ {0} /\ MaxWrite \in Nat /\ MaxUnits \in Nat
  /\ MaxOpens \in Nat /\ MaxArrive \in Nat

VARIABLES
  conn,          \* what m_fd is: "none" for -1, else the connection's state
  opens,         \* how many connections there have been
  m_sendFail,
  m_writeBuffer,
  at,            \* where the thread is: in no call, or in a loop of them
  rest,          \* in a loop over send: the units not sent yet
  connWait,      \* a coroutine is in m_connWait
  reader,        \* the reading coroutine: elsewhere, in m_inWait, or pushed
  event,         \* the event of this socket in the batch, to be dispatched
  edge,          \* the kernel has something to report
  inflight,      \* the units in the send buffer
  nospace,       \* the kernel owes an event when the send buffer has room
  avail,         \* the units in the receive buffer
  fin,           \* the peer has closed its side
  early,         \* the socket was used when it was not connected (history)
  accepted,      \* the units written to this connection (history)
  wire           \* the units its kernel has taken (history)

writeVars == <<m_sendFail, m_writeBuffer, at, rest, accepted>>
kernelVars == <<edge, inflight, nospace, avail, fin>>
vars == <<conn, opens, writeVars, connWait, reader, event, early, kernelVars, wire>>

Units == 1..MaxUnits

TypeOK ==
  /\ conn \in {"none", "connecting", "up", "broken"}
  /\ opens \in 0..MaxOpens
  /\ m_sendFail \in BOOLEAN
  /\ m_writeBuffer \in Seq(Units)
  /\ at \in {"idle", "send", "flush", "recv"}
  /\ rest \in Seq(Units)
  /\ connWait \in BOOLEAN
  /\ reader \in {"away", "waiting", "pushed"}
  /\ event \subseteq {"IN", "OUT"}
  /\ edge \in BOOLEAN /\ nospace \in BOOLEAN /\ fin \in BOOLEAN
  /\ inflight \in 0..SndBuf
  /\ avail \in 0..MaxArrive
  /\ early \in BOOLEAN
  /\ accepted \in Seq(Units)
  /\ wire \in Seq(Units)
  /\ m_sendFail => m_writeBuffer = <<>>
  /\ at \in {"idle", "recv"} => rest = <<>>

Init ==
  /\ conn = "none"
  /\ opens = 0
  /\ m_sendFail = FALSE
  /\ m_writeBuffer = <<>>
  /\ at = "idle"
  /\ rest = <<>>
  /\ connWait = FALSE
  /\ reader = "away"
  /\ event = {}
  /\ edge = FALSE
  /\ inflight = 0
  /\ nospace = FALSE
  /\ avail = 0
  /\ fin = FALSE
  /\ early = FALSE
  /\ accepted = <<>>
  /\ wire = <<>>

-----------------------------------------------------------------------------
(* Opening and closing. *)

(* A descriptor is added; nothing has been written to it yet. *)
NewConnection(state) ==
  /\ at = "idle"
  /\ conn = "none"
  /\ opens < MaxOpens
  /\ opens' = opens + 1
  /\ conn' = state
  /\ inflight' = 0 /\ nospace' = FALSE /\ avail' = 0 /\ fin' = FALSE
  /\ accepted' = <<>> /\ wire' = <<>>
  /\ UNCHANGED <<m_sendFail, m_writeBuffer, at, rest, reader, event, early>>

(* Open(fd) of an accepted connection; epoll reports it as writable. *)
Open == NewConnection("up") /\ edge' = TRUE /\ UNCHANGED connWait

(* Connect: doConnect waits in m_connWait. *)
Connect == NewConnection("connecting") /\ edge' = FALSE /\ connWait' = TRUE

(* The flag after Close; the faulty variant forgets to reset it. *)
KeptFail == m_sendFail
ResetFail == FALSE

(* Close: del, close, and whoever waits is pushed. *)
Close ==
  /\ at = "idle"
  /\ conn # "none"
  /\ conn' = "none"
  /\ m_sendFail' = ResetFail
  /\ m_writeBuffer' = <<>>
  /\ connWait' = FALSE
  /\ reader' = IF reader = "waiting" THEN "pushed" ELSE reader
  /\ edge' = FALSE
  /\ UNCHANGED <<opens, at, rest, event, inflight, nospace, avail, fin, accepted, wire, early>>

-----------------------------------------------------------------------------
(* Writing. *)

(* Write and Read may be called at any time; they are meant to be called   *)
(* once Connect or Open has returned and until somebody calls Close.       *)
Connected == conn \in {"up", "broken"} /\ ~connWait
Use == early' = (early \/ ~Connected)

NewUnits(k) == [i \in 1..k |-> Len(accepted) + i]

(* Write does nothing after a failure; behind units that wait it appends   *)
(* its own; otherwise it begins to send. The faulty variant always sends.  *)
Overtaking(k) ==
  /\ at' = "send" /\ rest' = NewUnits(k) /\ UNCHANGED m_writeBuffer
QueueOrSend(k) ==
  IF m_writeBuffer # <<>>
  THEN m_writeBuffer' = m_writeBuffer \o NewUnits(k) /\ UNCHANGED <<at, rest>>
  ELSE at' = "send" /\ rest' = NewUnits(k) /\ UNCHANGED m_writeBuffer

Write(k) ==
  /\ at = "idle"
  /\ ~m_sendFail
  /\ Len(accepted) + k <= MaxUnits
  /\ accepted' = accepted \o NewUnits(k)
  /\ QueueOrSend(k)
  /\ Use
  /\ UNCHANGED <<conn, opens, m_sendFail, connWait, reader, event, kernelVars, wire>>

(* OnOut of a connected socket with units that wait: the same loop.        *)
Flush ==
  /\ at' = "flush"
  /\ rest' = m_writeBuffer
  /\ UNCHANGED <<m_sendFail, m_writeBuffer, accepted>>

Sending == at \in {"send", "flush"}

(* send() takes n units. *)
Send(n) ==
  /\ Sending
  /\ conn = "up"
  /\ n \in 1..Len(rest) /\ inflight + n <= SndBuf
  /\ wire' = wire \o SubSeq(rest, 1, n)
  /\ rest' = SubSeq(rest, n + 1, Len(rest))
  /\ inflight' = inflight + n
  /\ UNCHANGED <<conn, opens, m_sendFail, m_writeBuffer, at, accepted, connWait, reader,
                 event, edge, nospace, avail, fin, early>>

(* The loop ends: all is sent, or what is not waits in m_writeBuffer. The  *)
(* faulty variant forgets the latter when the loop is that of OnOut.       *)
Forgotten == IF at = "flush" THEN <<>> ELSE rest
Unsent == rest

EndLoop ==
  /\ at' = "idle"
  /\ rest' = <<>>
  /\ m_writeBuffer' = Unsent
  /\ UNCHANGED <<conn, opens, m_sendFail, accepted, connWait, reader, event, wire, early>>

(* All is sent. The faulty variant leaves OnOut after any success of send. *)
SentOnce ==
  /\ Sending
  /\ rest = <<>> \/ (at = "flush" /\ Len(rest) < Len(m_writeBuffer))
  /\ EndLoop
  /\ UNCHANGED kernelVars
AllSent == Sending /\ rest = <<>> /\ EndLoop /\ UNCHANGED kernelVars

(* EAGAIN: the send buffer is full, and its room is reported later; or     *)
(* there is no connection yet.                                             *)
WouldBlock ==
  /\ Sending
  /\ rest # <<>>
  /\ \/ conn = "up" /\ inflight = SndBuf /\ nospace' = TRUE
     \/ conn = "connecting" /\ UNCHANGED nospace
  /\ EndLoop
  /\ UNCHANGED <<edge, inflight, avail, fin>>

(* Another error: from now on the socket drops what is written to it. *)
SendFails ==
  /\ Sending
  /\ rest # <<>>
  /\ conn \in {"none", "broken"}
  /\ m_sendFail' = TRUE
  /\ m_writeBuffer' = <<>>
  /\ at' = "idle"
  /\ rest' = <<>>
  /\ UNCHANGED <<conn, opens, accepted, connWait, reader, event, kernelVars, wire, early>>

-----------------------------------------------------------------------------
(* Reading. *)

(* Read is called, or goes on after its coroutine was resumed. *)
ReadCall ==
  /\ at = "idle"
  /\ \/ reader = "away" /\ Use
     \/ reader = "pushed" /\ UNCHANGED early
  /\ reader' = "away"
  /\ at' = "recv"
  /\ UNCHANGED <<conn, opens, m_sendFail, m_writeBuffer, rest, accepted, connWait, event,
                 kernelVars, wire>>

Readable == avail > 0 \/ fin \/ conn = "broken"

(* recv returns units, the end of the stream or an error ... *)
Recv ==
  /\ at = "recv"
  /\ Readable \/ conn = "none"
  /\ \/ conn # "none" /\ avail > 0 /\ avail' \in 0..avail - 1
     \/ (conn # "up" \/ avail = 0) /\ UNCHANGED avail
  /\ at' = "idle"
  /\ UNCHANGED <<conn, opens, m_sendFail, m_writeBuffer, rest, accepted, connWait, reader,
                 event, edge, inflight, nospace, fin, wire, early>>

(* ... or EAGAIN, and the reader waits. *)
RecvBlocks ==
  /\ at = "recv"
  /\ conn # "none" /\ ~Readable
  /\ reader' = "waiting"
  /\ at' = "idle"
  /\ UNCHANGED <<conn, opens, m_sendFail, m_writeBuffer, rest, accepted, connWait, event,
                 kernelVars, wire, early>>

-----------------------------------------------------------------------------
(* The loop: epoll_wait, then OnOut and OnIn. *)

Writable == inflight < SndBuf \/ conn = "broken"

(* What epoll_wait finds is what is true of the descriptor now, once for   *)
(* each time that something has happened; a little room may not count yet  *)
(* while the kernel owes an event for more. Pushed coroutines ran before.  *)
EpollWait ==
  /\ at = "idle"
  /\ event = {}
  /\ reader # "pushed"
  /\ edge
  /\ edge' = FALSE
  /\ \E out \in {o \in BOOLEAN : /\ o => Writable
                                /\ Writable /\ ~nospace => o} :
       event' = {b \in {"IN", "OUT"} : IF b = "IN" THEN Readable ELSE out}
  /\ UNCHANGED <<conn, opens, writeVars, connWait, reader, inflight, nospace, avail, fin, wire,
                 early>>

(* The bit of an event that is dispatched; a closed socket is skipped, and *)
(* a connecting coroutine comes before all else. The faulty variant        *)
(* handles one bit of an event only.                                       *)
DispatchOne(bit) ==
  /\ at = "idle"
  /\ bit \in event
  /\ event' = {}
  /\ connWait' = FALSE
  /\ UNCHANGED <<conn, opens, kernelVars, wire, early>>

Dispatch(bit) ==
  /\ at = "idle"
  /\ bit \in event
  /\ event' = event \ {bit}
  /\ connWait' = FALSE
  /\ UNCHANGED <<conn, opens, kernelVars, wire, early>>

Skip == conn = "none" \/ connWait

OnOut ==
  /\ Dispatch("OUT")
  /\ IF Skip \/ m_writeBuffer = <<>> THEN UNCHANGED writeVars ELSE Flush
  /\ UNCHANGED reader

OnIn ==
  /\ "OUT" \notin event
  /\ Dispatch("IN")
  /\ IF Skip \/ reader # "waiting"
     THEN UNCHANGED <<reader, at>>
     ELSE reader' = "away" /\ at' = "recv"
  /\ UNCHANGED <<m_sendFail, m_writeBuffer, rest, accepted>>

-----------------------------------------------------------------------------
(* The kernel and the peer. *)

(* The peer acknowledges units. Once there is room enough, and at the      *)
(* latest when the send buffer is empty, a writer that found it full is    *)
(* told.                                                                   *)
Drain ==
  /\ conn = "up"
  /\ \E n \in 1..inflight :
       /\ inflight' = inflight - n
       /\ \/ nospace /\ nospace' = FALSE /\ edge' = TRUE
          \/ (nospace => n < inflight) /\ UNCHANGED <<nospace, edge>>
  /\ UNCHANGED <<conn, opens, writeVars, connWait, reader, event, avail, fin, wire, early>>

(* Units or the end of the stream arrive. *)
Arrive ==
  /\ conn = "up" /\ ~fin
  /\ \/ avail < MaxArrive /\ avail' = avail + 1 /\ UNCHANGED fin
     \/ fin' = TRUE /\ UNCHANGED avail
  /\ edge' = TRUE
  /\ UNCHANGED <<conn, opens, writeVars, connWait, reader, event, inflight, nospace, wire, early>>

(* An attempt to connect succeeds or fails; a connection breaks. *)
Change ==
  /\ \/ conn = "connecting" /\ conn' \in {"up", "broken"}
     \/ conn = "up" /\ conn' = "broken"
  /\ edge' = TRUE
  /\ UNCHANGED <<opens, writeVars, connWait, reader, event, inflight, nospace, avail, fin, wire,
                 early>>

-----------------------------------------------------------------------------
User == Open \/ Connect \/ Close \/ (\E k \in 1..MaxWrite : Write(k))

Working ==
  \/ (\E n \in 1..SndBuf : Send(n)) \/ AllSent \/ WouldBlock \/ SendFails
  \/ Recv \/ RecvBlocks

Loop == EpollWait \/ OnOut \/ OnIn

Next == User \/ ReadCall \/ Working \/ Loop \/ Drain \/ Arrive \/ Change

Spec == Init /\ [][Next]_vars

(* Calls end; coroutines yield, so that the loop and what is pushed run    *)
(* again and again; and the peer acknowledges what it is sent.             *)
Resumed == reader = "pushed" /\ ReadCall

FairSpec ==
  Spec /\ WF_vars(Working) /\ SF_vars(Resumed) /\ SF_vars(Loop) /\ WF_vars(Drain)

-----------------------------------------------------------------------------
(* Properties. *)

(* Until a send fails, what the kernel has taken and what waits are, in    *)
(* order and without a gap or a repetition, what was written since the     *)
(* socket was opened: nothing of an earlier connection, nothing overtaken. *)
(* After that, what the kernel has taken is still a prefix of it.          *)
Waiting == IF Sending THEN rest ELSE m_writeBuffer

StreamKept ==
  conn # "none" =>
    IF m_sendFail THEN wire = SubSeq(accepted, 1, Len(wire)) ELSE wire \o Waiting = accepted

(* The other properties are about sockets used as they are meant to be.    *)

(* Units wait in the write buffer only if an event will bring them on      *)
(* their way: the kernel owes one, or has one, or it is being dispatched.  *)
FlushOwed ==
  ~early /\ conn = "up" /\ at # "flush" /\ m_writeBuffer # <<>>
    => nospace \/ edge \/ "OUT" \in event

(* A reader waits while there is something to read only if an event for it *)
(* is on its way.                                                          *)
ReadOwed == ~early /\ reader = "waiting" /\ Readable => edge \/ "IN" \in event

(* A socket never drops what is written to a connection that works, for    *)
(* what happened to an earlier one.                                        *)
NoSilentDrop == ~early /\ m_sendFail => conn = "broken"

(* All that is written to a connection that stays up is taken. *)
Delivered ==
  \A n \in Units :
    conn = "up" /\ Len(accepted) >= n ~> Len(wire) >= n \/ conn # "up" \/ early
=============================================================================
