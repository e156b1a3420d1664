------------------------------ MODULE UdpQueue ------------------------------
(***************************************************************************)
(* UdpSocket of src/wrapsocket.cpp: Sendto with the buffer of datagrams    *)
(* that the kernel would not take, OnOut that sends them, Recvfrom, Open,  *)
(* Bind and Close, on an edge-triggered epoll descriptor. The buffer is a  *)
(* sequence of cells of eight bytes: a record is the address (two cells,   *)
(* of which sendto reads the first), the length (one) and the data.        *)
(***************************************************************************)
EXTENDS Naturals, Sequences

CONSTANTS
  Lengths,      \* the lengths of datagrams, in cells
  SndBuf,       \* the datagrams the kernel's send buffer takes
  MaxDatagrams, \* bound: the datagrams that are handed to Sendto
  MaxOpens,     \* bound: how often the socket is opened
  MaxArrive     \* bound: the datagrams in the kernel's receive buffer

ASSUME LengthsAssumption == Lengths \subseteq Nat \ {0}
ASSUME SizesAssumption ==
  SndBuf \in Nat \ {0} /\ MaxDatagrams \in Nat /\ MaxOpens \in Nat /\ MaxArrive \in Nat

VARIABLES
  open,          \* m_fd is not -1
  opens,         \* how often the socket was opened
  m_writeBuffer,
  at,            \* where the thread is: in no call, in OnOut, in Recvfrom, or
                 \* in memory beyond the buffer
  total,         \* in OnOut: where the next record begins
  reader,        \* the receiving coroutine: elsewhere, in m_inWait, or pushed
  event,         \* the event of this socket in the batch, to be dispatched
  edge,          \* the kernel has something to report
  bound,         \* the socket has an address of its own
  inflight,      \* the datagrams in the send buffer
  avail,         \* the datagrams in the receive buffer
  length,        \* the length of each datagram handed to Sendto (history)
  shared,        \* the datagrams that were in the buffer with others (history)
  sent           \* what the kernel has taken since it was opened (history)

kernelVars == <<edge, bound, inflight, avail>>
recvVars == <<reader, avail>>
history == <<length, shared, sent>>
vars == <<open, opens, m_writeBuffer, at, total, reader, event, kernelVars, history>>

ADDR_LEN == 2            \* sizeof(sockaddr_in), in cells
HEAD_LEN == ADDR_LEN + 1 \* and sizeof(size_t)

Ids == 1..MaxDatagrams

size == Len(m_writeBuffer)

(* Cell k of the record of datagram i is <<i, k>>; resize fills with zero. *)
Zero == <<0, 0>>
Cells == (Ids \X (Nat \ {0})) \cup {Zero}
Record(i, len) == [k \in 1..HEAD_LEN + len |-> <<i, k>>]

(* A datagram that sendto has taken: which one, to whose destination, with *)
(* its own data or not.                                                    *)
Deliveries == [datagram : Ids \cup {0}, to : Ids \cup {0}, whole : BOOLEAN]

TypeOK ==
  /\ open \in BOOLEAN /\ opens \in 0..MaxOpens
  /\ m_writeBuffer \in Seq(Cells)
  /\ at \in {"idle", "flush", "recv", "wild"}
  /\ total \in Nat
  /\ reader \in {"away", "waiting", "pushed"}
  /\ event \subseteq {"IN", "OUT"}
  /\ edge \in BOOLEAN /\ bound \in BOOLEAN
  /\ inflight \in 0..SndBuf /\ avail \in 0..MaxArrive
  /\ length \in Seq(Lengths) /\ Len(length) <= MaxDatagrams
  /\ shared \subseteq Ids
  /\ sent \in Seq(Deliveries)

Init ==
  /\ open = FALSE /\ opens = 0
  /\ m_writeBuffer = <<>>
  /\ at = "idle" /\ total = 0
  /\ reader = "away" /\ event = {}
  /\ edge = FALSE /\ bound = FALSE /\ inflight = 0 /\ avail = 0
  /\ length = <<>> /\ shared = {} /\ sent = <<>>

-----------------------------------------------------------------------------
(* Opening and closing. *)

Open ==
  /\ at = "idle" /\ ~open
  /\ opens < MaxOpens /\ opens' = opens + 1
  /\ open' = TRUE
  /\ edge' = TRUE /\ bound' = FALSE /\ inflight' = 0 /\ avail' = 0
  /\ sent' = <<>>
  /\ UNCHANGED <<m_writeBuffer, at, total, reader, event, length, shared>>

Bind ==
  /\ at = "idle" /\ open /\ ~bound
  /\ bound' = TRUE
  /\ UNCHANGED <<open, opens, m_writeBuffer, at, total, reader, event, edge, inflight, avail,
                 history>>

Close ==
  /\ at = "idle" /\ open
  /\ open' = FALSE
  /\ m_writeBuffer' = <<>>
  /\ reader' = IF reader = "waiting" THEN "pushed" ELSE reader
  /\ edge' = FALSE
  /\ UNCHANGED <<opens, at, total, event, bound, inflight, avail, history>>

-----------------------------------------------------------------------------
(* Sending. *)

(* The cells of a written over those of buf, from offset on. *)
Written(buf, offset, a) ==
  [k \in 1..Len(buf) |-> IF k > offset /\ k - offset <= Len(a) THEN a[k - offset] ELSE buf[k]]

(* Where Sendto writes the address of a datagram that it queues behind     *)
(* others; the faulty variant does it as for an empty buffer.              *)
AddressOffsetFront(len) == 0
AddressOffset(len) == len

(* Sendto behind what waits: the buffer grows by a record, the address is  *)
(* written at offset len, the length and the data behind the place that is *)
(* meant for it.                                                           *)
Queued(i, len) ==
  LET grown == m_writeBuffer \o [k \in 1..HEAD_LEN + len |-> Zero]
      addressed == Written(grown, AddressOffset(len), SubSeq(Record(i, len), 1, ADDR_LEN))
  IN Written(addressed, size + ADDR_LEN, SubSeq(Record(i, len), ADDR_LEN + 1, HEAD_LEN + len))

(* The datagrams whose records the buffer holds. *)
InBuffer == {i \in Ids : \E k \in 1..Len(m_writeBuffer) : m_writeBuffer[k][1] = i}

(* sendto takes a datagram, and gives the socket an address if need be. *)
Taken(i, to, whole) ==
  /\ open /\ inflight < SndBuf
  /\ inflight' = inflight + 1
  /\ bound' = TRUE
  /\ sent' = Append(sent, [datagram |-> i, to |-> to, whole |-> whole])

(* Sendto of the next datagram: queued behind others, taken, kept if the   *)
(* kernel would block, dropped on any other error. The faulty variant      *)
(* tries the kernel first.                                                 *)
KeepOrDrop(i, len) ==
  \/ Taken(i, i, TRUE) /\ UNCHANGED <<m_writeBuffer, shared>>
  \/ /\ open /\ inflight = SndBuf
     /\ m_writeBuffer' = Record(i, len)
     /\ UNCHANGED <<inflight, bound, sent, shared>>
  \/ UNCHANGED <<m_writeBuffer, inflight, bound, sent, shared>>

Enqueue(i, len) ==
  /\ m_writeBuffer' = Queued(i, len)
  /\ shared' = shared \cup InBuffer \cup {i}
  /\ UNCHANGED <<inflight, bound, sent>>

EnqueueOrOvertake(i, len) ==
  \/ m_writeBuffer # <<>> /\ (Enqueue(i, len) \/ KeepOrDrop(i, len))
  \/ m_writeBuffer = <<>> /\ KeepOrDrop(i, len)
EnqueueOrSend(i, len) ==
  \/ m_writeBuffer # <<>> /\ Enqueue(i, len)
  \/ m_writeBuffer = <<>> /\ KeepOrDrop(i, len)

Sendto(len) ==
  /\ at = "idle"
  /\ Len(length) < MaxDatagrams
  /\ length' = Append(length, len)
  /\ EnqueueOrSend(Len(length) + 1, len)
  /\ UNCHANGED <<open, opens, at, total, reader, event, edge, avail>>

-----------------------------------------------------------------------------
(* OnOut, one sendto a step: the kernel may move between two of them. *)

(* The fields of the record that begins at total, where the buffer has the *)
(* cells of one. Where the length should be, the padding of an address is  *)
(* read as zero, and a piece of data, or what sendto reads of an address,  *)
(* as a number so large that total leaves the buffer.                      *)
addr == m_writeBuffer[total + 1]
lengthOf == m_writeBuffer[total + HEAD_LEN]
plen == IF lengthOf[2] = HEAD_LEN THEN length[lengthOf[1]] ELSE 0
Legible ==
  /\ total + HEAD_LEN <= size
  /\ lengthOf[2] \in {0, ADDR_LEN, HEAD_LEN}
  /\ total + HEAD_LEN + plen <= size
IsWhole ==
  \A k \in 1..plen : m_writeBuffer[total + HEAD_LEN + k] = <<lengthOf[1], HEAD_LEN + k>>

(* total after a record; the faulty variant forgets the length field. *)
AfterData == total + ADDR_LEN + plen
AfterRecord == total + HEAD_LEN + plen

(* The record's datagram is taken, to whatever its address says ... *)
SendNext ==
  /\ at = "flush" /\ total # size
  /\ Legible
  /\ addr # Zero
  /\ Taken(lengthOf[1], IF addr[2] = 1 THEN addr[1] ELSE 0, IsWhole)
  /\ total' = AfterRecord
  /\ UNCHANGED <<open, opens, m_writeBuffer, at, reader, event, edge, avail, length, shared>>

(* ... or passed over, as it always is without an address (EINVAL): only   *)
(* EAGAIN ends the loop. The faulty variant stops at any error.            *)
StopAtError ==
  /\ at' = "idle" /\ total' = 0
  /\ m_writeBuffer' = SubSeq(m_writeBuffer, total + 1, size)
PassOver == total' = AfterRecord /\ UNCHANGED <<at, m_writeBuffer>>

SkipNext ==
  /\ at = "flush" /\ total # size
  /\ Legible
  /\ PassOver
  /\ UNCHANGED <<open, opens, reader, event, kernelVars, history>>

(* EAGAIN: the rest moves to the front. Or all is dealt with. *)
EndFlush ==
  /\ at = "flush"
  /\ \/ total # size /\ Legible /\ addr # Zero /\ inflight = SndBuf
     \/ total = size
  /\ m_writeBuffer' = SubSeq(m_writeBuffer, total + 1, size)
  /\ at' = "idle" /\ total' = 0
  /\ UNCHANGED <<open, opens, reader, event, kernelVars, history>>

(* A length that is none, or total beyond the end: the program is lost. *)
RunWild ==
  /\ at = "flush" /\ total # size
  /\ ~Legible
  /\ at' = "wild"
  /\ UNCHANGED <<open, opens, m_writeBuffer, total, reader, event, kernelVars, history>>

-----------------------------------------------------------------------------
(* Receiving. *)

(* Recvfrom is called, or goes on after its coroutine was resumed. *)
Recvfrom ==
  /\ at = "idle"
  /\ reader \in {"away", "pushed"}
  /\ reader' = "away"
  /\ at' = "recv"
  /\ UNCHANGED <<open, opens, m_writeBuffer, total, event, kernelVars, history>>

(* A datagram or an error is returned, or the coroutine waits. *)
Recv ==
  /\ at = "recv"
  /\ at' = "idle"
  /\ \/ open /\ avail > 0 /\ avail' = avail - 1 /\ UNCHANGED reader
     \/ open /\ avail = 0 /\ reader' = "waiting" /\ UNCHANGED avail
     \/ ~open /\ UNCHANGED recvVars
  /\ UNCHANGED <<open, opens, m_writeBuffer, total, event, edge, bound, inflight, history>>

-----------------------------------------------------------------------------
(* The loop: epoll_wait, then OnOut and OnIn of an object that exists. *)

Writable == 2 * inflight < SndBuf

EpollWait ==
  /\ at = "idle" /\ event = {} /\ reader # "pushed"
  /\ edge
  /\ edge' = FALSE
  /\ event' = {b \in {"IN", "OUT"} : IF b = "IN" THEN avail > 0 ELSE Writable}
  /\ UNCHANGED <<open, opens, m_writeBuffer, at, total, reader, bound, inflight, avail, history>>

OnOut ==
  /\ at = "idle" /\ "OUT" \in event
  /\ event' = event \ {"OUT"}
  /\ at' = IF open /\ m_writeBuffer # <<>> THEN "flush" ELSE at
  /\ UNCHANGED <<open, opens, m_writeBuffer, total, reader, kernelVars, history>>

(* OnIn resumes whoever receives. *)
OnIn ==
  /\ at = "idle" /\ "OUT" \notin event /\ "IN" \in event
  /\ event' = {}
  /\ IF open /\ reader = "waiting"
     THEN reader' = "away" /\ at' = "recv"
     ELSE UNCHANGED <<reader, at>>
  /\ UNCHANGED <<open, opens, m_writeBuffer, total, kernelVars, history>>

(* The network: a datagram leaves the send buffer, or one arrives. *)
Drain ==
  /\ open /\ inflight > 0
  /\ inflight' = inflight - 1
  /\ edge' = (edge \/ 2 * inflight' <= SndBuf)
  /\ UNCHANGED <<open, opens, m_writeBuffer, at, total, reader, event, bound, avail, history>>

Arrive ==
  /\ open /\ bound /\ avail < MaxArrive
  /\ avail' = avail + 1
  /\ edge' = TRUE
  /\ UNCHANGED <<open, opens, m_writeBuffer, at, total, reader, event, bound, inflight, history>>

-----------------------------------------------------------------------------
Working == SendNext \/ SkipNext \/ EndFlush \/ RunWild \/ Recv
Loop == EpollWait \/ OnOut \/ OnIn

Next ==
  \/ Open \/ Bind \/ Close \/ (\E l \in Lengths : Sendto(l)) \/ Recvfrom
  \/ Working \/ Loop \/ (at # "wild" /\ (Drain \/ Arrive))

Spec == Init /\ [][Next]_vars

(* As in TcpStream: calls end, the loop and the pushed coroutine get the   *)
(* CPU again and again, and the network takes what it was given.           *)
Resumed == reader = "pushed" /\ Recvfrom

FairSpec == Spec /\ WF_vars(Working) /\ SF_vars(Resumed) /\ SF_vars(Loop) /\ WF_vars(Drain)

-----------------------------------------------------------------------------
(* Properties. *)

(* The lengths so far are such that an address that is written at offset   *)
(* len stays within the data of the first record: all are no shorter than  *)
(* the head and nearly the same, as the 512 bytes that udpclient sends.    *)
Compatible ==
  \A i, j \in 1..Len(length) : length[i] >= HEAD_LEN /\ length[j] <= length[i] + 1

(* For such lengths OnOut always finds the records where Sendto has put    *)
(* them, whatever has been sent, passed over, shifted or overwritten in    *)
(* between: it never leaves the buffer, and the datagrams of an open       *)
(* socket leave in the order in which they were given to Sendto, each at   *)
(* most once.                                                              *)
InOrder ==
  Compatible =>
    /\ at # "wild"
    /\ \A i, j \in 1..Len(sent) : i < j => sent[i].datagram < sent[j].datagram

(* For such lengths no datagram goes to the destination of another one,    *)
(* and one that had the buffer to itself, or did not need it, leaves with  *)
(* its own data.                                                           *)
Addressed ==
  Compatible => \A i \in 1..Len(sent) :
    /\ sent[i].to = sent[i].datagram
    /\ sent[i].datagram \notin shared => sent[i].whole

(* No edge is consumed and forgotten: datagrams wait in the buffer, and a  *)
(* receiver for one that is there, only if an event will come, or is being *)
(* dispatched, or there is a datagram in the send buffer that brings one.  *)
EdgeOwed ==
  open =>
    /\ at = "idle" /\ m_writeBuffer # <<>> => inflight > 0 \/ edge \/ "OUT" \in event
    /\ reader = "waiting" /\ avail > 0 => edge \/ "IN" \in event

(* For such lengths what waits in the buffer of a socket that stays open   *)
(* is dealt with, also behind datagrams that the kernel refuses.           *)
Drained ==
  open /\ m_writeBuffer # <<>> ~> m_writeBuffer = <<>> \/ ~Compatible

(* What Sendto is asked to do, as by udpclient in server.cpp, the example  *)
(* that README.md refers to: every datagram that leaves has its own        *)
(* destination and its own data. The code does not.                        *)
SentAsGiven ==
  \A i \in 1..Len(sent) : sent[i].to = sent[i].datagram /\ sent[i].whole
=============================================================================
