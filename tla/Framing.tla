------------------------------ MODULE Framing ------------------------------
(***************************************************************************)
(* How both ends of the RPC connection cut a stream into messages: the     *)
(* read loop of ProtoRPC::doWork with onProcess in src/protorpc.cpp, which *)
(* NewConnect with OnProcess in src/goserver/main.go repeats. A read       *)
(* returns any number of cells of the stream, and what the peer sends is   *)
(* arbitrary. Nothing yields but the read, so a message is one step.       *)
(***************************************************************************)
EXTENDS Naturals, Sequences

CONSTANTS
  Cells,       \* what a cell may be: a message's first one is its length
  Junk,        \* what memory is before anything is stored in it
  MSG_HEAD_LEN,
  BufSize,     \* the size of readBuffer
  MaxStream    \* bound: the cells of one connection

ASSUME CellsAssumption == Cells \subseteq Nat /\ Junk \notin Cells
ASSUME SizesAssumption ==
  /\ MSG_HEAD_LEN \in Nat \ {0}
  /\ BufSize \in Nat /\ BufSize >= MSG_HEAD_LEN
  /\ MaxStream \in Nat

VARIABLES
  readBuffer,
  readBytes,
  procTotal,
  at,         \* before the read, in the loop over messages, or returned
  err,        \* what the loop has returned
  stream,     \* the cells that the connection has given (history)
  handled,    \* the cells of the messages handled, end to end (history)
  starts      \* where in the stream these messages began (history)

historyVars == <<stream, handled, starts>>
vars == <<readBuffer, readBytes, procTotal, at, err, historyVars>>

TypeOK ==
  /\ readBuffer \in [1..BufSize -> Cells \cup {Junk}]
  /\ readBytes \in 0..BufSize
  /\ procTotal \in 0..readBytes
  /\ at \in {"read", "process", "returned"}
  /\ err \in {"none", "EMSGSIZE", "EBADMSG", "closed"}
  /\ stream \in Seq(Cells)
  /\ handled \in Seq(Cells)
  /\ starts \subseteq Nat
  /\ at = "read" => procTotal = 0
  /\ at = "returned" <=> err # "none"

Init ==
  /\ readBuffer = [i \in 1..BufSize |-> Junk]
  /\ readBytes = 0
  /\ procTotal = 0
  /\ at = "read"
  /\ err = "none"
  /\ stream = <<>>
  /\ handled = <<>>
  /\ starts = {}

-----------------------------------------------------------------------------
Returns(e) ==
  /\ at' = "returned"
  /\ err' = e
  /\ UNCHANGED <<readBuffer, readBytes, procTotal, historyVars>>

(* The buffer is full, though all the messages in it have been handled.    *)
(* The faulty variant wants room for more than one cell.                   *)
AlmostFull == readBytes + 1 >= BufSize
Full == readBytes = BufSize

TooLong == at = "read" /\ Full /\ Returns("EMSGSIZE")

(* Read gives n cells of the stream, at most as many as there is room for. *)
Read(cells) ==
  /\ at = "read"
  /\ ~Full
  /\ Len(cells) \in 1..BufSize - readBytes
  /\ readBuffer' = [i \in 1..BufSize |-> IF i - readBytes \in DOMAIN cells
                                         THEN cells[i - readBytes] ELSE readBuffer[i]]
  /\ readBytes' = readBytes + Len(cells)
  /\ at' = "process"
  /\ stream' = stream \o cells
  /\ UNCHANGED <<procTotal, err, handled, starts>>

(* Read fails, or is at the end of the stream. *)
ReadEnds == at = "read" /\ ~Full /\ Returns("closed")

-----------------------------------------------------------------------------
(* onProcess, of what has been read and not handled. *)

Data == SubSeq(readBuffer, procTotal + 1, readBytes)
length == Data[1]

(* Otherwise more has to be read. *)
Whole(data) == Len(data) >= MSG_HEAD_LEN /\ data[1] <= Len(data)

(* A head that announces less than itself. The faulty variant lets a       *)
(* message of no less than half a head pass.                               *)
HalfBad(data) == Len(data) >= MSG_HEAD_LEN /\ 2 * data[1] < MSG_HEAD_LEN
Bad(data) == Len(data) >= MSG_HEAD_LEN /\ data[1] < MSG_HEAD_LEN

BadMessage == at = "process" /\ Bad(Data) /\ Returns("EBADMSG")

(* A whole message is handled. *)
onProcess ==
  /\ at = "process"
  /\ ~Bad(Data) /\ Whole(Data)
  /\ procTotal' = procTotal + length
  /\ handled' = handled \o SubSeq(Data, 1, length)
  /\ starts' = starts \cup {Len(handled)}
  /\ UNCHANGED <<readBuffer, readBytes, at, err, stream>>

(* What is left of the buffer is moved to its front. The faulty variant    *)
(* only counts.                                                            *)
NotMoved == readBuffer
Moved ==
  [i \in 1..BufSize |-> IF i <= readBytes - procTotal THEN readBuffer[i + procTotal]
                                                      ELSE readBuffer[i]]

Shift ==
  /\ at = "process"
  /\ ~Bad(Data) /\ ~Whole(Data)
  /\ readBuffer' = Moved
  /\ readBytes' = readBytes - procTotal
  /\ procTotal' = 0
  /\ at' = "read"
  /\ UNCHANGED <<err, historyVars>>

-----------------------------------------------------------------------------
(* Another connection: the loop begins again, in memory that still has in  *)
(* it what it had.                                                         *)
Connected ==
  /\ at = "returned"
  /\ readBytes' = 0
  /\ procTotal' = 0
  /\ at' = "read"
  /\ err' = "none"
  /\ stream' = <<>>
  /\ handled' = <<>>
  /\ starts' = {}
  /\ UNCHANGED readBuffer

Arrivals == UNION {[1..n -> Cells] : n \in 1..BufSize}

Next ==
  \/ TooLong \/ ReadEnds \/ BadMessage \/ onProcess \/ Shift \/ Connected
  \/ \E cells \in Arrivals : Len(stream) + Len(cells) <= MaxStream /\ Read(cells)

Spec == Init /\ [][Next]_vars

-----------------------------------------------------------------------------
(* Properties. *)

(* However the stream was cut by the reads, what has been handled and what *)
(* waits in the buffer is the stream: nothing lost, repeated, moved, or    *)
(* left over from an earlier connection.                                   *)
StreamKept == handled \o Data = stream

(* The messages handled are those of the stream: the first begins where it *)
(* begins, each is as long as its own head says, and the next begins where *)
(* it ends.                                                                *)
EndToEnd ==
  /\ 0 \in starts \cup {Len(handled)}
  /\ \A p \in starts :
       /\ p < Len(handled)
       /\ stream[p + 1] \in MSG_HEAD_LEN..BufSize
       /\ p + stream[p + 1] \in starts \cup {Len(handled)}

(* The loop waits for the peer only when it needs more to go on: it never  *)
(* has a whole message, or a head that no message can have, and waits.     *)
Waits ==
  at = "read" =>
    \/ Len(stream) - Len(handled) < MSG_HEAD_LEN
    \/ stream[Len(handled) + 1] > Len(stream) - Len(handled)

(* An error is the peer's: EMSGSIZE comes only of a message longer than    *)
(* the buffer, and EBADMSG only of a head with a length below its own.     *)
Blame ==
  /\ err = "EMSGSIZE" => stream[Len(handled) + 1] > BufSize
  /\ err = "EBADMSG" => stream[Len(handled) + 1] < MSG_HEAD_LEN
=============================================================================
