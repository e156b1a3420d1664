-------------------------- MODULE TcpStreamProofs --------------------------
(***************************************************************************)
(* Proofs of the safety of TcpStream, for every size of buffers and        *)
(* writes, and any number of connections.                                  *)
(***************************************************************************)
EXTENDS TcpStream, SequenceTheorems, TLAPS

(* What the properties leave out of the state they speak of. A loop over   *)
(* send begins only on a socket that has not failed, the loop of Write     *)
(* only with an empty buffer; a closed socket's buffer is empty, and       *)
(* nothing arrives before a connection does.                               *)
LoopInv ==
  /\ Sending => ~m_sendFail
  /\ at = "send" => m_writeBuffer = <<>>
  /\ conn = "connecting" => avail = 0 /\ ~fin
  /\ conn = "none" => m_writeBuffer = <<>> /\ reader # "waiting" /\ ~connWait

(* A socket used as it is meant to be has written nothing before it is     *)
(* connected; so the event that a connecting coroutine takes for itself is *)
(* nobody else's.                                                          *)
QuietInv ==
  ~early =>
    /\ conn \in {"none", "connecting"} \/ connWait => ~Sending /\ m_writeBuffer = <<>>
    /\ connWait => inflight = 0 /\ ~nospace
    /\ connWait /\ conn # "connecting" => edge \/ "OUT" \in event

(* FlushOwed is kept because an event that is there already finds room.    *)
RoomInv ==
  ~early /\ conn = "up" /\ at # "flush" /\ m_writeBuffer # <<>>
    => nospace \/ (inflight < SndBuf /\ (edge \/ "OUT" \in event))

IInv ==
  /\ TypeOK /\ LoopInv /\ StreamKept
  /\ QuietInv /\ RoomInv /\ ReadOwed /\ NoSilentDrop

USE SizesAssumption

-----------------------------------------------------------------------------
(* The library's facts about sequences, for units. *)

LEMMA UnitsConcat ==
  ASSUME NEW s \in Seq(Units), NEW t \in Seq(Units)
  PROVE  s \o t \in Seq(Units)
  BY ConcatProperties

LEMMA UnitsAssociative ==
  ASSUME NEW s \in Seq(Units), NEW t \in Seq(Units), NEW u \in Seq(Units)
  PROVE  (s \o t) \o u = s \o (t \o u)
  BY ConcatAssociative

LEMMA UnitsEmpty ==
  ASSUME NEW s \in Seq(Units)
  PROVE  s \o <<>> = s /\ <<>> \o s = s /\ <<>> \in Seq(Units)
  BY ConcatEmptySeq

(* A sequence is what a send takes of it, and what it leaves. *)
LEMMA UnitsSplit ==
  ASSUME NEW s \in Seq(Units), NEW n \in 1..Len(s)
  PROVE  /\ SubSeq(s, 1, n) \in Seq(Units)
         /\ SubSeq(s, n + 1, Len(s)) \in Seq(Units)
         /\ SubSeq(s, 1, n) \o SubSeq(s, n + 1, Len(s)) = s
  <1>1. Len(s) \in Nat /\ 1 \in 1..Len(s) + 1 /\ n \in 1 - 1..Len(s) /\ Len(s) \in n..Len(s)
    BY LenProperties
  <1>2. SubSeq(s, 1, n) \in Seq(Units)
    BY <1>1, SubSeqProperties
  <1>3. SubSeq(s, n + 1, Len(s)) \in Seq(Units)
    BY <1>1, SubSeqProperties
  <1>4. SubSeq(s, 1, n) \o SubSeq(s, n + 1, Len(s)) = SubSeq(s, 1, Len(s))
    BY <1>1, ConcatAdjacentSubSeq
  <1> QED
    BY <1>2, <1>3, <1>4, SubSeqFull

(* The first part of two sequences end to end. *)
LEMMA UnitsFirst ==
  ASSUME NEW s \in Seq(Units), NEW t \in Seq(Units)
  PROVE  s = SubSeq(s \o t, 1, Len(s))
  <1>1. /\ Len(s) \in Nat /\ Len(t) \in Nat
        /\ s \o t \in Seq(Units) /\ Len(s \o t) = Len(s) + Len(t)
        /\ \A i \in 1..Len(s) : (s \o t)[i] = s[i]
    BY ConcatProperties, LenProperties
  <1>2. /\ SubSeq(s \o t, 1, Len(s)) \in Seq(Units)
        /\ Len(SubSeq(s \o t, 1, Len(s))) = Len(s)
        /\ \A i \in 1..Len(s) : SubSeq(s \o t, 1, Len(s))[i] = (s \o t)[i]
    BY <1>1, SubSeqProperties
  <1> QED
    BY <1>1, <1>2, SeqEqual

(* What is written is a sequence of units. *)
LEMMA NewUnitsType ==
  ASSUME TypeOK, NEW k \in 1..MaxWrite, Len(accepted) + k <= MaxUnits
  PROVE  NewUnits(k) \in Seq(Units)
  <1>1. Len(accepted) \in Nat
    BY LenProperties DEF TypeOK
  <1>2. \A i \in 1..k : Len(accepted) + i \in Units
    BY <1>1 DEF Units
  <1> QED
    BY <1>2 DEF NewUnits

-----------------------------------------------------------------------------
(* The two actions with a system call that changes more than flags: their  *)
(* effect on the sequences.                                                *)

LEMMA WriteEffect ==
  ASSUME TypeOK, NEW k \in 1..MaxWrite, Write(k)
  PROVE  /\ accepted' = accepted \o NewUnits(k) /\ accepted' \in Seq(Units)
         /\ \/ /\ m_writeBuffer # <<>> /\ at' = at /\ rest' = rest
               /\ m_writeBuffer' = m_writeBuffer \o NewUnits(k)
            \/ /\ m_writeBuffer = <<>> /\ m_writeBuffer' = m_writeBuffer
               /\ at' = "send" /\ rest' = NewUnits(k)
         /\ m_writeBuffer' \in Seq(Units) /\ rest' \in Seq(Units)
  <1>1. NewUnits(k) \in Seq(Units)
    BY NewUnitsType DEF Write
  <1>2. accepted \in Seq(Units) /\ m_writeBuffer \in Seq(Units) /\ rest \in Seq(Units)
    BY DEF TypeOK
  <1>3. accepted' = accepted \o NewUnits(k) /\ accepted' \in Seq(Units)
    BY <1>1, <1>2, UnitsConcat DEF Write
  <1>4. m_writeBuffer \o NewUnits(k) \in Seq(Units)
    BY <1>1, <1>2, UnitsConcat
  <1> DEFINE new == NewUnits(k)
  <1>5. /\ m_writeBuffer # <<>> =>
              at' = at /\ rest' = rest /\ m_writeBuffer' = m_writeBuffer \o new
        /\ m_writeBuffer = <<>> =>
              at' = "send" /\ rest' = new /\ m_writeBuffer' = m_writeBuffer
    BY Zenon DEF Write, QueueOrSend
  <1> HIDE DEF new
  <1>6. m_writeBuffer' \in Seq(Units) /\ rest' \in Seq(Units)
    BY <1>1, <1>2, <1>4, <1>5, Zenon DEF new
  <1> QED
    BY <1>3, <1>5, <1>6, Zenon DEF new

LEMMA SendEffect ==
  ASSUME TypeOK, NEW n \in 1..SndBuf, Send(n)
  PROVE  /\ rest' \in Seq(Units) /\ wire' \in Seq(Units)
         /\ wire' \o rest' = wire \o rest
  <1> DEFINE a == SubSeq(rest, 1, n)
  <1> DEFINE b == SubSeq(rest, n + 1, Len(rest))
  <1>1. n \in 1..Len(rest) /\ wire' = wire \o a /\ rest' = b
    BY DEF Send
  <1>2. wire \in Seq(Units) /\ rest \in Seq(Units)
    BY DEF TypeOK
  <1>3. a \in Seq(Units) /\ b \in Seq(Units) /\ a \o b = rest
    BY <1>1, <1>2, UnitsSplit
  <1> HIDE DEF a, b
  <1>4. (wire \o a) \o b = wire \o (a \o b)
    BY <1>2, <1>3, UnitsAssociative
  <1>5. wire \o a \in Seq(Units)
    BY <1>2, <1>3, UnitsConcat
  <1> QED
    BY <1>1, <1>3, <1>4, <1>5

-----------------------------------------------------------------------------
(* Types. *)
LEMMA CountersKept ==
  ASSUME TypeOK, Open \/ Connect \/ Drain \/ Arrive
  PROVE  opens' \in 0..MaxOpens /\ inflight' \in 0..SndBuf /\ avail' \in 0..MaxArrive
  <1>1. /\ opens \in 0..MaxOpens /\ inflight \in 0..SndBuf /\ avail \in 0..MaxArrive
        /\ MaxOpens \in Nat /\ SndBuf \in Nat /\ MaxArrive \in Nat
    BY DEF TypeOK, SizesAssumption
  <1>2. CASE Open \/ Connect
    BY <1>1, <1>2 DEF Open, Connect, NewConnection
  <1>3. CASE Drain
    BY <1>1, <1>3 DEF Drain
  <1>4. CASE Arrive
    BY <1>1, <1>4 DEF Arrive
  <1> QED
    BY <1>2, <1>3, <1>4

LEMMA TypeKept ==
  ASSUME TypeOK, LoopInv, [Next]_vars
  PROVE  TypeOK'
  <1> USE DEF TypeOK
  <1>0. <<>> \in Seq(Units)
    OBVIOUS
  <1>1. CASE Open \/ Connect
    <2>1. opens' \in 0..MaxOpens /\ inflight' \in 0..SndBuf /\ avail' \in 0..MaxArrive
      BY <1>1, CountersKept
    <2>2. /\ conn' \in {"up", "connecting"} /\ connWait' \in BOOLEAN /\ edge' \in BOOLEAN
          /\ nospace' = FALSE /\ fin' = FALSE /\ accepted' = <<>> /\ wire' = <<>>
          /\ UNCHANGED <<m_sendFail, m_writeBuffer, at, rest, reader, event, early>>
      BY <1>1 DEF Open, Connect, NewConnection
    <2> QED
      BY <1>0, <2>1, <2>2
  <1>3. CASE Close
    BY <1>0, <1>3 DEF Close, ResetFail
  <1>4. ASSUME NEW k \in 1..MaxWrite, Write(k) PROVE TypeOK'
    <2>1. /\ accepted' \in Seq(Units) /\ m_writeBuffer' \in Seq(Units) /\ rest' \in Seq(Units)
          /\ at' = "send" \/ (at' = at /\ rest' = rest)
      BY <1>4, WriteEffect
    <2> QED
      BY <1>4, <2>1 DEF Write, Use, kernelVars
  <1>5. ASSUME NEW n \in 1..SndBuf, Send(n) PROVE TypeOK'
    <2>1. rest' \in Seq(Units) /\ wire' \in Seq(Units)
      BY <1>5, SendEffect
    <2> QED
      BY <1>5, <2>1 DEF Send, Sending
  <1>6. CASE AllSent
    BY <1>0, <1>6 DEF AllSent, EndLoop, Unsent, kernelVars, LoopInv
  <1>7. CASE WouldBlock
    BY <1>0, <1>7 DEF WouldBlock, EndLoop, Unsent, LoopInv
  <1>8. CASE SendFails
    BY <1>0, <1>8 DEF SendFails, kernelVars
  <1>9. CASE ReadCall
    BY <1>9 DEF ReadCall, Use, kernelVars
  <1>10. CASE Recv
    BY <1>10 DEF Recv
  <1>11. CASE RecvBlocks
    BY <1>11 DEF RecvBlocks, kernelVars
  <1>12. CASE EpollWait
    BY <1>12 DEF EpollWait, writeVars
  <1>13. CASE OnOut
    BY <1>13 DEF OnOut, Dispatch, Flush, writeVars, kernelVars
  <1>14. CASE OnIn
    BY <1>14 DEF OnIn, Dispatch, kernelVars
  <1>15. CASE Drain
    BY <1>15, CountersKept DEF Drain, writeVars
  <1>16. CASE Arrive
    BY <1>16, CountersKept DEF Arrive, writeVars
  <1>17. CASE Change
    BY <1>17 DEF Change, writeVars
  <1>18. CASE UNCHANGED vars
    BY <1>18 DEF vars, writeVars, kernelVars
  <1> QED
    BY <1>1, <1>3, <1>4, <1>5, <1>6, <1>7, <1>8, <1>9, <1>10, <1>11, <1>12, <1>13,
       <1>14, <1>15, <1>16, <1>17, <1>18 DEF Next, User, Working, Loop
-----------------------------------------------------------------------------
(* The flags of the loops. *)

LEMMA LoopKept ==
  ASSUME TypeOK, LoopInv, [Next]_vars
  PROVE  LoopInv'
  <1> USE DEF LoopInv, Sending
  <1>1. CASE Open \/ Connect
    BY <1>1 DEF TypeOK, Open, Connect, NewConnection
  <1>2. CASE Close
    BY <1>2 DEF TypeOK, Close, ResetFail
  <1>3. ASSUME NEW k \in 1..MaxWrite, Write(k) PROVE LoopInv'
    BY <1>3, Zenon DEF Write, QueueOrSend, kernelVars
  <1>4. ASSUME NEW n \in 1..SndBuf, Send(n) PROVE LoopInv'
    BY <1>4 DEF Send
  <1>5. CASE AllSent \/ WouldBlock
    BY <1>5 DEF AllSent, WouldBlock, EndLoop, Unsent, kernelVars
  <1>6. CASE SendFails
    BY <1>6 DEF SendFails, kernelVars
  <1>7. CASE ReadCall \/ RecvBlocks
    BY <1>7 DEF ReadCall, RecvBlocks, kernelVars
  <1>8. CASE Recv
    BY <1>8 DEF Recv
  <1>9. CASE EpollWait
    BY <1>9 DEF EpollWait, writeVars
  <1>10. CASE OnOut
    BY <1>10 DEF TypeOK, OnOut, Dispatch, Flush, Skip, writeVars, kernelVars
  <1>11. CASE OnIn
    BY <1>11 DEF OnIn, Dispatch, kernelVars
  <1>12. CASE Drain \/ Arrive \/ Change
    BY <1>12 DEF Drain, Arrive, Change, writeVars
  <1>13. CASE UNCHANGED vars
    BY <1>13 DEF vars, writeVars, kernelVars
  <1> QED
    BY <1>1, <1>2, <1>3, <1>4, <1>5, <1>6, <1>7, <1>8, <1>9, <1>10, <1>11, <1>12, <1>13
       DEF Next, User, Working, Loop

LEMMA QuietKept ==
  ASSUME TypeOK, LoopInv, QuietInv, [Next]_vars
  PROVE  QuietInv'
  <1> USE DEF QuietInv, Sending
  <1>1. CASE Open \/ Connect
    BY <1>1 DEF LoopInv, Open, Connect, NewConnection
  <1>2. CASE Close
    BY <1>2 DEF Close
  <1>3. ASSUME NEW k \in 1..MaxWrite, Write(k) PROVE QuietInv'
    BY <1>3 DEF TypeOK, Write, Use, Connected, kernelVars
  <1>4. ASSUME NEW n \in 1..SndBuf, Send(n) PROVE QuietInv'
    BY <1>4 DEF Send
  <1>5. CASE AllSent \/ WouldBlock
    BY <1>5 DEF AllSent, WouldBlock, EndLoop, Unsent, kernelVars
  <1>6. CASE SendFails
    BY <1>6 DEF SendFails, kernelVars
  <1>7. CASE ReadCall
    BY <1>7 DEF TypeOK, ReadCall, Use, kernelVars
  <1>8. CASE Recv \/ RecvBlocks
    BY <1>8 DEF Recv, RecvBlocks, kernelVars
  <1>9. CASE EpollWait
    <2>1. \E out \in BOOLEAN : /\ Writable /\ ~nospace => out
                              /\ out => "OUT" \in event'
      BY <1>9 DEF EpollWait
    <2>2. ~early /\ connWait /\ conn # "connecting" => Writable
      BY <1>9 DEF TypeOK, SizesAssumption, Writable, LoopInv, EpollWait
    <2> QED
      BY <1>9, <2>1, <2>2 DEF EpollWait, writeVars
  <1>10. CASE OnOut
    BY <1>10 DEF OnOut, Dispatch, Flush, Skip, writeVars, kernelVars
  <1>11. CASE OnIn
    BY <1>11 DEF OnIn, Dispatch, kernelVars
  <1>12. CASE Drain
    BY <1>12 DEF Drain, writeVars
  <1>13. CASE Arrive \/ Change
    BY <1>13 DEF Arrive, Change, writeVars
  <1>14. CASE UNCHANGED vars
    BY <1>14 DEF vars, writeVars, kernelVars
  <1> QED
    BY <1>1, <1>2, <1>3, <1>4, <1>5, <1>6, <1>7, <1>8, <1>9, <1>10, <1>11, <1>12, <1>13,
       <1>14 DEF Next, User, Working, Loop
(* What waits in the write buffer. *)
LEMMA RoomKept ==
  ASSUME TypeOK, LoopInv, QuietInv, RoomInv, [Next]_vars
  PROVE  RoomInv'
  <1> USE DEF RoomInv
  <1>1. CASE Open \/ Connect
    BY <1>1 DEF LoopInv, Open, Connect, NewConnection
  <1>2. CASE Close
    BY <1>2 DEF Close
  <1>3. ASSUME NEW k \in 1..MaxWrite, Write(k) PROVE RoomInv'
    <2>1. at = "idle" /\ (m_writeBuffer' # <<>> => m_writeBuffer # <<>>)
      BY <1>3, Zenon DEF Write, QueueOrSend
    <2>2. early' \in BOOLEAN /\ (early => early')
      BY <1>3 DEF TypeOK, Write, Use, Connected
    <2> QED
      BY <1>3, <2>1, <2>2 DEF TypeOK, Write, kernelVars
  <1>4. ASSUME NEW n \in 1..SndBuf, Send(n) PROVE RoomInv'
    BY <1>4 DEF LoopInv, Send, Sending
  <1>5. CASE AllSent
    BY <1>5 DEF AllSent, EndLoop, Unsent
  <1>6. CASE WouldBlock
    BY <1>6 DEF WouldBlock, EndLoop, Unsent
  <1>7. CASE SendFails
    BY <1>7 DEF SendFails
  <1>8. CASE ReadCall
    BY <1>8 DEF TypeOK, ReadCall, Use, kernelVars
  <1>9. CASE Recv \/ RecvBlocks
    BY <1>9 DEF Recv, RecvBlocks, kernelVars
  <1>10. CASE EpollWait
    <2>1. \E out \in BOOLEAN : /\ Writable /\ ~nospace => out
                              /\ out => "OUT" \in event'
      BY <1>10 DEF EpollWait
    <2> QED
      BY <1>10, <2>1 DEF EpollWait, Writable, writeVars
  <1>11. CASE OnOut
    BY <1>11 DEF QuietInv, OnOut, Dispatch, Flush, Skip, writeVars, kernelVars
  <1>12. CASE OnIn
    BY <1>12 DEF OnIn, Dispatch, kernelVars
  <1>13. CASE Drain
    BY <1>13 DEF TypeOK, SizesAssumption, Drain, writeVars
  <1>14. CASE Arrive
    BY <1>14 DEF Arrive, writeVars
  <1>15. CASE Change
    BY <1>15 DEF QuietInv, Change, writeVars
  <1>16. CASE UNCHANGED vars
    BY <1>16 DEF vars, writeVars, kernelVars
  <1> QED
    BY <1>1, <1>2, <1>3, <1>4, <1>5, <1>6, <1>7, <1>8, <1>9, <1>10, <1>11, <1>12, <1>13,
       <1>14, <1>15, <1>16 DEF Next, User, Working, Loop

(* What a reader waits for. *)
LEMMA ReadKept ==
  ASSUME TypeOK, LoopInv, QuietInv, ReadOwed, [Next]_vars
  PROVE  ReadOwed'
  <1> USE DEF ReadOwed, Readable
  <1>1. CASE Open \/ Connect
    BY <1>1 DEF Open, Connect, NewConnection
  <1>2. CASE Close
    BY <1>2 DEF Close
  <1>3. ASSUME NEW k \in 1..MaxWrite, Write(k) PROVE ReadOwed'
    BY <1>3 DEF TypeOK, Write, Use, kernelVars
  <1>4. ASSUME NEW n \in 1..SndBuf, Send(n) PROVE ReadOwed'
    BY <1>4 DEF Send
  <1>5. CASE AllSent \/ WouldBlock
    BY <1>5 DEF AllSent, WouldBlock, EndLoop, kernelVars
  <1>6. CASE SendFails
    BY <1>6 DEF SendFails, kernelVars
  <1>7. CASE ReadCall
    BY <1>7 DEF TypeOK, ReadCall, Use, kernelVars
  <1>8. CASE Recv
    BY <1>8 DEF TypeOK, SizesAssumption, Recv
  <1>9. CASE RecvBlocks
    BY <1>9 DEF RecvBlocks, kernelVars
  <1>10. CASE EpollWait
    BY <1>10 DEF EpollWait
  <1>11. CASE OnOut
    BY <1>11 DEF OnOut, Dispatch, Flush, writeVars, kernelVars
  <1>12. CASE OnIn
    BY <1>12 DEF TypeOK, LoopInv, QuietInv, OnIn, Dispatch, Skip, kernelVars
  <1>13. CASE Drain
    BY <1>13 DEF Drain, writeVars
  <1>14. CASE Arrive \/ Change
    BY <1>14 DEF Arrive, Change, writeVars
  <1>15. CASE UNCHANGED vars
    BY <1>15 DEF vars, writeVars, kernelVars
  <1> QED
    BY <1>1, <1>2, <1>3, <1>4, <1>5, <1>6, <1>7, <1>8, <1>9, <1>10, <1>11, <1>12, <1>13,
       <1>14, <1>15 DEF Next, User, Working, Loop

(* A failure is that of a connection that is still there. *)
LEMMA FailureKept ==
  ASSUME TypeOK, LoopInv, QuietInv, NoSilentDrop, [Next]_vars
  PROVE  NoSilentDrop'
  <1> USE DEF NoSilentDrop
  <1>1. CASE Open \/ Connect
    BY <1>1 DEF Open, Connect, NewConnection
  <1>2. CASE Close
    BY <1>2 DEF Close, ResetFail
  <1>3. ASSUME NEW k \in 1..MaxWrite, Write(k) PROVE NoSilentDrop'
    BY <1>3 DEF Write
  <1>4. ASSUME NEW n \in 1..SndBuf, Send(n) PROVE NoSilentDrop'
    BY <1>4 DEF Send
  <1>5. CASE AllSent \/ WouldBlock
    BY <1>5 DEF AllSent, WouldBlock, EndLoop
  <1>6. CASE SendFails
    BY <1>6 DEF QuietInv, Sending, SendFails
  <1>7. CASE ReadCall
    BY <1>7 DEF TypeOK, ReadCall, Use
  <1>8. CASE Recv \/ RecvBlocks
    BY <1>8 DEF Recv, RecvBlocks
  <1>9. CASE EpollWait \/ OnOut \/ OnIn
    BY <1>9 DEF EpollWait, OnOut, OnIn, Dispatch, Flush, writeVars
  <1>10. CASE Drain \/ Arrive \/ Change
    BY <1>10 DEF Drain, Arrive, Change, writeVars
  <1>11. CASE UNCHANGED vars
    BY <1>11 DEF vars, writeVars
  <1> QED
    BY <1>1, <1>2, <1>3, <1>4, <1>5, <1>6, <1>7, <1>8, <1>9, <1>10, <1>11
       DEF Next, User, Working, Loop
-----------------------------------------------------------------------------
(* The stream. *)

LEMMA WriteKeepsStream ==
  ASSUME TypeOK, LoopInv, StreamKept, NEW k \in 1..MaxWrite, Write(k)
  PROVE  StreamKept'
  <1> DEFINE new == NewUnits(k)
  <1>1. at = "idle" /\ ~m_sendFail /\ m_sendFail' = m_sendFail /\ conn' = conn /\ wire' = wire
    BY DEF Write, kernelVars
  <1>2. /\ new \in Seq(Units) /\ wire \in Seq(Units) /\ m_writeBuffer \in Seq(Units)
    BY NewUnitsType DEF TypeOK, Write
  <1>3. SUFFICES ASSUME conn # "none"
                 PROVE  wire \o Waiting' = accepted \o new
    BY <1>1, WriteEffect DEF StreamKept, TypeOK
  <1>4. wire \o m_writeBuffer = accepted
    BY <1>1, <1>3 DEF StreamKept, Waiting, Sending
  <1>5. Waiting' = m_writeBuffer \o new
    <2>1. CASE m_writeBuffer # <<>>
      BY <1>1, <2>1, WriteEffect DEF Waiting, Sending
    <2>2. CASE m_writeBuffer = <<>>
      <3>1. Waiting' = new
        BY <2>2, WriteEffect DEF Waiting, Sending
      <3>2. <<>> \o new = new
        BY <1>2, UnitsEmpty
      <3> QED
        BY <2>2, <3>1, <3>2, Zenon
    <2> QED
      BY <2>1, <2>2
  <1> HIDE DEF new
  <1>6. (wire \o m_writeBuffer) \o new = wire \o (m_writeBuffer \o new)
    BY <1>2, UnitsAssociative
  <1> QED
    BY <1>4, <1>5, <1>6, Zenon

LEMMA SendKeepsStream ==
  ASSUME TypeOK, LoopInv, StreamKept, NEW n \in 1..SndBuf, Send(n)
  PROVE  StreamKept'
  <1>1. wire \o rest = accepted
    BY DEF StreamKept, LoopInv, Send, Sending, Waiting
  <1>2. wire' \o rest' = accepted'
    BY <1>1, SendEffect DEF Send
  <1>3. Waiting' = rest' /\ m_sendFail' = FALSE
    BY DEF Send, Sending, Waiting, LoopInv
  <1> QED
    BY <1>2, <1>3, Zenon DEF StreamKept

LEMMA FailureKeepsStream ==
  ASSUME TypeOK, LoopInv, StreamKept, SendFails
  PROVE  StreamKept'
  <1>1. SUFFICES ASSUME conn # "none"
                 PROVE  wire = SubSeq(accepted, 1, Len(wire))
    BY DEF StreamKept, SendFails, kernelVars
  <1>2. wire \o rest = accepted
    BY <1>1 DEF StreamKept, LoopInv, SendFails, Sending, Waiting
  <1>3. wire \in Seq(Units) /\ rest \in Seq(Units)
    BY DEF TypeOK
  <1> QED
    BY <1>2, <1>3, UnitsFirst, Zenon

LEMMA OpenKeepsStream ==
  ASSUME TypeOK, LoopInv, StreamKept, Open \/ Connect
  PROVE  StreamKept'
  <1>1. /\ wire' = <<>> /\ accepted' = <<>>
        /\ at' = "idle" /\ m_writeBuffer' = <<>>
    BY DEF Open, Connect, NewConnection, LoopInv
  <1>2. Waiting' = <<>>
    BY <1>1 DEF Waiting, Sending
  <1>3. <<>> \o <<>> = <<>> /\ <<>> = SubSeq(<<>> \o <<>>, 1, Len(<<>>))
    BY UnitsEmpty, UnitsFirst
  <1> QED
    BY <1>1, <1>2, <1>3, Zenon DEF StreamKept

LEMMA StreamStep ==
  ASSUME TypeOK, LoopInv, StreamKept, [Next]_vars
  PROVE  StreamKept'
  <1>0. ASSUME (conn = "none" => conn' = "none"),
               UNCHANGED <<m_sendFail, wire, accepted, Waiting>>
        PROVE  StreamKept'
    BY <1>0 DEF StreamKept
  <1> USE DEF Waiting, Sending
  <1>1. CASE Close
    BY <1>1 DEF Close, StreamKept
  <1>2. CASE AllSent
    BY <1>0, <1>2 DEF AllSent, EndLoop, Unsent
  <1>3. CASE WouldBlock
    BY <1>0, <1>3 DEF WouldBlock, EndLoop, Unsent
  <1>4. CASE ReadCall
    BY <1>0, <1>4 DEF ReadCall
  <1>5. CASE Recv
    BY <1>0, <1>5 DEF Recv
  <1>6. CASE RecvBlocks
    BY <1>0, <1>6 DEF RecvBlocks
  <1>7. CASE EpollWait
    BY <1>0, <1>7 DEF EpollWait, writeVars
  <1>8. CASE OnOut
    BY <1>0, <1>8 DEF OnOut, Dispatch, Flush, writeVars
  <1>9. CASE OnIn
    BY <1>0, <1>9 DEF OnIn, Dispatch
  <1>10. CASE Drain
    BY <1>0, <1>10 DEF Drain, writeVars
  <1>11. CASE Arrive
    BY <1>0, <1>11 DEF Arrive, writeVars
  <1>12. CASE Change
    BY <1>0, <1>12 DEF Change, writeVars
  <1>13. CASE UNCHANGED vars
    BY <1>0, <1>13 DEF vars, writeVars
  <1> QED
    BY <1>1, <1>2, <1>3, <1>4, <1>5, <1>6, <1>7, <1>8, <1>9, <1>10, <1>11, <1>12, <1>13,
       WriteKeepsStream, SendKeepsStream, FailureKeepsStream, OpenKeepsStream
       DEF Next, User, Working, Loop

-----------------------------------------------------------------------------
LEMMA Initially ==
  ASSUME Init
  PROVE  IInv
  <1>1. 0 \in 0..MaxOpens /\ 0 \in 0..SndBuf /\ 0 \in 0..MaxArrive /\ <<>> \in Seq(Units)
    BY DEF SizesAssumption
  <1>2. TypeOK
    BY <1>1 DEF Init, TypeOK
  <1> QED
    BY <1>2 DEF Init, IInv, LoopInv, StreamKept, QuietInv, RoomInv, ReadOwed, NoSilentDrop,
                Sending, Readable

LEMMA Step ==
  ASSUME IInv, [Next]_vars
  PROVE  IInv'
  BY TypeKept, LoopKept, StreamStep, QuietKept, RoomKept, ReadKept, FailureKept DEF IInv

LEMMA Invariance == Spec => []IInv
  BY Initially, Step, PTL DEF Spec

(* Every variable of a socket, its loops and its kernel has its type, for  *)
(* all sizes of buffers and writes.                                        *)
THEOREM TypeCorrect == Spec => []TypeOK
  BY Invariance, PTL DEF IInv

(* Write, OnOut and Close keep the stream of each connection: what the     *)
(* kernel has taken and what waits is what was written, in order; after a  *)
(* failed send the kernel has a prefix of it.                              *)
THEOREM StreamKeptHolds == Spec => []StreamKept
  BY Invariance, PTL DEF IInv

(* With an edge-triggered descriptor no write buffer is forgotten: while   *)
(* units wait an event for OnOut is owed, pending or being dispatched.     *)
THEOREM FlushOwedHolds == Spec => []FlushOwed
  <1>1. IInv => FlushOwed
    BY DEF IInv, RoomInv, FlushOwed
  <1> QED
    BY <1>1, Invariance, PTL

(* Nor is a reader that Read has put to sleep: what it could read is       *)
(* announced by an event that OnIn has still to see.                       *)
THEOREM ReadOwedHolds == Spec => []ReadOwed
  BY Invariance, PTL DEF IInv

(* Close resets m_sendFail and nothing else sets it on a connection that   *)
(* works: Write drops only what a broken connection could not take.        *)
THEOREM NoSilentDropHolds == Spec => []NoSilentDrop
  BY Invariance, PTL DEF IInv
=============================================================================
