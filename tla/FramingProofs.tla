--------------------------- MODULE FramingProofs ---------------------------
(***************************************************************************)
(* Proofs of the safety of Framing, for every buffer, head and cells, and  *)
(* streams of any length: the bound MaxStream is a number, and no proof    *)
(* depends on it.                                                          *)
(***************************************************************************)
EXTENDS Framing, TLAPS

(* StreamKept, cell by cell: the messages handled are the beginning of the *)
(* stream, and what is in the buffer after them is what follows.           *)
Behind == readBytes - procTotal

Kept ==
  /\ Len(stream) = Len(handled) + Behind
  /\ \A i \in 1..Len(handled) : handled[i] = stream[i]
  /\ \A i \in 1..Behind : readBuffer[procTotal + i] = stream[Len(handled) + i]

(* The inductive invariant. That EMSGSIZE is the peer's fault rests on     *)
(* Waits: a full buffer was found to hold no whole message.                *)
IInv == TypeOK /\ Kept /\ EndToEnd /\ Waits /\ Blame

USE CellsAssumption, SizesAssumption

-----------------------------------------------------------------------------
(* What the sequences and the buffer are made of. *)

(* The cells of two sequences end to end.                                  *)
LEMMA Appended ==
  ASSUME NEW s \in Seq(Cells), NEW t \in Seq(Cells)
  PROVE  /\ s \o t \in Seq(Cells)
         /\ Len(s \o t) = Len(s) + Len(t)
         /\ \A i \in 1..Len(s) : (s \o t)[i] = s[i]
         /\ \A i \in 1..Len(t) : (s \o t)[Len(s) + i] = t[i]
  OBVIOUS

(* Data is a sequence of the buffer's cells.                               *)
LEMMA DataCells ==
  ASSUME TypeOK
  PROVE  /\ Len(Data) = Behind
         /\ \A i \in 1..Behind : Data[i] = readBuffer[procTotal + i]
         /\ Data \in Seq(Cells \cup {Junk})
  <1>1. procTotal \in Nat /\ readBytes \in Nat /\ procTotal <= readBytes /\ readBytes <= BufSize
    BY DEF TypeOK
  <1>2. Data = [i \in 1..Behind |-> readBuffer[procTotal + i]]
    BY <1>1, SMT DEF Data, Behind, TypeOK
  <1>3. Behind \in Nat
    BY <1>1 DEF Behind
  <1>4. \A i \in 1..Behind : readBuffer[procTotal + i] \in Cells \cup {Junk}
    BY <1>1 DEF TypeOK, Behind
  <1> QED
    BY <1>2, <1>3, <1>4

(* As far as anything waits in it, Data is what follows in the stream. *)
LEMMA DataStream ==
  ASSUME TypeOK, Kept
  PROVE  /\ Len(Data) = Behind
         /\ Behind \in Nat /\ Behind <= BufSize
         /\ \A i \in 1..Behind : Data[i] = stream[Len(handled) + i]
         /\ \A i \in 1..Behind : Data[i] \in Cells
         /\ \A i \in 1..Behind : Data[i] \in Nat
  <1>1. Behind \in Nat /\ Behind <= BufSize
    BY DEF TypeOK, Behind
  <1>2. Len(handled) \in Nat /\ \A j \in 1..Len(stream) : stream[j] \in Cells
    BY DEF TypeOK
  <1>3. \A i \in 1..Behind : Data[i] = stream[Len(handled) + i]
    BY DataCells DEF Kept
  <1>4. \A i \in 1..Behind : Len(handled) + i \in 1..Len(stream)
    BY <1>1, <1>2 DEF Kept
  <1>5. \A i \in 1..Behind : Data[i] \in Cells
    BY <1>2, <1>3, <1>4
  <1> QED
    BY <1>1, <1>3, <1>5, DataCells

(* A read gives a sequence of cells. *)
LEMMA ArrivalsAreSequences ==
  ASSUME NEW cells \in Arrivals
  PROVE  cells \in Seq(Cells) /\ Len(cells) \in Nat /\ DOMAIN cells = 1..Len(cells)
  <1>1. PICK n \in 1..BufSize : cells \in [1..n -> Cells]
    BY DEF Arrivals
  <1> QED
    BY <1>1

-----------------------------------------------------------------------------
(* Every action preserves the invariant. *)

LEMMA InitIInv == Init => IInv
  <1> SUFFICES ASSUME Init PROVE IInv
    OBVIOUS
  <1>1. Len(stream) = 0 /\ Len(handled) = 0 /\ Behind = 0
    BY DEF Init, Behind
  <1>2. TypeOK
    BY DEF Init, TypeOK
  <1>3. Kept
    BY <1>1 DEF Init, Kept
  <1>4. EndToEnd /\ Waits /\ Blame
    BY <1>1 DEF Init, EndToEnd, Waits, Blame
  <1> QED
    BY <1>2, <1>3, <1>4 DEF IInv

(* Whatever the loop returns, the buffer and the stream stay as they are.  *)
LEMMA ReturnsKeeps ==
  ASSUME IInv, NEW e \in {"EMSGSIZE", "EBADMSG", "closed"}, Returns(e), at # "returned",
         e = "EMSGSIZE" => stream[Len(handled) + 1] > BufSize,
         e = "EBADMSG" => stream[Len(handled) + 1] < MSG_HEAD_LEN
  PROVE  IInv'
  <1> USE DEF IInv, Returns, historyVars
  <1>1. TypeOK'
    BY DEF TypeOK
  <1>2. Kept'
    BY DEF Kept, Behind
  <1>3. EndToEnd'
    BY DEF EndToEnd
  <1>4. Waits' /\ Blame'
    BY DEF Waits, Blame
  <1> QED
    BY <1>1, <1>2, <1>3, <1>4

LEMMA TooLongKeeps == IInv /\ TooLong => IInv'
  <1> SUFFICES ASSUME IInv, TooLong PROVE IInv'
    OBVIOUS
  <1>1. procTotal = 0 /\ Behind = BufSize /\ Len(stream) = Len(handled) + BufSize
    BY DEF IInv, TooLong, Full, TypeOK, Behind, Kept
  <1>2. Len(handled) \in Nat
    BY DEF IInv, TypeOK
  <1>3. stream[Len(handled) + 1] > BufSize
    BY <1>1, <1>2 DEF IInv, TooLong, Waits
  <1> QED
    BY <1>3, ReturnsKeeps DEF TooLong

LEMMA BadMessageKeeps == IInv /\ BadMessage => IInv'
  <1> SUFFICES ASSUME IInv, BadMessage PROVE IInv'
    OBVIOUS
  <1>1. Len(Data) >= MSG_HEAD_LEN /\ Data[1] < MSG_HEAD_LEN
    BY DEF BadMessage, Bad
  <1>2. Data[1] = stream[Len(handled) + 1]
    BY <1>1, DataStream DEF IInv
  <1>3. stream[Len(handled) + 1] < MSG_HEAD_LEN
    BY <1>1, <1>2
  <1> QED
    BY <1>3, ReturnsKeeps DEF BadMessage

LEMMA ReadKeeps ==
  ASSUME IInv, NEW cells \in Arrivals, Read(cells)
  PROVE  IInv'
  <1> DEFINE n == Len(cells)
  <1>1. /\ cells \in Seq(Cells) /\ n \in Nat /\ DOMAIN cells = 1..n
        /\ \A i \in 1..n : cells[i] \in Cells
    BY ArrivalsAreSequences
  <1>2. /\ procTotal = 0 /\ err = "none"
        /\ readBytes \in Nat /\ readBytes + n <= BufSize
        /\ Len(stream) \in Nat /\ Len(handled) \in Nat /\ Len(handled) <= Len(stream)
        /\ Len(stream) = Len(handled) + readBytes
    BY <1>1 DEF IInv, TypeOK, Read, Kept, Behind
  <1>3. /\ stream' \in Seq(Cells)
        /\ Len(stream') = Len(stream) + n
        /\ \A i \in 1..Len(stream) : stream'[i] = stream[i]
        /\ \A i \in 1..n : stream'[Len(stream) + i] = cells[i]
    BY <1>1 DEF IInv, TypeOK, Read
  <1>4. /\ readBuffer' \in [1..BufSize -> Cells \cup {Junk}]
        /\ \A i \in 1..readBytes : readBuffer'[i] = readBuffer[i]
        /\ \A i \in 1..n : readBuffer'[readBytes + i] = cells[i]
    <2>1. readBuffer' = [i \in 1..BufSize |-> IF i - readBytes \in 1..n
                                              THEN cells[i - readBytes] ELSE readBuffer[i]]
      BY <1>1 DEF Read
    <2> QED
      BY <1>1, <1>2, <2>1 DEF IInv, TypeOK
  <1>5. readBytes' = readBytes + n /\ procTotal' = 0 /\ handled' = handled /\ starts' = starts
        /\ at' = "process" /\ err' = "none"
    BY <1>2 DEF Read
  <1>6. TypeOK'
    BY <1>1, <1>2, <1>3, <1>4, <1>5 DEF IInv, TypeOK
  <1>7. Kept'
    <2>1. Behind = readBytes /\ Behind' = readBytes + n
      BY <1>1, <1>2, <1>5 DEF Behind
    <2>2. \A i \in 1..Len(handled) : handled[i] = stream'[i]
      BY <1>2, <1>3 DEF IInv, Kept
    <2>3. \A i \in 1..readBytes : readBuffer'[i] = stream'[Len(handled) + i]
      BY <1>2, <1>3, <1>4, <2>1 DEF IInv, Kept
    <2>4. \A i \in 1..n : readBuffer'[readBytes + i] = stream'[Len(handled) + (readBytes + i)]
      BY <1>1, <1>2, <1>3, <1>4
    <2>5. \A i \in 1..readBytes + n : readBuffer'[i] = stream'[Len(handled) + i]
      <3> TAKE i \in 1..readBytes + n
      <3>1. CASE i <= readBytes
        BY <1>1, <1>2, <2>3, <3>1
      <3>2. CASE i > readBytes
        <4>1. i - readBytes \in 1..n /\ readBytes + (i - readBytes) = i
          BY <1>1, <1>2, <3>2
        <4> QED
          BY <2>4, <4>1
      <3> QED
        BY <1>1, <1>2, <3>1, <3>2
    <2>6. Len(stream') = Len(handled) + (readBytes + n)
      BY <1>1, <1>2, <1>3
    <2>7. \A i \in 1..readBytes + n : readBuffer'[0 + i] = stream'[Len(handled) + i]
      BY <1>1, <1>2, <2>5
    <2> HIDE DEF n
    <2> QED
      BY <1>5, <2>1, <2>2, <2>6, <2>7 DEF Kept
  <1>8. EndToEnd'
    <2>1. \A p \in starts : p \in Nat /\ p < Len(handled)
      BY DEF IInv, EndToEnd, TypeOK
    <2>2. \A p \in starts : stream'[p + 1] = stream[p + 1]
      <3> TAKE p \in starts
      <3>1. p + 1 \in 1..Len(stream)
        BY <1>2, <2>1
      <3> QED
        BY <1>3, <3>1
    <2> QED
      BY <1>5, <2>2 DEF IInv, EndToEnd
  <1>9. Waits' /\ Blame'
    BY <1>5 DEF Waits, Blame
  <1> QED
    BY <1>6, <1>7, <1>8, <1>9 DEF IInv

LEMMA onProcessKeeps == IInv /\ onProcess => IInv'
  <1> SUFFICES ASSUME IInv, onProcess PROVE IInv'
    OBVIOUS
  <1> DEFINE L == Data[1]
  <1> DEFINE h == Len(handled)
  <1>1. /\ Behind \in Nat /\ Behind <= BufSize
        /\ Len(Data) = Behind
        /\ \A i \in 1..Behind : Data[i] = stream[h + i] /\ Data[i] \in Cells /\ Data[i] \in Nat
    BY DataStream DEF IInv
  <1>2. /\ L \in Nat /\ MSG_HEAD_LEN <= L /\ 1 <= L /\ L <= Behind
        /\ L = stream[h + 1]
        /\ procTotal \in Nat /\ readBytes \in Nat /\ Behind = readBytes - procTotal
        /\ h \in Nat
        /\ Len(stream) = h + Behind
        /\ err = "none"
    <2>1. Len(Data) >= MSG_HEAD_LEN /\ ~(L < MSG_HEAD_LEN) /\ L <= Len(Data)
      BY DEF onProcess, Bad, Whole
    <2>2. 1 \in 1..Behind
      BY <1>1, <2>1
    <2>3. L \in Nat /\ L = stream[h + 1]
      BY <1>1, <2>2
    <2>4. /\ procTotal \in Nat /\ readBytes \in Nat /\ Behind = readBytes - procTotal
          /\ h \in Nat
          /\ Len(stream) = h + Behind
          /\ err = "none"
      BY DEF IInv, onProcess, TypeOK, Behind, Kept
    <2> HIDE DEF L
    <2> QED
      BY <1>1, <2>1, <2>3, <2>4
  <1>3. /\ handled' = handled \o SubSeq(Data, 1, L)
        /\ procTotal' = procTotal + L
        /\ starts' = starts \cup {h}
        /\ readBuffer' = readBuffer /\ readBytes' = readBytes
        /\ at' = "process" /\ err' = "none" /\ stream' = stream
    BY <1>2 DEF onProcess, length
  <1>4. /\ SubSeq(Data, 1, L) \in Seq(Cells)
        /\ Len(SubSeq(Data, 1, L)) = L
        /\ \A i \in 1..L : SubSeq(Data, 1, L)[i] = stream[h + i]
    <2>1. Data \in Seq(Cells \cup {Junk})
      BY DataCells DEF IInv
    <2>2. /\ SubSeq(Data, 1, L) = [i \in 1..L |-> Data[i]]
          /\ Len(SubSeq(Data, 1, L)) = L
      BY <1>1, <1>2, <2>1
    <2>3. \A i \in 1..L : Data[i] = stream[h + i] /\ Data[i] \in Cells
      BY <1>1, <1>2
    <2> QED
      BY <1>2, <2>2, <2>3
  <1>5. /\ handled' \in Seq(Cells)
        /\ Len(handled') = h + L
        /\ \A i \in 1..h : handled'[i] = handled[i]
        /\ \A i \in 1..L : handled'[h + i] = stream[h + i]
    <2> DEFINE m == SubSeq(Data, 1, L)
    <2>1. handled' = handled \o m /\ handled \in Seq(Cells)
      BY <1>3 DEF IInv, TypeOK
    <2>2. m \in Seq(Cells) /\ Len(m) = L /\ \A i \in 1..L : m[i] = stream[h + i]
      BY <1>4
    <2> HIDE DEF m, L
    <2>3. handled \o m \in Seq(Cells) /\ Len(handled \o m) = h + Len(m)
      BY <2>1, <2>2, Appended, Zenon
    <2>4. \A i \in 1..h : (handled \o m)[i] = handled[i]
      BY <2>1, <2>2, Appended, Zenon
    <2>5. \A i \in 1..Len(m) : (handled \o m)[h + i] = m[i]
      BY <2>1, <2>2, Appended
    <2> HIDE DEF h
    <2>6. Len(handled \o m) = h + L
      BY <2>2, <2>3, Zenon
    <2>7. \A i \in 1..L : (handled \o m)[h + i] = stream[h + i]
      <3> TAKE i \in 1..L
      <3>1. (handled \o m)[h + i] = m[i]
        BY <2>2, <2>5, Zenon
      <3> QED
        BY <2>2, <3>1, Zenon
    <2> QED
      BY <2>1, <2>3, <2>4, <2>6, <2>7, Zenon
  <1> HIDE DEF L, h
  <1>6. TypeOK'
    <2>1. procTotal + L \in 0..readBytes
      <3>1. procTotal \in Nat /\ readBytes \in Nat /\ L \in Nat /\ L <= readBytes - procTotal
        BY <1>2
      <3> QED
        BY <3>1
    <2>2. starts \cup {h} \subseteq Nat
      BY <1>2 DEF IInv, TypeOK
    <2> QED
      BY <1>3, <1>5, <2>1, <2>2 DEF IInv, TypeOK
  <1>7. Kept'
    <2>1. Behind' = Behind - L
      BY <1>2, <1>3 DEF Behind
    <2>2. \A i \in 1..h + L : handled'[i] = stream'[i]
      <3> TAKE i \in 1..h + L
      <3>1. CASE i <= h
        <4>1. handled'[i] = handled[i]
          BY <1>2, <1>5, <3>1
        <4>2. handled[i] = stream[i]
          BY <1>2, <3>1 DEF IInv, Kept, h
        <4> QED
          BY <1>3, <4>1, <4>2
      <3>2. CASE i > h
        <4>1. i - h \in 1..L /\ h + (i - h) = i
          BY <1>2, <3>2
        <4> QED
          BY <1>3, <1>5, <4>1
      <3> QED
        BY <1>2, <3>1, <3>2
    <2>3. \A i \in 1..Behind - L :
            readBuffer'[(procTotal + L) + i] = stream'[(h + L) + i]
      <3> TAKE i \in 1..Behind - L
      <3>0. h \in Nat /\ L \in Nat /\ Behind \in Nat /\ procTotal \in Nat /\ L <= Behind
        BY <1>1, <1>2
      <3>1. /\ L + i \in 1..Behind
            /\ procTotal + (L + i) = (procTotal + L) + i /\ h + (L + i) = (h + L) + i
        BY <3>0
      <3>2. readBuffer[procTotal + (L + i)] = stream[h + (L + i)]
        BY <3>1 DEF IInv, Kept, h
      <3> QED
        BY <1>3, <3>1, <3>2
    <2>4. Len(stream') = (h + L) + (Behind - L)
      <3>1. Len(stream') = h + Behind
        BY <1>2, <1>3
      <3>2. h \in Nat /\ L \in Nat /\ Behind \in Nat
        BY <1>1, <1>2
      <3> QED
        BY <3>1, <3>2
    <2> QED
      BY <1>3, <1>5, <2>1, <2>2, <2>3, <2>4 DEF Kept
  <1>8. EndToEnd'
    <2>1. 0 \in starts \cup {h}
      BY DEF IInv, EndToEnd, h
    <2>2. \A p \in starts : /\ p \in Nat /\ p < h
                           /\ stream[p + 1] \in MSG_HEAD_LEN..BufSize
                           /\ p + stream[p + 1] \in starts \cup {h}
      BY DEF IInv, EndToEnd, TypeOK, h
    <2>3. /\ h < h + L
          /\ stream[h + 1] \in MSG_HEAD_LEN..BufSize
          /\ h + stream[h + 1] = h + L
      BY <1>1, <1>2
    <2>4. \A p \in starts' : /\ p < h + L
                            /\ stream[p + 1] \in MSG_HEAD_LEN..BufSize
                            /\ p + stream[p + 1] \in starts' \cup {h + L}
      <3> TAKE p \in starts'
      <3>1. CASE p \in starts
        <4>1. p < h + L
          BY <1>2, <2>2, <3>1
        <4> QED
          BY <1>3, <2>2, <3>1, <4>1
      <3>2. CASE p = h
        BY <2>3, <3>2
      <3> QED
        BY <1>3, <3>1, <3>2
    <2> QED
      BY <1>3, <1>5, <2>1, <2>4 DEF EndToEnd
  <1>9. Waits' /\ Blame'
    BY <1>3 DEF Waits, Blame
  <1> QED
    BY <1>6, <1>7, <1>8, <1>9 DEF IInv

LEMMA ShiftKeeps == IInv /\ Shift => IInv'
  <1> SUFFICES ASSUME IInv, Shift PROVE IInv'
    OBVIOUS
  <1>1. /\ Behind \in Nat /\ Behind <= BufSize
        /\ Len(Data) = Behind
        /\ \A i \in 1..Behind : Data[i] = stream[Len(handled) + i] /\ Data[i] \in Nat
    BY DataStream DEF IInv
  <1>2. /\ procTotal \in Nat /\ readBytes \in Nat
        /\ Behind = readBytes - procTotal
        /\ readBytes <= BufSize
        /\ readBuffer \in [1..BufSize -> Cells \cup {Junk}]
    BY DEF IInv, TypeOK, Behind
  <1>3. /\ readBuffer' = [i \in 1..BufSize |-> IF i <= Behind THEN readBuffer[i + procTotal]
                                                             ELSE readBuffer[i]]
        /\ readBytes' = Behind /\ procTotal' = 0 /\ at' = "read"
        /\ err' = err /\ stream' = stream /\ handled' = handled /\ starts' = starts
    BY DEF Shift, Moved, Behind, historyVars
  <1>4. /\ readBuffer' \in [1..BufSize -> Cells \cup {Junk}]
        /\ \A i \in 1..Behind : readBuffer'[i] = readBuffer[procTotal + i]
    BY <1>1, <1>2, <1>3
  <1>5. TypeOK'
    BY <1>1, <1>3, <1>4 DEF IInv, TypeOK, Shift
  <1>6. Kept'
    <2>1. Behind' = Behind
      BY <1>1, <1>3 DEF Behind
    <2>2. \A i \in 1..Behind : readBuffer'[0 + i] = stream[Len(handled) + i]
      BY <1>1, <1>4 DEF IInv, Kept
    <2> QED
      BY <1>3, <2>1, <2>2 DEF IInv, Kept
  <1>7. EndToEnd' /\ Blame'
    BY <1>3 DEF IInv, EndToEnd, Blame
  <1>8. Waits'
    <2>1. Len(stream) - Len(handled) = Behind
      BY <1>1 DEF IInv, Kept, TypeOK
    <2>2. CASE Len(Data) < MSG_HEAD_LEN
      BY <1>1, <1>3, <2>1, <2>2 DEF Waits
    <2>3. CASE ~(Len(Data) < MSG_HEAD_LEN)
      <3>1. Behind >= MSG_HEAD_LEN /\ 1 \in 1..Behind
        BY <1>1, <2>3
      <3>2. Data[1] > Behind
        BY <1>1, <3>1 DEF Shift, Whole
      <3> QED
        BY <1>1, <1>3, <2>1, <3>1, <3>2 DEF Waits
    <2> QED
      BY <2>2, <2>3
  <1> QED
    BY <1>5, <1>6, <1>7, <1>8 DEF IInv

LEMMA ConnectedKeeps == IInv /\ Connected => IInv'
  <1> SUFFICES ASSUME IInv, Connected PROVE IInv'
    OBVIOUS
  <1>1. /\ stream' = <<>> /\ handled' = <<>> /\ starts' = {}
        /\ readBytes' = 0 /\ procTotal' = 0 /\ at' = "read" /\ err' = "none"
        /\ readBuffer' = readBuffer
    BY DEF Connected
  <1>2. Behind' = 0
    BY <1>1 DEF Behind
  <1>3. TypeOK'
    BY <1>1 DEF IInv, TypeOK
  <1>4. Kept'
    BY <1>1, <1>2 DEF Kept
  <1>5. EndToEnd' /\ Waits' /\ Blame'
    BY <1>1 DEF EndToEnd, Waits, Blame
  <1> QED
    BY <1>3, <1>4, <1>5 DEF IInv

LEMMA NextIInv == IInv /\ [Next]_vars => IInv'
  <1> SUFFICES ASSUME IInv, [Next]_vars PROVE IInv'
    OBVIOUS
  <1>1. CASE TooLong
    BY <1>1, TooLongKeeps
  <1>2. CASE ReadEnds
    BY <1>2, ReturnsKeeps DEF ReadEnds
  <1>3. CASE BadMessage
    BY <1>3, BadMessageKeeps
  <1>4. CASE onProcess
    BY <1>4, onProcessKeeps
  <1>5. CASE Shift
    BY <1>5, ShiftKeeps
  <1>6. CASE Connected
    BY <1>6, ConnectedKeeps
  <1>7. ASSUME NEW cells \in Arrivals, Read(cells) PROVE IInv'
    BY <1>7, ReadKeeps
  <1>8. CASE UNCHANGED vars
    BY <1>8 DEF vars, historyVars, IInv, TypeOK, Kept, Behind, EndToEnd, Waits, Blame
  <1> QED
    BY <1>1, <1>2, <1>3, <1>4, <1>5, <1>6, <1>7, <1>8 DEF Next

LEMMA IInvHolds == Spec => []IInv
  BY InitIInv, NextIInv, PTL DEF Spec

-----------------------------------------------------------------------------
(* Type correctness: the counts of the read loop never pass one another or *)
(* the end of the buffer.                                                  *)
THEOREM TypeCorrect == Spec => []TypeOK
  <1>1. IInv => TypeOK
    BY DEF IInv
  <1> QED
    BY <1>1, IInvHolds, PTL

(* However the stream is cut by the reads, what is handled and what waits  *)
(* in the buffer is the stream.                                            *)
THEOREM StreamKeptHolds == Spec => []StreamKept
  <1>1. ASSUME IInv PROVE StreamKept
    <2>1. /\ Len(Data) = Behind /\ Behind \in Nat
          /\ \A i \in 1..Behind : Data[i] = stream[Len(handled) + i]
          /\ Data \in Seq(Cells \cup {Junk})
      BY <1>1, DataStream, DataCells DEF IInv
    <2>2. /\ handled \in Seq(Cells \cup {Junk}) /\ stream \in Seq(Cells \cup {Junk})
          /\ Len(stream) = Len(handled) + Behind
          /\ \A i \in 1..Len(handled) : handled[i] = stream[i]
      BY <1>1 DEF IInv, TypeOK, Kept
    <2> DEFINE t == handled \o Data
    <2>3. /\ t \in Seq(Cells \cup {Junk})
          /\ Len(t) = Len(handled) + Behind
          /\ \A i \in 1..Len(handled) : t[i] = stream[i]
          /\ \A i \in 1..Behind : t[Len(handled) + i] = stream[Len(handled) + i]
      BY <2>1, <2>2
    <2>4. \A i \in 1..Len(t) : t[i] = stream[i]
      <3> HIDE DEF t
      <3> TAKE i \in 1..Len(t)
      <3>1. CASE i <= Len(handled)
        BY <2>2, <2>3, <3>1
      <3>2. CASE i > Len(handled)
        <4>1. i - Len(handled) \in 1..Behind /\ Len(handled) + (i - Len(handled)) = i
          BY <2>1, <2>2, <2>3, <3>2
        <4> QED
          BY <2>3, <4>1
      <3> QED
        BY <2>2, <2>3, <3>1, <3>2
    <2>5. t = stream
      <3> HIDE DEF t
      <3> QED
        BY <2>2, <2>3, <2>4
    <2> QED
      BY <2>5 DEF StreamKept
  <1> QED
    BY <1>1, IInvHolds, PTL

(* The messages handled are those of the stream, and none is left waiting. *)
THEOREM EndToEndHolds == Spec => [](EndToEnd /\ Waits)
  <1>1. IInv => EndToEnd /\ Waits
    BY DEF IInv
  <1> QED
    BY <1>1, IInvHolds, PTL

(* The loop gives a connection up only for what the peer has sent.         *)
THEOREM BlameHolds == Spec => []Blame
  <1>1. IInv => Blame
    BY DEF IInv
  <1> QED
    BY <1>1, IInvHolds, PTL
=============================================================================
