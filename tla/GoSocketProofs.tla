--------------------------- MODULE GoSocketProofs ---------------------------
(***************************************************************************)
(* Proofs about GoSocket for any goroutines and any messages: the safety   *)
(* of its locking and signalling, and that it implements SendStream.       *)
(***************************************************************************)
EXTENDS GoSocket, SequenceTheorems, TLAPS

-----------------------------------------------------------------------------
(* The inductive invariant. *)

(* Whoever is inside Write, Close or the swap holds the mutex. *)
LockInv ==
  /\ \A g \in Goroutines : pc[g] # "idle" <=> m = g
  /\ m = Sender <=> dosend = "swap"

(* Both sides use the same buffer only between the swap and the flip, and  *)
(* the one that dosend offers for the swap is empty.                       *)
IndexInv ==
  /\ dosend = "flip" <=> writeIndex = sendIndex
  /\ dosend \in {"recv", "lock", "swap", "returned"} => buffers[sendIndex] = <<>>

(* Nobody is inside Write on a closed socket. *)
CloseInv ==
  /\ hungup => bclose
  /\ \A g \in Goroutines : pc[g] \in {"append", "notify", "unlock", "close"} => ~bclose
  /\ \A g \in Goroutines : pc[g] = "closeNotify" => bclose

(* A notification is sent or taken only for a buffer that holds data, and  *)
(* a Write that began with an empty buffer finds the channel empty.        *)
SignalInv ==
  /\ notify = 1 => buffers[writeIndex] # <<>>
  /\ dosend \in {"lock", "swap"} => notify = 0 /\ buffers[writeIndex] # <<>>
  /\ \A g \in Goroutines :
       \/ pc[g] = "notify"
       \/ pc[g] = "append" /\ dataLen = 0
       => notify = 0 /\ dosend \notin {"lock", "swap"}
  /\ \A g \in Goroutines : pc[g] = "notify" => buffers[writeIndex] # <<>>

(* What a Write in progress has put into the buffer so far. *)
AppendInv ==
  \A g \in Goroutines : pc[g] = "append" =>
    /\ done < size
    /\ dataLen \in 0..Len(buffers[writeIndex])
    /\ buffers[writeIndex] = SubSeq(buffers[writeIndex], 1, dataLen) \o Message(g, done)

(* dosend gives up on the connection with its first error. *)
ErrInv == dosend = "send" /\ sendSplice # <<>> => ~writeErr

(* A Write to a buffer that was not empty leaves the wakeup to the others. *)
WakeInv ==
  \A g \in Goroutines :
    pc[g] = "append" /\ dataLen # 0 => notify = 1 \/ dosend \in {"lock", "swap"}

(* All of it together is inductive. *)
IInv ==
  /\ TypeOK
  /\ LockInv
  /\ IndexInv
  /\ CloseInv
  /\ SignalInv
  /\ AppendInv
  /\ ErrInv
  /\ WakeInv
  /\ NoLostWakeup
  /\ StreamKept
-----------------------------------------------------------------------------
(* Messages and sequences. *)

LEMMA UnitsOfMessages ==
  ASSUME NEW g \in Goroutines, NEW k \in 0..MaxSlices
  PROVE  /\ Message(g, k) \in Seq(Units)
         /\ Len(Message(g, k)) = k
         /\ \A i \in 1..k : Unit(g, i) \in Units /\ Message(g, k)[i] = Unit(g, i)
<1>1. \A i \in 1..k : Unit(g, i) \in Units
  BY SlicesAssumption DEF Unit, Units
<1>2. k \in Nat /\ Message(g, k) \in [1..k -> Units]
  BY <1>1, SlicesAssumption DEF Message
<1>3. QED
  BY <1>1, <1>2, SeqDef, LenProperties DEF Message

(* A message grows by one unit at a time. *)
LEMMA MessageAppend ==
  ASSUME NEW g \in Goroutines, NEW k \in 0..MaxSlices, k + 1 \in 0..MaxSlices
  PROVE  Append(Message(g, k), Unit(g, k + 1)) = Message(g, k + 1)
<1>1. /\ Message(g, k) \in Seq(Units) /\ Len(Message(g, k)) = k
      /\ Message(g, k + 1) \in Seq(Units) /\ Len(Message(g, k + 1)) = k + 1
      /\ Unit(g, k + 1) \in Units
  BY UnitsOfMessages, SlicesAssumption
<1>2. \A i \in 1..k + 1 : Append(Message(g, k), Unit(g, k + 1))[i] = Message(g, k + 1)[i]
  BY <1>1, AppendProperties, SlicesAssumption DEF Message
<1>3. Append(Message(g, k), Unit(g, k + 1)) \in Seq(Units)
      /\ Len(Append(Message(g, k), Unit(g, k + 1))) = k + 1
  BY <1>1, AppendProperties
<1>4. QED
  BY <1>1, <1>2, <1>3, SeqEqual

(* Splitting a sequence in two. *)
LEMMA SplitSeq ==
  ASSUME NEW S, NEW s \in Seq(S), NEW n \in 0..Len(s)
  PROVE  /\ SubSeq(s, 1, n) \in Seq(S) /\ Len(SubSeq(s, 1, n)) = n
         /\ SubSeq(s, n + 1, Len(s)) \in Seq(S)
         /\ SubSeq(s, 1, n) \o SubSeq(s, n + 1, Len(s)) = s
<1>1. Len(s) \in Nat /\ 1 \in 1..Len(s) + 1 /\ n \in 1 - 1..Len(s) /\ Len(s) \in n..Len(s)
  BY LenProperties
<1>2. SubSeq(s, 1, n) \in Seq(S) /\ Len(SubSeq(s, 1, n)) = n
  BY <1>1, SubSeqProperties
<1>3. SubSeq(s, n + 1, Len(s)) \in Seq(S)
  BY <1>1, SubSeqProperties
<1>4. SubSeq(s, 1, n) \o SubSeq(s, n + 1, Len(s)) = SubSeq(s, 1, Len(s))
  BY <1>1, ConcatAdjacentSubSeq
<1>5. QED
  BY <1>2, <1>3, <1>4, SubSeqFull

(* Appending to a sequence leaves its prefixes alone. *)
LEMMA AppendPrefix ==
  ASSUME NEW S, NEW s \in Seq(S), NEW e \in S, NEW n \in 0..Len(s)
  PROVE  SubSeq(Append(s, e), 1, n) = SubSeq(s, 1, n)
<1>1. Len(s) \in Nat /\ Append(s, e) \in Seq(S) /\ Len(Append(s, e)) = Len(s) + 1
      /\ \A i \in 1..Len(s) : Append(s, e)[i] = s[i]
  BY LenProperties, AppendProperties
<1>2. SubSeq(s, 1, n) \in Seq(S) /\ Len(SubSeq(s, 1, n)) = n
      /\ \A i \in 1..n : SubSeq(s, 1, n)[i] = s[i]
  BY <1>1, SubSeqProperties
<1>3. SubSeq(Append(s, e), 1, n) \in Seq(S) /\ Len(SubSeq(Append(s, e), 1, n)) = n
      /\ \A i \in 1..n : SubSeq(Append(s, e), 1, n)[i] = Append(s, e)[i]
  <2>1. \A i \in 1..n : i \in 1..Len(s) /\ Append(s, e)[i] \in S
    BY <1>1
  <2>2. QED
    BY <1>1, <2>1, SubSeqProperties
<1>4. QED
  BY <1>1, <1>2, <1>3, SeqEqual

(* The library's facts for sequences of units. *)
LEMMA UnitsAssociative ==
  ASSUME NEW s \in Seq(Units), NEW t \in Seq(Units), NEW u \in Seq(Units)
  PROVE  (s \o t) \o u = s \o (t \o u)
BY ConcatAssociative

LEMMA UnitsAppend ==
  ASSUME NEW s \in Seq(Units), NEW u \in Units
  PROVE  <<u>> \in Seq(Units) /\ Append(s, u) = s \o <<u>>
<1>1. Append(s, u) = s \o <<u>>
  BY AppendIsConcat
<1>2. <<u>> \in Seq(Units)
  OBVIOUS
<1>3. QED
  BY <1>1, <1>2

LEMMA UnitsPrefix ==
  ASSUME NEW s \in Seq(Units), NEW n \in 0..Len(s)
  PROVE  SubSeq(s, 1, n) \in Seq(Units)
BY SplitSeq

LEMMA UnitsConcat ==
  ASSUME NEW s \in Seq(Units), NEW t \in Seq(Units)
  PROVE  s \o t \in Seq(Units)
BY ConcatProperties

(* A buffer whose last part is a message grows by one unit of it. *)
LEMMA GrowMessage ==
  ASSUME NEW b \in Seq(Units), NEW d \in 0..Len(b), NEW g \in Goroutines,
         NEW k \in 0..MaxSlices, k + 1 \in 0..MaxSlices,
         b = SubSeq(b, 1, d) \o Message(g, k)
  PROVE  /\ Append(b, Unit(g, k + 1)) = SubSeq(b, 1, d) \o Message(g, k + 1)
         /\ SubSeq(Append(b, Unit(g, k + 1)), 1, d) = SubSeq(b, 1, d)
         /\ Append(b, Unit(g, k + 1)) \in Seq(Units)
         /\ Len(Append(b, Unit(g, k + 1))) = Len(b) + 1
<1>1. SubSeq(b, 1, d) \in Seq(Units)
  BY SplitSeq
<1>2. Message(g, k) \in Seq(Units) /\ Unit(g, k + 1) \in Units
  BY UnitsOfMessages, SlicesAssumption
<1>3. ASSUME NEW p \in Seq(Units), NEW q \in Seq(Units), NEW u \in Units
      PROVE  Append(p \o q, u) = p \o Append(q, u)
  <2>1. p \o q \in Seq(Units)
    BY UnitsConcat, Zenon
  <2>2. /\ <<u>> \in Seq(Units)
        /\ Append(p \o q, u) = (p \o q) \o <<u>>
        /\ Append(q, u) = q \o <<u>>
    BY <2>1, UnitsAppend, Zenon
  <2>3. (p \o q) \o <<u>> = p \o (q \o <<u>>)
    BY <2>2, UnitsAssociative, Zenon
  <2>4. QED
    BY <2>2, <2>3, Zenon
<1>4. Append(Message(g, k), Unit(g, k + 1)) = Message(g, k + 1)
  BY MessageAppend
<1>5. SubSeq(Append(b, Unit(g, k + 1)), 1, d) = SubSeq(b, 1, d)
  BY <1>2, AppendPrefix
<1>6. Append(b, Unit(g, k + 1)) = SubSeq(b, 1, d) \o Message(g, k + 1)
  <2>1. Append(SubSeq(b, 1, d) \o Message(g, k), Unit(g, k + 1))
          = SubSeq(b, 1, d) \o Append(Message(g, k), Unit(g, k + 1))
    BY <1>1, <1>2, <1>3, Zenon
  <2>2. QED
    BY <1>4, <2>1, Zenon
<1>7. QED
  BY <1>2, <1>5, <1>6, AppendProperties
(* What the three parts of the stream are together, when a message is      *)
(* accepted and when the first units of the middle part are delivered.     *)
LEMMA AcceptConcat ==
  ASSUME NEW w \in Seq(Units), NEW o \in Seq(Units), NEW p \in Seq(Units), NEW q \in Seq(Units)
  PROVE  w \o o \o (p \o q) = (w \o o \o p) \o q
<1>1. w \o o \in Seq(Units)
  BY ConcatProperties
<1>2. QED
  BY <1>1, UnitsAssociative, Zenon

LEMMA DeliverConcat ==
  ASSUME NEW w \in Seq(Units), NEW o \in Seq(Units), NEW n \in 0..Len(o)
  PROVE  (w \o SubSeq(o, 1, n)) \o SubSeq(o, n + 1, Len(o)) = w \o o
<1>1. SubSeq(o, 1, n) \in Seq(Units) /\ SubSeq(o, n + 1, Len(o)) \in Seq(Units)
      /\ SubSeq(o, 1, n) \o SubSeq(o, n + 1, Len(o)) = o
  BY SplitSeq
<1>2. (w \o SubSeq(o, 1, n)) \o SubSeq(o, n + 1, Len(o))
        = w \o (SubSeq(o, 1, n) \o SubSeq(o, n + 1, Len(o)))
  BY <1>1, UnitsAssociative, Zenon
<1>3. QED
  BY <1>1, <1>2, Zenon

LEMMA DeliverPrefix ==
  ASSUME NEW w \in Seq(Units), NEW o \in Seq(Units), NEW p \in Seq(Units), NEW n \in 0..Len(o)
  PROVE  /\ Len(w) + n \in Len(w)..Len(w \o o \o p)
         /\ w \o SubSeq(o, 1, n) = SubSeq(w \o o \o p, 1, Len(w) + n)
<1> DEFINE x == w \o SubSeq(o, 1, n)
           a == w \o o \o p
           y == SubSeq(a, 1, Len(w) + n)
<1>1. Len(w) \in Nat /\ Len(o) \in Nat /\ Len(p) \in Nat
  BY LenProperties
<1>2. SubSeq(o, 1, n) \in Seq(Units) /\ Len(SubSeq(o, 1, n)) = n
      /\ \A i \in 1..n : SubSeq(o, 1, n)[i] = o[i]
  BY <1>1, SubSeqProperties
<1>3. x \in Seq(Units) /\ Len(x) = Len(w) + n
      /\ \A i \in 1..Len(w) + n : x[i] = IF i <= Len(w) THEN w[i] ELSE o[i - Len(w)]
  <2> DEFINE h == SubSeq(o, 1, n)
  <2>1. h \in Seq(Units) /\ Len(h) = n /\ \A i \in 1..n : h[i] = o[i]
    BY <1>2
  <2> HIDE DEF h
  <2>2. /\ w \o h \in Seq(Units) /\ Len(w \o h) = Len(w) + n
        /\ \A i \in 1..Len(w) + n : (w \o h)[i] = IF i <= Len(w) THEN w[i] ELSE h[i - Len(w)]
    BY <2>1, ConcatProperties
  <2>3. \A i \in 1..Len(w) + n : ~(i <= Len(w)) => h[i - Len(w)] = o[i - Len(w)]
    BY <1>1, <2>1
  <2>4. QED
    BY <2>2, <2>3 DEF h
<1>4. w \o o \in Seq(Units) /\ Len(w \o o) = Len(w) + Len(o)
      /\ \A i \in 1..Len(w) + Len(o) : (w \o o)[i] = IF i <= Len(w) THEN w[i] ELSE o[i - Len(w)]
  BY <1>1, ConcatProperties
<1>5. a \in Seq(Units) /\ Len(a) = Len(w) + Len(o) + Len(p)
      /\ \A i \in 1..Len(w) + Len(o) : a[i] = (w \o o)[i]
  BY <1>1, <1>4, ConcatProperties
<1>6. y \in Seq(Units) /\ Len(y) = Len(w) + n /\ \A i \in 1..Len(w) + n : y[i] = a[i]
  <2>1. Len(w) + n \in 0..Len(a) /\ 1 \in 1..Len(a) + 1
    BY <1>1, <1>5
  <2> HIDE DEF a
  <2>2. QED
    BY <1>1, <1>5, <2>1, SubSeqProperties
<1>7. \A i \in 1..Len(w) + n : x[i] = y[i]
  BY <1>1, <1>3, <1>4, <1>5, <1>6
<1> HIDE DEF x, y, a
<1>8. x = y
  BY <1>3, <1>6, <1>7, SeqEqual
<1>9. QED
  BY <1>1, <1>5, <1>8 DEF x, y, a
-----------------------------------------------------------------------------
(* Each part of the invariant is preserved. *)

LEMMA TypeStep ==
  ASSUME TypeOK, AppendInv, [Next]_vars
  PROVE  TypeOK'
<1> USE DEF TypeOK, bufferVars, chanVars, localVars, writeVars, sendVars, streamVars, Goto
<1>1. ASSUME NEW g \in Goroutines, NEW k \in 0..MaxSlices, WriteLock(g, k) PROVE TypeOK'
  <2>1. Len(buffers[writeIndex]) \in Nat
    BY LenProperties
  <2>2. After(0, k, Len(buffers[writeIndex])) \in {"append", "notify", "unlock"}
    BY DEF After
  <2>3. QED
    BY <1>1, <2>1, <2>2, SlicesAssumption DEF WriteLock
<1>2. ASSUME NEW g \in Goroutines, WriteAppend(g) PROVE TypeOK'
  <2>1. done + 1 \in 1..MaxSlices /\ Unit(g, done + 1) \in Units
    BY <1>2, SlicesAssumption DEF WriteAppend, AppendInv, Unit, Units
  <2>2. Append(buffers[writeIndex], Unit(g, done + 1)) \in Seq(Units)
    BY <2>1, AppendProperties
  <2>3. accepted' \in Seq(Units)
    BY <1>2, UnitsOfMessages, ConcatProperties DEF WriteAppend
  <2>4. QED
    BY <1>2, <2>1, <2>2, <2>3, SlicesAssumption DEF WriteAppend, After
<1>3. ASSUME NEW g \in Goroutines,
             WriteNotify(g) \/ WriteUnlock(g) \/ CloseLock(g) \/ CloseConn(g) \/ CloseNotify(g)
      PROVE  TypeOK'
  <2>1. CASE WriteNotify(g)
    BY <2>1 DEF WriteNotify
  <2>2. CASE WriteUnlock(g) \/ CloseLock(g)
    BY <2>2 DEF WriteUnlock, CloseLock
  <2>3. CASE CloseConn(g) \/ CloseNotify(g)
    BY <2>3 DEF CloseConn, CloseNotify, HungUp
  <2>4. QED
    BY <1>3, <2>1, <2>2, <2>3
<1>4. CASE Recv \/ RecvClosed \/ SwapLock \/ Swap
  BY <1>4 DEF Recv, RecvClosed, SwapLock, Swap, SwapTo
<1>5. CASE Flip
  BY <1>5 DEF Flip
<1>6. ASSUME NEW n \in 0..Len(sendSplice), ConnWrite(n) \/ ConnFail(n) PROVE TypeOK'
  <2>1. wire \o SubSeq(sendSplice, 1, n) \in Seq(Units) /\ Rest(n) \in Seq(Units)
    BY SplitSeq, ConcatProperties DEF Rest
  <2>2. CASE ConnWrite(n)
    BY <2>1, <2>2 DEF ConnWrite
  <2>3. CASE ConnFail(n)
    BY <2>1, <2>3, EmptySeq DEF ConnFail
  <2>4. QED
    BY <1>6, <2>2, <2>3
<1>7. CASE Clear
  BY <1>7 DEF Clear, ClearedBuffer
<1>8. CASE Finished \/ UNCHANGED vars
  BY <1>8 DEF Finished, vars
<1>9. QED
  BY <1>1, <1>2, <1>3, <1>4, <1>5, <1>6, <1>7, <1>8, LenProperties
     DEF Next, Locks, Holder, Sending

LEMMA LockStep ==
  ASSUME TypeOK, LockInv, [Next]_vars
  PROVE  LockInv'
<1> USE GoroutinesAssumption DEF TypeOK, LockInv, writeVars, sendVars, Goto
<1>1. ASSUME NEW g \in Goroutines, NEW k \in 0..MaxSlices, WriteLock(g, k) PROVE LockInv'
  BY <1>1 DEF WriteLock, After
<1>2. ASSUME NEW g \in Goroutines, Holder(g) \/ CloseLock(g) PROVE LockInv'
  BY <1>2 DEF Holder, WriteAppend, After, WriteNotify, WriteUnlock, CloseLock, CloseConn, CloseNotify
<1>3. CASE SwapLock \/ Sending \/ Finished \/ UNCHANGED vars
  BY <1>3 DEF SwapLock, Sending, Recv, RecvClosed, Swap, Flip, Clear, ConnWrite, ConnFail, Finished, vars
<1>4. QED
  BY <1>1, <1>2, <1>3 DEF Next, Locks

LEMMA IndexStep ==
  ASSUME TypeOK, LockInv, IndexInv, [Next]_vars
  PROVE  IndexInv'
<1> USE GoroutinesAssumption DEF TypeOK, LockInv, IndexInv, bufferVars, sendVars, writeVars, localVars
<1>1. ASSUME NEW g \in Goroutines, NEW k \in 0..MaxSlices, WriteLock(g, k) PROVE IndexInv'
  BY <1>1 DEF WriteLock
<1>2. ASSUME NEW g \in Goroutines, Holder(g) \/ CloseLock(g) PROVE IndexInv'
  BY <1>2 DEF Holder, WriteAppend, WriteNotify, WriteUnlock, CloseLock, CloseConn, CloseNotify
<1>3. CASE SwapLock \/ Recv \/ RecvClosed \/ Swap \/ Finished \/ UNCHANGED vars
  BY <1>3 DEF SwapLock, Recv, RecvClosed, Swap, SwapTo, Finished, vars
<1>4. CASE Flip
  <2>1. CASE sendIndex = 0
    BY <1>4, <2>1 DEF Flip
  <2>2. CASE sendIndex = 1
    BY <1>4, <2>2 DEF Flip
  <2>3. QED
    BY <2>1, <2>2
<1>5. CASE Clear
  BY <1>5 DEF Clear, ClearedBuffer
<1>6. ASSUME NEW n, ConnWrite(n) \/ ConnFail(n) PROVE IndexInv'
  BY <1>6 DEF ConnWrite, ConnFail
<1>7. QED
  BY <1>1, <1>2, <1>3, <1>4, <1>5, <1>6 DEF Next, Locks, Sending

LEMMA CloseStep ==
  ASSUME TypeOK, LockInv, CloseInv, [Next]_vars
  PROVE  CloseInv'
<1> USE GoroutinesAssumption DEF TypeOK, LockInv, CloseInv, chanVars, writeVars, Goto
<1>1. ASSUME NEW g \in Goroutines, NEW k \in 0..MaxSlices, WriteLock(g, k) PROVE CloseInv'
  BY <1>1 DEF WriteLock, After
<1>2. ASSUME NEW g \in Goroutines, WriteAppend(g) \/ WriteNotify(g) \/ WriteUnlock(g) PROVE CloseInv'
  BY <1>2 DEF WriteAppend, After, WriteNotify, WriteUnlock
<1>3. ASSUME NEW g \in Goroutines, CloseLock(g) PROVE CloseInv'
  BY <1>3 DEF CloseLock
<1>4. ASSUME NEW g \in Goroutines, CloseConn(g) \/ CloseNotify(g) PROVE CloseInv'
  <2>1. \A h \in Goroutines : h # g => pc[h] = "idle"
    BY <1>4 DEF CloseConn, CloseNotify
  <2>2. CASE CloseConn(g)
    BY <2>1, <2>2 DEF CloseConn
  <2>3. CASE CloseNotify(g)
    BY <2>1, <2>3 DEF CloseNotify, HungUp
  <2>4. QED
    BY <1>4, <2>2, <2>3
<1>5. CASE SwapLock \/ Sending \/ Finished \/ UNCHANGED vars
  BY <1>5 DEF SwapLock, Sending, Recv, RecvClosed, Swap, Flip, Clear, ConnWrite, ConnFail, Finished, vars
<1>6. QED
  BY <1>1, <1>2, <1>3, <1>4, <1>5 DEF Next, Locks, Holder

LEMMA SignalStep ==
  ASSUME TypeOK, LockInv, IndexInv, CloseInv, SignalInv, AppendInv, [Next]_vars
  PROVE  SignalInv'
<1> USE GoroutinesAssumption
    DEF TypeOK, LockInv, SignalInv, bufferVars, chanVars, writeVars, localVars, sendVars, Goto
<1> DEFINE b == buffers[writeIndex]
<1>0. b \in Seq(Units) /\ Len(b) \in Nat /\ (Len(b) = 0 <=> b = <<>>)
  BY LenProperties, EmptySeq
<1>1. ASSUME NEW g \in Goroutines, NEW k \in 0..MaxSlices, WriteLock(g, k) PROVE SignalInv'
  <2>1. pc' = [pc EXCEPT ![g] = After(0, k, Len(b))] /\ dataLen' = Len(b)
        /\ UNCHANGED <<buffers, writeIndex, notify, dosend>>
    BY <1>1 DEF WriteLock
  <2>2. \A h \in Goroutines : h # g => pc[h] = "idle"
    BY <1>1 DEF WriteLock
  <2>3. Len(b) = 0 => notify = 0 /\ dosend \notin {"lock", "swap"}
    BY <1>0
  <2>4. After(0, k, Len(b)) # "notify"
    BY SlicesAssumption DEF After
  <2>5. QED
    BY <2>1, <2>2, <2>3, <2>4
<1>2. ASSUME NEW g \in Goroutines, WriteAppend(g) PROVE SignalInv'
  <2>1. \A h \in Goroutines : h # g => pc[h] = "idle"
    BY <1>2 DEF WriteAppend
  <2>2. buffers'[writeIndex] # <<>>
    <3>1. done + 1 \in 1..MaxSlices
      BY <1>2, SlicesAssumption DEF WriteAppend, AppendInv
    <3>2. Unit(g, done + 1) \in Units
      BY <3>1 DEF Unit, Units
    <3>3. Append(b, Unit(g, done + 1)) # <<>>
      BY <1>0, <3>2, AppendProperties
    <3>4. QED
      BY <1>2, <3>3 DEF WriteAppend
  <2>3. dataLen = 0 => notify = 0 /\ dosend \notin {"lock", "swap"}
    BY <1>2 DEF WriteAppend
  <2>4. /\ \A h \in Goroutines : h # g => pc'[h] = "idle"
        /\ pc'[g] = "notify" => dataLen = 0
        /\ UNCHANGED <<writeIndex, notify, dosend, dataLen>>
    BY <1>2, <2>1 DEF WriteAppend, After
  <2>5. QED
    BY <2>2, <2>3, <2>4
<1>3. ASSUME NEW g \in Goroutines, WriteNotify(g) PROVE SignalInv'
  <2>1. \A h \in Goroutines : h # g => pc[h] = "idle"
    BY <1>3 DEF WriteNotify
  <2>2. QED
    BY <1>3, <2>1 DEF WriteNotify
<1>4. ASSUME NEW g \in Goroutines,
             WriteUnlock(g) \/ CloseLock(g) \/ CloseConn(g) \/ CloseNotify(g)
      PROVE  SignalInv'
  BY <1>4 DEF WriteUnlock, CloseLock, CloseConn, CloseNotify
<1>5. CASE Recv
  BY <1>5 DEF Recv
<1>6. CASE SwapLock \/ RecvClosed \/ Finished \/ UNCHANGED vars
  BY <1>6 DEF SwapLock, RecvClosed, Finished, vars
<1>7. CASE Swap
  <2>1. \A h \in Goroutines : pc[h] = "idle"
    BY <1>7 DEF Swap
  <2>2. QED
    BY <1>7, <2>1 DEF Swap
<1>8. CASE Flip
  BY <1>8 DEF Flip
<1>9. CASE Clear
  <2>1. UNCHANGED <<writeIndex, notify, pc, dataLen>> /\ buffers'[writeIndex] = b
    BY <1>9 DEF Clear, ClearedBuffer, IndexInv
  <2>2. QED
    BY <1>9, <2>1 DEF Clear
<1>10. ASSUME NEW n, ConnWrite(n) \/ ConnFail(n) PROVE SignalInv'
  BY <1>10 DEF ConnWrite, ConnFail
<1>11. QED
  BY <1>1, <1>2, <1>3, <1>4, <1>5, <1>6, <1>7, <1>8, <1>9, <1>10
     DEF Next, Locks, Holder, Sending

LEMMA AppendStep ==
  ASSUME TypeOK, LockInv, IndexInv, AppendInv, [Next]_vars
  PROVE  AppendInv'
<1> USE GoroutinesAssumption, SlicesAssumption
    DEF TypeOK, LockInv, AppendInv, bufferVars, chanVars, writeVars, localVars, sendVars, Goto
<1> DEFINE b == buffers[writeIndex]
<1>0. b \in Seq(Units) /\ Len(b) \in Nat
  BY LenProperties
<1>1. ASSUME NEW g \in Goroutines, NEW k \in 0..MaxSlices, WriteLock(g, k) PROVE AppendInv'
  <2>1. /\ \A h \in Goroutines : h # g => pc'[h] = "idle"
        /\ UNCHANGED b
        /\ done' = 0 /\ size' = k /\ dataLen' = Len(b)
        /\ pc'[g] = "append" => 0 < k
    BY <1>1 DEF WriteLock, After
  <2>2. b = SubSeq(b, 1, Len(b)) \o Message(g, 0)
    <3>1. Message(g, 0) = <<>>
      BY UnitsOfMessages, EmptySeq
    <3>2. QED
      BY <1>0, <3>1, SubSeqFull, ConcatEmptySeq
  <2>3. ASSUME NEW h \in Goroutines, pc'[h] = "append"
        PROVE  /\ done' < size'
               /\ dataLen' \in 0..Len(b')
               /\ b' = SubSeq(b', 1, dataLen') \o Message(h, done')
    <3>1. h = g
      BY <2>1, <2>3
    <3>2. done' = 0 /\ size' = k /\ 0 < k /\ dataLen' = Len(b) /\ b' = b
      BY <2>1, <2>3, <3>1
    <3> HIDE DEF b
    <3>3. QED
      BY <1>0, <2>2, <3>1, <3>2
  <2>4. QED
    BY <2>3
<1>2. ASSUME NEW g \in Goroutines, WriteAppend(g) PROVE AppendInv'
  <2> DEFINE u == Unit(g, done + 1)
             p == SubSeq(b, 1, dataLen)
  <2>1. /\ \A h \in Goroutines : h # g => pc'[h] = "idle"
        /\ b' = Append(b, u)
        /\ done' = done + 1 /\ size' = size /\ dataLen' = dataLen
        /\ pc'[g] = "append" => done + 1 < size
        /\ pc[g] = "append"
    BY <1>2 DEF WriteAppend, After
  <2>2. /\ done + 1 \in 0..MaxSlices
        /\ dataLen \in 0..Len(b)
        /\ b = p \o Message(g, done)
    <3>1. pc[g] = "append"
      BY <2>1, Zenon
    <3>2. /\ done < size
          /\ dataLen \in 0..Len(b)
          /\ b = p \o Message(g, done)
      BY <3>1, Zenon
    <3>3. done \in Nat /\ size \in 0..MaxSlices /\ MaxSlices \in Nat
      BY SlicesAssumption
    <3>4. QED
      BY <3>2, <3>3
  <2>3. /\ u \in Units
        /\ p \in Seq(Units)
        /\ Message(g, done) \in Seq(Units)
    <3>1. done \in 0..MaxSlices /\ b \in Seq(Units)
      BY <1>0
    <3>2. u \in Units
      BY <1>0, <2>2, <3>1, SlicesAssumption DEF Unit, Units
    <3> HIDE DEF b, u, TypeOK, LockInv, AppendInv
    <3>3. p \in Seq(Units)
      BY <2>2, <3>1, UnitsPrefix, Zenon
    <3>4. Message(g, done) \in Seq(Units)
      BY <3>1, UnitsOfMessages, Zenon
    <3>5. QED
      BY <3>2, <3>3, <3>4, Zenon
  <2>4. Append(b, u) = p \o Message(g, done + 1)
        /\ SubSeq(Append(b, u), 1, dataLen) = p
        /\ Len(Append(b, u)) = Len(b) + 1
    <3>1. done \in 0..MaxSlices /\ b \in Seq(Units)
      BY <1>0
    <3> HIDE DEF b, TypeOK, LockInv, AppendInv
    <3>2. QED
      BY <2>2, <3>1, GrowMessage, Zenon
  <2>7. ASSUME NEW h \in Goroutines, pc'[h] = "append"
        PROVE  /\ done' < size'
               /\ dataLen' \in 0..Len(b')
               /\ b' = SubSeq(b', 1, dataLen') \o Message(h, done')
    <3>1. h = g /\ done + 1 < size
      BY <2>1, <2>7
    <3> HIDE DEF b, p, u
    <3>2. b' = SubSeq(b', 1, dataLen') \o Message(h, done')
      BY <2>1, <2>4, <3>1
    <3>3. dataLen' \in 0..Len(b')
      BY <1>0, <2>1, <2>2, <2>4
    <3>4. QED
      BY <2>1, <3>1, <3>2, <3>3
  <2>8. QED
    BY <2>7
<1>3. ASSUME NEW g \in Goroutines,
             WriteNotify(g) \/ WriteUnlock(g) \/ CloseLock(g) \/ CloseConn(g) \/ CloseNotify(g)
      PROVE  AppendInv'
  BY <1>3 DEF WriteNotify, WriteUnlock, CloseLock, CloseConn, CloseNotify
<1>4. CASE Recv \/ RecvClosed \/ SwapLock \/ Flip \/ Finished \/ UNCHANGED vars
  BY <1>4 DEF Recv, RecvClosed, SwapLock, Flip, Finished, vars
<1>5. CASE Swap
  BY <1>5 DEF Swap
<1>6. CASE Clear
  <2>1. UNCHANGED <<pc, localVars>> /\ UNCHANGED b
    BY <1>6 DEF Clear, ClearedBuffer, IndexInv
  <2>2. QED
    BY <2>1
<1>7. ASSUME NEW n, ConnWrite(n) \/ ConnFail(n) PROVE AppendInv'
  BY <1>7 DEF ConnWrite, ConnFail
<1>8. QED
  BY <1>1, <1>2, <1>3, <1>4, <1>5, <1>6, <1>7 DEF Next, Locks, Holder, Sending

LEMMA ErrStep ==
  ASSUME TypeOK, ErrInv, [Next]_vars
  PROVE  ErrInv'
<1> USE DEF TypeOK, ErrInv, sendVars
<1>1. ASSUME NEW g \in Goroutines, NEW k \in 0..MaxSlices, WriteLock(g, k) PROVE ErrInv'
  BY <1>1 DEF WriteLock
<1>2. ASSUME NEW g \in Goroutines, Holder(g) \/ CloseLock(g) PROVE ErrInv'
  BY <1>2 DEF Holder, WriteAppend, WriteNotify, WriteUnlock, CloseLock, CloseConn, CloseNotify
<1>3. CASE Recv \/ RecvClosed \/ SwapLock \/ Swap \/ Flip \/ Clear \/ Finished \/ UNCHANGED vars
  BY <1>3 DEF Recv, RecvClosed, SwapLock, Swap, Flip, Clear, Finished, vars
<1>4. ASSUME NEW n \in 0..Len(sendSplice), ConnWrite(n) \/ ConnFail(n) PROVE ErrInv'
  <2>1. CASE ConnFail(n)
    BY <2>1 DEF ConnFail
  <2>2. CASE ConnWrite(n) /\ sendSplice # <<>>
    BY <2>2 DEF ConnWrite
  <2>3. CASE ConnWrite(n) /\ sendSplice = <<>>
    <3>1. Rest(n) = <<>>
      BY <2>3 DEF Rest
    <3>2. QED
      BY <2>3, <3>1 DEF ConnWrite
  <2>4. QED
    BY <1>4, <2>1, <2>2, <2>3
<1>5. QED
  BY <1>1, <1>2, <1>3, <1>4, LenProperties DEF Next, Locks, Sending

LEMMA WakeStep ==
  ASSUME TypeOK, LockInv, IndexInv, SignalInv, AppendInv, WakeInv, NoLostWakeup, [Next]_vars
  PROVE  (WakeInv /\ NoLostWakeup)'
<1> USE GoroutinesAssumption
    DEF TypeOK, LockInv, WakeInv, NoLostWakeup, bufferVars, chanVars, writeVars, localVars,
        sendVars, Goto
<1> DEFINE b == buffers[writeIndex]
           W == WakeInv /\ NoLostWakeup
<1>0. b \in Seq(Units) /\ Len(b) \in Nat /\ (Len(b) = 0 <=> b = <<>>)
  BY LenProperties, EmptySeq
<1>1. ASSUME NEW g \in Goroutines, NEW k \in 0..MaxSlices, WriteLock(g, k) PROVE W'
  <2>1. /\ \A h \in Goroutines : pc[h] = "idle" /\ (h # g => pc'[h] = "idle")
        /\ dataLen' = Len(b)
        /\ UNCHANGED <<buffers, writeIndex, notify, dosend>>
    BY <1>1 DEF WriteLock
  <2>2. b # <<>> => notify = 1 \/ dosend \in {"lock", "swap"}
    BY <2>1
  <2>3. QED
    BY <1>0, <2>1, <2>2
<1>2. ASSUME NEW g \in Goroutines, WriteAppend(g) PROVE W'
  <2>1. /\ \A h \in Goroutines : h # g => pc'[h] = "idle"
        /\ pc[g] = "append"
        /\ dataLen = 0 => pc'[g] \in {"append", "notify"}
        /\ UNCHANGED <<dataLen, notify, dosend>>
    BY <1>2, SlicesAssumption DEF WriteAppend, After, AppendInv
  <2>2. QED
    BY <2>1
<1>3. ASSUME NEW g \in Goroutines,
             WriteNotify(g) \/ WriteUnlock(g) \/ CloseLock(g) \/ CloseConn(g) \/ CloseNotify(g)
      PROVE  W'
  <2>1. \A h \in Goroutines : h # g => pc[h] = "idle" \/ m = NoOne
    BY <1>3 DEF WriteNotify, WriteUnlock, CloseLock, CloseConn, CloseNotify
  <2>2. CASE WriteNotify(g)
    BY <2>2 DEF WriteNotify
  <2>3. CASE WriteUnlock(g) \/ CloseLock(g)
    BY <2>3 DEF WriteUnlock, CloseLock
  <2>4. CASE CloseConn(g) \/ CloseNotify(g)
    BY <2>4 DEF CloseConn, CloseNotify
  <2>5. QED
    BY <1>3, <2>2, <2>3, <2>4
<1>4. CASE Recv \/ RecvClosed
  BY <1>4 DEF Recv, RecvClosed
<1>5. CASE SwapLock \/ Flip \/ Finished \/ UNCHANGED vars
  BY <1>5 DEF SwapLock, Flip, Finished, vars
<1>6. CASE Swap
  <2>1. \A h \in Goroutines : pc[h] = "idle"
    BY <1>6 DEF Swap
  <2>2. buffers'[writeIndex'] = <<>>
    BY <1>6 DEF Swap, SwapTo, IndexInv
  <2>3. QED
    BY <1>6, <2>1, <2>2 DEF Swap
<1>7. CASE Clear
  <2>1. UNCHANGED <<writeIndex, notify, pc, dataLen>> /\ buffers'[writeIndex] = b
        /\ dosend \notin {"lock", "swap"}
    BY <1>7 DEF Clear, ClearedBuffer, IndexInv
  <2>2. QED
    BY <2>1
<1>8. ASSUME NEW n, ConnWrite(n) \/ ConnFail(n) PROVE W'
  BY <1>8 DEF ConnWrite, ConnFail
<1>9. QED
  BY <1>1, <1>2, <1>3, <1>4, <1>5, <1>6, <1>7, <1>8 DEF Next, Locks, Holder, Sending

(* The parts of the stream are sequences of units, whatever Outgoing and   *)
(* Pending stand for.                                                      *)
LEMMA PartTypes ==
  ASSUME TypeOK, AppendInv
  PROVE  Outgoing \in Seq(Units) /\ Pending \in Seq(Units)
<1> USE DEF TypeOK
<1>1. buffers[writeIndex] \in Seq(Units) /\ buffers[1 - sendIndex] \in Seq(Units)
      /\ <<>> \in Seq(Units)
  BY EmptySeq
<1>2. ASSUME NEW g \in Goroutines, pc[g] = "append"
      PROVE  SubSeq(buffers[writeIndex], 1, dataLen) \in Seq(Units)
  BY <1>1, <1>2, SplitSeq DEF AppendInv
<1>3. Pending \in Seq(Units)
  BY <1>1, <1>2 DEF Pending
<1>4. Outgoing \in Seq(Units)
  BY <1>1 DEF Outgoing
<1>5. QED
  BY <1>3, <1>4

LEMMA StreamStep ==
  ASSUME TypeOK, LockInv, IndexInv, AppendInv, StreamKept, [Next]_vars
  PROVE  StreamKept'
<1> USE GoroutinesAssumption
    DEF TypeOK, LockInv, bufferVars, chanVars, writeVars, localVars, sendVars, streamVars, Goto
<1> DEFINE b == buffers[writeIndex]
<1>0. b \in Seq(Units) /\ Len(b) \in Nat
  BY LenProperties
<1>1. ASSUME NEW g \in Goroutines, NEW k \in 0..MaxSlices, WriteLock(g, k) PROVE StreamKept'
  <2>1. SubSeq(b, 1, Len(b)) = b
    BY <1>0, SubSeqFull
  <2>2. (\A h \in Goroutines : pc[h] = "idle") /\ UNCHANGED b /\ dataLen' = Len(b)
    BY <1>1 DEF WriteLock
  <2>3. Pending' = Pending
    BY <2>1, <2>2 DEF Pending
  <2>4. Outgoing' = Outgoing /\ UNCHANGED <<writeErr, wire, accepted>>
    BY <1>1 DEF WriteLock, Outgoing
  <2>5. QED
    BY <2>3, <2>4 DEF StreamKept
<1>2. ASSUME NEW g \in Goroutines, WriteAppend(g) PROVE StreamKept'
  <2> DEFINE p == SubSeq(b, 1, dataLen)
             u == Unit(g, done + 1)
  <2>1. Outgoing' = Outgoing
    BY <1>2 DEF WriteAppend, Outgoing, IndexInv
  <2>2. /\ \A h \in Goroutines : h # g => pc'[h] = "idle"
        /\ pc'[g] = "append" <=> done + 1 < size
        /\ b' = Append(b, u) /\ dataLen' = dataLen
        /\ UNCHANGED <<writeErr, wire>>
        /\ pc[g] = "append"
    BY <1>2, SlicesAssumption DEF WriteAppend, After
  <2>3. /\ done < size /\ dataLen \in 0..Len(b) /\ b = p \o Message(g, done)
        /\ done \in 0..MaxSlices /\ done + 1 \in 0..MaxSlices
    BY <2>2, SlicesAssumption DEF AppendInv
  <2>4. Append(b, u) = p \o Message(g, done + 1) /\ SubSeq(Append(b, u), 1, dataLen) = p
    <3> HIDE DEF b, TypeOK, LockInv
    <3>1. QED
      BY <1>0, <2>3, GrowMessage, Zenon
  <2>5. Pending = p
    BY <2>2 DEF Pending
  <2>6. CASE done + 1 < size
    <3>1. Pending' = p
      BY <2>2, <2>4, <2>6 DEF Pending
    <3>2. accepted' = accepted
      BY <1>2, <2>6 DEF WriteAppend
    <3>3. QED
      BY <2>1, <2>2, <2>5, <3>1, <3>2 DEF StreamKept
  <2>7. CASE done + 1 = size
    <3>1. Pending' = p \o Message(g, size)
      <4>1. ASSUME NEW h \in Goroutines, pc'[h] = "append" PROVE FALSE
        <5>1. h = g
          BY <2>2, <4>1
        <5>2. done + 1 < size
          BY <2>2, <4>1, <5>1
        <5>3. QED
          BY <2>7, <5>2, SlicesAssumption
      <4>2. Pending' = b'
        BY <4>1 DEF Pending
      <4> HIDE DEF b, p, u, TypeOK, LockInv
      <4>3. QED
        BY <2>2, <2>4, <2>7, <4>2
    <3>2. accepted' = accepted \o Message(g, size)
      BY <1>2, <2>7 DEF WriteAppend
    <3>3. wire \in Seq(Units) /\ Outgoing \in Seq(Units) /\ p \in Seq(Units)
          /\ Message(g, size) \in Seq(Units)
      BY <2>5, PartTypes, UnitsOfMessages
    <3>4. wire \o Outgoing \o (p \o Message(g, size)) = (wire \o Outgoing \o p) \o Message(g, size)
      <4> DEFINE o == Outgoing
                 q == Message(g, size)
      <4> HIDE DEF o, p, q, TypeOK, LockInv
      <4>1. wire \o o \o (p \o q) = (wire \o o \o p) \o q
        BY <3>3, AcceptConcat DEF o, q
      <4>2. QED
        BY <4>1 DEF o, q
    <3>5. QED
      BY <2>1, <2>2, <2>5, <3>1, <3>2, <3>4 DEF StreamKept
  <2>8. QED
    BY <2>3, <2>6, <2>7, SlicesAssumption
<1>3. ASSUME NEW g \in Goroutines,
             WriteNotify(g) \/ WriteUnlock(g) \/ CloseLock(g) \/ CloseConn(g) \/ CloseNotify(g)
      PROVE  StreamKept'
  <2>1. UNCHANGED <<buffers, sendIndex, writeIndex, dataLen, dosend, sendSplice, writeErr, wire, accepted>>
        /\ \A h \in Goroutines : pc'[h] = "append" <=> pc[h] = "append"
    BY <1>3 DEF WriteNotify, WriteUnlock, CloseLock, CloseConn, CloseNotify
  <2>2. Pending' = Pending
    BY <2>1 DEF Pending
  <2>3. Outgoing' = Outgoing
    BY <2>1 DEF Outgoing
  <2>4. QED
    BY <2>1, <2>2, <2>3 DEF StreamKept
<1>4. CASE Recv \/ RecvClosed \/ SwapLock \/ Finished \/ UNCHANGED vars
  <2>1. UNCHANGED <<buffers, sendIndex, writeIndex, pc, dataLen, writeErr, wire, accepted>>
    BY <1>4 DEF Recv, RecvClosed, SwapLock, Finished, vars
  <2>2. Outgoing' = Outgoing
    BY <1>4 DEF Recv, RecvClosed, SwapLock, Finished, vars, Outgoing
  <2>3. QED
    BY <2>1, <2>2 DEF StreamKept, Pending
<1>5. CASE Swap
  <2>1. /\ \A h \in Goroutines : pc[h] = "idle"
        /\ UNCHANGED <<buffers, sendIndex, pc, writeErr, wire, accepted>>
        /\ dosend = "swap" /\ dosend' = "flip"
        /\ writeIndex' = sendIndex
    BY <1>5 DEF Swap, SwapTo
  <2>2. writeIndex = 1 - sendIndex /\ buffers[sendIndex] = <<>>
    BY <2>1 DEF IndexInv
  <2>3. Outgoing = <<>> /\ Pending = b
    BY <2>1 DEF Outgoing, Pending
  <2>4. Outgoing' = b /\ Pending' = <<>>
    BY <2>1, <2>2 DEF Outgoing, Pending
  <2>5. wire \o <<>> = wire /\ wire \o b \in Seq(Units) /\ (wire \o b) \o <<>> = wire \o b
    BY <1>0, ConcatEmptySeq, ConcatProperties
  <2>6. QED
    BY <2>1, <2>3, <2>4, <2>5 DEF StreamKept
<1>6. CASE Flip
  <2>1. UNCHANGED <<buffers, writeIndex, pc, dataLen, writeErr, wire, accepted>>
    BY <1>6 DEF Flip
  <2>2. Pending' = Pending
    BY <2>1 DEF Pending
  <2>3. ~writeErr => Outgoing' = Outgoing
    <3>1. (sendIndex + 1) % 2 = 1 - sendIndex
      <4>1. CASE sendIndex = 0
        BY <4>1
      <4>2. CASE sendIndex = 1
        BY <4>2
      <4>3. QED
        BY <4>1, <4>2
    <3>2. QED
      BY <1>6, <3>1 DEF Flip, Outgoing
  <2>4. QED
    BY <2>1, <2>2, <2>3 DEF StreamKept
<1>7. CASE Clear
  <2>1. UNCHANGED <<writeIndex, pc, dataLen, writeErr, wire, accepted>> /\ UNCHANGED b
    BY <1>7 DEF Clear, ClearedBuffer, IndexInv
  <2>2. Pending' = Pending
    BY <2>1 DEF Pending
  <2>3. Outgoing' = Outgoing
    BY <1>7 DEF Clear, Outgoing
  <2>4. QED
    BY <2>1, <2>2, <2>3 DEF StreamKept
<1>8. ASSUME NEW n \in 0..Len(sendSplice), ConnWrite(n) PROVE StreamKept'
  <2>1. /\ UNCHANGED <<buffers, writeIndex, pc, dataLen, writeErr, accepted, dosend>>
        /\ dosend = "send"
        /\ wire' = wire \o SubSeq(sendSplice, 1, n)
        /\ sendSplice' = SubSeq(sendSplice, n + 1, Len(sendSplice))
    BY <1>8 DEF ConnWrite, Rest
  <2>2. Pending' = Pending
    BY <2>1 DEF Pending
  <2>3. Outgoing = sendSplice /\ Outgoing' = sendSplice'
    BY <2>1 DEF Outgoing
  <2>4. wire' \o sendSplice' = wire \o sendSplice
    BY <2>1, DeliverConcat
  <2>5. QED
    BY <2>1, <2>2, <2>3, <2>4 DEF StreamKept
<1>9. ASSUME NEW n, ConnFail(n) PROVE StreamKept'
  BY <1>9 DEF ConnFail, StreamKept
<1>10. QED
  BY <1>1, <1>2, <1>3, <1>4, <1>5, <1>6, <1>7, <1>8, <1>9, LenProperties
     DEF Next, Locks, Holder, Sending
-----------------------------------------------------------------------------
(* The invariant, and what follows from it. *)

LEMMA InitInv == Init => IInv
<1> SUFFICES ASSUME Init PROVE IInv
  OBVIOUS
<1> USE GoroutinesAssumption, SlicesAssumption DEF Init
<1>1. TypeOK
  BY EmptySeq DEF TypeOK
<1>2. LockInv /\ IndexInv /\ CloseInv /\ SignalInv /\ AppendInv /\ ErrInv /\ WakeInv
  BY DEF LockInv, IndexInv, CloseInv, SignalInv, AppendInv, ErrInv, WakeInv
<1>3. NoLostWakeup
  BY DEF NoLostWakeup
<1>4. StreamKept
  <2>1. Outgoing = <<>> /\ Pending = <<>>
    BY DEF Outgoing, Pending
  <2>2. <<>> \o <<>> \o <<>> = <<>>
    BY ConcatEmptySeq, EmptySeq
  <2>3. QED
    BY <2>1, <2>2 DEF StreamKept
<1>5. QED
  BY <1>1, <1>2, <1>3, <1>4 DEF IInv

LEMMA InductiveInv == Spec => []IInv
<1>1. IInv /\ [Next]_vars => IInv'
  BY TypeStep, LockStep, IndexStep, CloseStep, SignalStep, AppendStep, ErrStep, WakeStep, StreamStep
     DEF IInv
<1>2. QED
  BY InitInv, <1>1, PTL DEF Spec

(* The variables of the socket keep their types. *)
THEOREM TypeCorrect == Spec => []TypeOK
<1>1. IInv => TypeOK
  BY DEF IInv
<1>2. QED
  BY <1>1, InductiveInv, PTL

(* A Write that holds the mutex never blocks in my.notify <- 0, and never  *)
(* sends on the closed channel.                                            *)
THEOREM NotifyReadyHolds == Spec => []NotifyReady
<1>1. IInv => NotifyReady
  BY DEF IInv, SignalInv, CloseInv, NotifyReady
<1>2. QED
  BY <1>1, InductiveInv, PTL

(* dosend sends and clears a buffer that no Write is filling.              *)
THEOREM DisjointHolds == Spec => []Disjoint
<1>1. IInv => Disjoint
  BY DEF IInv, IndexInv, Disjoint
<1>2. QED
  BY <1>1, InductiveInv, PTL

(* Data in the writers' buffer is never left without a notification.       *)
THEOREM NoLostWakeupHolds == Spec => []NoLostWakeup
<1>1. IInv => NoLostWakeup
  BY DEF IInv
<1>2. QED
  BY <1>1, InductiveInv, PTL

(* Nothing accepted is lost, repeated or reordered by the double buffer.   *)
THEOREM StreamKeptHolds == Spec => []StreamKept
<1>1. IInv => StreamKept
  BY DEF IInv
<1>2. QED
  BY <1>1, InductiveInv, PTL
-----------------------------------------------------------------------------
(* Refinement. *)

(* A step of conn.Write moves a prefix of what dosend still has to send.   *)
LEMMA WriteDelivers ==
  ASSUME IInv, NEW n \in 0..Len(sendSplice), dosend = "send", ~writeErr,
         wire' = wire \o SubSeq(sendSplice, 1, n)
  PROVE  /\ Len(wire) + n \in Len(wire)..Len(accepted)
         /\ wire' = SubSeq(accepted, 1, Len(wire) + n)
<1>1. wire \in Seq(Units) /\ sendSplice \in Seq(Units) /\ Pending \in Seq(Units)
  BY PartTypes DEF IInv, TypeOK
<1>2. accepted = wire \o sendSplice \o Pending
  BY DEF IInv, StreamKept, Outgoing
<1>3. QED
  <2> DEFINE p == Pending
  <2> HIDE DEF p
  <2>1. /\ Len(wire) + n \in Len(wire)..Len(wire \o sendSplice \o p)
        /\ wire \o SubSeq(sendSplice, 1, n) = SubSeq(wire \o sendSplice \o p, 1, Len(wire) + n)
    BY <1>1, DeliverPrefix DEF p
  <2>2. QED
    BY <1>2, <2>1 DEF p

(* Every step of the socket is a step of the stream, or none.              *)
LEMMA StreamSimulated ==
  ASSUME IInv, [Next]_vars
  PROVE  [Promise!Next]_Promise!vars
<1> DEFINE Still == UNCHANGED <<accepted, wire, writeErr, bclose>>
<1>0. Still => UNCHANGED Promise!vars
  BY DEF Promise!vars
<1>1. ASSUME NEW g \in Goroutines, WriteAppend(g) PROVE [Promise!Next]_Promise!vars
  <2>1. CASE done + 1 # size
    BY <1>0, <1>1, <2>1 DEF WriteAppend, chanVars, sendVars
  <2>2. CASE done + 1 = size
    <3>1. Message(g, size) \in Messages
      BY DEF IInv, TypeOK, Messages
    <3>2. Promise!Accept(Message(g, size))
      BY <1>1, <2>2 DEF WriteAppend, sendVars, IInv, CloseInv, Promise!Accept
    <3>3. QED
      BY <3>1, <3>2 DEF Promise!Next
  <2>3. QED
    BY <2>1, <2>2
<1>2. ASSUME NEW g \in Goroutines, CloseConn(g) PROVE [Promise!Next]_Promise!vars
  BY <1>2 DEF CloseConn, sendVars, streamVars, Promise!Close, Promise!Next
<1>3. ASSUME NEW n \in 1..Len(sendSplice), ConnWrite(n) PROVE [Promise!Next]_Promise!vars
  <2>1. n \in 0..Len(sendSplice) /\ sendSplice # <<>>
    BY LenProperties, EmptySeq DEF IInv, TypeOK
  <2>2. /\ dosend = "send" /\ ~bclose /\ UNCHANGED <<accepted, writeErr, bclose>>
        /\ wire' = wire \o SubSeq(sendSplice, 1, n)
    BY <1>3 DEF ConnWrite
  <2>3. ~writeErr
    BY <2>1, <2>2 DEF IInv, ErrInv
  <2>4. /\ Len(wire) + n \in Len(wire)..Len(accepted)
        /\ wire' = SubSeq(accepted, 1, Len(wire) + n)
    BY <2>1, <2>2, <2>3, WriteDelivers
  <2>5. Promise!Deliver
    BY <2>2, <2>3, <2>4 DEF Promise!Deliver, Promise!Taken
  <2>6. QED
    BY <2>5 DEF Promise!Next
<1>4. ASSUME NEW n \in 0..Len(sendSplice), ConnFail(n) PROVE [Promise!Next]_Promise!vars
  <2>1. /\ dosend = "send" /\ sendSplice # <<>> /\ (bclose => n = 0)
        /\ writeErr' = TRUE /\ UNCHANGED <<accepted, bclose>>
        /\ wire' = wire \o SubSeq(sendSplice, 1, n)
    BY <1>4 DEF ConnFail
  <2>2. ~writeErr
    BY <2>1 DEF IInv, ErrInv
  <2>3. /\ Len(wire) + n \in Len(wire)..Len(accepted)
        /\ wire' = SubSeq(accepted, 1, Len(wire) + n)
    BY <2>1, <2>2, WriteDelivers
  <2>4. bclose => Len(wire) + n = Len(wire)
    BY <2>1, LenProperties DEF IInv, TypeOK
  <2>5. Promise!Break
    BY <2>1, <2>2, <2>3, <2>4 DEF Promise!Break, Promise!Taken
  <2>6. QED
    BY <2>5 DEF Promise!Next
<1>5. ASSUME NEW g \in Goroutines, NEW k \in 0..MaxSlices, WriteLock(g, k) PROVE Still
  BY <1>5 DEF WriteLock, sendVars, streamVars
<1>6. ASSUME NEW g \in Goroutines,
             WriteNotify(g) \/ WriteUnlock(g) \/ CloseLock(g) \/ CloseNotify(g)
      PROVE  Still
  BY <1>6 DEF WriteNotify, WriteUnlock, CloseLock, CloseNotify, sendVars, streamVars
<1>7. CASE Recv \/ RecvClosed \/ SwapLock \/ Swap \/ Flip \/ Clear \/ Finished \/ UNCHANGED vars
  <2>1. Still
    BY <1>7 DEF Recv, RecvClosed, SwapLock, Swap, Flip, Clear, Finished, vars, sendVars, streamVars
  <2>2. QED
    BY <1>0, <2>1
<1> HIDE DEF Still
<1>8. QED
  BY <1>0, <1>1, <1>2, <1>3, <1>4, <1>5, <1>6, <1>7 DEF Next, Locks, Holder, Sending

(* The goroutines that write see one stream of whole messages, of which    *)
(* the connection has a prefix: GoSocket implements SendStream.            *)
THEOREM ImplementsStream == Spec => Implements
<1>1. Init => Promise!Init
  BY DEF Init, Promise!Init
<1>2. IInv /\ [Next]_vars => [Promise!Next]_Promise!vars
  BY StreamSimulated
<1>3. QED
  BY <1>1, <1>2, InductiveInv, PTL DEF Spec, Implements, Promise!Spec
=============================================================================
