----------------------------- MODULE EpollProofs -----------------------------
(***************************************************************************)
(* Proofs about Epoll for every set of coroutines, channels and sockets    *)
(* and every size of the timer wheel.                                      *)
(***************************************************************************)
EXTENDS Epoll, SequenceTheorems, TLAPS

-----------------------------------------------------------------------------
(* Indices of the wheel. *)

(* Counting modulo MaxSleep always lands on a slot of the wheel. *)
LEMMA ModSlot ==
  ASSUME NEW x \in Nat
  PROVE  x % MaxSleep \in Slots
BY MaxSleepAssumption DEF Slots

LEMMA SlotsOfWheel ==
  ASSUME m_timeIndex \in Slots
  PROVE  /\ NextSlot \in Slots
         /\ \A s \in SleepArgs : SlotAhead(s) \in Slots
<1>1. m_timeIndex + 1 \in Nat
  BY MaxSleepAssumption DEF Slots
<1>2. ASSUME NEW s \in SleepArgs
      PROVE  m_timeIndex + Granted(s) \in Nat
  BY MaxSleepAssumption, SleepArgsAssumption DEF Slots, Granted
<1>3. QED
  BY <1>1, <1>2, ModSlot DEF NextSlot, SlotAhead

-----------------------------------------------------------------------------
(* Type correctness. *)

(* The functions from 1..k are the sequences of length k. *)
LEMMA BatchIsSeq ==
  ASSUME NEW S, NEW k \in Nat, NEW b \in [1..k -> S]
  PROVE  b \in Seq(S)
BY SeqDef

(* What is left of a batch of events is again one. *)
LEMMA BatchRest ==
  ASSUME m_events \in Seq(Events), m_events # <<>>
  PROVE  /\ AfterIn \in Seq(Events)
         /\ "OUT" \in Head(m_events).bits => AfterOut \in Seq(Events)
<1>1. Tail(m_events) \in Seq(Events) /\ Head(m_events) = m_events[1] /\ 1 \in 1..Len(m_events)
  BY HeadTailProperties
<1>2. m_events[1] \in Events
  BY <1>1, ElementOfSeq
<1>3. ASSUME "OUT" \in m_events[1].bits, m_events[1].bits # {"OUT"}
      PROVE  [m_events EXCEPT ![1].bits = @ \ {"OUT"}] \in Seq(Events)
  <2>1. [m_events[1] EXCEPT !.bits = @ \ {"OUT"}] \in Events
    BY <1>2, <1>3 DEF Events
  <2>2. QED
    BY <1>1, <2>1, ExceptSeq
<1>4. QED
  BY <1>1, <1>3 DEF AfterIn, AfterOut

(* A handler that the loop has decided to call is called on a registered   *)
(* object: no coroutine runs between Epoll::exist and the call.            *)
LEMMA HandlerStep == ASSUME TypeOK, HandlerAlive, [Next]_vars PROVE HandlerAlive'
<1> USE NoOneAssumption DEF HandlerAlive, loopVars, Executes, LoopAt
<1>1. CASE Loop
  <2>1. CASE TestOut
    BY <2>1 DEF TestOut, exist
  <2>2. CASE TestIn
    BY <2>2 DEF TestIn, exist
  <2>3. CASE OnOut \/ OnIn
    BY <2>3 DEF OnOut, OnIn
  <2>4. CASE Enter \/ OnTime \/ Tick \/ EndOnTime \/ RunFunc \/ EpollWait \/ EndWait
    BY <2>4 DEF Enter, OnTime, Tick, EndOnTime, RunFunc, EpollWait, EndWait
  <2>5. QED
    BY <1>1, <2>1, <2>2, <2>3, <2>4 DEF Loop
<1>2. CASE Yield
  BY <1>2 DEF Yield, Sleep, ChanWait, ReadWait, ConnectWait, Release, Return
<1>3. CASE Call
  BY <1>3 DEF Call, ChanWake, Open, Close
<1>4. CASE (\E d \in Coroutines : Go(d)) \/ ClockTick \/ UNCHANGED vars
  BY <1>4 DEF Go, ClockTick, vars
<1>5. QED
  BY <1>1, <1>2, <1>3, <1>4 DEF Next

(* Every variable of the loop keeps its type, for every size of the        *)
(* instance; and every handler is called on a registered object.           *)
THEOREM TypeCorrect == Spec => [](TypeOK /\ HandlerAlive)
<1> USE NoOneAssumption DEF TypeOK
<1>1. Init => TypeOK /\ HandlerAlive
  BY MaxSleepAssumption, BoundsAssumption DEF Init, Slots, Status, HandlerAlive
<1>2. ASSUME TypeOK, HandlerAlive, [Next]_vars
      PROVE  TypeOK'
  <2> USE <1>2 DEF loopVars, timeVars, waitVars, In, Out, Executes, LoopAt, Status
  <2>1. ASSUME NEW d \in Coroutines, Go(d) PROVE TypeOK'
    BY <2>1, AppendProperties DEF Go
  <2>2. ASSUME NEW c \in Coroutines, NEW s \in SleepArgs, Sleep(c, s) PROVE TypeOK'
    <3>1. SlotAhead(s) \in Slots
      BY SlotsOfWheel
    <3>2. Append(m_timeWheel[SlotAhead(s)], c) \in Seq(Coroutines)
      BY <3>1, AppendProperties
    <3>3. Granted(s) \in 0..MaxSleep
      BY SleepArgsAssumption, MaxSleepAssumption DEF Granted
    <3>4. QED
      BY <2>2, <3>1, <3>2, <3>3 DEF Sleep
  <2>3. ASSUME NEW c \in Coroutines, NEW h \in Chans, ChanWait(c, h) PROVE TypeOK'
    BY <2>3 DEF ChanWait
  <2>4. ASSUME NEW c \in Coroutines, NEW h \in Chans, ChanWake(c, h) PROVE TypeOK'
    BY <2>4, AppendProperties DEF ChanWake, Cleared
  <2>5. ASSUME NEW c \in Coroutines, NEW n \in Sockets, Open(c, n) PROVE TypeOK'
    BY <2>5 DEF Open
  <2>6. ASSUME NEW c \in Coroutines, NEW n \in Sockets, ReadWait(c, n) PROVE TypeOK'
    BY <2>6 DEF ReadWait
  <2>7. ASSUME NEW c \in Coroutines, NEW n \in Sockets, ConnectWait(c, n) PROVE TypeOK'
    BY <2>7 DEF ConnectWait
  <2>8. ASSUME NEW c \in Coroutines, NEW n \in Sockets, Close(c, n) PROVE TypeOK'
    <3>1. Pushed(m_connWait[n]) \in Seq(Coroutines) /\ Pushed(m_inWait[n]) \in Seq(Coroutines)
      BY DEF Pushed
    <3>2. m_funcs \o Pushed(m_connWait[n]) \o Pushed(m_inWait[n]) \in Seq(Coroutines)
      BY <3>1, ConcatProperties
    <3>3. QED
      BY <2>8, <3>2 DEF Close, Cleared
  <2>9. ASSUME NEW c \in Coroutines, Release(c) PROVE TypeOK'
    BY <2>9 DEF Release
  <2>10. ASSUME NEW c \in Coroutines, Return(c) PROVE TypeOK'
    BY <2>10 DEF Return
  <2>11. ASSUME Enter PROVE TypeOK'
    BY <2>11 DEF Enter
  <2>12. ASSUME OnTime PROVE TypeOK'
    BY <2>12, BoundsAssumption DEF OnTime, Owed
  <2>13. ASSUME Tick PROVE TypeOK'
    <3>1. NextSlot \in Slots
      BY SlotsOfWheel
    <3>2. m_funcs \o m_timeWheel[NextSlot] \in Seq(Coroutines)
      BY <3>1, ConcatProperties
    <3>3. left' \in [Coroutines -> 0..MaxSleep]
      <4>1. \A c \in Coroutines : (IF left[c] > 0 THEN left[c] - 1 ELSE 0) \in 0..MaxSleep
        BY MaxSleepAssumption
      <4>2. left' = [c \in Coroutines |-> IF left[c] > 0 THEN left[c] - 1 ELSE 0]
        BY <2>13 DEF Tick
      <4>3. QED
        BY <4>1, <4>2
    <3>4. QED
      BY <2>13, <3>1, <3>2, <3>3, BoundsAssumption DEF Tick
  <2>14. ASSUME EndOnTime PROVE TypeOK'
    BY <2>14 DEF EndOnTime
  <2>15. ASSUME RunFunc PROVE TypeOK'
    BY <2>15, HeadTailProperties DEF RunFunc
  <2>16. ASSUME EpollWait PROVE TypeOK'
    <3>1. m_events' \in Seq(Events)
      BY <2>16, BatchIsSeq, BoundsAssumption DEF EpollWait
    <3>2. QED
      BY <2>16, <3>1 DEF EpollWait
  <2>17. ASSUME TestOut PROVE TypeOK'
    BY <2>17, BatchRest DEF TestOut
  <2>18. ASSUME TestIn PROVE TypeOK'
    BY <2>18, BatchRest DEF TestIn
  <2>19. ASSUME OnOut PROVE TypeOK'
    BY <2>19, BatchRest DEF OnOut, HandlerAlive, Cleared, ResumeWaiter, Events
  <2>20. ASSUME OnIn PROVE TypeOK'
    BY <2>20, BatchRest DEF OnIn, HandlerAlive, Cleared, ResumeWaiter, Events
  <2>21. ASSUME EndWait PROVE TypeOK'
    BY <2>21 DEF EndWait
  <2>22. ASSUME ClockTick PROVE TypeOK'
    BY <2>22, BoundsAssumption DEF ClockTick
  <2>23. CASE UNCHANGED vars
    BY <2>23 DEF vars
  <2>24. QED
    BY <2>1, <2>2, <2>3, <2>4, <2>5, <2>6, <2>7, <2>8, <2>9, <2>10, <2>11, <2>12,
       <2>13, <2>14, <2>15, <2>16, <2>17, <2>18, <2>19, <2>20, <2>21, <2>22, <2>23
       DEF Next, Call, Yield, Loop
<1>3. QED
  BY <1>1, <1>2, HandlerStep, PTL DEF Spec

-----------------------------------------------------------------------------
(* Sequences that list a set once. *)

LEMMA ListsOnceAppend ==
  ASSUME NEW q \in Seq(Coroutines), NEW S, ListsOnce(q, S),
         NEW c \in Coroutines, c \notin S
  PROVE  ListsOnce(Append(q, c), S \cup {c})
<1> DEFINE qc == Append(q, c)
<1>1. Len(q) \in Nat /\ Len(qc) = Len(q) + 1 /\ qc[Len(q) + 1] = c
  BY AppendProperties, LenProperties
<1>2. \A i \in 1..Len(q) : qc[i] = q[i] /\ q[i] \in Coroutines /\ q[i] \in S
  BY AppendProperties, ElementOfSeq DEF ListsOnce
<1>3. \A i \in 1..Len(qc) : i \in 1..Len(q) \/ i = Len(q) + 1
  BY <1>1
<1>4. \A i \in 1..Len(q) : i \in 1..Len(qc)
  BY <1>1
<1>5. \A i, j \in 1..Len(qc) : qc[i] = qc[j] => i = j
  BY <1>1, <1>2, <1>3 DEF ListsOnce
<1>6. \A d \in Coroutines : d \in S \cup {c} <=> \E i \in 1..Len(qc) : qc[i] = d
  <2> SUFFICES ASSUME NEW d \in Coroutines
               PROVE  d \in S \cup {c} <=> \E i \in 1..Len(qc) : qc[i] = d
    OBVIOUS
  <2>1. ASSUME d \in S PROVE \E i \in 1..Len(qc) : qc[i] = d
    <3>1. PICK i \in 1..Len(q) : q[i] = d
      BY <2>1 DEF ListsOnce
    <3>2. QED
      BY <3>1, <1>2, <1>4
  <2>2. Len(q) + 1 \in 1..Len(qc)
    BY <1>1
  <2>3. ASSUME NEW i \in 1..Len(qc), qc[i] = d PROVE d \in S \cup {c}
    BY <2>3, <1>1, <1>2, <1>3
  <2>4. QED
    BY <1>1, <2>1, <2>2, <2>3
<1>7. QED
  BY <1>5, <1>6 DEF ListsOnce

LEMMA ListsOnceTail ==
  ASSUME NEW q \in Seq(Coroutines), NEW S, ListsOnce(q, S), q # <<>>
  PROVE  /\ Head(q) \in S
         /\ ListsOnce(Tail(q), S \ {Head(q)})
<1> DEFINE t == Tail(q)
<1>1. Len(q) \in Nat /\ 1 \in 1..Len(q) /\ Head(q) = q[1]
  BY LenProperties, EmptySeq
<1>2. \A i \in 1..Len(q) : q[i] \in Coroutines /\ q[i] \in S
  BY ElementOfSeq DEF ListsOnce
<1>3. Len(t) = Len(q) - 1 /\ \A i \in 1..Len(t) : i + 1 \in 1..Len(q) /\ t[i] = q[i + 1]
  BY <1>1, HeadTailProperties
<1>4. \A i \in 1..Len(q) : i = 1 \/ (i - 1 \in 1..Len(t) /\ t[i - 1] = q[i])
  BY <1>1, <1>3
<1>5. \A i, j \in 1..Len(t) : t[i] = t[j] => i = j
  <2> SUFFICES ASSUME NEW i \in 1..Len(t), NEW j \in 1..Len(t), t[i] = t[j]
               PROVE  i = j
    OBVIOUS
  <2>1. i + 1 = j + 1
    BY <1>3 DEF ListsOnce
  <2>2. QED
    BY <2>1
<1>6. \A i \in 1..Len(t) : t[i] \in Coroutines /\ t[i] \in S /\ t[i] # Head(q)
  <2> SUFFICES ASSUME NEW i \in 1..Len(t)
               PROVE  t[i] \in Coroutines /\ t[i] \in S /\ t[i] # Head(q)
    OBVIOUS
  <2>1. i + 1 # 1 /\ i + 1 \in 1..Len(q) /\ t[i] = q[i + 1]
    BY <1>3
  <2>2. QED
    BY <2>1, <1>1, <1>2 DEF ListsOnce
<1>7. \A c \in Coroutines : c \in S \ {Head(q)} <=> \E i \in 1..Len(t) : t[i] = c
  <2> SUFFICES ASSUME NEW c \in Coroutines
               PROVE  c \in S \ {Head(q)} <=> \E i \in 1..Len(t) : t[i] = c
    OBVIOUS
  <2>1. ASSUME c \in S, c # Head(q) PROVE \E i \in 1..Len(t) : t[i] = c
    <3>1. PICK i \in 1..Len(q) : q[i] = c
      BY <2>1 DEF ListsOnce
    <3>2. i # 1
      BY <3>1, <2>1, <1>1
    <3>3. QED
      BY <3>1, <3>2, <1>4
  <2>2. QED
    BY <2>1, <1>6
<1>8. QED
  BY <1>1, <1>2, <1>5, <1>7 DEF ListsOnce

LEMMA ListsOnceConcat ==
  ASSUME NEW q \in Seq(Coroutines), NEW S, ListsOnce(q, S),
         NEW r \in Seq(Coroutines), NEW T, ListsOnce(r, T),
         \A c \in Coroutines : ~(c \in S /\ c \in T)
  PROVE  ListsOnce(q \o r, S \cup T)
<1> DEFINE qr == q \o r
<1>1. Len(q) \in Nat /\ Len(r) \in Nat
  BY LenProperties
<1>2. Len(qr) = Len(q) + Len(r)
  BY ConcatProperties
<1>3. \A i \in 1..Len(q) : i \in 1..Len(qr) /\ qr[i] = q[i] /\ q[i] \in Coroutines /\ q[i] \in S
  BY <1>1, <1>2, ConcatProperties, ElementOfSeq DEF ListsOnce
<1>4. \A i \in 1..Len(r) :
        i + Len(q) \in 1..Len(qr) /\ qr[i + Len(q)] = r[i] /\ r[i] \in Coroutines /\ r[i] \in T
  BY <1>1, <1>2, ConcatProperties, ElementOfSeq DEF ListsOnce
<1>5. \A i \in 1..Len(qr) :
        \/ i \in 1..Len(q)
        \/ i - Len(q) \in 1..Len(r) /\ i = (i - Len(q)) + Len(q)
  BY <1>1, <1>2
<1>6. \A i, j \in 1..Len(qr) : qr[i] = qr[j] => i = j
  <2> SUFFICES ASSUME NEW i \in 1..Len(qr), NEW j \in 1..Len(qr), qr[i] = qr[j]
               PROVE  i = j
    OBVIOUS
  <2>1. CASE i \in 1..Len(q) /\ j \in 1..Len(q)
    BY <2>1, <1>3 DEF ListsOnce
  <2>2. CASE i \in 1..Len(q) /\ j \notin 1..Len(q)
    BY <2>2, <1>3, <1>4, <1>5
  <2>3. CASE i \notin 1..Len(q) /\ j \in 1..Len(q)
    BY <2>3, <1>3, <1>4, <1>5
  <2>4. CASE i \notin 1..Len(q) /\ j \notin 1..Len(q)
    <3>1. i - Len(q) \in 1..Len(r) /\ j - Len(q) \in 1..Len(r)
      BY <2>4, <1>5
    <3>2. qr[i] = r[i - Len(q)] /\ qr[j] = r[j - Len(q)]
      BY <2>4, <1>4, <1>5
    <3>3. i - Len(q) = j - Len(q)
      BY <3>1, <3>2 DEF ListsOnce
    <3>4. QED
      BY <3>3, <1>1
  <2>5. QED
    BY <2>1, <2>2, <2>3, <2>4
<1>7. \A c \in Coroutines : c \in S \cup T <=> \E i \in 1..Len(qr) : qr[i] = c
  <2> SUFFICES ASSUME NEW c \in Coroutines
               PROVE  c \in S \cup T <=> \E i \in 1..Len(qr) : qr[i] = c
    OBVIOUS
  <2>1. ASSUME c \in S PROVE \E i \in 1..Len(qr) : qr[i] = c
    BY <2>1, <1>3 DEF ListsOnce
  <2>2. ASSUME c \in T PROVE \E i \in 1..Len(qr) : qr[i] = c
    BY <2>2, <1>4 DEF ListsOnce
  <2>3. ASSUME NEW i \in 1..Len(qr), qr[i] = c PROVE c \in S \cup T
    BY <2>3, <1>3, <1>4, <1>5
  <2>4. QED
    BY <2>1, <2>2, <2>3
<1>8. QED
  BY <1>6, <1>7 DEF ListsOnce

-----------------------------------------------------------------------------
(* Wheels and wait slots that hold a set once. *)

(* Putting a coroutine to sleep in a slot of the wheel. *)
LEMMA WheelPut ==
  ASSUME NEW wheel \in [Slots -> Seq(Coroutines)], NEW S, WheelOnce(wheel, S),
         NEW c \in Coroutines, c \notin S, NEW k \in Slots
  PROVE  WheelOnce([wheel EXCEPT ![k] = Append(@, c)], S \cup {c})
<1> DEFINE w == [wheel EXCEPT ![k] = Append(@, c)]
           last == Len(wheel[k]) + 1
<1>1. \A l \in Slots : Len(wheel[l]) \in Nat
  BY LenProperties
<1>2. Len(w[k]) = last /\ w[k][last] = c /\ last \in 1..Len(w[k])
  BY <1>1, AppendProperties
<1>3. \A l \in Slots : \A i \in 1..Len(w[l]) :
        \/ i \in 1..Len(wheel[l]) /\ w[l][i] = wheel[l][i]
        \/ l = k /\ i = last /\ w[l][i] = c
  BY <1>1, <1>2, AppendProperties
<1>4. \A l \in Slots : \A i \in 1..Len(wheel[l]) : i \in 1..Len(w[l]) /\ w[l][i] = wheel[l][i]
  BY <1>1, <1>2, AppendProperties
<1>5. \A l \in Slots : \A i \in 1..Len(wheel[l]) : wheel[l][i] \in S
  BY ElementOfSeq DEF WheelOnce
<1>6. ASSUME NEW l \in Slots, NEW m \in Slots, NEW i \in 1..Len(w[l]), NEW j \in 1..Len(w[m]),
             w[l][i] = w[m][j]
      PROVE  l = m /\ i = j
  <2>1. CASE i \in 1..Len(wheel[l]) /\ j \in 1..Len(wheel[m])
    BY <2>1, <1>4, <1>6 DEF WheelOnce
  <2>2. CASE i \notin 1..Len(wheel[l]) \/ j \notin 1..Len(wheel[m])
    <3>1. w[l][i] = c /\ w[m][j] = c
      BY <2>2, <1>3, <1>6
    <3>2. QED
      BY <3>1, <1>3, <1>5
  <2>3. QED
    BY <2>1, <2>2
<1>7. ASSUME NEW d \in Coroutines
      PROVE  d \in S \cup {c} <=> \E l \in Slots : \E i \in 1..Len(w[l]) : w[l][i] = d
  <2>1. ASSUME d \in S PROVE \E l \in Slots : \E i \in 1..Len(w[l]) : w[l][i] = d
    <3>1. PICK l \in Slots : \E i \in 1..Len(wheel[l]) : wheel[l][i] = d
      BY <2>1 DEF WheelOnce
    <3>2. QED
      BY <3>1, <1>4
  <2>2. ASSUME NEW l \in Slots, NEW i \in 1..Len(w[l]), w[l][i] = d PROVE d \in S \cup {c}
    BY <2>2, <1>3, <1>5
  <2>3. QED
    BY <2>1, <2>2, <1>2
<1>8. QED
  BY <1>6, <1>7 DEF WheelOnce

(* The coroutines of one slot of the wheel. *)
HeldIn(wheel, k) == {c \in Coroutines : \E i \in 1..Len(wheel[k]) : wheel[k][i] = c}

(* Taking everyone out of a slot of the wheel. *)
LEMMA WheelEmpty ==
  ASSUME NEW wheel \in [Slots -> Seq(Coroutines)], NEW S, WheelOnce(wheel, S),
         NEW k \in Slots
  PROVE  /\ \A c \in Coroutines : c \in HeldIn(wheel, k) => c \in S
         /\ ListsOnce(wheel[k], HeldIn(wheel, k))
         /\ WheelOnce([wheel EXCEPT ![k] = <<>>], S \ HeldIn(wheel, k))
<1> DEFINE w == [wheel EXCEPT ![k] = <<>>]
<1>1. \A l \in Slots : \A i \in 1..Len(w[l]) : l # k /\ i \in 1..Len(wheel[l]) /\ w[l][i] = wheel[l][i]
  BY EmptySeq
<1>2. \A l \in Slots : \A i \in 1..Len(wheel[l]) : wheel[l][i] \in Coroutines
  BY ElementOfSeq
<1>3. \A c \in Coroutines : c \in HeldIn(wheel, k) => c \in S
  BY DEF HeldIn, WheelOnce
<1>4. ListsOnce(wheel[k], HeldIn(wheel, k))
  BY DEF HeldIn, WheelOnce, ListsOnce
<1>5. \A l, m \in Slots : \A i \in 1..Len(w[l]), j \in 1..Len(w[m]) :
        w[l][i] = w[m][j] => l = m /\ i = j
  BY <1>1 DEF WheelOnce
<1>6. ASSUME NEW c \in Coroutines
      PROVE  c \in S \ HeldIn(wheel, k)
               <=> \E l \in Slots : \E i \in 1..Len(w[l]) : w[l][i] = c
  <2>1. ASSUME c \in S, c \notin HeldIn(wheel, k)
        PROVE  \E l \in Slots : \E i \in 1..Len(w[l]) : w[l][i] = c
    <3>1. PICK l \in Slots : \E i \in 1..Len(wheel[l]) : wheel[l][i] = c
      BY <2>1 DEF WheelOnce
    <3>2. l # k
      BY <3>1, <2>1 DEF HeldIn
    <3>3. w[l] = wheel[l]
      BY <3>2
    <3>4. QED
      BY <3>1, <3>3
  <2>2. ASSUME NEW l \in Slots, NEW i \in 1..Len(w[l]), w[l][i] = c
        PROVE  c \in S /\ c \notin HeldIn(wheel, k)
    <3>1. l # k /\ i \in 1..Len(wheel[l]) /\ wheel[l][i] = c
      BY <2>2, <1>1
    <3>2. c \in S
      BY <3>1 DEF WheelOnce
    <3>3. c \notin HeldIn(wheel, k)
      BY <3>1 DEF HeldIn, WheelOnce
    <3>4. QED
      BY <3>2, <3>3
  <2>3. QED
    BY <2>1, <2>2
<1>7. QED
  BY <1>3, <1>4, <1>5, <1>6 DEF WheelOnce

(* A coroutine starts to wait in a free slot. *)
LEMMA HeldPut ==
  ASSUME NEW X, NEW slot \in [X -> Coroutines \cup {NoOne}], NEW S, HeldOnce(slot, X, S),
         NEW c \in Coroutines, c \notin S, NEW x \in X, slot[x] = NoOne
  PROVE  HeldOnce([slot EXCEPT ![x] = c], X, S \cup {c})
BY NoOneAssumption DEF HeldOnce

(* A slot is set to nullptr: nobody else is lost. *)
LEMMA HeldClear ==
  ASSUME NEW X, NEW slot \in [X -> Coroutines \cup {NoOne}], NEW S, HeldOnce(slot, X, S),
         NEW x \in X
  PROVE  /\ slot[x] # NoOne => slot[x] \in S
         /\ HeldOnce(Cleared(slot, x), X, S \ {slot[x]})
BY NoOneAssumption DEF HeldOnce, Cleared

(* One coroutine stops doing one thing and starts doing another. *)
LEMMA OneMoves ==
  ASSUME TypeOK, NEW c \in Coroutines, NEW from \in Status, NEW to \in Status,
         status[c] = from, from # to, status' = [status EXCEPT ![c] = to]
  PROVE  /\ c \notin With[to]
         /\ With'[to] = With[to] \cup {c}
         /\ With'[from] = With[from] \ {c}
         /\ \A x \in Status : x # to /\ x # from => With'[x] = With[x]
BY DEF TypeOK, With

-----------------------------------------------------------------------------
(* The joint invariant of the scheduler. OneWaker needs StackSafe (what    *)
(* release deletes has finished) and StackSafe needs OneWaker (whoever is  *)
(* resumed has not), so the two are proved together.                       *)

SafetyInv ==
  /\ TypeOK
  /\ HandlerAlive
  /\ OneWaker
  /\ StackSafe
  /\ WaitersRegistered

(* OneWaker of the next state, part by part. *)
LEMMA OneWakerNext ==
  ASSUME ListsOnce(m_funcs', With'["ready"]),
         WheelOnce(m_timeWheel', With'["asleep"]),
         HeldOnce(m_wait', Chans, With'["chan"]),
         HeldOnce(m_inWait', Sockets, With'["in"]),
         HeldOnce(m_connWait', Sockets, With'["conn"]),
         With'["running"] = {running'} \ {NoOne}
  PROVE  OneWaker'
BY DEF OneWaker, ListsOnce, WheelOnce, HeldOnce

(* The steps that only look at the clock, the batch or the registrations. *)
LEMMA OneWakerStutter ==
  ASSUME OneWaker, UNCHANGED <<status, running, m_funcs, m_timeWheel, waitVars>>
  PROVE  OneWaker'
<1>1. \A x \in Status : With'[x] = With[x]
  BY DEF With
<1>2. QED
  BY <1>1, OneWakerNext DEF OneWaker, waitVars, Status

(* What the calls of the running coroutine do to the wakers. *)
LEMMA OneWakerCalls ==
  ASSUME SafetyInv,
         \/ \E d \in Coroutines : Go(d)
         \/ Call
         \/ Yield
  PROVE  OneWaker'
<1> USE NoOneAssumption DEF SafetyInv, Status
<1> DEFINE Keep(x) == With'[x] = With[x]
<1>1. ASSUME NEW d \in Coroutines, Go(d) PROVE OneWaker'
  <2>1. /\ d \notin With["ready"]
        /\ With'["ready"] = With["ready"] \cup {d}
        /\ Keep("asleep") /\ Keep("chan") /\ Keep("in") /\ Keep("conn") /\ Keep("running")
    BY <1>1, OneMoves DEF Go
  <2>2. ListsOnce(m_funcs', With'["ready"])
    <3>1. m_funcs' = Append(m_funcs, d)
      BY <1>1 DEF Go
    <3>2. m_funcs \in Seq(Coroutines) /\ ListsOnce(m_funcs, With["ready"])
      BY DEF TypeOK, OneWaker
    <3>3. ListsOnce(Append(m_funcs, d), With["ready"] \cup {d})
      BY <2>1, <3>2, ListsOnceAppend
    <3>4. QED
      BY <2>1, <3>1, <3>3, Zenon
  <2>3. QED
    BY <1>1, <2>1, <2>2, OneWakerNext DEF Go, OneWaker, timeVars, waitVars
<1>2. ASSUME NEW c \in Coroutines, NEW s \in SleepArgs, Sleep(c, s) PROVE OneWaker'
  <2>1. status[c] = "running"
    BY <1>2 DEF Sleep, Executes, OneWaker, With
  <2>2. /\ c \notin With["asleep"]
        /\ With'["asleep"] = With["asleep"] \cup {c}
        /\ With'["running"] = With["running"] \ {c}
        /\ Keep("ready") /\ Keep("chan") /\ Keep("in") /\ Keep("conn")
    <3>1. status' = [status EXCEPT ![c] = "asleep"]
      BY <1>2 DEF Sleep, Out
    <3>2. QED
      BY <2>1, <3>1, OneMoves
  <2>3. WheelOnce(m_timeWheel', With'["asleep"])
    <3> DEFINE w == [m_timeWheel EXCEPT ![SlotAhead(s)] = Append(@, c)]
    <3>1. m_timeWheel' = w
      BY <1>2 DEF Sleep
    <3>2. WheelOnce(w, With["asleep"] \cup {c})
      BY <2>2, SlotsOfWheel, WheelPut DEF OneWaker, TypeOK
    <3>3. QED
      BY <2>2, <3>1, <3>2, Zenon
  <2>4. QED
    BY <1>2, <2>2, <2>3, OneWakerNext
       DEF Sleep, Out, Executes, OneWaker, waitVars
<1>3. ASSUME NEW c \in Coroutines, NEW h \in Chans, ChanWait(c, h) PROVE OneWaker'
  <2>1. status[c] = "running"
    BY <1>3 DEF ChanWait, Executes, OneWaker, With
  <2>2. /\ c \notin With["chan"]
        /\ With'["chan"] = With["chan"] \cup {c}
        /\ With'["running"] = With["running"] \ {c}
        /\ Keep("ready") /\ Keep("asleep") /\ Keep("in") /\ Keep("conn")
    BY <1>3, <2>1, OneMoves DEF ChanWait, Out
  <2>3. HeldOnce(m_wait', Chans, With'["chan"])
    <3> DEFINE w == [m_wait EXCEPT ![h] = c]
    <3>1. m_wait' = w /\ m_wait[h] = NoOne
      BY <1>3 DEF ChanWait
    <3>2. HeldOnce(w, Chans, With["chan"] \cup {c})
      BY <2>2, <3>1, HeldPut DEF OneWaker, TypeOK
    <3>3. QED
      BY <2>2, <3>1, <3>2, Zenon
  <2>4. QED
    BY <1>3, <2>2, <2>3, OneWakerNext
       DEF ChanWait, Out, Executes, OneWaker, timeVars
<1>4. ASSUME NEW c \in Coroutines, NEW h \in Chans, ChanWake(c, h) PROVE OneWaker'
  <2> DEFINE w == m_wait[h]
  <2>1. w \in Coroutines /\ w \in With["chan"] /\ HeldOnce(m_wait', Chans, With["chan"] \ {w})
    BY <1>4, HeldClear DEF ChanWake, OneWaker, TypeOK
  <2>2. status[w] = "chan"
    BY <2>1 DEF With
  <2>3. /\ w \notin With["ready"]
        /\ With'["ready"] = With["ready"] \cup {w}
        /\ With'["chan"] = With["chan"] \ {w}
        /\ Keep("running") /\ Keep("asleep") /\ Keep("in") /\ Keep("conn")
    BY <1>4, <2>1, <2>2, OneMoves DEF ChanWake
  <2>4. ListsOnce(m_funcs', With'["ready"])
    <3>1. ListsOnce(Append(m_funcs, w), With["ready"] \cup {w})
      BY <2>1, <2>3, ListsOnceAppend DEF OneWaker, TypeOK
    <3>2. QED
      BY <1>4, <2>3, <3>1 DEF ChanWake
  <2>5. QED
    BY <1>4, <2>1, <2>3, <2>4, OneWakerNext DEF ChanWake, OneWaker, timeVars
<1>5. ASSUME NEW c \in Coroutines, NEW n \in Sockets, Open(c, n) PROVE OneWaker'
  BY <1>5, OneWakerStutter DEF Open, timeVars
<1>6. ASSUME NEW c \in Coroutines, NEW n \in Sockets, ReadWait(c, n) PROVE OneWaker'
  <2>1. status[c] = "running"
    BY <1>6 DEF ReadWait, Executes, OneWaker, With
  <2>2. /\ c \notin With["in"]
        /\ With'["in"] = With["in"] \cup {c}
        /\ With'["running"] = With["running"] \ {c}
        /\ Keep("ready") /\ Keep("asleep") /\ Keep("chan") /\ Keep("conn")
    BY <1>6, <2>1, OneMoves DEF ReadWait, Out
  <2>3. HeldOnce(m_inWait', Sockets, With'["in"])
    <3> DEFINE w == [m_inWait EXCEPT ![n] = c]
    <3>1. m_inWait' = w /\ m_inWait[n] = NoOne
      BY <1>6 DEF ReadWait
    <3>2. HeldOnce(w, Sockets, With["in"] \cup {c})
      BY <2>2, <3>1, HeldPut DEF OneWaker, TypeOK
    <3>3. QED
      BY <2>2, <3>1, <3>2, Zenon
  <2>4. QED
    BY <1>6, <2>2, <2>3, OneWakerNext
       DEF ReadWait, Out, Executes, OneWaker, timeVars
<1>7. ASSUME NEW c \in Coroutines, NEW n \in Sockets, ConnectWait(c, n) PROVE OneWaker'
  <2>1. status[c] = "running"
    BY <1>7 DEF ConnectWait, Executes, OneWaker, With
  <2>2. /\ c \notin With["conn"]
        /\ With'["conn"] = With["conn"] \cup {c}
        /\ With'["running"] = With["running"] \ {c}
        /\ Keep("ready") /\ Keep("asleep") /\ Keep("chan") /\ Keep("in")
    BY <1>7, <2>1, OneMoves DEF ConnectWait, Out
  <2>3. HeldOnce(m_connWait', Sockets, With'["conn"])
    <3> DEFINE w == [m_connWait EXCEPT ![n] = c]
    <3>1. m_connWait' = w /\ m_connWait[n] = NoOne
      BY <1>7 DEF ConnectWait
    <3>2. HeldOnce(w, Sockets, With["conn"] \cup {c})
      BY <2>2, <3>1, HeldPut DEF OneWaker, TypeOK
    <3>3. QED
      BY <2>2, <3>1, <3>2, Zenon
  <2>4. QED
    BY <1>7, <2>2, <2>3, OneWakerNext
       DEF ConnectWait, Out, Executes, OneWaker, timeVars
<1>8. ASSUME NEW c \in Coroutines, NEW n \in Sockets, Close(c, n) PROVE OneWaker'
  <2> DEFINE a == m_connWait[n]
             b == m_inWait[n]
             A == {a} \ {NoOne}
             B == {b} \ {NoOne}
  <2>1. /\ a \in Coroutines \cup {NoOne}
        /\ b \in Coroutines \cup {NoOne}
        /\ a # NoOne => a \in With["conn"]
        /\ b # NoOne => b \in With["in"]
        /\ HeldOnce(m_connWait', Sockets, With["conn"] \ {a})
        /\ HeldOnce(m_inWait', Sockets, With["in"] \ {b})
    BY <1>8, HeldClear DEF Close, OneWaker, TypeOK
  <2>2. /\ With'["ready"] = (With["ready"] \cup A) \cup B
        /\ With'["conn"] = With["conn"] \ {a}
        /\ With'["in"] = With["in"] \ {b}
        /\ Keep("running") /\ Keep("asleep") /\ Keep("chan")
    BY <1>8, <2>1 DEF Close, With, TypeOK
  <2>3. \A d \in Coroutines : ~(d \in With["ready"] /\ d \in A) /\ ~(d \in With["ready"] \cup A /\ d \in B)
    BY <2>1 DEF With
  <2>4. /\ Pushed(a) \in Seq(Coroutines) /\ ListsOnce(Pushed(a), A)
        /\ Pushed(b) \in Seq(Coroutines) /\ ListsOnce(Pushed(b), B)
    BY <2>1 DEF Pushed, ListsOnce
  <2>5. m_funcs \o Pushed(a) \in Seq(Coroutines)
        /\ ListsOnce(m_funcs \o Pushed(a), With["ready"] \cup A)
    BY <2>3, <2>4, ConcatProperties, ListsOnceConcat DEF OneWaker, TypeOK
  <2>6. ListsOnce(m_funcs', With'["ready"])
    <3> DEFINE q == m_funcs \o Pushed(a)
    <3>1. ListsOnce(q \o Pushed(b), (With["ready"] \cup A) \cup B)
      <4> HIDE DEF q, A, B
      <4> QED
        BY <2>3, <2>4, <2>5, ListsOnceConcat DEF q
    <3>2. m_funcs' = q \o Pushed(b)
      BY <1>8 DEF Close
    <3>3. QED
      BY <2>2, <3>1, <3>2, Zenon
  <2>7. QED
    BY <1>8, <2>1, <2>2, <2>6, OneWakerNext DEF Close, OneWaker, timeVars
<1>9. ASSUME NEW c \in Coroutines, Release(c) PROVE OneWaker'
  <2>1. CASE m_del = NoOne
    <3>1. status' = status
      BY <1>9, <2>1 DEF Release, Doomed, TypeOK
    <3>2. QED
      BY <1>9, <3>1, OneWakerStutter DEF Release, timeVars
  <2>2. CASE m_del # NoOne
    <3>1. m_del \in Coroutines /\ status[m_del] = "done"
      BY <1>9, <2>2 DEF Release, Executes, StackSafe, TypeOK
    <3>2. status' = [status EXCEPT ![m_del] = "deleted"]
      BY <1>9, <3>1 DEF Release, Doomed, TypeOK
    <3>3. Keep("ready") /\ Keep("running") /\ Keep("asleep") /\ Keep("chan") /\ Keep("in") /\ Keep("conn")
      BY <3>1, <3>2, OneMoves
    <3>4. QED
      BY <1>9, <3>3, OneWakerNext DEF Release, OneWaker, timeVars, waitVars
  <2>3. QED
    BY <2>1, <2>2
<1>10. ASSUME NEW c \in Coroutines, Return(c) PROVE OneWaker'
  <2>1. status[c] = "running"
    BY <1>10 DEF Return, OneWaker, With
  <2>2. /\ With'["running"] = With["running"] \ {c}
        /\ Keep("ready") /\ Keep("asleep") /\ Keep("chan") /\ Keep("in") /\ Keep("conn")
    BY <1>10, <2>1, OneMoves DEF Return, Out
  <2>3. QED
    BY <1>10, <2>2, OneWakerNext
       DEF Return, Out, OneWaker, timeVars, waitVars
<1>11. QED
  BY <1>1, <1>2, <1>3, <1>4, <1>5, <1>6, <1>7, <1>8, <1>9, <1>10 DEF Call, Yield

(* A handler resumes the coroutine in a wait slot of the family slot. *)
LEMMA ResumeHeld ==
  ASSUME TypeOK, OneWaker, running = NoOne, NEW c \in Coroutines, In(c),
         NEW from \in Status, c \in With[from], from # "running"
  PROVE  /\ With'["running"] = {running'} \ {NoOne}
         /\ With'[from] = With[from] \ {c}
         /\ \A x \in Status : x # "running" /\ x # from => With'[x] = With[x]
<1>1. With["running"] = {} /\ c # NoOne
  BY NoOneAssumption DEF OneWaker
<1>2. \A d \in Coroutines : status'[d] = IF d = c THEN "running" ELSE status[d]
  BY DEF In, TypeOK
<1>3. status[c] = from /\ running' = c
  BY DEF In, With
<1>4. /\ With'["running"] = With["running"] \cup {c}
      /\ With'[from] = With[from] \ {c}
      /\ \A x \in Status : x # "running" /\ x # from => With'[x] = With[x]
  <2>1. "running" \in Status
    BY DEF Status
  <2>2. QED
    BY <1>2, <1>3, <2>1 DEF With
<1>5. QED
  BY <1>1, <1>3, <1>4

(* What the loop and the handlers it calls do to the wakers. *)
LEMMA OneWakerLoop ==
  ASSUME SafetyInv, Loop
  PROVE  OneWaker'
<1> USE NoOneAssumption DEF SafetyInv, Status, LoopAt
<1> DEFINE Keep(x) == With'[x] = With[x]
<1>1. ASSUME Tick PROVE OneWaker'
  <2> DEFINE k == NextSlot
             H == HeldIn(m_timeWheel, k)
             w == [m_timeWheel EXCEPT ![k] = <<>>]
  <2>1. k \in Slots /\ m_timeWheel[k] \in Seq(Coroutines)
    BY SlotsOfWheel DEF TypeOK
  <2>2. /\ \A c \in Coroutines : c \in H => c \in With["asleep"]
        /\ ListsOnce(m_timeWheel[k], H)
        /\ WheelOnce(w, With["asleep"] \ H)
    BY <2>1, WheelEmpty DEF OneWaker, TypeOK
  <2>3. \A c \in Coroutines : status'[c] = IF c \in H THEN "ready" ELSE status[c]
    BY <1>1 DEF Tick, InSlot, HeldIn
  <2>4. /\ With'["ready"] = With["ready"] \cup H
        /\ With'["asleep"] = With["asleep"] \ H
        /\ Keep("running") /\ Keep("chan") /\ Keep("in") /\ Keep("conn")
    <3>1. \A c \in Coroutines : c \in H => status[c] = "asleep"
      BY <2>2 DEF With
    <3>2. \A c : c \in H => c \in Coroutines
      BY DEF HeldIn
    <3> HIDE DEF H
    <3>3. QED
      BY <2>3, <3>1, <3>2 DEF With
  <2>5. ListsOnce(m_funcs', With'["ready"])
    <3>1. \A c \in Coroutines : ~(c \in With["ready"] /\ c \in H)
      BY <2>2 DEF With
    <3>2. ListsOnce(m_funcs \o m_timeWheel[k], With["ready"] \cup H)
      <4> HIDE DEF H, k
      <4> QED
        BY <2>1, <2>2, <3>1, ListsOnceConcat DEF OneWaker, TypeOK
    <3>3. m_funcs' = m_funcs \o m_timeWheel[k]
      BY <1>1 DEF Tick
    <3>4. QED
      BY <2>4, <3>2, <3>3, Zenon
  <2>6. WheelOnce(m_timeWheel', With'["asleep"])
    <3>1. m_timeWheel' = w
      BY <1>1 DEF Tick
    <3>2. QED
      BY <2>2, <2>4, <3>1, Zenon
  <2>7. QED
    BY <1>1, <2>4, <2>5, <2>6, OneWakerNext DEF Tick, OneWaker, waitVars
<1>2. ASSUME RunFunc PROVE OneWaker'
  <2> DEFINE c == Head(m_funcs)
  <2>1. /\ c \in Coroutines /\ c \in With["ready"]
        /\ ListsOnce(Tail(m_funcs), With["ready"] \ {c})
    BY <1>2, ListsOnceTail, HeadTailProperties DEF RunFunc, OneWaker, TypeOK, With
  <2>2. /\ With'["running"] = {running'} \ {NoOne}
        /\ With'["ready"] = With["ready"] \ {c}
        /\ Keep("asleep") /\ Keep("chan") /\ Keep("in") /\ Keep("conn")
    BY <1>2, <2>1, ResumeHeld DEF RunFunc
  <2>3. QED
    BY <1>2, <2>1, <2>2, OneWakerNext DEF RunFunc, OneWaker, timeVars, waitVars
<1>3. ASSUME NEW n \in Sockets, m_connWait[n] # NoOne, LoopAt("OnOut") \/ LoopAt("OnIn"),
             In(m_connWait[n]), m_connWait' = Cleared(m_connWait, n),
             UNCHANGED <<m_funcs, m_timeWheel, m_wait, m_inWait>>
      PROVE  OneWaker'
  <2> DEFINE c == m_connWait[n]
  <2>1. /\ c \in Coroutines /\ c \in With["conn"]
        /\ HeldOnce(Cleared(m_connWait, n), Sockets, With["conn"] \ {c})
    BY <1>3, HeldClear DEF OneWaker, TypeOK
  <2>2. /\ With'["running"] = {running'} \ {NoOne}
        /\ With'["conn"] = With["conn"] \ {c}
        /\ Keep("asleep") /\ Keep("chan") /\ Keep("in") /\ Keep("ready")
    BY <1>3, <2>1, ResumeHeld
  <2>3. HeldOnce(m_connWait', Sockets, With'["conn"])
    BY <1>3, <2>1, <2>2, Zenon
  <2>4. QED
    BY <1>3, <2>2, <2>3, OneWakerNext DEF OneWaker
<1>4. ASSUME NEW n \in Sockets, m_inWait[n] # NoOne, LoopAt("OnIn"),
             In(m_inWait[n]), m_inWait' = Cleared(m_inWait, n),
             UNCHANGED <<m_funcs, m_timeWheel, m_wait, m_connWait>>
      PROVE  OneWaker'
  <2> DEFINE c == m_inWait[n]
  <2>1. /\ c \in Coroutines /\ c \in With["in"]
        /\ HeldOnce(Cleared(m_inWait, n), Sockets, With["in"] \ {c})
    BY <1>4, HeldClear DEF OneWaker, TypeOK
  <2>2. /\ With'["running"] = {running'} \ {NoOne}
        /\ With'["in"] = With["in"] \ {c}
        /\ Keep("asleep") /\ Keep("chan") /\ Keep("conn") /\ Keep("ready")
    BY <1>4, <2>1, ResumeHeld
  <2>3. HeldOnce(m_inWait', Sockets, With'["in"])
    BY <1>4, <2>1, <2>2, Zenon
  <2>4. QED
    BY <1>4, <2>2, <2>3, OneWakerNext DEF OneWaker
<1>5. ASSUME NEW n \in Sockets, Cleared(m_connWait, n) = m_connWait', m_connWait[n] = NoOne
      PROVE  UNCHANGED m_connWait
  BY <1>5 DEF Cleared, TypeOK
<1>6. ASSUME NEW n \in Sockets, Cleared(m_inWait, n) = m_inWait', m_inWait[n] = NoOne
      PROVE  UNCHANGED m_inWait
  BY <1>6 DEF Cleared, TypeOK
<1>7. at \in {"OnIn", "OnOut"} => Head(m_events).ptr \in Sockets
  BY DEF HandlerAlive, TypeOK
<1>8. ASSUME OnOut PROVE OneWaker'
  <2>1. CASE m_connWait[Head(m_events).ptr] = NoOne
    BY <1>5, <1>7, <1>8, <2>1, OneWakerStutter DEF OnOut, ResumeWaiter, timeVars, waitVars
  <2>2. CASE m_connWait[Head(m_events).ptr] # NoOne
    BY <1>3, <1>7, <1>8, <2>2 DEF OnOut, ResumeWaiter, timeVars
  <2>3. QED
    BY <2>1, <2>2
<1>9. ASSUME OnIn PROVE OneWaker'
  <2> DEFINE n == Head(m_events).ptr
  <2>1. CASE m_connWait[n] # NoOne
    BY <1>3, <1>7, <1>9, <2>1 DEF OnIn, timeVars
  <2>2. CASE m_connWait[n] = NoOne /\ m_inWait[n] # NoOne
    BY <1>4, <1>7, <1>9, <2>2 DEF OnIn, ResumeWaiter, timeVars
  <2>3. CASE m_connWait[n] = NoOne /\ m_inWait[n] = NoOne
    BY <1>6, <1>7, <1>9, <2>3, OneWakerStutter DEF OnIn, ResumeWaiter, timeVars, waitVars
  <2>4. QED
    BY <2>1, <2>2, <2>3
<1>10. ASSUME Enter \/ OnTime \/ EndOnTime \/ EpollWait \/ TestOut \/ TestIn \/ EndWait
       PROVE  OneWaker'
  BY <1>10, OneWakerStutter
     DEF Enter, OnTime, EndOnTime, EpollWait, TestOut, TestIn, EndWait, timeVars
<1>11. QED
  BY <1>1, <1>2, <1>8, <1>9, <1>10 DEF Loop

(* release deletes the coroutine that finished last but one, never the one *)
(* on whose stack it runs, and keeps track of the last.                    *)
LEMMA StackSafeStep ==
  ASSUME SafetyInv, [Next]_vars, OneWaker'
  PROVE  StackSafe'
<1> USE NoOneAssumption DEF SafetyInv, StackSafe, Status
<1>1. running' # NoOne => status'[running'] # "deleted"
  BY DEF OneWaker, With
<1>2. \A c \in Coroutines : status[c] = "running" <=> c = running
  BY DEF OneWaker, With
<1> DEFINE Unfinished(c) == status[c] \notin {"done", "running"}
<1>3. ASSUME \A c \in Coroutines : status'[c] # status[c] =>
                 Unfinished(c) /\ (status'[c] # "done") /\ (running = NoOne \/ running' = running),
             UNCHANGED m_del,
             running = NoOne \/ running' = running
      PROVE  StackSafe'
  BY <1>1, <1>2, <1>3 DEF TypeOK
<1>4. ASSUME NEW c \in Coroutines, Executes(c), NEW to \in Status \ {"done"}, Out(c, to), UNCHANGED m_del
      PROVE  StackSafe'
  BY <1>1, <1>2, <1>4 DEF Executes, Out, TypeOK
<1>5. CASE \E d \in Coroutines : Go(d)
  BY <1>3, <1>5 DEF Go, TypeOK
<1>6. CASE Call
  <2>1. ASSUME NEW c \in Coroutines, NEW h \in Chans, ChanWake(c, h) PROVE StackSafe'
    <3>1. status[m_wait[h]] = "chan"
      BY <2>1 DEF ChanWake, OneWaker, HeldOnce, With, TypeOK
    <3>2. QED
      BY <1>3, <2>1, <3>1 DEF ChanWake, TypeOK
  <2>2. ASSUME NEW c \in Coroutines, NEW n \in Sockets, Open(c, n) PROVE StackSafe'
    BY <1>3, <2>2 DEF Open
  <2>3. ASSUME NEW c \in Coroutines, NEW n \in Sockets, Close(c, n) PROVE StackSafe'
    <3>1. \A d \in Coroutines : d \in {m_connWait[n], m_inWait[n]} => status[d] \in {"conn", "in"}
      BY <2>3 DEF Close, OneWaker, HeldOnce, With, TypeOK
    <3>2. QED
      BY <1>3, <2>3, <3>1 DEF Close
  <2>4. QED
    BY <1>6, <2>1, <2>2, <2>3 DEF Call
<1>7. CASE Yield
  <2>1. ASSUME NEW c \in Coroutines, NEW s \in SleepArgs, Sleep(c, s) PROVE StackSafe'
    BY <1>4, <2>1 DEF Sleep
  <2>2. ASSUME NEW c \in Coroutines, NEW h \in Chans, ChanWait(c, h) PROVE StackSafe'
    BY <1>4, <2>2 DEF ChanWait
  <2>3. ASSUME NEW c \in Coroutines, NEW n \in Sockets, ReadWait(c, n) \/ ConnectWait(c, n)
        PROVE  StackSafe'
    BY <1>4, <2>3 DEF ReadWait, ConnectWait
  <2>4. ASSUME NEW c \in Coroutines, Release(c) PROVE StackSafe'
    BY <1>1, <1>2, <2>4 DEF Release, Doomed, Executes, TypeOK
  <2>5. ASSUME NEW c \in Coroutines, Return(c) PROVE StackSafe'
    BY <1>1, <1>2, <2>5 DEF Return, Out, TypeOK
  <2>6. QED
    BY <1>7, <2>1, <2>2, <2>3, <2>4, <2>5 DEF Yield
<1>8. CASE Loop
  <2>1. ASSUME NEW c \in Coroutines, running = NoOne, In(c), UNCHANGED m_del, ~ (status[c] = "done")
        PROVE  StackSafe'
    BY <1>1, <1>2, <2>1 DEF In, TypeOK
  <2>2. CASE Tick
    <3>1. \A c \in Coroutines : InSlot(c, NextSlot) => status[c] = "asleep"
      BY SlotsOfWheel DEF InSlot, OneWaker, WheelOnce, With, TypeOK
    <3>2. QED
      BY <1>3, <2>2, <3>1 DEF Tick, LoopAt
  <2>3. CASE RunFunc
    <3>1. Head(m_funcs) \in With["ready"] /\ Head(m_funcs) \in Coroutines
      BY <2>3, ListsOnceTail, HeadTailProperties DEF RunFunc, OneWaker, TypeOK
    <3>2. QED
      BY <2>1, <2>3, <3>1 DEF RunFunc, LoopAt, With
  <2>4. CASE OnOut \/ OnIn
    <3> DEFINE n == Head(m_events).ptr
    <3>1. n \in Sockets
      BY <2>4 DEF OnOut, OnIn, LoopAt, HandlerAlive, TypeOK
    <3>2. /\ m_connWait[n] # NoOne => m_connWait[n] \in Coroutines /\ status[m_connWait[n]] = "conn"
          /\ m_inWait[n] # NoOne => m_inWait[n] \in Coroutines /\ status[m_inWait[n]] = "in"
      BY <3>1 DEF OneWaker, HeldOnce, With, TypeOK
    <3>3. \/ running = NoOne /\ In(m_connWait[n]) /\ m_connWait[n] # NoOne
          \/ running = NoOne /\ In(m_inWait[n]) /\ m_inWait[n] # NoOne
          \/ UNCHANGED <<status, running>>
      BY <2>4 DEF OnOut, OnIn, LoopAt, ResumeWaiter
    <3>4. UNCHANGED m_del
      BY <2>4 DEF OnOut, OnIn
    <3>5. QED
      BY <1>3, <2>1, <3>2, <3>3, <3>4
  <2>5. CASE Enter \/ OnTime \/ EndOnTime \/ EpollWait \/ TestOut \/ TestIn \/ EndWait
    BY <1>3, <2>5 DEF Enter, OnTime, EndOnTime, EpollWait, TestOut, TestIn, EndWait
  <2>6. QED
    BY <1>8, <2>2, <2>3, <2>4, <2>5 DEF Loop
<1>9. CASE ClockTick \/ UNCHANGED vars
  BY <1>3, <1>9 DEF ClockTick, vars
<1>10. QED
  BY <1>5, <1>6, <1>7, <1>8, <1>9 DEF Next

(* A coroutine waits in a socket only while the socket is registered. *)
LEMMA WaitersRegisteredStep ==
  ASSUME SafetyInv, [Next]_vars
  PROVE  WaitersRegistered'
<1> USE NoOneAssumption DEF SafetyInv, WaitersRegistered, TypeOK, Cleared
<1>1. CASE (\E d \in Coroutines : Go(d)) \/ ClockTick \/ UNCHANGED vars
  BY <1>1 DEF Go, ClockTick, vars, waitVars
<1>2. CASE Call
  BY <1>2 DEF Call, ChanWake, Open, Close, waitVars
<1>3. CASE Yield
  BY <1>3 DEF Yield, Sleep, ChanWait, ReadWait, ConnectWait, Release, Return, waitVars
<1>4. CASE Loop
  <2>1. CASE OnOut \/ OnIn
    BY <2>1 DEF OnOut, OnIn, HandlerAlive, LoopAt
  <2>2. CASE Enter \/ OnTime \/ Tick \/ EndOnTime \/ RunFunc \/ EpollWait \/ TestOut \/ TestIn \/ EndWait
    BY <2>2 DEF Enter, OnTime, Tick, EndOnTime, RunFunc, EpollWait, TestOut, TestIn, EndWait, waitVars
  <2>3. QED
    BY <1>4, <2>1, <2>2 DEF Loop
<1>5. QED
  BY <1>1, <1>2, <1>3, <1>4 DEF Next

(* The joint invariant holds in every reachable state. *)
LEMMA SafetyInvHolds == Spec => []SafetyInv
<1>1. Init => OneWaker /\ StackSafe /\ WaitersRegistered
  BY NoOneAssumption, EmptySeq
     DEF Init, OneWaker, StackSafe, WaitersRegistered, With, Status, ListsOnce, WheelOnce, HeldOnce
<1>2. ASSUME SafetyInv, [Next]_vars
      PROVE  OneWaker' /\ StackSafe' /\ WaitersRegistered'
  <2>1. OneWaker'
    <3>1. CASE ClockTick \/ UNCHANGED vars
      BY <1>2, <3>1, OneWakerStutter DEF ClockTick, vars, timeVars, SafetyInv
    <3>2. QED
      BY <1>2, <3>1, OneWakerCalls, OneWakerLoop DEF Next
  <2>2. QED
    BY <1>2, <2>1, StackSafeStep, WaitersRegisteredStep
<1>3. QED
  BY <1>1, <1>2, TypeCorrect, PTL DEF Spec, SafetyInv

(* What a coroutine that executes its body can count on. *)
LEMMA OnCpu ==
  ASSUME SafetyInv, NEW c \in Coroutines, Executes(c)
  PROVE  status[c] = "running" /\ c # NoOne /\ (m_del # NoOne => status[m_del] = "done")
<1>1. c # NoOne /\ c \in {running} \ {NoOne}
  BY NoOneAssumption DEF Executes
<1>2. c \in {d \in Coroutines : status[d] = "running"}
  BY <1>1 DEF SafetyInv, OneWaker, With, Status
<1>3. m_del # NoOne => status[m_del] = "done"
  BY DEF SafetyInv, StackSafe, Executes
<1>4. QED
  BY <1>1, <1>2, <1>3

(* The loop runs when nobody else does. It ends nobody and gives birth to  *)
(* nobody, resumes nobody who waits in a channel, and leaves channels and  *)
(* registrations alone.                                                    *)
LEMMA LoopFates ==
  ASSUME SafetyInv, Loop, NEW c \in Coroutines
  PROVE  /\ \/ status[c] \in {"unborn", "done", "deleted", "chan"}
            \/ status'[c] \in {"unborn", "done", "deleted", "chan"}
            => status'[c] = status[c]
         /\ ~Executes(c)
         /\ UNCHANGED <<m_notifies, m_wait, m_del>>
<1> USE NoOneAssumption
<1>t. TypeOK
  BY DEF SafetyInv
<1>w. /\ \A k \in Slots : InSlot(c, k) => status[c] = "asleep"
      /\ \A i \in 1..Len(m_funcs) : m_funcs[i] = c => status[c] = "ready"
      /\ \A n \in Sockets : m_inWait[n] = c => status[c] = "in"
      /\ \A n \in Sockets : m_connWait[n] = c => status[c] = "conn"
  BY DEF SafetyInv, OneWaker, With, Status, ListsOnce, WheelOnce, HeldOnce, InSlot
<1>n. NextSlot \in Slots
  BY <1>t, SlotsOfWheel DEF TypeOK
<1>e. at \in {"OnOut", "OnIn"} => Head(m_events).ptr \in Sockets
  BY <1>t DEF SafetyInv, HandlerAlive, TypeOK
<1>1. CASE Tick
  BY <1>1, <1>t, <1>w, <1>n DEF Tick, LoopAt, Executes, TypeOK, waitVars
<1>2. CASE RunFunc
  <2>1. Head(m_funcs) = m_funcs[1] /\ 1 \in 1..Len(m_funcs)
    BY <1>2, <1>t DEF RunFunc, TypeOK
  <2>2. QED
    BY <1>2, <2>1, <1>t, <1>w DEF RunFunc, In, LoopAt, Executes, TypeOK, waitVars
<1>3. CASE OnOut
  BY <1>3, <1>t, <1>w, <1>e DEF OnOut, ResumeWaiter, In, LoopAt, Executes, TypeOK
<1>4. CASE OnIn
  BY <1>4, <1>t, <1>w, <1>e DEF OnIn, ResumeWaiter, In, LoopAt, Executes, TypeOK
<1>5. CASE Enter \/ OnTime \/ EndOnTime \/ EpollWait \/ TestOut \/ TestIn \/ EndWait
  BY <1>5 DEF Enter, OnTime, EndOnTime, EpollWait, TestOut, TestIn, EndWait, LoopAt, Executes,
              waitVars
<1>6. QED
  BY <1>1, <1>2, <1>3, <1>4, <1>5 DEF Loop

(* There are events to dispatch only while Wait dispatches them: whoever   *)
(* runs at any other time finds none.                                      *)
BatchDone == at \notin {"events", "OnOut", "OnIn"} => m_events = <<>>

LEMMA BatchDoneHolds == Spec => []BatchDone
<1>1. Init => BatchDone
  BY DEF Init, BatchDone
<1>2. ASSUME BatchDone, [Next]_vars
      PROVE  BatchDone'
  <2> USE <1>2 DEF BatchDone, LoopAt, loopVars
  <2>1. CASE Loop
    <3>1. CASE Enter \/ OnTime \/ Tick \/ EndOnTime \/ RunFunc \/ EpollWait \/ EndWait
      BY <3>1 DEF Enter, OnTime, Tick, EndOnTime, RunFunc, EpollWait, EndWait
    <3>2. CASE TestOut \/ TestIn \/ OnOut \/ OnIn
      BY <3>2 DEF TestOut, TestIn, OnOut, OnIn
    <3>3. QED
      BY <2>1, <3>1, <3>2 DEF Loop
  <2>2. CASE Yield
    BY <2>2 DEF Yield, Sleep, ChanWait, ReadWait, ConnectWait, Release, Return
  <2>3. CASE Call \/ (\E d \in Coroutines : Go(d)) \/ ClockTick \/ UNCHANGED vars
    BY <2>3 DEF Call, ChanWake, Open, Close, Go, ClockTick, vars
  <2>4. QED
    BY <2>1, <2>2, <2>3 DEF Next
<1>3. QED
  BY <1>1, <1>2, PTL DEF Spec

(* Every suspended coroutine is held by exactly one waker, whatever the    *)
(* coroutines call and in whatever order timers, wakes, closes and events  *)
(* come: no resumption is lost and none is repeated.                       *)
THEOREM OneWakerHolds == Spec => []OneWaker
BY SafetyInvHolds, PTL DEF SafetyInv

(* No stack in use is freed, and no finished coroutine is forgotten. *)
THEOREM StackSafeHolds == Spec => []StackSafe
BY SafetyInvHolds, PTL DEF SafetyInv

(* No coroutine waits in a closed socket. *)
THEOREM WaitersRegisteredHolds == Spec => []WaitersRegistered
BY SafetyInvHolds, PTL DEF SafetyInv

-----------------------------------------------------------------------------
(* The timer wheel keeps time: who is in the slot that the wheel reaches   *)
(* after s more ticks has s ticks left of the sleep it asked for, also     *)
(* when the slot is the current one, a whole turn away; and nobody else    *)
(* has any left. Without it a Tick cannot be shown to wake exactly those   *)
(* whose time is over.                                                     *)
WheelOnTime ==
  \A c \in Coroutines :
    /\ left[c] > 0 <=> status[c] = "asleep"
    /\ \A k \in Slots : InSlot(c, k) => k = (m_timeIndex + left[c]) % MaxSleep

(* Fewer than two turns ahead, counting modulo MaxSleep wraps at most once. *)
LEMMA WrapsOnce ==
  ASSUME NEW i \in Slots, NEW s \in 0..MaxSleep
  PROVE  (i + s) % MaxSleep = IF i + s < MaxSleep THEN i + s ELSE i + s - MaxSleep
<1>1. MaxSleep \in Nat /\ MaxSleep > 0 /\ i \in Nat /\ s \in Nat /\ i < MaxSleep /\ s <= MaxSleep
  BY MaxSleepAssumption DEF Slots
<1>2. CASE i + s < MaxSleep
  BY <1>1, <1>2
<1>3. CASE i + s >= MaxSleep
  BY <1>1, <1>3
<1>4. QED
  BY <1>1, <1>2, <1>3

(* Seen from the next slot, a slot is one tick nearer; the next slot       *)
(* itself is the only one that is one tick away.                           *)
LEMMA OneTickNearer ==
  ASSUME m_timeIndex \in Slots, NEW s \in 1..MaxSleep
  PROVE  /\ (m_timeIndex + s) % MaxSleep = NextSlot <=> s = 1
         /\ (NextSlot + (s - 1)) % MaxSleep = (m_timeIndex + s) % MaxSleep
<1>1. /\ MaxSleep \in Nat /\ MaxSleep > 0 /\ m_timeIndex \in 0..MaxSleep-1
      /\ s \in 0..MaxSleep /\ s - 1 \in 0..MaxSleep /\ 1 \in 0..MaxSleep
  BY MaxSleepAssumption DEF Slots
<1>2. NextSlot = IF m_timeIndex + 1 < MaxSleep THEN m_timeIndex + 1 ELSE 0
  BY <1>1, WrapsOnce DEF NextSlot
<1>3. NextSlot \in Slots
  BY <1>1, <1>2 DEF Slots
<1>4. (m_timeIndex + s) % MaxSleep
        = IF m_timeIndex + s < MaxSleep THEN m_timeIndex + s ELSE m_timeIndex + s - MaxSleep
  BY <1>1, WrapsOnce
<1>5. (NextSlot + (s - 1)) % MaxSleep
        = IF NextSlot + (s - 1) < MaxSleep THEN NextSlot + (s - 1)
                                           ELSE NextSlot + (s - 1) - MaxSleep
  BY <1>1, <1>3, WrapsOnce
<1>6. QED
  BY <1>1, <1>2, <1>4, <1>5

(* Who is where in the wheel, and who has the CPU. *)
LEMMA Whereabouts ==
  ASSUME SafetyInv, NEW c \in Coroutines
  PROVE  /\ status[c] = "asleep" <=> \E k \in Slots : InSlot(c, k)
         /\ status[c] = "running" <=> c = running
         /\ \A i \in 1..Len(m_funcs) : m_funcs[i] = c => status[c] = "ready"
         /\ \A h \in Chans : m_wait[h] = c => status[c] = "chan"
         /\ \A n \in Sockets : m_inWait[n] = c => status[c] = "in"
         /\ \A n \in Sockets : m_connWait[n] = c => status[c] = "conn"
         /\ m_del = c => status[c] = "done" \/ c = running
<1> USE NoOneAssumption
<1>1. OneWaker /\ StackSafe
  BY DEF SafetyInv
<1>2. \A x \in Status : c \in With[x] <=> status[c] = x
  BY DEF With
<1>3. {"asleep", "running", "ready", "chan", "in", "conn"} \subseteq Status
  BY DEF Status
<1>4. QED
  BY <1>1, <1>2, <1>3 DEF OneWaker, ListsOnce, WheelOnce, HeldOnce, InSlot, StackSafe

(* A step that neither ticks nor puts to sleep, and after which the same   *)
(* coroutines sleep, leaves the wheel on time.                             *)
LEMMA WheelOnTimeStutter ==
  ASSUME WheelOnTime, UNCHANGED timeVars,
         \A c \in Coroutines : status'[c] = "asleep" <=> status[c] = "asleep"
  PROVE  WheelOnTime'
BY DEF WheelOnTime, InSlot, timeVars

LEMMA WheelOnTimeStep ==
  ASSUME SafetyInv, WheelOnTime, [Next]_vars
  PROVE  WheelOnTime'
<1> USE NoOneAssumption, MaxSleepAssumption
<1>t. TypeOK /\ status \in [Coroutines -> Status] /\ left \in [Coroutines -> 0..MaxSleep]
  BY DEF SafetyInv, TypeOK
<1>1. ASSUME NEW d \in Coroutines, Go(d) PROVE WheelOnTime'
  BY <1>1, <1>t, WheelOnTimeStutter DEF Go
<1>2. CASE Call
  <2>1. ASSUME NEW c \in Coroutines, NEW h \in Chans, ChanWake(c, h) PROVE WheelOnTime'
    <3>1. m_wait[h] \in Coroutines /\ status[m_wait[h]] = "chan"
      BY <2>1, <1>t, Whereabouts DEF ChanWake, TypeOK
    <3>2. QED
      BY <2>1, <3>1, <1>t, WheelOnTimeStutter DEF ChanWake
  <2>2. ASSUME NEW c \in Coroutines, NEW n \in Sockets, Open(c, n) PROVE WheelOnTime'
    BY <2>2, WheelOnTimeStutter DEF Open
  <2>3. ASSUME NEW c \in Coroutines, NEW n \in Sockets, Close(c, n) PROVE WheelOnTime'
    <3>1. \A d \in Coroutines : d \in {m_connWait[n], m_inWait[n]} => status[d] \in {"conn", "in"}
      BY Whereabouts
    <3>2. \A d \in Coroutines :
            status'[d] = IF d \in {m_connWait[n], m_inWait[n]} THEN "ready" ELSE status[d]
      BY <2>3 DEF Close
    <3>3. UNCHANGED timeVars
      BY <2>3 DEF Close
    <3>4. QED
      BY <3>1, <3>2, <3>3, WheelOnTimeStutter
  <2>4. QED
    BY <1>2, <2>1, <2>2, <2>3 DEF Call
<1>3. CASE Yield
  <2>1. ASSUME NEW c \in Coroutines, NEW s \in SleepArgs, Sleep(c, s) PROVE WheelOnTime'
    <3>1. status[c] = "running"
      BY <2>1, OnCpu DEF Sleep
    <3>2. \A k \in Slots : ~InSlot(c, k)
      BY <3>1, Whereabouts
    <3>3. /\ status' = [status EXCEPT ![c] = "asleep"]
          /\ left' = [left EXCEPT ![c] = Granted(s)]
          /\ m_timeWheel' = [m_timeWheel EXCEPT ![SlotAhead(s)] = Append(@, c)]
          /\ UNCHANGED m_timeIndex
      BY <2>1 DEF Sleep, Out
    <3>4. Granted(s) \in 1..MaxSleep /\ SlotAhead(s) \in Slots
      BY <1>t, SlotsOfWheel, SleepArgsAssumption DEF Granted, TypeOK
    <3>5. ASSUME NEW d \in Coroutines, NEW k \in Slots, InSlot(d, k)'
          PROVE  InSlot(d, k) \/ (d = c /\ k = SlotAhead(s))
      <4>1. CASE k # SlotAhead(s)
        BY <4>1, <3>3, <3>5 DEF InSlot
      <4>2. CASE k = SlotAhead(s)
        <5>1. m_timeWheel[k] \in Seq(Coroutines)
          BY <1>t DEF TypeOK
        <5>2. m_timeWheel'[k] = Append(m_timeWheel[k], c)
          BY <3>3, <4>2, <1>t DEF TypeOK
        <5>3. PICK i \in 1..Len(m_timeWheel'[k]) : m_timeWheel'[k][i] = d
          BY <3>5 DEF InSlot
        <5>4. CASE i \in 1..Len(m_timeWheel[k])
          BY <5>1, <5>2, <5>3, <5>4, AppendProperties DEF InSlot
        <5>5. CASE i = Len(m_timeWheel[k]) + 1
          BY <5>1, <5>2, <5>3, <5>5, <4>2, AppendProperties
        <5>6. QED
          BY <5>1, <5>2, <5>4, <5>5, AppendProperties, LenProperties
      <4>3. QED
        BY <4>1, <4>2
    <3>6. ASSUME NEW d \in Coroutines
          PROVE  left'[d] > 0 <=> status'[d] = "asleep"
      BY <3>3, <3>4, <1>t DEF WheelOnTime
    <3>7. ASSUME NEW d \in Coroutines, NEW k \in Slots, InSlot(d, k)'
          PROVE  k = (m_timeIndex + left'[d]) % MaxSleep
      <4>1. CASE d = c
        BY <3>2, <3>3, <3>5, <3>7, <4>1, <1>t DEF SlotAhead
      <4>2. CASE d # c
        BY <3>3, <3>5, <3>7, <4>2, <1>t DEF WheelOnTime
      <4>3. QED
        BY <4>1, <4>2
    <3>8. QED
      BY <3>3, <3>6, <3>7 DEF WheelOnTime
  <2>2. ASSUME NEW c \in Coroutines, NEW to \in Status \ {"asleep"}, running = c, Out(c, to),
               UNCHANGED timeVars
        PROVE  WheelOnTime'
    <3>1. status[c] = "running"
      BY <2>2, Whereabouts
    <3>2. QED
      BY <2>2, <3>1, <1>t, WheelOnTimeStutter DEF Out
  <2>3. ASSUME NEW c \in Coroutines, NEW h \in Chans, ChanWait(c, h) PROVE WheelOnTime'
    BY <2>2, <2>3 DEF ChanWait, Executes, Status
  <2>4. ASSUME NEW c \in Coroutines, NEW n \in Sockets, ReadWait(c, n) \/ ConnectWait(c, n)
        PROVE  WheelOnTime'
    BY <2>2, <2>4 DEF ReadWait, ConnectWait, Executes, Status
  <2>5. ASSUME NEW c \in Coroutines, Return(c) PROVE WheelOnTime'
    BY <2>2, <2>5 DEF Return, Status
  <2>6. ASSUME NEW c \in Coroutines, Release(c) PROVE WheelOnTime'
    <3>1. \A d \in Coroutines : d = m_del => status[d] = "done"
      BY <2>6, OnCpu DEF Release
    <3>2. QED
      BY <2>6, <3>1, WheelOnTimeStutter DEF Release, Doomed
  <2>7. QED
    BY <1>3, <2>1, <2>3, <2>4, <2>5, <2>6 DEF Yield
<1>4. ASSUME Tick PROVE WheelOnTime'
  <2>0. m_timeIndex \in Slots /\ NextSlot \in Slots
    BY <1>t, SlotsOfWheel DEF TypeOK
  <2>1. /\ m_timeIndex' = NextSlot
        /\ \A c \in Coroutines : status'[c] = IF InSlot(c, NextSlot) THEN "ready" ELSE status[c]
        /\ \A c \in Coroutines : left'[c] = IF left[c] > 0 THEN left[c] - 1 ELSE 0
        /\ m_timeWheel' = [m_timeWheel EXCEPT ![NextSlot] = <<>>]
    BY <1>4 DEF Tick
  <2>2. ASSUME NEW c \in Coroutines
        PROVE  InSlot(c, NextSlot) <=> left[c] = 1
    BY <2>0, <1>t, Whereabouts, OneTickNearer DEF WheelOnTime
  <2>3. ASSUME NEW c \in Coroutines
        PROVE  left'[c] > 0 <=> status'[c] = "asleep"
    <3>1. left[c] \in 0..MaxSleep
      BY <1>t
    <3>2. QED
      BY <2>1, <2>2, <3>1 DEF WheelOnTime
  <2>4. ASSUME NEW c \in Coroutines, NEW k \in Slots, InSlot(c, k)'
        PROVE  k = (m_timeIndex' + left'[c]) % MaxSleep
    <3>1. k # NextSlot /\ InSlot(c, k)
      <4>1. m_timeWheel'[k] # <<>>
        BY <2>4, EmptySeq DEF InSlot
      <4>2. k # NextSlot
        BY <2>0, <2>1, <4>1, <1>t DEF TypeOK
      <4>3. QED
        BY <2>1, <2>4, <4>2 DEF InSlot
    <3>2. left[c] \in 1..MaxSleep /\ k = (m_timeIndex + left[c]) % MaxSleep
      BY <3>1, <1>t, Whereabouts DEF WheelOnTime
    <3>3. left'[c] = left[c] - 1
      BY <2>1, <3>2
    <3>4. QED
      BY <2>0, <2>1, <3>2, <3>3, OneTickNearer
  <2>5. QED
    BY <2>3, <2>4 DEF WheelOnTime
<1>5. ASSUME NEW c \in Coroutines, In(c), status[c] # "asleep", UNCHANGED timeVars
      PROVE  WheelOnTime'
  BY <1>5, <1>t, WheelOnTimeStutter DEF In
<1>6. CASE RunFunc
  <2>1. Head(m_funcs) \in Coroutines /\ status[Head(m_funcs)] = "ready"
    BY <1>6, <1>t, Whereabouts DEF RunFunc, TypeOK
  <2>2. QED
    BY <1>5, <1>6, <2>1 DEF RunFunc
<1>7. CASE OnOut \/ OnIn
  <2> DEFINE n == Head(m_events).ptr
  <2>1. /\ n \in Sockets
        /\ m_connWait[n] \in Coroutines \cup {NoOne}
        /\ m_inWait[n] \in Coroutines \cup {NoOne}
    BY <1>7 DEF OnOut, OnIn, LoopAt, SafetyInv, HandlerAlive, TypeOK
  <2>2. /\ m_connWait[n] # NoOne => status[m_connWait[n]] = "conn"
        /\ m_inWait[n] # NoOne => status[m_inWait[n]] = "in"
    BY <2>1, Whereabouts
  <2>3. \/ In(m_connWait[n]) /\ m_connWait[n] # NoOne
        \/ In(m_inWait[n]) /\ m_inWait[n] # NoOne
        \/ UNCHANGED status
    BY <1>7 DEF OnOut, OnIn, ResumeWaiter
  <2>4. UNCHANGED timeVars
    BY <1>7 DEF OnOut, OnIn
  <2>5. QED
    BY <1>5, <2>1, <2>2, <2>3, <2>4, WheelOnTimeStutter
<1>8. CASE Enter \/ OnTime \/ EndOnTime \/ EpollWait \/ TestOut \/ TestIn \/ EndWait
  BY <1>8, WheelOnTimeStutter
     DEF Enter, OnTime, EndOnTime, EpollWait, TestOut, TestIn, EndWait
<1>9. CASE ClockTick \/ UNCHANGED vars
  BY <1>9, WheelOnTimeStutter DEF ClockTick, vars
<1>10. QED
  BY <1>1, <1>2, <1>3, <1>4, <1>6, <1>7, <1>8, <1>9 DEF Next, Loop

(* The wheel keeps time in every reachable state. *)
LEMMA WheelOnTimeHolds == Spec => []WheelOnTime
<1>1. ASSUME Init PROVE WheelOnTime
  <2>1. \A k \in Slots, c \in Coroutines : ~InSlot(c, k)
    <3>1. \A k \in Slots : m_timeWheel[k] = <<>>
      BY <1>1 DEF Init
    <3>2. QED
      BY <3>1, EmptySeq DEF InSlot
  <2>2. \A c \in Coroutines : left[c] = 0 /\ status[c] = "unborn"
    BY <1>1 DEF Init
  <2>3. \A c \in Coroutines : left[c] > 0 <=> status[c] = "asleep"
    <3>1. ~(0 > 0) /\ "unborn" # "asleep"
      OBVIOUS
    <3>2. QED
      BY <2>2, <3>1
  <2>4. QED
    BY <2>1, <2>3, Zenon DEF WheelOnTime
<1>2. QED
  BY <1>1, WheelOnTimeStep, SafetyInvHolds, PTL DEF Spec

-----------------------------------------------------------------------------
(* The scheduler implements Scheduling.                                    *)

(* What a status of the loop is to the author of a coroutine. *)
AbsOf(x) ==
  IF x \in {"chan", "in", "conn"} THEN "blocked"
  ELSE IF x \in {"done", "deleted"} THEN "unborn" ELSE x

LEMMA AbsStatus ==
  /\ absStatus = [c \in Coroutines |-> AbsOf(status[c])]
  /\ absStatus' = [c \in Coroutines |-> AbsOf(status'[c])]
BY DEF absStatus, AbsOf

(* One coroutine moves, and Scheduling sees it move as well. *)
LEMMA AbsMoves ==
  ASSUME SafetyInv, NEW c \in Coroutines, NEW to \in Status,
         status' = [status EXCEPT ![c] = to]
  PROVE  Promise!Move(c, AbsOf(status[c]), AbsOf(to))
<1>1. \A d \in Coroutines : status'[d] = IF d = c THEN to ELSE status[d]
  BY DEF SafetyInv, TypeOK
<1>2. \A d \in Coroutines : AbsOf(status'[d]) = IF d = c THEN AbsOf(to) ELSE AbsOf(status[d])
  BY <1>1
<1>3. QED
  BY <1>2, AbsStatus DEF Promise!Move

(* The CPU is free exactly when no coroutine runs. *)
LEMMA AbsCpuFree ==
  ASSUME SafetyInv, running = NoOne
  PROVE  Promise!CpuFree
<1>1. \A c \in Coroutines : status[c] # "running"
  BY NoOneAssumption, Whereabouts
<1>2. QED
  BY <1>1, AbsStatus DEF Promise!CpuFree, AbsOf

(* Every step of the scheduler is a step of Scheduling or changes nothing  *)
(* that Scheduling sees.                                                   *)
AbsStep == Promise!Next \/ UNCHANGED <<absStatus, left>>

LEMMA AbsStutter ==
  ASSUME UNCHANGED <<status, left>>
  PROVE  AbsStep
<1>1. UNCHANGED absStatus
  BY AbsStatus
<1>2. QED
  BY <1>1 DEF AbsStep

(* Somebody who waits for an event, or is ready, is given the CPU. *)
LEMMA AbsResume ==
  ASSUME SafetyInv, running = NoOne, NEW c \in Coroutines, In(c),
         status[c] \in {"ready", "chan", "in", "conn"}, UNCHANGED left
  PROVE  AbsStep
<1>1. "running" \in Status /\ AbsOf("running") = "running"
      /\ AbsOf(status[c]) \in {"ready", "blocked"}
  BY DEF Status, AbsOf
<1>2. Promise!Move(c, AbsOf(status[c]), "running")
  BY <1>1, AbsMoves, Zenon DEF In
<1>3. Promise!Resume(c)
  BY <1>1, <1>2, AbsCpuFree DEF Promise!Resume
<1>4. QED
  BY <1>3 DEF AbsStep, Promise!Next

(* Blocked coroutines are made ready. *)
LEMMA AbsWake ==
  ASSUME SafetyInv, NEW S \in SUBSET Coroutines,
         \A c \in S : status[c] \in {"chan", "in", "conn"},
         \A c \in Coroutines : status'[c] = IF c \in S THEN "ready" ELSE status[c],
         UNCHANGED left
  PROVE  AbsStep
<1>1. \A c \in Coroutines : AbsOf(status'[c]) = IF c \in S THEN "ready" ELSE AbsOf(status[c])
  BY DEF AbsOf
<1>2. \A c \in S : absStatus[c] = "blocked"
  BY AbsStatus DEF AbsOf
<1>3. Promise!Wake(S)
  BY <1>1, <1>2, AbsStatus DEF Promise!Wake
<1>4. QED
  BY <1>3 DEF AbsStep, Promise!Next

LEMMA AbsCalls ==
  ASSUME SafetyInv,
         \/ \E d \in Coroutines : Go(d)
         \/ Call
         \/ Yield
  PROVE  AbsStep
<1>1. ASSUME NEW d \in Coroutines, Go(d) PROVE AbsStep
  <2>1. "ready" \in Status /\ AbsOf("ready") = "ready" /\ AbsOf(status[d]) = "unborn"
    BY <1>1 DEF Go, Status, AbsOf
  <2>2. Promise!Move(d, "unborn", "ready")
    BY <1>1, <2>1, AbsMoves DEF Go
  <2>3. Promise!Spawn(d)
    BY <1>1, <2>2 DEF Go, timeVars, Promise!Spawn
  <2>4. QED
    BY <2>3 DEF AbsStep, Promise!Next
<1>2. ASSUME NEW c \in Coroutines, NEW h \in Chans, ChanWake(c, h) PROVE AbsStep
  <2>1. m_wait[h] \in Coroutines /\ status[m_wait[h]] = "chan"
    BY <1>2, Whereabouts DEF ChanWake, SafetyInv, TypeOK
  <2>2. \A d \in Coroutines : status'[d] = IF d \in {m_wait[h]} THEN "ready" ELSE status[d]
    BY <1>2 DEF ChanWake, SafetyInv, TypeOK
  <2>3. UNCHANGED left
    BY <1>2 DEF ChanWake, timeVars
  <2>4. QED
    BY <2>1, <2>2, <2>3, AbsWake
<1>3. ASSUME NEW c \in Coroutines, NEW n \in Sockets, Open(c, n) PROVE AbsStep
  BY <1>3, AbsStutter DEF Open, timeVars
<1>4. ASSUME NEW c \in Coroutines, NEW n \in Sockets, Close(c, n) PROVE AbsStep
  <2> DEFINE S == {m_connWait[n], m_inWait[n]} \cap Coroutines
  <2>1. \A d \in S : status[d] \in {"chan", "in", "conn"}
    BY Whereabouts
  <2>2. \A d \in Coroutines : status'[d] = IF d \in S THEN "ready" ELSE status[d]
    BY <1>4 DEF Close
  <2>3. UNCHANGED left
    BY <1>4 DEF Close, timeVars
  <2>4. QED
    BY <2>1, <2>2, <2>3, AbsWake
<1>5. ASSUME NEW c \in Coroutines, NEW s \in SleepArgs, Sleep(c, s) PROVE AbsStep
  <2>1. "asleep" \in Status /\ AbsOf("asleep") = "asleep" /\ AbsOf(status[c]) = "running"
    BY <1>5, OnCpu DEF Sleep, Status, AbsOf
  <2>2. Promise!Move(c, "running", "asleep")
    BY <1>5, <2>1, AbsMoves DEF Sleep, Out
  <2>3. Granted(s) \in 1..MaxSleep
    BY SleepArgsAssumption, MaxSleepAssumption DEF Granted
  <2>4. Promise!Sleep(c, Granted(s))
    BY <1>5, <2>2 DEF Sleep, Promise!Sleep
  <2>5. QED
    BY <2>3, <2>4 DEF AbsStep, Promise!Next
<1>6. ASSUME NEW c \in Coroutines, NEW to \in {"chan", "in", "conn"}, Executes(c), Out(c, to),
             UNCHANGED left
      PROVE  AbsStep
  <2>1. to \in Status /\ AbsOf(to) = "blocked" /\ AbsOf(status[c]) = "running"
    BY <1>6, OnCpu DEF Status, AbsOf
  <2>2. Promise!Move(c, "running", "blocked")
    BY <1>6, <2>1, AbsMoves DEF Out
  <2>3. Promise!Block(c)
    BY <1>6, <2>2 DEF Promise!Block
  <2>4. QED
    BY <2>3 DEF AbsStep, Promise!Next
<1>7. ASSUME NEW c \in Coroutines, NEW h \in Chans, ChanWait(c, h) PROVE AbsStep
  BY <1>6, <1>7 DEF ChanWait, timeVars
<1>8. ASSUME NEW c \in Coroutines, NEW n \in Sockets, ReadWait(c, n) \/ ConnectWait(c, n)
      PROVE  AbsStep
  BY <1>6, <1>8 DEF ReadWait, ConnectWait, timeVars
<1>9. ASSUME NEW c \in Coroutines, Release(c) PROVE AbsStep
  <2>1. \A d \in Coroutines : d = m_del => status[d] = "done"
    BY <1>9, NoOneAssumption, OnCpu DEF Release
  <2>2. \A d \in Coroutines : status'[d] = IF d = m_del THEN "deleted" ELSE status[d]
    BY <1>9 DEF Release, Doomed
  <2>3. \A d \in Coroutines : AbsOf(status'[d]) = AbsOf(status[d])
    BY <2>1, <2>2 DEF AbsOf
  <2>4. UNCHANGED <<absStatus, left>>
    BY <1>9, <2>3, AbsStatus DEF Release, timeVars
  <2>5. QED
    BY <2>4 DEF AbsStep
<1>10. ASSUME NEW c \in Coroutines, Return(c) PROVE AbsStep
  <2>1. status[c] = "running"
    BY <1>10, Whereabouts DEF Return
  <2>2. "done" \in Status /\ AbsOf("done") = "unborn" /\ AbsOf(status[c]) = "running"
    BY <2>1 DEF Status, AbsOf
  <2>3. Promise!Move(c, "running", "unborn")
    BY <1>10, <2>2, AbsMoves DEF Return, Out
  <2>4. Promise!Finish(c)
    BY <1>10, <2>3 DEF Return, timeVars, Promise!Finish
  <2>5. QED
    BY <2>4 DEF AbsStep, Promise!Next
<1>11. QED
  BY <1>1, <1>2, <1>3, <1>4, <1>5, <1>7, <1>8, <1>9, <1>10 DEF Call, Yield

LEMMA AbsLoop ==
  ASSUME SafetyInv, WheelOnTime, Loop
  PROVE  AbsStep
<1>t. TypeOK /\ left \in [Coroutines -> 0..MaxSleep] /\ m_timeIndex \in Slots
  BY DEF SafetyInv, TypeOK
<1>1. ASSUME Tick PROVE AbsStep
  <2>1. NextSlot \in Slots
    BY <1>t, SlotsOfWheel
  <2>2. ASSUME NEW c \in Coroutines
        PROVE  InSlot(c, NextSlot) <=> status[c] = "asleep" /\ left[c] = 1
    <3>1. left[c] \in 0..MaxSleep
      BY <1>t
    <3>2. QED
      BY <2>1, <3>1, <1>t, MaxSleepAssumption, Whereabouts, OneTickNearer DEF WheelOnTime
  <2>3. ASSUME NEW c \in Coroutines
        PROVE  AbsOf(status'[c]) = IF AbsOf(status[c]) = "asleep" /\ left[c] = 1
                                   THEN "ready" ELSE AbsOf(status[c])
    <3>1. status'[c] = IF status[c] = "asleep" /\ left[c] = 1 THEN "ready" ELSE status[c]
      BY <1>1, <2>2 DEF Tick
    <3>2. QED
      BY <3>1 DEF AbsOf
  <2>4. ASSUME NEW c \in Coroutines
        PROVE  (IF left[c] > 0 THEN left[c] - 1 ELSE 0)
                 = IF AbsOf(status[c]) = "asleep" THEN left[c] - 1 ELSE left[c]
    <3>1. left[c] \in 0..MaxSleep
      BY <1>t
    <3>2. AbsOf(status[c]) = "asleep" <=> left[c] > 0
      BY DEF AbsOf, WheelOnTime
    <3>3. QED
      BY <3>1, <3>2
  <2>5. Promise!CpuFree
    BY <1>1, AbsCpuFree DEF Tick, LoopAt
  <2>6. absStatus' = [c \in Coroutines |-> IF absStatus[c] = "asleep" /\ left[c] = 1
                                           THEN "ready" ELSE absStatus[c]]
    BY <2>3, AbsStatus
  <2>7. left' = [c \in Coroutines |-> IF absStatus[c] = "asleep" THEN left[c] - 1 ELSE left[c]]
    BY <1>1, <2>4, AbsStatus DEF Tick
  <2>8. Promise!Tick
    BY <2>5, <2>6, <2>7 DEF Promise!Tick
  <2>9. QED
    BY <2>8 DEF AbsStep, Promise!Next
<1>2. CASE RunFunc
  <2>1. Head(m_funcs) \in Coroutines /\ status[Head(m_funcs)] = "ready"
    BY <1>2, <1>t, Whereabouts DEF RunFunc, TypeOK
  <2>2. QED
    BY <1>2, <2>1, AbsResume DEF RunFunc, LoopAt, timeVars
<1>3. CASE OnOut \/ OnIn
  <2> DEFINE n == Head(m_events).ptr
  <2>1. /\ n \in Sockets
        /\ m_connWait[n] \in Coroutines \cup {NoOne}
        /\ m_inWait[n] \in Coroutines \cup {NoOne}
    BY <1>3 DEF OnOut, OnIn, LoopAt, SafetyInv, HandlerAlive, TypeOK
  <2>2. /\ m_connWait[n] # NoOne => status[m_connWait[n]] = "conn"
        /\ m_inWait[n] # NoOne => status[m_inWait[n]] = "in"
    BY <2>1, Whereabouts
  <2>3. \/ In(m_connWait[n]) /\ m_connWait[n] # NoOne
        \/ In(m_inWait[n]) /\ m_inWait[n] # NoOne
        \/ UNCHANGED status
    BY <1>3 DEF OnOut, OnIn, ResumeWaiter
  <2>4. UNCHANGED left /\ running = NoOne
    BY <1>3 DEF OnOut, OnIn, timeVars, LoopAt
  <2>5. QED
    BY <2>1, <2>2, <2>3, <2>4, AbsResume, AbsStutter
<1>4. CASE Enter \/ OnTime \/ EndOnTime \/ EpollWait \/ TestOut \/ TestIn \/ EndWait
  BY <1>4, AbsStutter
     DEF Enter, OnTime, EndOnTime, EpollWait, TestOut, TestIn, EndWait, timeVars
<1>5. QED
  BY <1>1, <1>2, <1>3, <1>4 DEF Loop

(* Epoll implements Scheduling: to the author of a coroutine the queue,    *)
(* the timer wheel, the wait slots and the batch of events are at most one *)
(* coroutine on the CPU, one resumption for each wake, and sleeps that end *)
(* after exactly as many ticks as were asked for, MaxSleep at the most.    *)
THEOREM ImplementsScheduling == Spec => Implements
<1>1. Init => Promise!Init
  <2> SUFFICES ASSUME Init PROVE Promise!Init
    OBVIOUS
  <2>1. absStatus = [c \in Coroutines |-> "unborn"]
    BY AbsStatus DEF Init, AbsOf
  <2>2. QED
    BY <2>1 DEF Init, Promise!Init
<1>2. SafetyInv /\ WheelOnTime /\ [Next]_vars => [Promise!Next]_(Promise!vars)
  <2> SUFFICES ASSUME SafetyInv, WheelOnTime, [Next]_vars
               PROVE  [Promise!Next]_(Promise!vars)
    OBVIOUS
  <2>1. ASSUME ClockTick \/ UNCHANGED vars PROVE AbsStep
    BY <2>1, AbsStutter DEF ClockTick, vars, timeVars
  <2>2. AbsStep
    BY <2>1, AbsCalls, AbsLoop DEF Next
  <2>3. QED
    BY <2>2 DEF AbsStep, Promise!vars
<1>3. QED
  BY <1>1, <1>2, SafetyInvHolds, WheelOnTimeHolds, PTL DEF Spec, Implements, Promise!Spec

-----------------------------------------------------------------------------
(* What others can do to a coroutine that is not on the CPU.               *)

(* What c, not on the CPU, may see of a step: somebody wakes it.           *)
Rests(c) ==
  /\ status[c] \in {"ready", "running"} => status'[c] \in {"ready", "running"}
  /\ status[c] \in {"ready", "running", "asleep"} =>
       status'[c] \in {"ready", "running", "asleep"}
  /\ \A x \in {"chan", "in", "conn"} :
       /\ status[c] = x => status'[c] \in {x, "ready", "running"}
       /\ status'[c] = x => status[c] = x
  /\ status'[c] = "chan" => \A h \in Chans : m_wait[h] = c => m_wait'[h] = c
  /\ status'[c] = "in" => \A n \in Sockets : m_inWait[n] = c => m_inWait'[n] = c
  /\ status'[c] = "conn" => \A n \in Sockets : m_connWait[n] = c => m_connWait'[n] = c

LEMMA LoopRests ==
  ASSUME SafetyInv, NEW c \in Coroutines, Loop
  PROVE  Rests(c)
<1> USE NoOneAssumption DEF Rests
<1>t. TypeOK /\ status \in [Coroutines -> Status]
  BY DEF SafetyInv, TypeOK
<1>1. CASE Tick
  <2>1. NextSlot \in Slots
    BY <1>t, SlotsOfWheel DEF TypeOK
  <2>2. status'[c] = status[c] \/ (status'[c] = "ready" /\ status[c] = "asleep")
    BY <1>1, <2>1, Whereabouts DEF Tick
  <2>3. UNCHANGED <<m_connWait, m_inWait, m_wait>>
    BY <1>1 DEF Tick, waitVars
  <2>4. QED
    BY <2>2, <2>3
<1>2. CASE RunFunc
  <2>1. Head(m_funcs) = m_funcs[1] /\ 1 \in 1..Len(m_funcs) /\ Head(m_funcs) \in Coroutines
    BY <1>2, <1>t DEF RunFunc, TypeOK
  <2>2. status[Head(m_funcs)] = "ready"
    BY <2>1, Whereabouts
  <2>3. UNCHANGED <<m_connWait, m_inWait, m_wait>>
    BY <1>2 DEF RunFunc, waitVars
  <2>4. status'[c] = status[c] \/ (status'[c] = "running" /\ status[c] = "ready")
    BY <1>2, <1>t, <2>1, <2>2 DEF RunFunc, In
  <2>5. QED
    BY <2>3, <2>4
<1>3. CASE OnOut \/ OnIn
  <2> DEFINE n == Head(m_events).ptr
  <2>1. n \in Sockets /\ UNCHANGED m_wait
    BY <1>3, <1>t DEF OnOut, OnIn, LoopAt, SafetyInv, HandlerAlive, TypeOK
  <2>2. \/ /\ In(m_connWait[n]) /\ m_connWait[n] \in Coroutines
           /\ m_connWait' = Cleared(m_connWait, n) /\ UNCHANGED m_inWait
        \/ /\ In(m_inWait[n]) /\ m_inWait[n] \in Coroutines
           /\ m_inWait' = Cleared(m_inWait, n) /\ UNCHANGED m_connWait
        \/ /\ UNCHANGED status
           /\ \/ m_connWait[n] = NoOne /\ m_connWait' = Cleared(m_connWait, n)
                 /\ UNCHANGED m_inWait
              \/ m_inWait[n] = NoOne /\ m_inWait' = Cleared(m_inWait, n) /\ UNCHANGED m_connWait
    BY <1>3, <1>t, <2>1 DEF OnOut, OnIn, ResumeWaiter, TypeOK
  <2>3. CASE In(m_connWait[n]) /\ m_connWait[n] \in Coroutines
             /\ m_connWait' = Cleared(m_connWait, n) /\ UNCHANGED m_inWait
    <3>1. status[m_connWait[n]] = "conn"
      BY <2>1, <2>3, Whereabouts
    <3>2. QED
      BY <1>t, <2>1, <2>3, <3>1 DEF In, Cleared, TypeOK
  <2>4. CASE In(m_inWait[n]) /\ m_inWait[n] \in Coroutines
             /\ m_inWait' = Cleared(m_inWait, n) /\ UNCHANGED m_connWait
    <3>1. status[m_inWait[n]] = "in"
      BY <2>1, <2>4, Whereabouts
    <3>2. QED
      BY <1>t, <2>1, <2>4, <3>1 DEF In, Cleared, TypeOK
  <2>5. CASE UNCHANGED status /\ UNCHANGED m_inWait
             /\ m_connWait[n] = NoOne /\ m_connWait' = Cleared(m_connWait, n)
    BY <1>t, <2>1, <2>5 DEF Cleared, TypeOK
  <2>6. CASE UNCHANGED status /\ UNCHANGED m_connWait
             /\ m_inWait[n] = NoOne /\ m_inWait' = Cleared(m_inWait, n)
    BY <1>t, <2>1, <2>6 DEF Cleared, TypeOK
  <2>7. QED
    BY <2>2, <2>3, <2>4, <2>5, <2>6
<1>4. CASE Enter \/ OnTime \/ EndOnTime \/ EndWait \/ TestOut \/ TestIn \/ EpollWait
  BY <1>4 DEF Enter, OnTime, EndOnTime, EndWait, TestOut, TestIn, EpollWait, waitVars
<1>5. QED
  BY <1>1, <1>2, <1>3, <1>4 DEF Loop

(* Whoever is not on the CPU is at most woken, whatever the others do.     *)
LEMMA OthersRest ==
  ASSUME SafetyInv, NEW c \in Coroutines, running # c, [Next]_vars
  PROVE  Rests(c)
<1> USE NoOneAssumption DEF Rests
<1>t. /\ status \in [Coroutines -> Status]
      /\ m_wait \in [Chans -> Coroutines \cup {NoOne}]
      /\ m_inWait \in [Sockets -> Coroutines \cup {NoOne}]
      /\ m_connWait \in [Sockets -> Coroutines \cup {NoOne}]
  BY DEF SafetyInv, TypeOK
<1>1. ASSUME NEW d \in Coroutines, Go(d) PROVE Rests(c)
  BY <1>1, <1>t DEF Go, waitVars
<1>2. ASSUME NEW d \in Coroutines, NEW h \in Chans, ChanWake(d, h) PROVE Rests(c)
  <2>1. m_wait[h] \in Coroutines /\ status[m_wait[h]] = "chan"
    BY <1>2, <1>t, Whereabouts DEF ChanWake
  <2>2. QED
    BY <1>2, <1>t, <2>1 DEF ChanWake, Cleared
<1>3. ASSUME NEW d \in Coroutines, NEW n \in Sockets, Close(d, n) PROVE Rests(c)
  <2>1. \/ status'[c] = status[c] /\ m_connWait[n] # c
        \/ status'[c] = "ready" /\ status[c] \in {"in", "conn"}
    BY <1>3, Whereabouts DEF Close
  <2>2. QED
    BY <1>3, <1>t, <2>1 DEF Close, Cleared
<1>4. ASSUME NEW d \in Coroutines, NEW n \in Sockets, Open(d, n) PROVE Rests(c)
  BY <1>4 DEF Open, waitVars
<1>5. ASSUME NEW d \in Coroutines, NEW s \in SleepArgs, Sleep(d, s) PROVE Rests(c)
  BY <1>5, <1>t DEF Sleep, Out, Executes, waitVars
<1>6. ASSUME NEW d \in Coroutines, NEW h \in Chans, ChanWait(d, h) PROVE Rests(c)
  BY <1>6, <1>t DEF ChanWait, Out, Executes
<1>7. ASSUME NEW d \in Coroutines, NEW n \in Sockets, ReadWait(d, n) \/ ConnectWait(d, n)
      PROVE  Rests(c)
  BY <1>7, <1>t DEF ReadWait, ConnectWait, Out, Executes
<1>8. ASSUME NEW d \in Coroutines, Release(d) PROVE Rests(c)
  <2>1. status'[c] = status[c] \/ (status'[c] = "deleted" /\ status[c] = "done")
    <3>1. c = m_del => status[c] = "done"
      BY <1>8, OnCpu DEF Release
    <3>2. QED
      BY <1>8, <3>1 DEF Release, Doomed
  <2>2. QED
    BY <1>8, <2>1 DEF Release, waitVars
<1>9. ASSUME NEW d \in Coroutines, Return(d) PROVE Rests(c)
  BY <1>9, <1>t DEF Return, Out, waitVars
<1>10. CASE Loop
  BY <1>10, LoopRests
<1>11. CASE ClockTick \/ UNCHANGED vars
  BY <1>11 DEF ClockTick, vars, waitVars
<1>12. QED
  BY <1>1, <1>2, <1>3, <1>4, <1>5, <1>6, <1>7, <1>8, <1>9, <1>10, <1>11 DEF Next, Call, Yield
=============================================================================
