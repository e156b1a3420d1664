---------------------------- MODULE ProtoRPCProofs ----------------------------
(***************************************************************************)
(* Proofs about ProtoRPC for any number of callers, commands, sequence     *)
(* numbers and requests: callbacks and buffers stay exact, requests are    *)
(* written in order, and, as long as no number is used twice, every call   *)
(* returns once and with its own answer.                                   *)
(***************************************************************************)
EXTENDS ProtoRPC, SequenceTheorems, TLAPS

Outcomes == {"unset", "0", "EBADMSG", "ETIMEDOUT", "disconnected"}

-----------------------------------------------------------------------------
(* Keys and requests. *)

LEMMA KeyIsKey ==
  ASSUME NEW n \in Nat, NEW cmd \in Cmds
  PROVE  Key(n, cmd) \in Keys /\ Key(n, cmd).seq = n % SeqMod
<1>1. n % SeqMod \in 0..SeqMod-1
  BY NumbersAssumption
<1>2. QED
  BY <1>1 DEF Key, Keys

LEMMA ReqIsRequest ==
  ASSUME NEW n \in Numbers, NEW cmd \in Cmds, NEW c \in Callers \cup {NoOne}
  PROVE  /\ Req(n, cmd, c) \in Requests
         /\ Req(n, cmd, c).n = n /\ Req(n, cmd, c).by = c
BY DEF Req, Requests

(* What Send does with a request: it is written, or kept. *)
LEMMA SendEither ==
  ASSUME NEW r, Send(r)
  PROVE  \/ /\ m_psocket /\ wire' = wire \cup {r} /\ writes' = Append(writes, r)
            /\ m_msg' = m_msg
         \/ ~m_psocket /\ m_msg' = Append(m_msg, r) /\ wire' = wire /\ writes' = writes
BY DEF Send, Appended

LEMMA SendTypes ==
  ASSUME TypeOK, NEW r \in Requests, Send(r)
  PROVE  m_msg' \in Seq(Requests) /\ wire' \subseteq Requests /\ writes' \in Seq(Requests)
<1>1. Append(writes, r) \in Seq(Requests) /\ Append(m_msg, r) \in Seq(Requests)
  BY AppendProperties DEF TypeOK
<1>2. QED
  BY <1>1, SendEither, Zenon DEF TypeOK

(* The callbacks change what they should. *)
LEMMA CallBackTypes ==
  ASSUME TypeOK, NEW S, NEW err \in Outcomes, CallBack(S, err)
  PROVE  /\ pc' \in [Callers -> {"idle", "waiting", "woken"}]
         /\ retErr' \in [Callers -> Outcomes]
BY DEF TypeOK, CallBack, Outcomes

-----------------------------------------------------------------------------
(* Type correctness. *)

LEMMA TypeStep == TypeOK /\ [Next]_vars => TypeOK'
<1> SUFFICES ASSUME TypeOK, [Next]_vars PROVE TypeOK'
  OBVIOUS
<1> USE NumbersAssumption DEF Outcomes
<1>1. ASSUME NEW c \in Callers, NEW n \in Numbers, NEW cmd \in Cmds, Call(c, n, cmd)
      PROVE  TypeOK'
  <2>1. m_msg' \in Seq(Requests) /\ wire' \subseteq Requests /\ writes' \in Seq(Requests)
    BY <1>1, ReqIsRequest, SendTypes DEF Call
  <2>2. m_waitResp' \in [Keys -> Callers \cup {NoOne}]
    BY <1>1, KeyIsKey DEF Call, TypeOK, Numbers
  <2>3. n \in 0..MaxCalls /\ 0 \in 0..Timeout
    BY DEF Numbers
  <2>4. QED
    BY <1>1, <2>1, <2>2, <2>3 DEF Call, TypeOK
<1>2. ASSUME NEW n \in Numbers, NEW cmd \in Cmds, Post(n, cmd) PROVE TypeOK'
  <2>1. m_msg' \in Seq(Requests) /\ wire' \subseteq Requests /\ writes' \in Seq(Requests)
    BY <1>2, ReqIsRequest, SendTypes DEF Post
  <2>2. n \in 0..MaxCalls
    BY DEF Numbers
  <2>3. QED
    BY <1>2, <2>1, <2>2 DEF Post, TypeOK, callVars
<1>3. ASSUME NEW c \in Callers, Return(c) PROVE TypeOK'
  <2>1. 0 \in 0..Timeout /\ 0 \in 0..MaxCalls
    OBVIOUS
  <2>2. QED
    BY <1>3, <2>1 DEF Return, TypeOK, clientVars, netVars, historyVars
<1>4. CASE Connected
  <2>1. writes' \in Seq(Requests) /\ m_msg' \in Seq(Requests)
    BY <1>4, ConcatProperties, EmptySeq DEF Connected, TypeOK
  <2>2. wire' \subseteq Requests
    BY <1>4, ElementOfSeq DEF Connected, TypeOK
  <2>3. m_psocket' \in BOOLEAN
    BY <1>4, Zenon DEF Connected
  <2>4. QED
    BY <1>4, <2>1, <2>2, <2>3, Zenon DEF Connected, TypeOK, callVars
<1>5. CASE Disconnected
  <2>1. m_msg' \in Seq(Requests) /\ m_waitResp' \in [Keys -> Callers \cup {NoOne}]
    BY <1>5, EmptySeq DEF Disconnected, ClearedMsg
  <2>2. /\ pc' \in [Callers -> {"idle", "waiting", "woken"}]
        /\ retErr' \in [Callers -> Outcomes]
    BY <1>5, CallBackTypes DEF Disconnected
  <2>3. m_psocket' \in BOOLEAN
    BY <1>5, Zenon DEF Disconnected
  <2>4. QED
    BY <1>5, <2>1, <2>2, <2>3, Zenon DEF Disconnected, TypeOK, historyVars
<1>6. CASE Reconnect
  BY <1>6, Zenon DEF Reconnect, TypeOK, callVars, netVars, historyVars
<1>7. ASSUME NEW r \in answers, Drop(r) PROVE TypeOK'
  <2>1. answers' \subseteq Requests
    BY <1>7 DEF Drop, TypeOK
  <2>2. QED
    BY <1>7, <2>1, Zenon DEF Drop, TypeOK, clientVars, callVars, historyVars
<1>8. ASSUME NEW r \in answers, NEW parsed \in BOOLEAN, onProcess(r, parsed) PROVE TypeOK'
  <2>1. r.n \in 0..MaxCalls /\ answers' \subseteq Requests
    BY <1>8 DEF onProcess, TypeOK, Requests, Numbers
  <2>2. PICK k \in Found(r) :
          /\ CallBack({m_waitResp[k]}, IF parsed THEN "0" ELSE "EBADMSG")
          /\ rsp' = IF parsed THEN [rsp EXCEPT ![m_waitResp[k]] = r.n] ELSE rsp
          /\ m_waitResp' = [m_waitResp EXCEPT ![k] = NoOne]
    BY <1>8 DEF onProcess
  <2>3. rsp' \in [Callers -> 0..MaxCalls]
    BY <2>1, <2>2 DEF TypeOK
  <2>4. m_waitResp' \in [Keys -> Callers \cup {NoOne}]
    BY <2>2 DEF TypeOK, Found
  <2>5. /\ pc' \in [Callers -> {"idle", "waiting", "woken"}]
        /\ retErr' \in [Callers -> Outcomes]
    BY <2>2, CallBackTypes
  <2>6. QED
    BY <1>8, <2>1, <2>3, <2>4, <2>5, Zenon DEF onProcess, TypeOK, historyVars
<1>9. CASE doCheck
  <2>1. m_waitResp' \in [Keys -> Callers \cup {NoOne}]
    BY <1>9 DEF doCheck, TypeOK
  <2>2. /\ pc' \in [Callers -> {"idle", "waiting", "woken"}]
        /\ retErr' \in [Callers -> Outcomes]
    BY <1>9, CallBackTypes DEF doCheck
  <2>3. QED
    BY <1>9, <2>1, <2>2, Zenon DEF doCheck, TypeOK, netVars, historyVars
<1>10. CASE Tick
  <2>1. age' \in [Callers -> 0..Timeout]
    BY <1>10 DEF Tick, TypeOK
  <2>2. QED
    BY <1>10, <2>1, Zenon DEF Tick, TypeOK, clientVars, netVars, historyVars
<1>11. ASSUME NEW r \in wire, OnCmd(r) PROVE TypeOK'
  <2>1. /\ wire' \subseteq Requests /\ answers' \subseteq Requests
        /\ served' \subseteq Numbers
    BY <1>11 DEF OnCmd, TypeOK, Requests
  <2>2. QED
    BY <1>11, <2>1, Zenon DEF OnCmd, TypeOK, clientVars, callVars
<1>12. CASE UNCHANGED vars
  BY <1>12, Zenon DEF vars, TypeOK, clientVars, callVars, netVars, historyVars
<1>13. QED
  BY <1>1, <1>2, <1>3, <1>4, <1>5, <1>6, <1>7, <1>8, <1>9, <1>10, <1>11, <1>12 DEF Next, Working

(* The variables keep their types. *)
THEOREM TypeCorrect == Spec => []TypeOK
<1>1. Init => TypeOK
  <2>1. ASSUME Init PROVE 0 \in 0..MaxCalls /\ 0 \in 0..Timeout /\ <<>> \in Seq(Requests)
    BY NumbersAssumption, EmptySeq
  <2>2. QED
    BY <2>1, Zenon DEF Init, TypeOK
<1>2. QED
  BY <1>1, TypeStep, PTL DEF Spec

-----------------------------------------------------------------------------
(* Callbacks. *)

LEMMA FramesStep == TypeOK /\ FramesAlive /\ [Next]_vars => FramesAlive'
<1> SUFFICES ASSUME TypeOK, FramesAlive, [Next]_vars PROVE FramesAlive'
  OBVIOUS
<1> USE NoOneAssumption DEF FramesAlive
<1>t. /\ m_waitResp \in [Keys -> Callers \cup {NoOne}]
      /\ pc \in [Callers -> {"idle", "waiting", "woken"}]
  BY DEF TypeOK
<1>1. ASSUME NEW c \in Callers, NEW n \in Numbers, NEW cmd \in Cmds, Call(c, n, cmd)
      PROVE  FramesAlive'
  <2> DEFINE k == Key(n, cmd)
  <2>1. k \in Keys /\ m_waitResp[k] = NoOne /\ pc[c] = "idle"
    BY <1>1, KeyIsKey DEF Call, Draws, Numbers
  <2>2. m_waitResp' = [m_waitResp EXCEPT ![k] = c] /\ pc' = [pc EXCEPT ![c] = "waiting"]
    BY <1>1 DEF Call
  <2> HIDE DEF k
  <2>3. QED
    BY <1>t, <2>1, <2>2
<1>2. ASSUME NEW c \in Callers, Return(c) PROVE FramesAlive'
  BY <1>2, <1>t DEF Return, clientVars
<1>3. CASE Disconnected
  BY <1>3, <1>t DEF Disconnected, CallBack, Failed
<1>4. ASSUME NEW r \in answers, NEW parsed \in BOOLEAN, onProcess(r, parsed)
      PROVE  FramesAlive'
  <2>1. PICK k \in Keys :
          /\ m_waitResp[k] # NoOne
          /\ pc' = [c \in Callers |-> IF c = m_waitResp[k] THEN "woken" ELSE pc[c]]
          /\ m_waitResp' = [m_waitResp EXCEPT ![k] = NoOne]
    BY <1>4 DEF onProcess, CallBack, Found
  <2>2. QED
    BY <1>t, <2>1
<1>5. CASE doCheck
  <2>1. /\ pc' = [c \in Callers |-> IF c \in {m_waitResp[k] : k \in Due} THEN "woken" ELSE pc[c]]
        /\ m_waitResp' = [k \in Keys |-> IF k \in Due THEN NoOne ELSE m_waitResp[k]]
    BY <1>5 DEF doCheck, CallBack, Erased
  <2>2. Due \subseteq Keys
    BY DEF Due
  <2>3. QED
    BY <1>t, <2>1, <2>2
<1>6. CASE (\E n \in Numbers, cmd \in Cmds : Post(n, cmd)) \/ Connected \/ Reconnect \/ Tick
  BY <1>6 DEF Post, Connected, Reconnect, Tick, clientVars, callVars
<1>7. CASE (\E r \in answers : Drop(r)) \/ (\E r \in wire : OnCmd(r)) \/ UNCHANGED vars
  BY <1>7 DEF Drop, OnCmd, vars, clientVars, callVars
<1>8. QED
  BY <1>1, <1>2, <1>3, <1>4, <1>5, <1>6, <1>7 DEF Next, Working

(* Exactly those who wait have a callback registered, under one key, so no *)
(* callback outlives the frame that it writes to.                          *)
THEOREM FramesAliveHolds == Spec => []FramesAlive
<1>1. Init => FramesAlive
  BY NoOneAssumption DEF Init, FramesAlive
<1>2. QED
  BY <1>1, FramesStep, TypeCorrect, PTL DEF Spec

-----------------------------------------------------------------------------
(* Requests that wait for a connection. *)

LEMMA ByAppend ==
  ASSUME NEW q \in Seq(Requests), NEW r \in Requests, NEW c
  PROVE  (\E i \in 1..Len(Append(q, r)) : Append(q, r)[i].by = c)
            <=> r.by = c \/ \E i \in 1..Len(q) : q[i].by = c
<1>1. /\ Len(Append(q, r)) = Len(q) + 1 /\ Len(q) \in Nat
      /\ Append(q, r)[Len(q) + 1] = r
      /\ \A i \in 1..Len(q) : Append(q, r)[i] = q[i]
  BY AppendProperties, LenProperties
<1>2. QED
  BY <1>1

LEMMA BufferStep == TypeOK /\ FramesAlive /\ BufferExact /\ [Next]_vars => BufferExact'
<1> SUFFICES ASSUME TypeOK, FramesAlive, BufferExact, [Next]_vars PROVE BufferExact'
  OBVIOUS
<1> USE NoOneAssumption DEF BufferExact
<1>t. m_msg \in Seq(Requests) /\ pc \in [Callers -> {"idle", "waiting", "woken"}]
  BY DEF TypeOK
<1>1. ASSUME NEW c \in Callers, NEW n \in Numbers, NEW cmd \in Cmds, Call(c, n, cmd)
      PROVE  BufferExact'
  <2> DEFINE r == Req(n, cmd, c)
  <2>1. r \in Requests /\ r.by = c /\ Send(r)
    BY <1>1, ReqIsRequest DEF Call
  <2>2. /\ pc' = [pc EXCEPT ![c] = "waiting"]
        /\ UNCHANGED <<m_psocket, worker>>
    BY <1>1 DEF Call
  <2> HIDE DEF r
  <2>3. CASE m_psocket
    BY <2>1, <2>2, <2>3, SendEither
  <2>4. CASE ~m_psocket
    <3>1. m_msg' = Append(m_msg, r)
      BY <2>1, <2>4, SendEither
    <3>2. \A d \in Callers : (\E i \in 1..Len(m_msg') : m_msg'[i].by = d)
                               <=> r.by = d \/ \E i \in 1..Len(m_msg) : m_msg[i].by = d
      BY <1>t, <2>1, <3>1, ByAppend
    <3>3. QED
      BY <1>t, <2>1, <2>2, <2>4, <3>2
  <2>5. QED
    BY <2>3, <2>4
<1>2. ASSUME NEW n \in Numbers, NEW cmd \in Cmds, Post(n, cmd) PROVE BufferExact'
  <2> DEFINE r == Req(n, cmd, NoOne)
  <2>1. r \in Requests /\ r.by = NoOne /\ Send(r)
    BY <1>2, ReqIsRequest DEF Post
  <2>2. UNCHANGED <<pc, m_psocket, worker>>
    BY <1>2 DEF Post, callVars
  <2> HIDE DEF r
  <2>3. CASE m_psocket
    BY <2>1, <2>2, <2>3, SendEither
  <2>4. CASE ~m_psocket
    <3>1. m_msg' = Append(m_msg, r)
      BY <2>1, <2>4, SendEither
    <3>2. \A d \in Callers : (\E i \in 1..Len(m_msg') : m_msg'[i].by = d)
                               <=> r.by = d \/ \E i \in 1..Len(m_msg) : m_msg[i].by = d
      BY <1>t, <2>1, <3>1, ByAppend
    <3>3. QED
      BY <1>t, <2>1, <2>2, <2>4, <3>2
  <2>5. QED
    BY <2>3, <2>4
<1>3. ASSUME NEW c \in Callers, Return(c) PROVE BufferExact'
  BY <1>3, <1>t DEF Return, clientVars
<1>4. CASE Connected
  BY <1>4 DEF Connected
<1>5. CASE Disconnected
  <2>1. \A c \in Callers : pc'[c] # "waiting"
    BY <1>5, <1>t DEF Disconnected, CallBack, Failed, FramesAlive
  <2>2. m_msg' = <<>> /\ ~m_psocket' /\ worker' = "sleep"
    BY <1>5 DEF Disconnected, ClearedMsg
  <2>3. QED
    BY <2>1, <2>2
<1>6. CASE Reconnect
  BY <1>6 DEF Reconnect, callVars
<1>7. ASSUME NEW r \in answers, NEW parsed \in BOOLEAN, onProcess(r, parsed)
      PROVE  BufferExact'
  BY <1>7 DEF onProcess
<1>8. CASE doCheck
  BY <1>8 DEF doCheck
<1>9. CASE Tick \/ UNCHANGED vars
  BY <1>9 DEF Tick, vars, clientVars, callVars
<1>10. CASE (\E r \in answers : Drop(r)) \/ (\E r \in wire : OnCmd(r))
  BY <1>10 DEF Drop, OnCmd, clientVars, callVars
<1>11. QED
  BY <1>1, <1>2, <1>3, <1>4, <1>5, <1>6, <1>7, <1>8, <1>9, <1>10 DEF Next, Working

(* m_msg holds the requests of those who wait, and of nobody else, while   *)
(* there is no connection, and nothing while there is one.                 *)
THEOREM BufferExactHolds == Spec => []BufferExact
<1>1. Init => BufferExact
  BY DEF Init, BufferExact
<1>2. QED
  BY <1>1, BufferStep, TypeCorrect, FramesAliveHolds, PTL DEF Spec

-----------------------------------------------------------------------------
(* The order of the requests. *)

Increasing(q) == \A i, j \in 1..Len(q) : i < j => q[i].n < q[j].n
Upto(q, m) == \A i \in 1..Len(q) : q[i].n <= m
Before(p, q) == \A i \in 1..Len(p), j \in 1..Len(q) : p[i].n < q[j].n

(* What is written, and behind it what waits, in the order of the numbers. *)
Ordered ==
  /\ Increasing(writes) /\ Increasing(m_msg) /\ Before(writes, m_msg)
  /\ Upto(writes, m_reqSeq) /\ Upto(m_msg, m_reqSeq)

LEMMA RequestNumbers ==
  ASSUME NEW q \in Seq(Requests)
  PROVE  Len(q) \in Nat /\ \A i \in 1..Len(q) : q[i].n \in Nat
<1>1. Len(q) \in Nat /\ \A i \in 1..Len(q) : q[i] \in Requests
  BY ElementOfSeq, LenProperties
<1>2. \A r \in Requests : r.n \in Nat
  BY NumbersAssumption DEF Requests, Numbers
<1>3. QED
  BY <1>1, <1>2

LEMMA OrderedAppend ==
  ASSUME NEW q \in Seq(Requests), NEW r \in Requests, NEW m \in Nat,
         m < r.n, Increasing(q), Upto(q, m)
  PROVE  Increasing(Append(q, r)) /\ Upto(Append(q, r), r.n)
<1>1. /\ Len(Append(q, r)) = Len(q) + 1
      /\ Append(q, r)[Len(q) + 1] = r
      /\ \A i \in 1..Len(q) : Append(q, r)[i] = q[i]
  BY AppendProperties, LenProperties
<1>2. r.n \in Nat
  BY DEF Requests, Numbers
<1>3. QED
  BY <1>1, <1>2, RequestNumbers DEF Increasing, Upto

LEMMA BeforeAppend ==
  ASSUME NEW p \in Seq(Requests), NEW q \in Seq(Requests), NEW r \in Requests, NEW m \in Nat,
         m < r.n, Before(p, q), Upto(p, m)
  PROVE  Before(p, Append(q, r))
<1>1. /\ Len(Append(q, r)) = Len(q) + 1
      /\ Append(q, r)[Len(q) + 1] = r
      /\ \A i \in 1..Len(q) : Append(q, r)[i] = q[i]
  BY AppendProperties, LenProperties
<1>2. r.n \in Nat
  BY DEF Requests, Numbers
<1>3. QED
  BY <1>1, <1>2, RequestNumbers DEF Before, Upto

LEMMA OrderedConcat ==
  ASSUME NEW p \in Seq(Requests), NEW q \in Seq(Requests), NEW m \in Nat,
         Increasing(p), Increasing(q), Before(p, q), Upto(p, m), Upto(q, m)
  PROVE  Increasing(p \o q) /\ Upto(p \o q, m)
<1>1. /\ Len(p \o q) = Len(p) + Len(q) /\ Len(p) \in Nat /\ Len(q) \in Nat
      /\ \A i \in 1..Len(p)+Len(q) :
           (p \o q)[i] = IF i <= Len(p) THEN p[i] ELSE q[i - Len(p)]
  BY ConcatProperties, LenProperties
<1>2. \A i \in 1..Len(p)+Len(q) : i \in 1..Len(p) \/ i - Len(p) \in 1..Len(q)
  BY <1>1
<1>3. Upto(p \o q, m)
  BY <1>1, <1>2 DEF Upto
<1>4. ASSUME NEW i \in 1..Len(p \o q), NEW j \in 1..Len(p \o q), i < j
      PROVE  (p \o q)[i].n < (p \o q)[j].n
  <2>1. CASE j <= Len(p)
    BY <1>1, <1>4, <2>1 DEF Increasing
  <2>2. CASE i <= Len(p) /\ ~(j <= Len(p))
    BY <1>1, <1>2, <1>4, <2>2 DEF Before
  <2>3. CASE ~(i <= Len(p))
    <3>1. i - Len(p) \in 1..Len(q) /\ j - Len(p) \in 1..Len(q) /\ i - Len(p) < j - Len(p)
      BY <1>1, <1>4, <2>3
    <3>2. (p \o q)[i] = q[i - Len(p)] /\ (p \o q)[j] = q[j - Len(p)]
      BY <1>1, <1>4, <2>3
    <3>3. QED
      BY <3>1, <3>2 DEF Increasing
  <2>4. QED
    BY <2>1, <2>2, <2>3
<1>5. QED
  BY <1>3, <1>4 DEF Increasing

LEMMA OrderedSend ==
  ASSUME TypeOK, Ordered, BufferExact, NEW r \in Requests, m_reqSeq < r.n, m_reqSeq' = r.n, Send(r)
  PROVE  Ordered'
<1>t. m_msg \in Seq(Requests) /\ writes \in Seq(Requests) /\ m_reqSeq \in Nat /\ r.n \in Nat
  BY NumbersAssumption DEF TypeOK, Requests, Numbers
<1>1. CASE m_psocket
  <2>1. writes' = Append(writes, r) /\ m_msg' = <<>>
    BY <1>1, SendEither DEF BufferExact
  <2>2. Increasing(Append(writes, r)) /\ Upto(Append(writes, r), r.n)
    BY <1>t, OrderedAppend DEF Ordered
  <2>3. QED
    BY <2>1, <2>2 DEF Ordered, Increasing, Upto, Before
<1>2. CASE ~m_psocket
  <2>1. m_msg' = Append(m_msg, r) /\ writes' = writes
    BY <1>2, SendEither
  <2>2. Increasing(Append(m_msg, r)) /\ Upto(Append(m_msg, r), r.n)
    BY <1>t, OrderedAppend DEF Ordered
  <2>3. Before(writes, Append(m_msg, r))
    BY <1>t, BeforeAppend DEF Ordered
  <2>4. Upto(writes, r.n)
    BY <1>t, RequestNumbers DEF Ordered, Upto
  <2>5. QED
    BY <2>1, <2>2, <2>3, <2>4 DEF Ordered
<1>3. QED
  BY <1>1, <1>2

LEMMA OrderedStep == TypeOK /\ BufferExact /\ Ordered /\ [Next]_vars => Ordered'
<1> SUFFICES ASSUME TypeOK, BufferExact, Ordered, [Next]_vars PROVE Ordered'
  OBVIOUS
<1>t. m_msg \in Seq(Requests) /\ writes \in Seq(Requests) /\ m_reqSeq \in Nat
  BY NumbersAssumption DEF TypeOK
<1>1. ASSUME NEW c \in Callers, NEW n \in Numbers, NEW cmd \in Cmds, Call(c, n, cmd)
      PROVE  Ordered'
  <2>1. /\ Req(n, cmd, c) \in Requests /\ Req(n, cmd, c).n = n
    BY ReqIsRequest
  <2>2. m_reqSeq < n /\ m_reqSeq' = n /\ Send(Req(n, cmd, c))
    BY <1>1, <1>t DEF Call, Draws, Numbers
  <2>3. QED
    BY <2>1, <2>2, OrderedSend
<1>2. ASSUME NEW n \in Numbers, NEW cmd \in Cmds, Post(n, cmd) PROVE Ordered'
  <2>1. /\ Req(n, cmd, NoOne) \in Requests /\ Req(n, cmd, NoOne).n = n
    BY ReqIsRequest
  <2>2. m_reqSeq < n /\ m_reqSeq' = n /\ Send(Req(n, cmd, NoOne))
    BY <1>2, <1>t DEF Post, Numbers
  <2>3. QED
    BY <2>1, <2>2, OrderedSend
<1>3. CASE Connected
  <2>1. Increasing(writes \o m_msg) /\ Upto(writes \o m_msg, m_reqSeq)
    BY <1>t, OrderedConcat DEF Ordered
  <2>2. writes' = writes \o m_msg /\ m_msg' = <<>> /\ m_reqSeq' = m_reqSeq
    BY <1>3 DEF Connected
  <2>3. Increasing(<<>>) /\ Before(writes \o m_msg, <<>>) /\ Upto(<<>>, m_reqSeq)
    BY DEF Increasing, Upto, Before
  <2>4. QED
    BY <2>1, <2>2, <2>3, Zenon DEF Ordered
<1>4. CASE Disconnected
  <2>1. m_msg' = <<>> /\ UNCHANGED <<writes, m_reqSeq>>
    BY <1>4 DEF Disconnected, ClearedMsg, historyVars
  <2>2. QED
    BY <2>1 DEF Ordered, Increasing, Upto, Before
<1>5. ASSUME UNCHANGED <<writes, m_msg, m_reqSeq>> PROVE Ordered'
  BY <1>5 DEF Ordered
<1>6. CASE (\E c \in Callers : Return(c)) \/ Reconnect \/ doCheck \/ Tick \/ UNCHANGED vars
  BY <1>5, <1>6 DEF Return, Reconnect, doCheck, Tick, vars, clientVars, historyVars
<1>7. CASE \/ \E r \in answers : Drop(r) \/ \E parsed \in BOOLEAN : onProcess(r, parsed)
           \/ \E r \in wire : OnCmd(r)
  BY <1>5, <1>7 DEF Drop, onProcess, OnCmd, clientVars, historyVars
<1>8. QED
  BY <1>1, <1>2, <1>3, <1>4, <1>6, <1>7 DEF Next, Working

LEMMA OrderedHolds == Spec => []Ordered
<1>1. Init => Ordered
  BY DEF Init, Ordered, Increasing, Upto, Before
<1>2. QED
  BY <1>1, OrderedStep, TypeCorrect, BufferExactHolds, PTL DEF Spec

(* Requests go out in the order of the calls, each at most once. *)
THEOREM SentInOrderHolds == Spec => []SentInOrder
<1>1. Ordered => SentInOrder
  BY DEF Ordered, Increasing, SentInOrder
<1>2. QED
  BY <1>1, OrderedHolds, PTL

-----------------------------------------------------------------------------
(* Calls, requests on their way and answers on theirs, with as many        *)
(* sequence numbers as there are requests.                                 *)

LEMMA ModSmall ==
  ASSUME NEW m \in Nat \ {0}, NEW n \in 0..m-1
  PROVE  n % m = n
OBVIOUS

(* What the fields of a call tell of one another. *)
Calls ==
  /\ \A c \in Callers : /\ pc[c] = "idle" <=> request[c] = 0
                        /\ pc[c] = "woken" <=> retErr[c] # "unset"
                        /\ request[c] <= m_reqSeq
  /\ \A k \in Keys : m_waitResp[k] # NoOne => k.seq = request[m_waitResp[k]] % SeqMod

(* A request is in one place until it is served, and served once. *)
Flights ==
  /\ served \subseteq 0..m_reqSeq
  /\ \A r \in wire : r.n \notin served /\ r.n <= m_reqSeq
  /\ \A r, s \in wire : r.n = s.n => r = s
  /\ \A r \in answers : r.n \in served
  /\ ~m_psocket => wire = {} /\ answers = {}
  /\ \A i \in 1..Len(m_msg) : m_msg[i].n \notin served

LEMMA CallsStep == TypeOK /\ FramesAlive /\ Calls /\ [Next]_vars => Calls'
<1> SUFFICES ASSUME TypeOK, FramesAlive, Calls, [Next]_vars PROVE Calls'
  OBVIOUS
<1> USE NoOneAssumption DEF Calls
<1>t. /\ m_waitResp \in [Keys -> Callers \cup {NoOne}]
      /\ pc \in [Callers -> {"idle", "waiting", "woken"}]
      /\ request \in [Callers -> 0..MaxCalls]
      /\ retErr \in [Callers -> Outcomes]
      /\ m_reqSeq \in 0..MaxCalls /\ MaxCalls \in Nat
  BY NumbersAssumption DEF TypeOK, Outcomes
<1>w. \A k \in Keys : m_waitResp[k] # NoOne =>
        m_waitResp[k] \in Callers /\ pc[m_waitResp[k]] = "waiting"
  BY <1>t DEF FramesAlive
<1>1. ASSUME NEW c \in Callers, NEW n \in Numbers, NEW cmd \in Cmds, Call(c, n, cmd)
      PROVE  Calls'
  <2> DEFINE k == Key(n, cmd)
  <2>1. k \in Keys /\ k.seq = n % SeqMod /\ n \in 1..MaxCalls /\ n > m_reqSeq
    BY <1>1, KeyIsKey DEF Call, Draws, Numbers
  <2>2. /\ m_waitResp' = [m_waitResp EXCEPT ![k] = c]
        /\ pc' = [pc EXCEPT ![c] = "waiting"]
        /\ request' = [request EXCEPT ![c] = n]
        /\ m_reqSeq' = n /\ retErr' = retErr /\ pc[c] = "idle"
    BY <1>1 DEF Call
  <2> HIDE DEF k
  <2>3. \A j \in Keys : m_waitResp[j] # c
    BY <1>w, <2>2
  <2>4. \A d \in Callers : request'[d] = IF d = c THEN n ELSE request[d]
    BY <1>t, <2>2
  <2>5. \A j \in Keys : m_waitResp'[j] # NoOne => j.seq = request'[m_waitResp'[j]] % SeqMod
    BY <1>t, <1>w, <2>1, <2>2, <2>3, <2>4
  <2>6. \A d \in Callers : /\ pc'[d] = "idle" <=> request'[d] = 0
                           /\ request'[d] <= m_reqSeq'
    BY <1>t, <2>1, <2>2, <2>4
  <2>7. \A d \in Callers : pc'[d] = "woken" <=> retErr'[d] # "unset"
    BY <1>t, <2>2
  <2>8. QED
    BY <2>5, <2>6, <2>7
<1>2. ASSUME NEW n \in Numbers, NEW cmd \in Cmds, Post(n, cmd) PROVE Calls'
  <2>1. m_reqSeq' = m_reqSeq + 1 /\ UNCHANGED <<m_waitResp, pc, request, retErr>>
    BY <1>2 DEF Post, callVars
  <2>2. \A d \in Callers : request[d] <= m_reqSeq + 1
    BY <1>t
  <2>3. QED
    BY <2>1, <2>2
<1>3. ASSUME NEW c \in Callers, Return(c) PROVE Calls'
  <2>1. \A k \in Keys : m_waitResp[k] # c
    BY <1>3, <1>w DEF Return
  <2>2. /\ pc' = [pc EXCEPT ![c] = "idle"] /\ request' = [request EXCEPT ![c] = 0]
        /\ retErr' = [retErr EXCEPT ![c] = "unset"] /\ UNCHANGED <<m_waitResp, m_reqSeq>>
    BY <1>3 DEF Return, clientVars
  <2>3. QED
    BY <1>t, <1>w, <2>1, <2>2
<1>4. ASSUME NEW S \in SUBSET {c \in Callers : pc[c] = "waiting"}, NEW err \in Outcomes \ {"unset"},
             CallBack(S, err), UNCHANGED <<request, m_reqSeq>>,
             \A k \in Keys : m_waitResp'[k] \in {m_waitResp[k], NoOne}
      PROVE  Calls'
  BY <1>t, <1>4 DEF CallBack, Outcomes
<1>5. CASE Disconnected
  <2>1. Failed \in SUBSET {c \in Callers : pc[c] = "waiting"}
    BY <1>w DEF Failed
  <2>2. QED
    BY <1>4, <1>5, <2>1 DEF Disconnected, Outcomes
<1>6. ASSUME NEW r \in answers, NEW parsed \in BOOLEAN, onProcess(r, parsed)
      PROVE  Calls'
  <2>1. PICK k \in Found(r) : /\ CallBack({m_waitResp[k]}, IF parsed THEN "0" ELSE "EBADMSG")
                              /\ m_waitResp' = [m_waitResp EXCEPT ![k] = NoOne]
    BY <1>6 DEF onProcess
  <2>2. {m_waitResp[k]} \in SUBSET {c \in Callers : pc[c] = "waiting"}
    BY <1>w DEF Found
  <2>3. \A j \in Keys : m_waitResp'[j] \in {m_waitResp[j], NoOne}
    BY <1>t, <2>1
  <2>4. UNCHANGED <<request, m_reqSeq>>
    BY <1>6 DEF onProcess
  <2>5. QED
    BY <1>4, <2>1, <2>2, <2>3, <2>4 DEF Outcomes
<1>7. CASE doCheck
  <2>1. {m_waitResp[k] : k \in Due} \in SUBSET {c \in Callers : pc[c] = "waiting"}
    BY <1>w DEF Due
  <2>2. \A j \in Keys : m_waitResp'[j] \in {m_waitResp[j], NoOne}
    BY <1>7 DEF doCheck
  <2>3. QED
    BY <1>4, <1>7, <2>1, <2>2 DEF doCheck, Outcomes
<1>8. CASE Connected \/ Reconnect \/ Tick \/ UNCHANGED vars
  BY <1>8 DEF Connected, Reconnect, Tick, vars, clientVars, callVars
<1>9. CASE (\E r \in answers : Drop(r)) \/ (\E r \in wire : OnCmd(r))
  BY <1>9 DEF Drop, OnCmd, clientVars, callVars
<1>10. QED
  BY <1>1, <1>2, <1>3, <1>5, <1>6, <1>7, <1>8, <1>9 DEF Next, Working

LEMMA FlightsSend ==
  ASSUME TypeOK, BufferExact, Flights, NEW r \in Requests, m_reqSeq < r.n, m_reqSeq' = r.n,
         Send(r), UNCHANGED <<m_psocket, answers, served>>
  PROVE  Flights'
<1>t. /\ m_msg \in Seq(Requests) /\ m_reqSeq \in Nat /\ r.n \in Nat
      /\ \A x \in wire : x.n \in Nat
  BY NumbersAssumption DEF TypeOK, Requests, Numbers
<1>1. r.n \notin served /\ served \subseteq 0..r.n
  BY <1>t DEF Flights
<1>2. CASE m_psocket
  <2>1. wire' = wire \cup {r} /\ m_msg' = m_msg
    BY <1>2, SendEither
  <2>2. \A x \in wire : x.n # r.n /\ x.n <= r.n
    BY <1>t DEF Flights
  <2>3. QED
    BY <1>1, <1>2, <1>t, <2>1, <2>2 DEF Flights
<1>3. CASE ~m_psocket
  <2>1. wire' = wire /\ m_msg' = Append(m_msg, r) /\ wire = {}
    BY <1>3, SendEither DEF Flights
  <2>2. /\ Len(Append(m_msg, r)) = Len(m_msg) + 1 /\ Len(m_msg) \in Nat
        /\ Append(m_msg, r)[Len(m_msg) + 1] = r
        /\ \A i \in 1..Len(m_msg) : Append(m_msg, r)[i] = m_msg[i]
    BY <1>t, AppendProperties, LenProperties
  <2>3. \A i \in 1..Len(m_msg') : m_msg'[i].n \notin served
    BY <1>1, <2>1, <2>2 DEF Flights
  <2>4. QED
    BY <1>1, <2>1, <2>3 DEF Flights
<1>4. QED
  BY <1>2, <1>3

LEMMA FlightsStep == TypeOK /\ BufferExact /\ Ordered /\ Flights /\ [Next]_vars => Flights'
<1> SUFFICES ASSUME TypeOK, BufferExact, Ordered, Flights, [Next]_vars PROVE Flights'
  OBVIOUS
<1>t. m_msg \in Seq(Requests) /\ m_reqSeq \in Nat
  BY NumbersAssumption DEF TypeOK
<1>1. ASSUME NEW c \in Callers, NEW n \in Numbers, NEW cmd \in Cmds, Call(c, n, cmd)
      PROVE  Flights'
  <2>1. /\ Req(n, cmd, c) \in Requests /\ Req(n, cmd, c).n = n
    BY ReqIsRequest
  <2>2. /\ m_reqSeq < n /\ m_reqSeq' = n /\ Send(Req(n, cmd, c))
        /\ UNCHANGED <<m_psocket, answers, served>>
    BY <1>1, <1>t DEF Call, Draws, Numbers
  <2>3. QED
    BY <2>1, <2>2, FlightsSend
<1>2. ASSUME NEW n \in Numbers, NEW cmd \in Cmds, Post(n, cmd) PROVE Flights'
  <2>1. /\ Req(n, cmd, NoOne) \in Requests /\ Req(n, cmd, NoOne).n = n
    BY ReqIsRequest
  <2>2. /\ m_reqSeq < n /\ m_reqSeq' = n /\ Send(Req(n, cmd, NoOne))
        /\ UNCHANGED <<m_psocket, answers, served>>
    BY <1>2, <1>t DEF Post, Numbers
  <2>3. QED
    BY <2>1, <2>2, FlightsSend
<1>3. CASE Connected
  <2>1. /\ wire' = {m_msg[i] : i \in 1..Len(m_msg)} /\ m_msg' = <<>> /\ m_psocket'
        /\ UNCHANGED <<m_reqSeq, answers, served>>
    BY <1>3 DEF Connected
  <2>2. \A i, j \in 1..Len(m_msg) : m_msg[i].n = m_msg[j].n => i = j
    <3>1. Len(m_msg) \in Nat /\ \A i \in 1..Len(m_msg) : m_msg[i].n \in Nat
      BY <1>t, RequestNumbers
    <3>2. QED
      BY <3>1 DEF Ordered, Increasing
  <2>3. \A r \in wire' : r.n \notin served /\ r.n <= m_reqSeq
    BY <2>1 DEF Flights, Ordered, Upto
  <2>4. \A r, s \in wire' : r.n = s.n => r = s
    BY <2>1, <2>2
  <2>5. \A i \in 1..Len(m_msg') : m_msg'[i].n \notin served
    BY <2>1
  <2>6. QED
    BY <2>1, <2>3, <2>4, <2>5, Zenon DEF Flights
<1>4. CASE Disconnected
  <2>1. wire' = {} /\ answers' = {} /\ m_msg' = <<>> /\ UNCHANGED <<m_reqSeq, served>>
    BY <1>4 DEF Disconnected, ClearedMsg, historyVars
  <2>2. \A i \in 1..Len(m_msg') : m_msg'[i].n \notin served
    BY <2>1
  <2>3. QED
    BY <2>1, <2>2, Zenon DEF Flights
<1>5. ASSUME UNCHANGED <<wire, served, m_reqSeq, m_psocket, m_msg>>, answers' \subseteq answers
      PROVE  Flights'
  BY <1>5 DEF Flights
<1>6. CASE (\E c \in Callers : Return(c)) \/ Reconnect \/ doCheck \/ Tick \/ UNCHANGED vars
  BY <1>5, <1>6 DEF Return, Reconnect, doCheck, Tick, vars, clientVars, netVars, historyVars
<1>7. ASSUME NEW r \in answers, Drop(r) \/ \E parsed \in BOOLEAN : onProcess(r, parsed)
      PROVE  Flights'
  BY <1>5, <1>7 DEF Drop, onProcess, clientVars, historyVars
<1>8. ASSUME NEW r \in wire, OnCmd(r) PROVE Flights'
  <2>1. m_psocket /\ m_msg = <<>>
    BY <1>8 DEF Flights, BufferExact
  <2>2. /\ wire' = wire \ {r} /\ answers' = answers \cup {r} /\ served' = served \cup {r.n}
        /\ UNCHANGED <<m_reqSeq, m_psocket, m_msg>>
    BY <1>8 DEF OnCmd, clientVars
  <2>3. r.n \in 0..m_reqSeq
    BY <1>8, <1>t DEF Flights, TypeOK, Requests, Numbers
  <2>4. \A x \in wire' : x.n \notin served' /\ x.n <= m_reqSeq
    BY <1>8, <2>2 DEF Flights
  <2>5. \A i \in 1..Len(m_msg') : m_msg'[i].n \notin served'
    BY <2>1, <2>2
  <2>6. QED
    BY <2>1, <2>2, <2>3, <2>4, <2>5, Zenon DEF Flights
<1>9. QED
  BY <1>1, <1>2, <1>3, <1>4, <1>6, <1>7, <1>8 DEF Next, Working

RpcInv == TypeOK /\ FramesAlive /\ BufferExact /\ Ordered /\ Calls /\ Flights

LEMMA RpcInvHolds == Spec => []RpcInv
<1>1. Init => Calls /\ Flights
  <2> SUFFICES ASSUME Init PROVE Calls /\ Flights
    OBVIOUS
  <2>1. Calls
    BY NoOneAssumption DEF Init, Calls
  <2>2. Flights
    BY DEF Init, Flights
  <2>3. QED
    BY <2>1, <2>2
<1>2. RpcInv /\ [Next]_vars => (Calls /\ Flights)'
  BY CallsStep, FlightsStep DEF RpcInv
<1>3. QED
  BY <1>1, <1>2, TypeCorrect, FramesAliveHolds, BufferExactHolds, OrderedHolds, PTL DEF Spec, RpcInv

-----------------------------------------------------------------------------
(* ProtoRPC implements RemoteCalls. *)

LEMMA OutcomeOf ==
  ASSUME TypeOK, NEW c \in Callers
  PROVE  /\ absOutcome[c] = "unset" <=> retErr[c] = "unset"
         /\ absOutcome[c] = "ok" <=> retErr[c] = "0"
         /\ absOutcome[c] \in {"unset", "ok", "error"}
BY DEF TypeOK, absOutcome

(* A caller that waits has an open call. *)
LEMMA WaitingOpen ==
  ASSUME RpcInv, NEW c \in Callers, pc[c] = "waiting"
  PROVE  Promise!Open(c)
BY OutcomeOf DEF RpcInv, Calls, Promise!Open

(* Callbacks with an error are failures, with none a success. *)
LEMMA CallBackFails ==
  ASSUME RpcInv, NEW S \in SUBSET {c \in Callers : pc[c] = "waiting"},
         NEW err \in Outcomes \ {"unset", "0"}, CallBack(S, err),
         UNCHANGED <<request, rsp, m_reqSeq, served>>
  PROVE  Promise!Next
<1>1. absOutcome' = [c \in Callers |-> IF c \in S THEN "error" ELSE absOutcome[c]]
  BY DEF CallBack, absOutcome, Outcomes
<1>2. \A c \in S : Promise!Open(c)
  BY WaitingOpen
<1>3. Promise!Fail(S) /\ S \in SUBSET Callers
  BY <1>1, <1>2 DEF Promise!Fail
<1>4. QED
  BY <1>3 DEF Promise!Next

(* Every step of the client, the network and the server is a step of       *)
(* RemoteCalls or changes nothing of it.                                   *)
LEMMA StepImplements ==
  ASSUME SeqMod > MaxCalls, RpcInv, [Next]_vars
  PROVE  [Promise!Next]_Promise!vars
<1> DEFINE Still == UNCHANGED <<request, retErr, rsp, m_reqSeq, served>>
<1>0. Still => UNCHANGED Promise!vars
  BY DEF Promise!vars, absOutcome
<1>t. /\ TypeOK
      /\ m_waitResp \in [Keys -> Callers \cup {NoOne}]
      /\ m_reqSeq \in 0..MaxCalls /\ MaxCalls \in Nat
  BY NumbersAssumption DEF RpcInv, TypeOK
<1>w. \A k \in Keys : m_waitResp[k] # NoOne =>
        m_waitResp[k] \in Callers /\ pc[m_waitResp[k]] = "waiting"
  BY <1>t DEF RpcInv, FramesAlive
<1>1. ASSUME NEW c \in Callers, NEW n \in Numbers, NEW cmd \in Cmds, Call(c, n, cmd)
      PROVE  [Promise!Next]_Promise!vars
  <2>1. request[c] = 0 /\ n > m_reqSeq
    BY <1>1 DEF Call, Draws, RpcInv, Calls
  <2>2. /\ request' = [request EXCEPT ![c] = n] /\ m_reqSeq' = n
        /\ UNCHANGED <<retErr, rsp, served>>
    BY <1>1 DEF Call
  <2>3. absOutcome' = absOutcome
    BY <2>2 DEF absOutcome
  <2>4. Promise!Ask(c, n)
    BY <2>1, <2>2, <2>3 DEF Promise!Ask
  <2>5. QED
    BY <2>4 DEF Promise!Next
<1>2. ASSUME NEW n \in Numbers, NEW cmd \in Cmds, Post(n, cmd) PROVE [Promise!Next]_Promise!vars
  <2>1. n > m_reqSeq /\ m_reqSeq' = n /\ UNCHANGED <<request, retErr, rsp, served>>
    BY <1>2, <1>t DEF Post, callVars
  <2>2. absOutcome' = absOutcome
    BY <2>1 DEF absOutcome
  <2>3. Promise!Post(n)
    BY <2>1, <2>2 DEF Promise!Post
  <2>4. QED
    BY <2>3 DEF Promise!Next
<1>3. ASSUME NEW c \in Callers, Return(c) PROVE [Promise!Next]_Promise!vars
  <2>1. absOutcome[c] # "unset"
    BY <1>3, <1>t, OutcomeOf DEF Return, RpcInv, Calls
  <2>2. /\ request' = [request EXCEPT ![c] = 0] /\ retErr' = [retErr EXCEPT ![c] = "unset"]
        /\ rsp' = [rsp EXCEPT ![c] = 0] /\ UNCHANGED <<m_reqSeq, served>>
    BY <1>3 DEF Return, clientVars, historyVars
  <2>3. absOutcome' = [absOutcome EXCEPT ![c] = "unset"]
    <3>1. retErr \in [Callers -> Outcomes]
      BY <1>t DEF TypeOK, Outcomes
    <3>2. QED
      BY <2>2, <3>1 DEF absOutcome
  <2>4. Promise!Return(c)
    BY <2>1, <2>2, <2>3 DEF Promise!Return
  <2>5. QED
    BY <2>4 DEF Promise!Next
<1>4. CASE Disconnected
  <2>1. Failed \in SUBSET {c \in Callers : pc[c] = "waiting"}
    BY <1>w, NoOneAssumption DEF Failed
  <2>2. Promise!Next
    BY <1>4, <2>1, CallBackFails DEF Disconnected, Outcomes, historyVars
  <2>3. QED
    BY <2>2
<1>5. ASSUME NEW r \in answers, onProcess(r, TRUE) PROVE [Promise!Next]_Promise!vars
  <2>1. PICK k \in Found(r) : /\ CallBack({m_waitResp[k]}, "0")
                              /\ rsp' = [rsp EXCEPT ![m_waitResp[k]] = r.n]
    BY <1>5 DEF onProcess
  <2> DEFINE c == m_waitResp[k]
  <2>2. k \in Keys /\ k = Key(r.n, r.cmd) /\ c # NoOne /\ c \in Callers /\ pc[c] = "waiting"
    BY <2>1, <1>w DEF Found
  <2>3. r.n = request[c] /\ r.n \in served
    <3>1. k.seq = r.n % SeqMod /\ k.seq = request[c] % SeqMod
      BY <2>2 DEF Key, RpcInv, Calls
    <3>2. r.n \in 0..SeqMod-1 /\ request[c] \in 0..SeqMod-1 /\ SeqMod \in Nat \ {0}
      BY <1>5, <1>t, <2>2, NumbersAssumption DEF TypeOK, Requests, Numbers
    <3>3. QED
      BY <1>5, <3>1, <3>2, ModSmall DEF RpcInv, Flights
  <2>4. UNCHANGED <<request, m_reqSeq, served>>
    BY <1>5 DEF onProcess, historyVars
  <2> HIDE DEF c
  <2>5. absOutcome' = [absOutcome EXCEPT ![c] = "ok"]
    BY <2>1, <2>2 DEF CallBack, absOutcome, c
  <2>6. Promise!Succeed(c)
    BY <2>1, <2>2, <2>3, <2>4, <2>5, WaitingOpen DEF Promise!Succeed, c
  <2>7. QED
    BY <2>2, <2>6 DEF Promise!Next
<1>6. ASSUME NEW r \in answers, onProcess(r, FALSE) PROVE [Promise!Next]_Promise!vars
  <2>1. PICK k \in Found(r) : CallBack({m_waitResp[k]}, "EBADMSG")
    BY <1>6 DEF onProcess
  <2>2. {m_waitResp[k]} \in SUBSET {c \in Callers : pc[c] = "waiting"}
    BY <1>w DEF Found
  <2>3. UNCHANGED <<request, rsp, m_reqSeq, served>>
    BY <1>6 DEF onProcess, historyVars
  <2>4. Promise!Next
    BY <2>1, <2>2, <2>3, CallBackFails DEF Outcomes
  <2>5. QED
    BY <2>4
<1>7. CASE doCheck
  <2>1. {m_waitResp[k] : k \in Due} \in SUBSET {c \in Callers : pc[c] = "waiting"}
    BY <1>w DEF Due
  <2>2. Promise!Next
    BY <1>7, <2>1, CallBackFails DEF doCheck, Outcomes, historyVars
  <2>3. QED
    BY <2>2
<1>8. ASSUME NEW r \in wire, OnCmd(r) PROVE [Promise!Next]_Promise!vars
  <2>1. r.n \in Numbers /\ r.n <= m_reqSeq /\ r.n \notin served
    BY <1>8, <1>t DEF RpcInv, Flights, TypeOK, Requests
  <2>2. served' = served \cup {r.n} /\ UNCHANGED <<request, retErr, rsp, m_reqSeq>>
    BY <1>8 DEF OnCmd, clientVars, callVars
  <2>3. absOutcome' = absOutcome
    BY <2>2 DEF absOutcome
  <2>4. Promise!Serve(r.n)
    BY <2>1, <2>2, <2>3 DEF Promise!Serve
  <2>5. QED
    BY <2>1, <2>4 DEF Promise!Next
<1>9. CASE Connected \/ Reconnect \/ Tick \/ (\E r \in answers : Drop(r)) \/ UNCHANGED vars
  <2>1. Still
    BY <1>9 DEF Connected, Reconnect, Tick, Drop, vars, clientVars, callVars, historyVars
  <2>2. QED
    BY <1>0, <2>1
<1> HIDE DEF Still
<1>10. QED
  BY <1>1, <1>2, <1>3, <1>4, <1>5, <1>6, <1>7, <1>8, <1>9 DEF Next, Working

(* While no sequence number is used twice, a call returns once, with the   *)
(* answer to its own request or an error, and the server executes no       *)
(* request twice, for any number of callers and connections.               *)
THEOREM ImplementsRemoteCalls ==
  ASSUME SeqMod > MaxCalls
  PROVE  Spec => Implements
<1>1. Init => Promise!Init
  BY DEF Init, Promise!Init, absOutcome
<1>2. RpcInv /\ [Next]_vars => [Promise!Next]_Promise!vars
  BY StepImplements
<1>3. QED
  BY <1>1, <1>2, RpcInvHolds, PTL DEF Spec, Implements, Promise!Spec

-----------------------------------------------------------------------------
(* Late answers, when numbers are used again. *)

(* Two numbers with one remainder are a whole turn apart. *)
LEMMA TurnApart ==
  ASSUME NEW m \in Nat \ {0}, NEW a \in Nat, NEW b \in Nat, a % m = b % m
  PROVE  a = b \/ a + m <= b \/ b + m <= a
<1>1. ASSUME NEW x \in Nat PROVE x = m * (x \div m) + (x % m) /\ x \div m \in Int
  OBVIOUS
<1>2. PICK p \in Int, q \in Int : a = m * p + (a % m) /\ b = m * q + (b % m)
  BY <1>1
<1>3. p = q \/ p + 1 <= q \/ q + 1 <= p
  OBVIOUS
<1>4. ASSUME NEW x \in Int, NEW y \in Int, x + 1 <= y PROVE m * x + m <= m * y
  <2>1. PICK d \in Nat : y = x + 1 + d
    <3>1. y - x - 1 \in Nat /\ y = x + 1 + (y - x - 1)
      BY <1>4
    <3>2. QED
      BY <3>1
  <2>2. m * y = m * x + m + m * d /\ m * d \in Nat /\ m * x \in Int
    BY <2>1
  <2>3. QED
    BY <2>2
<1>5. a % m \in Int /\ m * p \in Int /\ m * q \in Int
  OBVIOUS
<1>6. QED
  BY <1>2, <1>3, <1>4, <1>5

(* Only a caller whose call is decided has an answer, and that one answers *)
(* a request with the number that its own request carries.                 *)
Answers ==
  /\ \A c \in Callers : rsp[c] # 0 => pc[c] = "woken"
  /\ \A c \in Callers : rsp[c] # 0 => rsp[c] % SeqMod = request[c] % SeqMod

LEMMA AnswersStep == RpcInv /\ Answers /\ [Next]_vars => Answers'
<1> SUFFICES ASSUME RpcInv, Answers, [Next]_vars PROVE Answers'
  OBVIOUS
<1> USE NoOneAssumption
<1>t. /\ m_waitResp \in [Keys -> Callers \cup {NoOne}]
      /\ pc \in [Callers -> {"idle", "waiting", "woken"}]
      /\ request \in [Callers -> 0..MaxCalls]
      /\ rsp \in [Callers -> 0..MaxCalls]
      /\ \A r \in answers : r.n \in 0..MaxCalls
  BY DEF RpcInv, TypeOK, Requests, Numbers
<1>w. \A k \in Keys : m_waitResp[k] # NoOne =>
        m_waitResp[k] \in Callers /\ pc[m_waitResp[k]] = "waiting"
  BY <1>t DEF RpcInv, FramesAlive
<1>1. ASSUME NEW c \in Callers, NEW n \in Numbers, NEW cmd \in Cmds, Call(c, n, cmd)
      PROVE  Answers'
  BY <1>1, <1>t DEF Call, Answers
<1>2. ASSUME NEW c \in Callers, Return(c) PROVE Answers'
  BY <1>2, <1>t DEF Return, Answers
<1>3. ASSUME NEW S, NEW err, CallBack(S, err), UNCHANGED <<request, rsp>> PROVE Answers'
  BY <1>3, <1>t DEF CallBack, Answers
<1>4. CASE Disconnected \/ doCheck
  BY <1>3, <1>4 DEF Disconnected, doCheck
<1>5. ASSUME NEW r \in answers, NEW parsed \in BOOLEAN, onProcess(r, parsed)
      PROVE  Answers'
  <2>1. PICK k \in Found(r) :
          /\ CallBack({m_waitResp[k]}, IF parsed THEN "0" ELSE "EBADMSG")
          /\ rsp' = IF parsed THEN [rsp EXCEPT ![m_waitResp[k]] = r.n] ELSE rsp
    BY <1>5 DEF onProcess
  <2> DEFINE c == m_waitResp[k]
  <2>2. k \in Keys /\ k = Key(r.n, r.cmd) /\ c \in Callers /\ pc[c] = "waiting" /\ c # NoOne
    BY <2>1, <1>w DEF Found
  <2>3. r.n % SeqMod = request[c] % SeqMod
    BY <2>2 DEF Key, RpcInv, Calls
  <2>4. request' = request
    BY <1>5 DEF onProcess
  <2> HIDE DEF c
  <2>5. CASE parsed
    <3>1. /\ rsp' = [rsp EXCEPT ![c] = r.n]
          /\ pc' = [d \in Callers |-> IF d \in {c} THEN "woken" ELSE pc[d]]
      BY <2>1, <2>5 DEF CallBack, c
    <3>2. QED
      BY <1>t, <2>2, <2>3, <2>4, <3>1 DEF Answers
  <2>6. CASE ~parsed
    BY <1>3, <2>1, <2>4, <2>6
  <2>7. QED
    BY <2>5, <2>6
<1>6. CASE Connected \/ Reconnect \/ Tick \/ UNCHANGED vars
  BY <1>6 DEF Connected, Reconnect, Tick, vars, clientVars, callVars, Answers
<1>7. CASE (\E r \in answers : Drop(r)) \/ (\E r \in wire : OnCmd(r))
  BY <1>7 DEF Drop, OnCmd, clientVars, callVars, Answers
<1>8. CASE \E n \in Numbers, cmd \in Cmds : Post(n, cmd)
  BY <1>8 DEF Post, callVars, Answers
<1>9. QED
  BY <1>1, <1>2, <1>4, <1>5, <1>6, <1>7, <1>8 DEF Next, Working

(* A call returns the answer to its own request or to one whose number is  *)
(* a whole turn of the counter away: however late answers come, and even   *)
(* though numbers are used again and an old answer is recognised by its    *)
(* number alone, nothing else is ever handed to a caller.                  *)
OwnOrTurnApart == \A c \in Callers : rsp[c] # 0 =>
  \/ rsp[c] = request[c]
  \/ rsp[c] + SeqMod <= request[c]
  \/ request[c] + SeqMod <= rsp[c]

(* For any number of sequence numbers, also when they wrap around. *)
THEOREM OwnOrTurnApartHolds == Spec => []OwnOrTurnApart
<1>1. Init => Answers
  BY DEF Init, Answers
<1>2. ASSUME RpcInv, Answers PROVE OwnOrTurnApart
  <2>1. \A c \in Callers : rsp[c] \in Nat /\ request[c] \in Nat
    BY <1>2, NumbersAssumption DEF RpcInv, TypeOK
  <2>2. QED
    BY <1>2, <2>1, TurnApart, NumbersAssumption DEF Answers, OwnOrTurnApart
<1>3. QED
  BY <1>1, <1>2, AnswersStep, RpcInvHolds, PTL DEF Spec
=============================================================================
