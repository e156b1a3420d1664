------------------------------ MODULE ProtoRPC ------------------------------
(***************************************************************************)
(* The RPC client of src/protorpc.h and src/protorpc.cpp: coroutines make  *)
(* calls, Worker keeps a connection to the server and hands each answer to *)
(* the coroutine that waits for it, Check gives up on old requests. All of *)
(* them run on one Epoll, so a step is what one coroutine does between two *)
(* yields, or a step of the server. Messages are whole: the framing of the *)
(* byte stream is not modelled here.                                       *)
(***************************************************************************)
EXTENDS Naturals, Sequences

CONSTANTS
  Callers,   \* the coroutines that make calls
  Cmds,      \* the command numbers
  SeqMod,    \* sequence numbers are modulo this, 2^32 in the code
  Timeout,   \* the age, in ticks, at which doCheck gives up, 60 s in the code
  MaxCalls,  \* bound: the requests numbered in a behaviour
  NoOne      \* nobody waits

ASSUME NoOneAssumption == NoOne \notin Callers
ASSUME NumbersAssumption == {SeqMod, Timeout} \subseteq Nat \ {0} /\ MaxCalls \in Nat

VARIABLES
  m_waitResp, \* key -> the caller whose callback is registered under it
  m_msg,      \* the requests made while there was no connection
  m_psocket,  \* m_psocket is not nullptr
  m_reqSeq,   \* the requests numbered so far; the code keeps it mod SeqMod
  worker,     \* where Worker is: in Connect, in Read, or in Sleep
  pc,         \* what each caller does; "woken" is pushed by ch.Wake
  request,    \* the number of the request it waits for, 0 for none (history)
  age,        \* curtime() - Value::Time of it, up to Timeout
  retErr,     \* Call's retErr: the outcome its callback has stored
  rsp,        \* the request that the parsed answer belongs to, 0 for none
  wire,       \* the requests written to the connection and not yet served
  answers,    \* the answers on their way back
  writes,     \* every request ever written to a connection (history)
  served      \* every request the server has executed (history)

clientVars == <<m_waitResp, m_msg, m_psocket, m_reqSeq, worker>>
callVars == <<pc, request, age, retErr, rsp>>
netVars == <<wire, answers>>
historyVars == <<writes, served>>
vars == <<clientVars, callVars, netVars, historyVars>>

Keys == [seq : 0..SeqMod-1, cmd : Cmds]
Numbers == 1..MaxCalls
Requests == [n : Numbers, cmd : Cmds, by : Callers \cup {NoOne}]

(* A request carries n % SeqMod and cmd; n and by only tell requests apart *)
(* in the model. by is NoOne for the Call that waits for no answer.        *)
Req(n, cmd, c) == [n |-> n, cmd |-> cmd, by |-> c]

Key(n, cmd) == [seq |-> n % SeqMod, cmd |-> cmd]

TypeOK ==
  /\ m_waitResp \in [Keys -> Callers \cup {NoOne}]
  /\ m_msg \in Seq(Requests)
  /\ m_psocket \in BOOLEAN
  /\ m_reqSeq \in 0..MaxCalls
  /\ worker \in {"connect", "read", "sleep"}
  /\ pc \in [Callers -> {"idle", "waiting", "woken"}]
  /\ request \in [Callers -> 0..MaxCalls]
  /\ age \in [Callers -> 0..Timeout]
  /\ retErr \in [Callers -> {"unset", "0", "EBADMSG", "ETIMEDOUT", "disconnected"}]
  /\ rsp \in [Callers -> 0..MaxCalls]
  /\ wire \subseteq Requests
  /\ answers \subseteq Requests
  /\ writes \in Seq(Requests)
  /\ served \subseteq Numbers

(* Start: Worker and Check begin; Worker calls doWork, which connects. *)
Init ==
  /\ m_waitResp = [k \in Keys |-> NoOne]
  /\ m_msg = <<>>
  /\ m_psocket = FALSE
  /\ m_reqSeq = 0
  /\ worker = "connect"
  /\ pc = [c \in Callers |-> "idle"]
  /\ request = [c \in Callers |-> 0]
  /\ age = [c \in Callers |-> 0]
  /\ retErr = [c \in Callers |-> "unset"]
  /\ rsp = [c \in Callers |-> 0]
  /\ wire = {}
  /\ answers = {}
  /\ writes = <<>>
  /\ served = {}

-----------------------------------------------------------------------------
(* Call. *)

(* m_msg.append(m_buffer); the faulty variant puts the request first. *)
AppendedFirst(r) == <<r>> \o m_msg
Appended(r) == Append(m_msg, r)

(* Write the request to the connection, or keep it until there is one. *)
Send(r) ==
  IF m_psocket
  THEN wire' = wire \cup {r} /\ writes' = Append(writes, r) /\ UNCHANGED m_msg
  ELSE m_msg' = Appended(r) /\ UNCHANGED <<wire, writes>>

(* n is the first number whose key is not in m_waitResp: the loop around   *)
(* insert. (It would not end if every key were taken.) The faulty variant  *)
(* takes the next number.                                                  *)
DrawsNext(n, cmd) == n = m_reqSeq + 1
Draws(n, cmd) ==
  /\ n > m_reqSeq
  /\ m_waitResp[Key(n, cmd)] = NoOne
  /\ \A k \in Numbers : m_reqSeq < k /\ k < n => m_waitResp[Key(k, cmd)] # NoOne

(* Call with a response, up to ch.Wait. *)
Call(c, n, cmd) ==
  /\ pc[c] = "idle"
  /\ Draws(n, cmd)
  /\ m_reqSeq' = n
  /\ m_waitResp' = [m_waitResp EXCEPT ![Key(n, cmd)] = c]
  /\ Send(Req(n, cmd, c))
  /\ pc' = [pc EXCEPT ![c] = "waiting"]
  /\ request' = [request EXCEPT ![c] = n]
  /\ age' = [age EXCEPT ![c] = 0]
  /\ UNCHANGED <<m_psocket, worker, retErr, rsp, answers, served>>

(* Call without a response: any coroutine, and no entry in m_waitResp. *)
Post(n, cmd) ==
  /\ n = m_reqSeq + 1
  /\ m_reqSeq' = n
  /\ Send(Req(n, cmd, NoOne))
  /\ UNCHANGED <<m_waitResp, m_psocket, worker, callVars, answers, served>>

(* Resumed, Call returns retErr; ch, rsp and retErr are gone. *)
Return(c) ==
  /\ pc[c] = "woken"
  /\ pc' = [pc EXCEPT ![c] = "idle"]
  /\ request' = [request EXCEPT ![c] = 0]
  /\ age' = [age EXCEPT ![c] = 0]
  /\ retErr' = [retErr EXCEPT ![c] = "unset"]
  /\ rsp' = [rsp EXCEPT ![c] = 0]
  /\ UNCHANGED <<clientVars, netVars, historyVars>>

(* The callbacks of the callers in S store err and wake them. *)
CallBack(S, err) ==
  /\ pc' = [c \in Callers |-> IF c \in S THEN "woken" ELSE pc[c]]
  /\ retErr' = [c \in Callers |-> IF c \in S THEN err ELSE retErr[c]]

-----------------------------------------------------------------------------
(* Worker. *)

(* Connect succeeds: doWork publishes the socket, writes what has piled up *)
(* in m_msg and waits in Read.                                             *)
Connected ==
  /\ worker = "connect"
  /\ worker' = "read"
  /\ m_psocket' = TRUE
  /\ wire' = {m_msg[i] : i \in 1..Len(m_msg)}
  /\ writes' = writes \o m_msg
  /\ m_msg' = <<>>
  /\ UNCHANGED <<m_waitResp, m_reqSeq, callVars, answers, served>>

(* Whose callbacks Worker runs when doWork returns, and what is left of    *)
(* m_msg; the faulty variants forget the callbacks and the clear().        *)
NoFailed == {}
KeptMsg == m_msg
Failed == {c \in Callers : \E k \in Keys : m_waitResp[k] = c}
ClearedMsg == <<>>

(* doWork returns an error: Connect failed, or Read did, or met the end of *)
(* the stream or a message it cannot take. Everyone who waits is told.     *)
Disconnected ==
  /\ worker \in {"connect", "read"}
  /\ worker' = "sleep"
  /\ m_psocket' = FALSE
  /\ m_msg' = ClearedMsg
  /\ CallBack(Failed, "disconnected")
  /\ m_waitResp' = [k \in Keys |-> NoOne]
  /\ wire' = {}
  /\ answers' = {}
  /\ UNCHANGED <<m_reqSeq, request, age, rsp, historyVars>>

(* Sleep(3) is over. *)
Reconnect ==
  /\ worker = "sleep"
  /\ worker' = "connect"
  /\ UNCHANGED <<m_waitResp, m_msg, m_psocket, m_reqSeq, callVars, netVars, historyVars>>

(* The key onProcess looks up; the faulty variant ignores the sequence     *)
(* number and takes whoever waits for this command.                        *)
FoundByCmd(r) == {k \in Keys : k.cmd = r.cmd /\ m_waitResp[k] # NoOne}
Found(r) == {k \in Keys : k = Key(r.n, r.cmd) /\ m_waitResp[k] # NoOne}

(* onProcess: a complete answer whose key is registered; ParseFromArray    *)
(* may fail.                                                               *)
onProcess(r, parsed) ==
  /\ worker = "read"
  /\ r \in answers
  /\ \E k \in Found(r) :
       /\ CallBack({m_waitResp[k]}, IF parsed THEN "0" ELSE "EBADMSG")
       /\ rsp' = IF parsed THEN [rsp EXCEPT ![m_waitResp[k]] = r.n] ELSE rsp
       /\ m_waitResp' = [m_waitResp EXCEPT ![k] = NoOne]
  /\ answers' = answers \ {r}
  /\ UNCHANGED <<m_msg, m_psocket, m_reqSeq, worker, request, age, wire, historyVars>>

(* onProcess: nobody needs this response (any more). *)
Drop(r) ==
  /\ worker = "read"
  /\ r \in answers
  /\ Found(r) = {}
  /\ answers' = answers \ {r}
  /\ UNCHANGED <<clientVars, callVars, wire, historyVars>>

-----------------------------------------------------------------------------
(* Check. *)

Due == {k \in Keys : m_waitResp[k] # NoOne /\ age[m_waitResp[k]] >= Timeout}

(* The entries that doCheck erases; the faulty variant leaves them. *)
ErasedNone == {}
Erased == Due

(* doCheck, with a connection and something to do. *)
doCheck ==
  /\ m_psocket
  /\ Due # {}
  /\ CallBack({m_waitResp[k] : k \in Due}, "ETIMEDOUT")
  /\ m_waitResp' = [k \in Keys |-> IF k \in Erased THEN NoOne ELSE m_waitResp[k]]
  /\ UNCHANGED <<m_msg, m_psocket, m_reqSeq, worker, request, age, rsp, netVars, historyVars>>

(* Time passes for the requests that wait. *)
Tick ==
  /\ \E c \in Callers : pc[c] = "waiting" /\ age[c] < Timeout
  /\ age' = [c \in Callers |->
               IF pc[c] = "waiting" /\ age[c] < Timeout THEN age[c] + 1 ELSE age[c]]
  /\ UNCHANGED <<clientVars, pc, request, retErr, rsp, netVars, historyVars>>

-----------------------------------------------------------------------------
(* The server: a goroutine for each message answers it, in any order, and  *)
(* late or never when it or the network is slow or the command unknown.    *)
OnCmd(r) ==
  /\ r \in wire
  /\ wire' = wire \ {r}
  /\ answers' = answers \cup {r}
  /\ served' = served \cup {r.n}
  /\ UNCHANGED <<clientVars, callVars, writes>>

Working ==
  \/ Connected \/ Disconnected \/ Reconnect
  \/ \E r \in answers : Drop(r) \/ \E parsed \in BOOLEAN : onProcess(r, parsed)

Next ==
  \/ \E c \in Callers, n \in Numbers, cmd \in Cmds : Call(c, n, cmd)
  \/ \E n \in Numbers, cmd \in Cmds : Post(n, cmd)
  \/ \E c \in Callers : Return(c)
  \/ Working
  \/ doCheck
  \/ Tick
  \/ \E r \in wire : OnCmd(r)

Spec == Init /\ [][Next]_vars

(* Connect returns within its timeout, Sleep(3) and Sleep(60) end, what is *)
(* pushed is resumed, and the clock advances. The server owes nothing, and *)
(* Read may wait for ever.                                                 *)
Fairness ==
  /\ WF_vars(worker = "connect" /\ (Connected \/ Disconnected))
  /\ WF_vars(Reconnect)
  /\ WF_vars(doCheck)
  /\ WF_vars(Tick)
  /\ \A c \in Callers : WF_vars(Return(c))

FairSpec == Spec /\ Fairness

-----------------------------------------------------------------------------
(* Safety. *)

(* m_waitResp has exactly one entry for each caller that waits, and none   *)
(* for any other: no caller is forgotten, and no callback is left that     *)
(* would write to the ch, rsp and retErr of a Call that has returned or    *)
(* is about to, whether the answer, the timeout and the end of the         *)
(* connection come in one order or another.                                *)
FramesAlive ==
  /\ \A c \in Callers : pc[c] = "waiting" <=> \E k \in Keys : m_waitResp[k] = c
  /\ \A j, k \in Keys : m_waitResp[j] = m_waitResp[k] /\ m_waitResp[j] # NoOne => j = k

(* m_psocket points to doWork's connSocket only while doWork reads from    *)
(* it, and then nothing is left in m_msg; otherwise m_msg holds the        *)
(* request of everyone who waits, and of nobody whose call has failed.     *)
BufferExact ==
  /\ m_psocket <=> worker = "read"
  /\ m_psocket => m_msg = <<>>
  /\ ~m_psocket => \A c \in Callers :
       pc[c] = "waiting" <=> \E i \in 1..Len(m_msg) : m_msg[i].by = c

(* Requests are written in the order of the calls, each at most once: what *)
(* piled up before a connection is neither overtaken nor sent again on the *)
(* next one.                                                               *)
SentInOrder == \A i, j \in 1..Len(writes) : i < j => writes[i].n < writes[j].n

-----------------------------------------------------------------------------
(* ProtoRPC implements RemoteCalls. *)

absOutcome == [c \in Callers |->
  CASE retErr[c] = "unset" -> "unset"
    [] retErr[c] = "0" -> "ok"
    [] OTHER -> "error"]

Promise == INSTANCE RemoteCalls
  WITH Requests <- Numbers, asked <- request, outcome <- absOutcome, answer <- rsp,
       last <- m_reqSeq

(* A call returns once, with the answer to its own request or an error;    *)
(* the server executes a request once at most. For fewer requests than     *)
(* sequence numbers: a late answer can be taken for another one after that.*)
Implements == Promise!Spec

-----------------------------------------------------------------------------
(* Liveness. *)

(* Every call returns, whatever the server and the connection do. *)
CallReturns == \A c \in Callers : pc[c] = "waiting" ~> pc[c] = "idle"
=============================================================================
