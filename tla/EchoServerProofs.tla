--------------------------- MODULE EchoServerProofs ---------------------------
(***************************************************************************)
(* Proofs about EchoServer for any number of coroutines, descriptors and   *)
(* clients: it is a program over the scheduler, each accepted descriptor   *)
(* has one owner, and no event that somebody waits for is forgotten.       *)
(***************************************************************************)
EXTENDS EchoServer, EpollProofs

-----------------------------------------------------------------------------
(* Whatever the server does, the scheduler sees legal calls. *)

LEMMA StepIsScheduled ==
  ASSUME [ServerNext]_allVars
  PROVE  [Next]_vars
<1>1. CASE Start
  BY <1>1, ServerAssumption DEF Start, Next
<1>2. CASE Listen \/ \E c \in Handlers : Adopt(c)
  BY <1>2, ServerAssumption DEF Listen, Adopt, Next, Call, Handlers
<1>3. CASE AcceptWaits \/ \E c \in Handlers : ReadWaits(c)
  BY <1>3, ServerAssumption DEF AcceptWaits, ReadWaits, Next, Yield, Handlers
<1>4. CASE Spawn
  BY <1>4 DEF Spawn, Next, Handlers
<1>5. CASE \E c \in Handlers : Leave(c)
  BY <1>5, ServerAssumption DEF Leave, Next, Call, Handlers
<1>6. CASE \E c \in Coroutines : End(c)
  BY <1>6 DEF End, Next, Yield
<1>7. CASE Rest \/ Collect
  BY <1>7 DEF Rest, Collect, Next, Loop
<1>8. CASE \/ AcceptTakes \/ AcceptAborted \/ AcceptSpins \/ Arrive \/ UNCHANGED allVars
           \/ \E c \in Handlers : AdoptFails(c) \/ Echo(c)
           \/ \E f \in Fds : Peer(f)
  BY <1>8 DEF AcceptTakes, AcceptAborted, AcceptSpins, Arrive, AdoptFails, Echo, Peer, allVars
<1>9. QED
  BY <1>1, <1>2, <1>3, <1>4, <1>5, <1>6, <1>7, <1>8 DEF ServerNext, Body

(* The server of server.cpp is a program over the event loop: every step   *)
(* of it is a step of Epoll, so what is proved of Epoll holds of it.       *)
THEOREM RunsOnEpoll == ServerSpec => Spec
<1>1. ServerInit => Init
  BY DEF ServerInit
<1>2. QED
  BY <1>1, StepIsScheduled, PTL DEF ServerSpec, Spec

(* The coroutines that the server has suspended are held by one waker      *)
(* each, and no stack that is in use is freed.                             *)
LEMMA ServerSafe == ServerSpec => []SafetyInv
BY RunsOnEpoll, SafetyInvHolds, PTL

(* Its coroutines are resumed as the promise of the scheduler says. *)
THEOREM ServerIsScheduled == ServerSpec => Implements
BY RunsOnEpoll, ImplementsScheduling, PTL

-----------------------------------------------------------------------------
(* Type correctness. *)

ServerTypes ==
  /\ pc \in [Coroutines -> {"none", "listen", "accept", "spawn", "open", "read", "end"}]
  /\ local \in [Coroutines -> Fds \cup {NoFd}]
  /\ m_fd \in [Sockets -> Fds \cup {NoFd}]
  /\ arrived \in 0..MaxConns /\ taken \in 0..arrived
  /\ conn \in [Fds -> [is : {"closed", "open", "over"}, unread : 0..MaxUnread]]
  /\ edges \subseteq m_notifies

(* Where coroutines are tells what they hold: a descriptor in the frame    *)
(* between accept and Go, and between Go and Open; and a finished or       *)
(* deleted coroutine has returned from its body.                           *)
Places ==
  \A c \in Coroutines :
    /\ local[c] # NoFd <=> pc[c] \in {"spawn", "open"}
    /\ pc[c] \in {"listen", "accept", "spawn"} => c = Acceptor
    /\ pc[c] \in {"open", "read"} => c # Acceptor
    /\ status[c] \in {"done", "deleted"} => pc[c] = "end"
    /\ status[c] = "unborn" => pc[c] = "none"

(* A TcpSocket is open exactly while the coroutine on whose stack it is    *)
(* reads.                                                                  *)
Stacks ==
  \A n \in Sockets :
    /\ m_fd[n] # NoFd => n \in m_notifies /\ n # Listener
    /\ m_fd[n] # NoFd => \E c \in Handlers : pc[c] = "read" /\ Stack[c] = n
    /\ \A c \in Handlers : pc[c] = "read" /\ Stack[c] = n => m_fd[n] # NoFd

(* The descriptors in frames and in sockets differ, and are the open ones. *)
Owned ==
  /\ \A f \in Fds : conn[f].is = "closed" => conn[f] = Closed
  /\ \A c, d \in Coroutines : local[c] = local[d] /\ local[c] # NoFd => c = d
  /\ \A n, x \in Sockets : m_fd[n] = m_fd[x] /\ m_fd[n] # NoFd => n = x
  /\ \A c \in Coroutines, n \in Sockets : local[c] = m_fd[n] => local[c] = NoFd
  /\ \A f \in Fds :
       conn[f] # Closed <=> \/ \E c \in Coroutines : local[c] = f
                            \/ \E n \in Sockets : m_fd[n] = f

(* Nobody connects, and between two batches no event is left. *)
Quiet ==
  /\ \A n \in Sockets : m_connWait[n] = NoOne
  /\ at \in {"start", "onTime", "tick", "funcs"} => m_events = <<>>

ServerInv == ServerTypes /\ Places /\ Stacks /\ Owned /\ Quiet /\ NobodyForgotten

LEMMA TypesStep ==
  ASSUME SafetyInv, ServerTypes, Places, Stacks, [ServerNext]_allVars
  PROVE  ServerTypes'
<1> USE ServerAssumption, ServerBoundsAssumption DEF ServerTypes, bodyVars, serverVars, Handlers
<1>1. CASE Start
  BY <1>1 DEF Start, Go
<1>2. CASE Listen
  BY <1>2 DEF Listen, Open, vars
<1>3. CASE AcceptTakes
  <2>1. taken' \in 0..arrived'
    BY <1>3 DEF AcceptTakes, Backlog
  <2>2. QED
    BY <1>3, <2>1 DEF AcceptTakes, Fresh, Free, vars
<1>4. CASE AcceptAborted
  BY <1>4 DEF AcceptAborted, Backlog, OnErrorContinue, vars
<1>5. CASE AcceptWaits \/ \E c \in Handlers : ReadWaits(c)
  BY <1>5 DEF AcceptWaits, ReadWaits, ReadWait
<1>6. CASE Spawn
  BY <1>6 DEF Spawn, Go
<1>7. ASSUME NEW c \in Handlers, Adopt(c) PROVE ServerTypes'
  BY <1>7 DEF Adopt, Open
<1>8. ASSUME NEW c \in Handlers, AdoptFails(c) PROVE ServerTypes'
  <2>1. conn' = [conn EXCEPT ![local[c]] = Closed]
    BY <1>8 DEF AdoptFails, CloseFd
  <2>2. Closed \in [is : {"closed", "open", "over"}, unread : 0..MaxUnread]
    BY DEF Closed
  <2>6. conn' \in [Fds -> [is : {"closed", "open", "over"}, unread : 0..MaxUnread]]
    BY <2>1, <2>2, Zenon
  <2>3. /\ local' \in [Coroutines -> Fds \cup {NoFd}]
        /\ UNCHANGED <<m_fd, arrived, taken, edges, m_notifies>>
    BY <1>8 DEF AdoptFails, vars
  <2>4. pc' \in [Coroutines -> {"none", "listen", "accept", "spawn", "open", "read", "end"}]
    BY <1>8 DEF AdoptFails
  <2>5. QED
    BY <2>6, <2>3, <2>4
<1>9. ASSUME NEW c \in Handlers, Echo(c) PROVE ServerTypes'
  <2>1. PICK k \in 1..conn[fdOf(c)].unread : conn' = [conn EXCEPT ![fdOf(c)].unread = @ - k]
    BY <1>9 DEF Echo
  <2>2. conn' \in [Fds -> [is : {"closed", "open", "over"}, unread : 0..MaxUnread]]
    BY <1>9, <2>1 DEF Echo, At, Stacks, fdOf
  <2>3. QED
    BY <1>9, <2>2 DEF Echo, vars
<1>10. ASSUME NEW c \in Handlers, Leave(c) PROVE ServerTypes'
  BY <1>10 DEF Leave, Close, Closed
<1>11. CASE \E c \in Coroutines : End(c)
  BY <1>11 DEF End, Release, Return
<1>12. CASE Rest
  BY <1>12, LoopFates, NoOneAssumption DEF Rest
<1>13. CASE Collect
  BY <1>13 DEF Collect, EpollWait
<1>14. CASE Arrive
  BY <1>14 DEF Arrive, vars
<1>15. ASSUME NEW f \in Fds, Peer(f) PROVE ServerTypes'
  BY <1>15 DEF Peer, vars
<1>16. CASE AcceptSpins \/ UNCHANGED allVars
  BY <1>16 DEF AcceptSpins, allVars, vars
<1>17. QED
  BY <1>1, <1>2, <1>3, <1>4, <1>5, <1>6, <1>7, <1>8, <1>9, <1>10, <1>11, <1>12, <1>13, <1>14,
     <1>15, <1>16 DEF ServerNext, Body

-----------------------------------------------------------------------------
(* Where the coroutines are. *)

LEMMA PlacesStep ==
  ASSUME SafetyInv, ServerTypes, Places, [ServerNext]_allVars
  PROVE  Places'
<1> USE ServerAssumption DEF ServerTypes, Places, bodyVars, serverVars, Handlers
<1>t. status \in [Coroutines -> Status] /\ running \in Coroutines \cup {NoOne}
  BY DEF SafetyInv, TypeOK
<1>1. CASE Start
  BY <1>1, <1>t DEF Start, Go
<1>2. CASE Listen
  BY <1>2, <1>t, OnCpu DEF Listen, Open, vars, At
<1>3. CASE AcceptTakes
  BY <1>3, <1>t, OnCpu DEF AcceptTakes, At, Free, vars
<1>4. CASE AcceptAborted \/ AcceptSpins \/ Arrive \/ UNCHANGED allVars \/ \E f \in Fds : Peer(f)
  BY <1>4 DEF AcceptAborted, OnErrorContinue, AcceptSpins, Arrive, Peer, allVars, vars
<1>5. CASE AcceptWaits \/ \E c \in Handlers : ReadWaits(c)
  BY <1>5, <1>t, OnCpu DEF AcceptWaits, ReadWaits, ReadWait, Out, At
<1>6. CASE Spawn
  BY <1>6, <1>t, OnCpu DEF Spawn, Go, At
<1>7. ASSUME NEW c \in Handlers, Adopt(c) PROVE Places'
  BY <1>7, <1>t, OnCpu DEF Adopt, Open, At
<1>8. ASSUME NEW c \in Handlers, AdoptFails(c) PROVE Places'
  BY <1>8, <1>t, OnCpu DEF AdoptFails, At, vars
<1>9. ASSUME NEW c \in Handlers, Echo(c) PROVE Places'
  BY <1>9 DEF Echo, vars
<1>10. ASSUME NEW c \in Handlers, Leave(c) PROVE Places'
  BY <1>10, <1>t, OnCpu DEF Leave, Close, At
<1>11. ASSUME NEW c \in Coroutines, End(c) PROVE Places'
  <2>1. CASE Release(c)
    BY <1>11, <2>1, <1>t, OnCpu, NoOneAssumption DEF End, Release, Doomed
  <2>2. CASE Return(c)
    BY <1>11, <2>2, <1>t DEF End, Return, Out
  <2>3. QED
    BY <1>11, <2>1, <2>2 DEF End
<1>12. CASE Rest
  BY <1>12, LoopFates DEF Rest
<1>13. CASE Collect
  BY <1>13 DEF Collect, EpollWait
<1>14. QED
  BY <1>1, <1>2, <1>3, <1>4, <1>5, <1>6, <1>7, <1>8, <1>9, <1>10, <1>11, <1>12, <1>13
     DEF ServerNext, Body

(* A socket has a descriptor while the coroutine whose stack it is on      *)
(* reads.                                                                  *)
LEMMA StacksStep ==
  ASSUME SafetyInv, ServerTypes, Places, Stacks, [ServerNext]_allVars
  PROVE  Stacks'
<1> USE ServerAssumption DEF ServerTypes, Stacks, bodyVars, serverVars, Handlers
<1>t. status \in [Coroutines -> Status]
  BY DEF SafetyInv, TypeOK
<1>1. CASE Start
  BY <1>1 DEF Start, Go, Places
<1>2. CASE Listen
  BY <1>2 DEF Listen, Open, vars, At
<1>3. CASE AcceptTakes
  BY <1>3 DEF AcceptTakes, At, Free, vars
<1>4. CASE AcceptAborted \/ AcceptSpins \/ Arrive \/ UNCHANGED allVars \/ \E f \in Fds : Peer(f)
  BY <1>4 DEF AcceptAborted, OnErrorContinue, AcceptSpins, Arrive, Peer, allVars, vars
<1>5. CASE AcceptWaits \/ \E c \in Handlers : ReadWaits(c)
  BY <1>5 DEF AcceptWaits, ReadWaits, ReadWait
<1>6. CASE Spawn
  <2>1. PICK c \in Handlers : /\ Go(c) /\ pc' = [pc EXCEPT ![Acceptor] = "accept", ![c] = "open"]
    BY <1>6 DEF Spawn
  <2>2. pc[c] # "read" /\ pc[Acceptor] # "read"
    BY <2>1 DEF Go, Places
  <2>3. QED
    BY <1>6, <2>1, <2>2 DEF Spawn, Go
<1>7. ASSUME NEW c \in Handlers, Adopt(c) PROVE Stacks'
  <2>1. local[c] # NoFd /\ local[c] \in Fds
    BY <1>7 DEF Adopt, At, Places
  <2>2. QED
    BY <1>7, <2>1 DEF Adopt, Open, At
<1>8. ASSUME NEW c \in Handlers, AdoptFails(c) PROVE Stacks'
  BY <1>8 DEF AdoptFails, At, vars
<1>9. ASSUME NEW c \in Handlers, Echo(c) PROVE Stacks'
  BY <1>9 DEF Echo, vars
<1>10. ASSUME NEW c \in Handlers, Leave(c) PROVE Stacks'
  BY <1>10 DEF Leave, Close, At
<1>11. CASE \E c \in Coroutines : End(c)
  BY <1>11 DEF End, Release, Return
<1>12. CASE Rest
  BY <1>12, LoopFates, NoOneAssumption DEF Rest
<1>13. CASE Collect
  BY <1>13 DEF Collect, EpollWait
<1>14. QED
  BY <1>1, <1>2, <1>3, <1>4, <1>5, <1>6, <1>7, <1>8, <1>9, <1>10, <1>11, <1>12, <1>13
     DEF ServerNext, Body

LEMMA OwnedStep ==
  ASSUME SafetyInv, ServerTypes, Places, Stacks, Owned, [ServerNext]_allVars
  PROVE  Owned'
<1> USE ServerAssumption DEF ServerTypes, Owned, bodyVars, serverVars, Handlers
<1>1. CASE Start
  BY <1>1 DEF Start
<1>2. CASE Listen
  BY <1>2 DEF Listen
<1>3. CASE AcceptTakes
  <2>1. PICK f \in Fds : /\ conn[f] = Closed
                         /\ local' = [local EXCEPT ![Acceptor] = f]
                         /\ conn' = [conn EXCEPT ![f] = Fresh]
    BY <1>3 DEF AcceptTakes, Free
  <2>2. local[Acceptor] = NoFd /\ f # NoFd
    BY <1>3 DEF AcceptTakes, At, Places
  <2>3. UNCHANGED m_fd /\ Fresh # Closed /\ Fresh.is = "open"
    BY <1>3 DEF AcceptTakes, Fresh, Closed
  <2>4. QED
    BY <2>1, <2>2, <2>3
<1>4. CASE AcceptAborted \/ AcceptSpins \/ Arrive \/ UNCHANGED allVars
  BY <1>4 DEF AcceptAborted, AcceptSpins, Arrive, allVars
<1>5. CASE AcceptWaits \/ \E c \in Handlers : ReadWaits(c)
  BY <1>5 DEF AcceptWaits, ReadWaits
<1>6. CASE Spawn
  <2>1. PICK c \in Handlers :
          /\ Go(c)
          /\ local' = [local EXCEPT ![Acceptor] = NoFd, ![c] = local[Acceptor]]
    BY <1>6 DEF Spawn
  <2>2. local[c] = NoFd
    BY <2>1 DEF Go, Places
  <2>3. /\ local'[Acceptor] = NoFd /\ local'[c] = local[Acceptor]
        /\ \A d \in Coroutines : d # Acceptor /\ d # c => local'[d] = local[d]
    BY <2>1
  <2>4. UNCHANGED <<m_fd, conn>>
    BY <1>6 DEF Spawn
  <2>5. \A f : (\E d \in Coroutines : local'[d] = f /\ f # NoFd)
             <=> \E d \in Coroutines : local[d] = f /\ f # NoFd
    BY <2>2, <2>3
  <2>6. \A d, e \in Coroutines : local'[d] = local'[e] /\ local'[d] # NoFd => d = e
    BY <2>2, <2>3
  <2>7. \A d \in Coroutines, n \in Sockets : local'[d] = m_fd[n] => local'[d] = NoFd
    BY <2>2, <2>3
  <2>8. QED
    BY <2>4, <2>5, <2>6, <2>7
<1>7. ASSUME NEW c \in Handlers, Adopt(c) PROVE Owned'
  <2>1. m_fd[Stack[c]] = NoFd
    BY <1>7 DEF Adopt, Open, Stacks
  <2>2. /\ m_fd' = [m_fd EXCEPT ![Stack[c]] = local[c]]
        /\ local' = [local EXCEPT ![c] = NoFd]
        /\ UNCHANGED conn
    BY <1>7 DEF Adopt
  <2>3. QED
    BY <2>1, <2>2
<1>8. ASSUME NEW c \in Handlers, AdoptFails(c) PROVE Owned'
  <2>1. local[c] # NoFd
    BY <1>8 DEF AdoptFails, At, Places
  <2>2. /\ conn' = [conn EXCEPT ![local[c]] = Closed]
        /\ local' = [local EXCEPT ![c] = NoFd]
        /\ UNCHANGED m_fd
    BY <1>8 DEF AdoptFails, CloseFd
  <2>3. QED
    BY <2>1, <2>2
<1>9. ASSUME NEW c \in Handlers, Echo(c) PROVE Owned'
  <2>1. PICK k \in 1..conn[fdOf(c)].unread : conn' = [conn EXCEPT ![fdOf(c)].unread = @ - k]
    BY <1>9 DEF Echo
  <2>2. fdOf(c) \in Fds /\ conn[fdOf(c)] # Closed
    BY <1>9 DEF Echo, At, Stacks, fdOf
  <2>3. \A f \in Fds : conn'[f].is = conn[f].is
    BY <2>1, <2>2
  <2>4. \A f \in Fds : f # fdOf(c) => conn'[f] = conn[f]
    BY <2>1, <2>2
  <2>5. conn[fdOf(c)].is # "closed" /\ Closed.is = "closed"
    BY <2>2 DEF Closed
  <2>6. \A f \in Fds : conn'[f] = Closed <=> conn[f] = Closed
    BY <2>2, <2>3, <2>4, <2>5
  <2>7. UNCHANGED <<local, m_fd>>
    BY <1>9 DEF Echo
  <2>8. QED
    BY <2>3, <2>6, <2>7
<1>10. ASSUME NEW c \in Handlers, Leave(c) PROVE Owned'
  <2>1. m_fd[Stack[c]] # NoFd
    BY <1>10 DEF Leave, At, Stacks
  <2>2. /\ conn' = [conn EXCEPT ![m_fd[Stack[c]]] = Closed]
        /\ m_fd' = [m_fd EXCEPT ![Stack[c]] = NoFd]
        /\ UNCHANGED local
    BY <1>10 DEF Leave, fdOf
  <2>3. QED
    BY <2>1, <2>2
<1>11. CASE \E c \in Coroutines : End(c)
  BY <1>11 DEF End
<1>12. CASE Rest \/ Collect
  BY <1>12 DEF Rest, Collect
<1>13. ASSUME NEW f \in Fds, Peer(f) PROVE Owned'
  <2>1. conn[f].is = "open" /\ UNCHANGED <<local, m_fd>>
    BY <1>13 DEF Peer
  <2>2. conn[f] # Closed /\ conn'[f] # Closed /\ conn'[f].is # "closed"
    BY <1>13, <2>1 DEF Peer, Closed
  <2>3. \A x \in Fds : x # f => conn'[x] = conn[x]
    BY <1>13 DEF Peer
  <2>4. QED
    BY <2>1, <2>2, <2>3
<1>14. QED
  BY <1>1, <1>2, <1>3, <1>4, <1>5, <1>6, <1>7, <1>8, <1>9, <1>10, <1>11, <1>12, <1>13
     DEF ServerNext, Body

-----------------------------------------------------------------------------
(* Events. *)

LEMMA QuietStep ==
  ASSUME SafetyInv, ServerTypes, Quiet, [ServerNext]_allVars
  PROVE  Quiet'
<1> USE ServerAssumption DEF Quiet
<1>t. /\ m_connWait \in [Sockets -> Coroutines \cup {NoOne}]
      /\ \A n \in Sockets : m_connWait[n] = NoOne
  BY DEF SafetyInv, TypeOK
<1>1. CASE Start \/ Spawn
  BY <1>1 DEF Start, Spawn, Go, loopVars, waitVars
<1>2. CASE Listen
  BY <1>2 DEF Listen, Open, loopVars, waitVars, vars
<1>3. CASE \/ AcceptTakes \/ AcceptAborted \/ AcceptSpins \/ Arrive \/ UNCHANGED allVars
           \/ \E c \in Handlers : AdoptFails(c) \/ Echo(c)
           \/ \E f \in Fds : Peer(f)
  BY <1>3 DEF AcceptTakes, AcceptAborted, AcceptSpins, Arrive, AdoptFails, Echo, Peer, allVars,
              vars, loopVars, waitVars
<1>4. CASE AcceptWaits \/ \E c \in Handlers : ReadWaits(c)
  BY <1>4 DEF AcceptWaits, ReadWaits, ReadWait, loopVars
<1>5. CASE \E c \in Handlers : Adopt(c)
  BY <1>5 DEF Adopt, Open, loopVars, waitVars
<1>6. CASE \E c \in Handlers : Leave(c)
  BY <1>6, <1>t DEF Leave, Close, Cleared, loopVars
<1>7. CASE \E c \in Coroutines : End(c)
  BY <1>7 DEF End, Release, Return, loopVars, waitVars
<1>8. CASE Rest
  <2>1. CASE Tick \/ RunFunc \/ OnTime \/ EndOnTime \/ Enter \/ EndWait
    BY <2>1 DEF Tick, RunFunc, OnTime, EndOnTime, Enter, EndWait, LoopAt, loopVars, waitVars
  <2>2. CASE TestOut \/ TestIn
    BY <2>2 DEF TestOut, TestIn, LoopAt, waitVars
  <2>3. CASE OnOut \/ OnIn
    BY <2>3, <1>t DEF OnOut, OnIn, Cleared
  <2>4. QED
    BY <1>8, <2>1, <2>2, <2>3 DEF Rest, Loop, EpollWait, LoopAt
<1>9. CASE Collect
  BY <1>9 DEF Collect, EpollWait, waitVars
<1>10. QED
  BY <1>1, <1>2, <1>3, <1>4, <1>5, <1>6, <1>7, <1>8, <1>9 DEF ServerNext, Body

(* What an event with EPOLLIN, or an edge, still promises to socket n. *)
Promised(n) ==
  n \in edges \/ \E i \in 1..Len(m_events) : m_events[i].ptr = n /\ "IN" \in m_events[i].bits

(* Dispatching the first event of the batch keeps the others; with its OUT *)
(* bit dealt with, it still has its IN bit.                                *)
LEMMA BatchKeeps ==
  ASSUME NEW q \in Seq(Events), q # <<>>, NEW r,
         \/ r = Tail(q) /\ "IN" \notin q[1].bits
         \/ r = [q EXCEPT ![1].bits = @ \ {"OUT"}],
         NEW i \in 1..Len(q), "IN" \in q[i].bits
  PROVE  \E j \in 1..Len(r) : r[j].ptr = q[i].ptr /\ "IN" \in r[j].bits
<1>1. CASE r = Tail(q) /\ "IN" \notin q[1].bits
  <2>1. i # 1 /\ i - 1 \in 1..Len(r) /\ r[i - 1] = q[i]
    BY <1>1
  <2>2. QED
    BY <2>1
<1>2. CASE r = [q EXCEPT ![1].bits = @ \ {"OUT"}]
  <2>1. Len(r) = Len(q) /\ \A j \in 1..Len(q) : q[j] \in Events
    BY <1>2
  <2>2. r[i].ptr = q[i].ptr /\ "IN" \in r[i].bits
    BY <1>2, <2>1 DEF Events
  <2>3. QED
    BY <2>1, <2>2
<1>3. QED
  BY <1>1, <1>2
LEMMA BatchDrops ==
  ASSUME NEW q \in Seq(Events), q # <<>>,
         NEW i \in 1..Len(q), q[i].ptr # q[1].ptr
  PROVE  \E j \in 1..Len(Tail(q)) : Tail(q)[j] = q[i]
<1>1. i # 1 /\ i - 1 \in 1..Len(Tail(q)) /\ Tail(q)[i - 1] = q[i]
  OBVIOUS
<1>2. QED
  BY <1>1

(* Dispatching forgets only what nobody waits for: an event of a socket    *)
(* that is not registered, and one whose reader has just been resumed.     *)
LEMMA DispatchKeeps ==
  ASSUME SafetyInv, Quiet, TestOut \/ TestIn \/ OnOut \/ OnIn,
         NEW n \in Sockets, m_inWait'[n] # NoOne,
         NEW i \in 1..Len(m_events), m_events[i].ptr = n, "IN" \in m_events[i].bits
  PROVE  \E j \in 1..Len(m_events') : m_events'[j].ptr = n /\ "IN" \in m_events'[j].bits
<1>t. /\ m_events \in Seq(Events) /\ m_inWait \in [Sockets -> Coroutines \cup {NoOne}]
      /\ Head(m_events) = m_events[1]
  BY DEF SafetyInv, TypeOK
<1>r. \A x \in Sockets : m_inWait[x] # NoOne => x \in m_notifies
  BY DEF SafetyInv, WaitersRegistered
<1>n. m_events # <<>>
  BY <1>t
<1>1. CASE m_events' = m_events
  BY <1>1
<1>2. CASE m_events' = AfterOut
  <2>1. \/ m_events' = Tail(m_events) /\ "IN" \notin m_events[1].bits
        \/ m_events' = [m_events EXCEPT ![1].bits = @ \ {"OUT"}]
    BY <1>2, <1>t DEF AfterOut
  <2>2. QED
    BY <2>1, <1>t, <1>n, BatchKeeps
<1>3. CASE TestIn /\ m_events' = AfterIn /\ m_events[1].ptr \notin m_notifies
  <2>1. m_events[1].ptr # n /\ m_events' = Tail(m_events)
    BY <1>3, <1>r DEF TestIn, AfterIn, waitVars
  <2>2. QED
    BY <2>1, <1>t, <1>n, BatchDrops
<1>4. CASE OnIn
  <2>1. m_inWait' = [m_inWait EXCEPT ![Head(m_events).ptr] = NoOne] /\ m_events' = Tail(m_events)
    <3>1. Head(m_events) \in Events
      BY <1>t, <1>n
    <3>3. Head(m_events).ptr \in Sockets
      BY <3>1 DEF Events
    <3>2. QED
      BY <1>4, <3>3 DEF OnIn, Cleared, AfterIn, Quiet
  <2>2. m_events[1].ptr # n
    BY <2>1, <1>t
  <2>3. QED
    BY <2>1, <2>2, <1>t, <1>n, BatchDrops
<1>5. QED
  BY <1>1, <1>2, <1>3, <1>4, <1>t DEF TestOut, TestIn, OnOut, exist

LEMMA ForgottenStep ==
  ASSUME SafetyInv, ServerTypes, Stacks, Owned, Quiet, NobodyForgotten, [ServerNext]_allVars
  PROVE  NobodyForgotten'
<1> SUFFICES ASSUME NEW n \in Sockets, m_inWait'[n] # NoOne, CanRead(n)'
             PROVE  Promised(n)'
  BY DEF NobodyForgotten, Promised
<1> USE ServerAssumption DEF Promised, CanRead, bodyVars, serverVars, Handlers
<1>p. m_inWait[n] # NoOne /\ CanRead(n) => Promised(n)
  BY DEF NobodyForgotten
<1>t. m_inWait \in [Sockets -> Coroutines \cup {NoOne}]
  BY DEF SafetyInv, TypeOK
<1>1. CASE Start \/ Spawn
  BY <1>1, <1>p DEF Start, Spawn, Go, loopVars, waitVars, Backlog
<1>2. CASE Listen
  BY <1>2, <1>p DEF Listen, Open, loopVars, waitVars, vars, Backlog
<1>3. CASE AcceptTakes
  <2>1. CanRead(n)
    BY <1>3 DEF AcceptTakes, ServerTypes, Backlog, Free, Fresh
  <2>2. QED
    BY <1>3, <2>1, <1>p DEF AcceptTakes, vars, loopVars, waitVars
<1>4. CASE AcceptAborted
  <2>1. CanRead(n)
    BY <1>4 DEF AcceptAborted, ServerTypes, Backlog
  <2>2. QED
    BY <1>4, <2>1, <1>p DEF AcceptAborted, vars, loopVars, waitVars
<1>5. CASE AcceptWaits
  BY <1>5, <1>p, <1>t DEF AcceptWaits, ReadWait, loopVars, Backlog
<1>6. ASSUME NEW c \in Handlers, ReadWaits(c) PROVE Promised(n)'
  BY <1>6, <1>p, <1>t DEF ReadWaits, ReadWait, loopVars, Backlog, fdOf
<1>7. ASSUME NEW c \in Handlers, Adopt(c) PROVE Promised(n)'
  BY <1>7, <1>p DEF Adopt, Open, loopVars, waitVars, Backlog, ServerTypes
<1>8. ASSUME NEW c \in Handlers, AdoptFails(c) PROVE Promised(n)'
  <2>1. conn' = [conn EXCEPT ![local[c]] = Closed]
    BY <1>8 DEF AdoptFails, CloseFd
  <2>2. CanRead(n)
    BY <1>8, <2>1 DEF AdoptFails, ServerTypes, Backlog
  <2>3. QED
    BY <1>8, <2>2, <1>p DEF AdoptFails, vars, loopVars, waitVars
<1>9. ASSUME NEW c \in Handlers, Echo(c) PROVE Promised(n)'
  <2>1. PICK k \in 1..conn[fdOf(c)].unread : conn' = [conn EXCEPT ![fdOf(c)].unread = @ - k]
    BY <1>9 DEF Echo
  <2>2. fdOf(c) \in Fds /\ conn[fdOf(c)] \notin {Fresh, Closed}
    BY <1>9, <2>1 DEF Echo, At, Stacks, fdOf, ServerTypes, Fresh, Closed
  <2>3. CanRead(n)
    <3>1. CASE n = Listener
      BY <1>9, <3>1 DEF Echo, Backlog
    <3>2. CASE n # Listener
      BY <1>9, <3>2, <2>1, <2>2 DEF Echo, ServerTypes
    <3>3. QED
      BY <3>1, <3>2
  <2>4. QED
    BY <1>9, <2>3, <1>p DEF Echo, vars, loopVars, waitVars
<1>10. ASSUME NEW c \in Handlers, Leave(c) PROVE Promised(n)'
  <2>1. n # Stack[c]
    BY <1>10, <1>t DEF Leave, Close, Cleared
  <2>2. m_inWait[n] # NoOne /\ m_events' = m_events
    BY <1>10, <1>t DEF Leave, Close, Cleared, loopVars
  <2>3. conn' = [conn EXCEPT ![m_fd[Stack[c]]] = Closed] /\ m_fd' = [m_fd EXCEPT ![Stack[c]] = NoFd]
    BY <1>10 DEF Leave, fdOf
  <2>4. CanRead(n)
    BY <1>10, <2>1, <2>3 DEF Leave, ServerTypes, Backlog
  <2>5. QED
    BY <1>10, <2>1, <2>2, <2>4, <1>p DEF Leave
<1>11. CASE \E c \in Coroutines : End(c)
  BY <1>11, <1>p DEF End, Release, Return, loopVars, waitVars, Backlog
<1>12. CASE Rest
  <2>1. CanRead(n) /\ UNCHANGED edges
    BY <1>12 DEF Rest, Backlog
  <2>2. m_inWait[n] # NoOne
    BY <1>12, <1>t DEF Rest, Loop, Enter, OnTime, Tick, EndOnTime, RunFunc, EpollWait, TestOut,
                       TestIn, OnOut, OnIn, EndWait, Cleared, waitVars
  <2>3. CASE TestOut \/ TestIn \/ OnOut \/ OnIn
    BY <2>1, <2>2, <2>3, <1>p, DispatchKeeps
  <2>4. CASE Enter \/ OnTime \/ Tick \/ EndOnTime \/ RunFunc \/ EndWait
    BY <2>1, <2>2, <2>4, <1>p DEF Enter, OnTime, Tick, EndOnTime, RunFunc, EndWait, loopVars
  <2>5. QED
    BY <1>12, <2>3, <2>4 DEF Rest, Loop, EpollWait, LoopAt
<1>13. CASE Collect
  <2>1. m_events = <<>> /\ m_inWait[n] # NoOne /\ CanRead(n)
    BY <1>13 DEF Collect, EpollWait, LoopAt, Quiet, waitVars, Backlog
  <2>2. n \in edges
    BY <2>1, <1>p
  <2>3. "IN" \in Bits(n)
    BY <2>1 DEF Bits
  <2>4. [ptr |-> n, bits |-> Bits(n)] \in {m_events'[i] : i \in 1..Len(m_events')}
    BY <1>13, <2>2, <2>3 DEF Collect
  <2>5. QED
    BY <2>3, <2>4
<1>14. CASE Arrive
  BY <1>14, <1>p DEF Arrive, vars, loopVars, waitVars, Backlog
<1>15. ASSUME NEW f \in Fds, Peer(f) PROVE Promised(n)'
  <2>1. n \in m_notifies
    BY <1>15 DEF Peer, vars, waitVars, SafetyInv, WaitersRegistered
  <2>2. CASE n # Listener /\ m_fd[n] = f
    BY <1>15, <2>1, <2>2 DEF Peer
  <2>3. CASE n = Listener \/ m_fd[n] # f
    <3>1. CanRead(n)
      BY <1>15, <2>3 DEF Peer, Backlog, ServerTypes
    <3>2. QED
      BY <1>15, <3>1, <1>p DEF Peer, vars, loopVars, waitVars
  <2>4. QED
    BY <2>2, <2>3
<1>16. CASE AcceptSpins \/ UNCHANGED allVars
  BY <1>16, <1>p DEF AcceptSpins, allVars, vars, loopVars, waitVars, Backlog
<1>17. QED
  BY <1>1, <1>2, <1>3, <1>4, <1>5, <1>6, <1>7, <1>8, <1>9, <1>10, <1>11, <1>12, <1>13, <1>14,
     <1>15, <1>16 DEF ServerNext, Body

-----------------------------------------------------------------------------
(* The theorems. *)

LEMMA ServerInvInit == ServerInit => ServerInv
<1> SUFFICES ASSUME ServerInit PROVE ServerInv
  OBVIOUS
<1> USE ServerAssumption, ServerBoundsAssumption DEF ServerInit, Init
<1>1. ServerTypes
  BY DEF ServerTypes, Closed
<1>2. Places /\ Stacks
  BY NoOneAssumption DEF Places, Stacks, Handlers
<1>3. Owned
  BY DEF Owned
<1>4. Quiet /\ NobodyForgotten
  BY DEF Quiet, NobodyForgotten
<1>5. QED
  BY <1>1, <1>2, <1>3, <1>4 DEF ServerInv

LEMMA ServerInvHolds == ServerSpec => [](SafetyInv /\ ServerInv)
<1>1. SafetyInv /\ ServerInv /\ [ServerNext]_allVars => ServerInv'
  BY TypesStep, PlacesStep, StacksStep, OwnedStep, QuietStep, ForgottenStep DEF ServerInv
<1>2. QED
  BY <1>1, ServerInvInit, ServerSafe, PTL DEF ServerSpec

(* Type correctness of the server. *)
THEOREM ServerTypeCorrect == ServerSpec => []ServerTypeOK
<1>1. SafetyInv /\ ServerInv => ServerTypeOK
  BY DEF SafetyInv, ServerInv, ServerTypes, ServerTypeOK
<1>2. QED
  BY <1>1, ServerInvHolds, PTL

(* Each descriptor that accept returns is owned by one coroutine or socket *)
(* until it is closed, and it is closed once.                              *)
THEOREM DescriptorOwnedHolds == ServerSpec => []DescriptorOwned
<1>1. SafetyInv /\ ServerInv => DescriptorOwned
  <2> SUFFICES ASSUME m_notifies \subseteq Sockets,
                      ServerTypes, Places, Stacks, Owned, NEW f \in Fds
               PROVE  IF f \in Free THEN Owners(f) = {}
                      ELSE \E x \in Coroutines \cup Sockets : Owners(f) = {x}
    BY DEF SafetyInv, TypeOK, ServerInv, DescriptorOwned
  <2> USE ServerAssumption DEF Owners, Free
  <2>1. CASE conn[f] = Closed
    BY <2>1 DEF Owned, ServerTypes, Stacks
  <2>2. ASSUME NEW c \in Coroutines, local[c] = f
        PROVE  Owners(f) = {c}
    <3>1. status[c] \notin {"done", "deleted"} /\ c \notin m_notifies
      BY <2>2 DEF Places, ServerTypes
    <3>2. QED
      BY <2>2, <3>1 DEF Owned, Stacks
  <2>3. ASSUME NEW n \in Sockets, m_fd[n] = f
        PROVE  Owners(f) = {n}
    BY <2>3 DEF Owned, Stacks
  <2>4. QED
    BY <2>1, <2>2, <2>3 DEF Owned
<1>2. QED
  BY <1>1, ServerInvHolds, PTL

(* Nobody waits in a socket that has something for it without an edge or   *)
(* an event on its way.                                                    *)
THEOREM NobodyForgottenHolds == ServerSpec => []NobodyForgotten
<1>1. ServerInv => NobodyForgotten
  BY DEF ServerInv
<1>2. QED
  BY <1>1, ServerInvHolds, PTL

-----------------------------------------------------------------------------
(* Each connection has somebody who serves it.                             *)

(* A coroutine of the server waits only in the socket it works on.         *)
Post(c) ==
  /\ pc[c] \in {"accept", "spawn", "open", "read"} => status[c] \in {"ready", "running", "in"}
  /\ status[c] = "in" =>
       \/ c = Acceptor /\ pc[c] = "accept" /\ m_inWait[Listener] = c
       \/ c # Acceptor /\ pc[c] = "read" /\ m_inWait[Stack[c]] = c

LEMMA PostRests ==
  ASSUME NEW c \in Coroutines, Post(c), Rests(c), pc'[c] = pc[c]
  PROVE  Post(c)'
BY ServerAssumption DEF Post, Rests, Handlers

LEMMA PostStep ==
  ASSUME SafetyInv, ServerTypes, Places, NEW c \in Coroutines, Post(c), [ServerNext]_allVars
  PROVE  Post(c)'
<1> USE ServerAssumption, NoOneAssumption DEF ServerTypes, bodyVars, serverVars, Handlers
<1>t. /\ status \in [Coroutines -> Status]
      /\ m_inWait \in [Sockets -> Coroutines \cup {NoOne}]
  BY DEF SafetyInv, TypeOK
<1>n. [Next]_vars
  BY StepIsScheduled
(* c rests where it is. *)
<1>r. ASSUME running # c, pc'[c] = pc[c] PROVE Post(c)'
  BY <1>r, <1>n, OthersRest, PostRests
<1>s. ASSUME UNCHANGED <<status, m_inWait>>, pc'[c] = pc[c] PROVE Post(c)'
  BY <1>s DEF Post
(* c has the CPU, or will. *)
<1>k. ASSUME status'[c] \in {"ready", "running"} PROVE Post(c)'
  BY <1>k DEF Post
<1>1. CASE Start
  <2>1. status' = [status EXCEPT ![Acceptor] = "ready"] /\ UNCHANGED m_inWait
        /\ pc' = [pc EXCEPT ![Acceptor] = "listen"]
    BY <1>1 DEF Start, Go, waitVars
  <2>2. QED
    BY <2>1, <1>k, <1>t DEF Post
<1>2. ASSUME NEW d \in Coroutines, running = d, status[d] = "running",
             UNCHANGED <<status, m_inWait>>, \A x \in Coroutines : x # d => pc'[x] = pc[x]
      PROVE  Post(c)'
  BY <1>2, <1>s, <1>k
<1>3. CASE Listen \/ AcceptTakes
  <2>1. Executes(Acceptor) /\ UNCHANGED <<status, m_inWait>>
        /\ \A x \in Coroutines : x # Acceptor => pc'[x] = pc[x]
    BY <1>3 DEF Listen, AcceptTakes, At, Open, vars, waitVars
  <2>2. QED
    BY <2>1, <1>2, OnCpu DEF Executes
<1>4. CASE AcceptAborted \/ AcceptSpins \/ Arrive \/ UNCHANGED allVars \/ \E f \in Fds : Peer(f)
  BY <1>4, <1>s DEF AcceptAborted, OnErrorContinue, AcceptSpins, Arrive, Peer, allVars, vars,
                    waitVars
<1>5. CASE AcceptWaits
  <2>1. /\ running = Acceptor /\ pc[Acceptor] = "accept" /\ UNCHANGED pc
        /\ status' = [status EXCEPT ![Acceptor] = "in"]
        /\ m_inWait' = [m_inWait EXCEPT ![Listener] = Acceptor]
    BY <1>5 DEF AcceptWaits, ReadWait, Out, At, Executes
  <2>2. CASE c = Acceptor
    BY <2>1, <2>2, <1>t DEF Post
  <2>3. QED
    BY <2>1, <2>2, <1>r
<1>6. ASSUME NEW d \in Handlers, ReadWaits(d) PROVE Post(c)'
  <2>1. /\ running = d /\ pc[d] = "read" /\ UNCHANGED pc
        /\ status' = [status EXCEPT ![d] = "in"]
        /\ m_inWait' = [m_inWait EXCEPT ![Stack[d]] = d]
    BY <1>6 DEF ReadWaits, ReadWait, Out, At, Executes
  <2>2. CASE c = d
    BY <2>1, <2>2, <1>t DEF Post
  <2>3. QED
    BY <2>1, <2>2, <1>r
<1>7. CASE Spawn
  <2>1. PICK d \in Handlers : Go(d) /\ pc' = [pc EXCEPT ![Acceptor] = "accept", ![d] = "open"]
    BY <1>7 DEF Spawn
  <2>2. Executes(Acceptor) /\ status[Acceptor] = "running"
    BY <1>7, OnCpu DEF Spawn, At
  <2>3. status' = [status EXCEPT ![d] = "ready"] /\ UNCHANGED m_inWait
    BY <2>1 DEF Go, waitVars
  <2>4. CASE c \in {Acceptor, d}
    BY <2>2, <2>3, <2>4, <1>k, <1>t
  <2>5. CASE c \notin {Acceptor, d}
    BY <2>1, <2>3, <2>5, <1>t DEF Post
  <2>6. QED
    BY <2>4, <2>5
<1>8. ASSUME NEW d \in Handlers, Adopt(d) \/ AdoptFails(d) \/ Echo(d) PROVE Post(c)'
  <2>1. Executes(d) /\ UNCHANGED <<status, m_inWait>>
        /\ \A x \in Coroutines : x # d => pc'[x] = pc[x]
    BY <1>8 DEF Adopt, AdoptFails, Echo, At, Open, vars, waitVars
  <2>2. QED
    BY <2>1, <1>2, OnCpu DEF Executes
<1>9. ASSUME NEW d \in Handlers, Leave(d) PROVE Post(c)'
  <2>1. running = d /\ status[d] = "running" /\ pc' = [pc EXCEPT ![d] = "end"]
    BY <1>9, OnCpu DEF Leave, At, Executes
  <2>2. CASE c = d
    <3>1. status'[d] \in {"ready", "running"}
      BY <1>9, <2>1 DEF Leave, Close
    <3>2. QED
      BY <2>2, <3>1, <1>k
  <2>3. QED
    BY <2>1, <2>2, <1>r
<1>10. ASSUME NEW d \in Coroutines, End(d) PROVE Post(c)'
  <2>1. running = d /\ pc[d] = "end" /\ UNCHANGED pc
    BY <1>10 DEF End, Release, Return, Executes
  <2>2. CASE c = d
    <3>1. status[d] # "in"
      BY <2>1, Whereabouts
    <3>2. status'[d] # "in"
      BY <1>10, <1>t, <3>1 DEF End, Release, Return, Out
    <3>3. QED
      BY <2>1, <2>2, <3>2 DEF Post
  <2>3. QED
    BY <2>1, <2>2, <1>r
<1>11. CASE Rest \/ Collect
  <2>1. Loop /\ UNCHANGED pc
    BY <1>11 DEF Rest, Collect, Loop
  <2>2. QED
    BY <2>1, LoopRests, PostRests
<1>12. QED
  BY <1>1, <1>3, <1>4, <1>5, <1>6, <1>7, <1>8, <1>9, <1>10, <1>11 DEF ServerNext, Body

(* Nobody but Listen opens the listener, and nobody closes it. *)
LEMMA ListenerStep ==
  ASSUME SafetyInv, ServerTypes, Places, [ServerNext]_allVars,
         Listener \in m_notifies => pc[Acceptor] \in {"accept", "spawn"},
         Listener \in m_notifies'
  PROVE  pc'[Acceptor] \in {"accept", "spawn"}
<1> USE ServerAssumption DEF ServerTypes, bodyVars, serverVars, Handlers
<1>s. ASSUME UNCHANGED <<m_notifies, pc>> PROVE pc'[Acceptor] \in {"accept", "spawn"}
  BY <1>s
<1>1. CASE Start
  <2>1. pc[Acceptor] \in {"none", "end"} /\ UNCHANGED m_notifies
    BY <1>1 DEF Start, Go, Places
  <2>2. QED
    BY <2>1
<1>2. CASE Listen
  BY <1>2 DEF Listen, At, vars
<1>3. CASE AcceptTakes \/ Spawn
  BY <1>3 DEF AcceptTakes, Spawn
<1>4. CASE AcceptAborted \/ AcceptSpins \/ Arrive \/ UNCHANGED allVars \/ \E f \in Fds : Peer(f)
  BY <1>4 DEF AcceptAborted, OnErrorContinue, AcceptSpins, Arrive, Peer, allVars, vars
<1>5. CASE AcceptWaits \/ \E d \in Handlers : ReadWaits(d)
  BY <1>5 DEF AcceptWaits, ReadWaits, ReadWait
<1>6. ASSUME NEW d \in Handlers, Adopt(d) \/ AdoptFails(d) \/ Echo(d) \/ Leave(d)
      PROVE  pc'[Acceptor] \in {"accept", "spawn"}
  <2>1. pc'[Acceptor] = pc[Acceptor]
    BY <1>6 DEF Adopt, AdoptFails, Echo, Leave
  <2>2. Listener \in m_notifies
    BY <1>6 DEF Adopt, AdoptFails, Echo, Leave, Open, Close, vars
  <2>3. QED
    BY <2>1, <2>2
<1>7. CASE \E d \in Coroutines : End(d)
  BY <1>7 DEF End, Release, Return
<1>8. CASE Rest \/ Collect
  <2>1. Loop /\ UNCHANGED pc
    BY <1>8 DEF Rest, Collect, Loop
  <2>2. UNCHANGED m_notifies
    BY <2>1, LoopFates
  <2>3. QED
    BY <2>1, <2>2
<1>9. QED
  BY <1>1, <1>2, <1>3, <1>4, <1>5, <1>6, <1>7, <1>8 DEF ServerNext, Body

(* The listener is open only while Accept is in its loop. *)
Posts ==
  /\ Listener \in m_notifies => pc[Acceptor] \in {"accept", "spawn"}
  /\ \A c \in Coroutines : Post(c)

(* c is about to run, or waits in n and will be resumed for what is there. *)
Serves(c, n) ==
  \/ status[c] \in {"ready", "running"}
  \/ status[c] = "in" /\ m_inWait[n] = c /\ (CanRead(n) => Promised(n))

(* While the server listens, and until a connection's descriptor is        *)
(* closed, there is one coroutine that will accept, and one that has the   *)
(* descriptor and will read what there is to read: it is about to run, or  *)
(* an event that resumes it is on its way.                                 *)
Attended ==
  /\ Listener \in m_notifies => Serves(Acceptor, Listener)
  /\ \A f \in Fds : f \in Free \/ \E c \in Coroutines :
       \/ local[c] = f /\ status[c] \in {"ready", "running"}
       \/ /\ c \in Handlers /\ Stack[c] \in m_notifies /\ m_fd[Stack[c]] = f
          /\ Serves(c, Stack[c])

LEMMA PostsHold == ServerSpec => [](SafetyInv /\ ServerInv /\ Posts)
<1>1. ServerInit => Posts
  BY ServerAssumption DEF ServerInit, Init, Posts, Post
<1>2. SafetyInv /\ ServerInv /\ Posts /\ [ServerNext]_allVars => Posts'
  <2> SUFFICES ASSUME SafetyInv, ServerInv, Posts, [ServerNext]_allVars PROVE Posts'
    OBVIOUS
  <2>1. ServerTypes /\ Places
    BY DEF ServerInv
  <2>2. Listener \in m_notifies' => pc'[Acceptor] \in {"accept", "spawn"}
    BY <2>1, ListenerStep DEF Posts
  <2>3. \A c \in Coroutines : Post(c)'
    BY <2>1, PostStep DEF Posts
  <2>4. QED
    BY <2>2, <2>3 DEF Posts
<1>3. QED
  BY <1>1, <1>2, ServerInvHolds, PTL DEF ServerSpec

(* Each connection that the server has taken, and the backlog while it     *)
(* listens, is attended to by a coroutine that is about to run or will be  *)
(* resumed, for any number of coroutines, descriptors and clients.         *)
THEOREM AttendedHolds == ServerSpec => []Attended
<1>1. SafetyInv /\ ServerInv /\ Posts => Attended
  <2> SUFFICES ASSUME SafetyInv, ServerInv, Posts PROVE Attended
    OBVIOUS
  <2> USE ServerAssumption, NoOneAssumption DEF ServerInv, Posts, Post
  <2>1. \A n \in Sockets : m_inWait[n] # NoOne /\ CanRead(n) => Promised(n)
    BY DEF NobodyForgotten, Promised
  <2>2. ASSUME NEW c \in Coroutines, NEW n \in Sockets,
               status[c] \in {"ready", "running", "in"}, status[c] = "in" => m_inWait[n] = c
        PROVE  Serves(c, n)
    BY <2>1, <2>2 DEF Serves
  <2>3. Listener \in m_notifies => Serves(Acceptor, Listener)
    <3>1. ASSUME Listener \in m_notifies PROVE Serves(Acceptor, Listener)
      BY <2>2, <3>1
    <3>2. QED
      BY <3>1
  <2>4. ASSUME NEW f \in Fds, f \notin Free
        PROVE  \E c \in Coroutines :
                 \/ local[c] = f /\ status[c] \in {"ready", "running"}
                 \/ /\ c \in Handlers /\ Stack[c] \in m_notifies /\ m_fd[Stack[c]] = f
                    /\ Serves(c, Stack[c])
    <3>1. CASE \E c \in Coroutines : local[c] = f
      <4>1. PICK c \in Coroutines : local[c] = f
        BY <3>1
      <4>2. pc[c] \in {"spawn", "open"}
        BY <4>1 DEF Places
      <4>3. status[c] \in {"ready", "running"}
        BY <4>2
      <4>4. QED
        BY <4>1, <4>3
    <3>2. CASE \E n \in Sockets : m_fd[n] = f
      <4>1. PICK n \in Sockets : m_fd[n] = f
        BY <3>2
      <4>2. n \in m_notifies /\ \E c \in Handlers : pc[c] = "read" /\ Stack[c] = n
        BY <4>1 DEF Stacks
      <4>3. PICK c \in Handlers : pc[c] = "read" /\ Stack[c] = n
        BY <4>2
      <4>4. Serves(c, n)
        BY <2>2, <4>3 DEF Handlers
      <4>5. QED
        BY <4>1, <4>2, <4>3, <4>4 DEF Handlers
    <3>3. QED
      BY <2>4, <3>1, <3>2 DEF Owned, Free
  <2>5. QED
    BY <2>3, <2>4 DEF Attended
<1>2. QED
  BY <1>1, PostsHold, PTL
=============================================================================
