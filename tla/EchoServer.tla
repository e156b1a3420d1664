----------------------------- MODULE EchoServer -----------------------------
(***************************************************************************)
(* AcceptSocket of src/wrapsocket.cpp and the server of src/server.cpp     *)
(* that uses it: the coroutine Accept takes connections and starts for     *)
(* each a coroutine NewConnect, which opens a TcpSocket of its own on its  *)
(* stack and echoes until the peer is gone. Every step of a coroutine is a *)
(* step of Epoll with what the code around the call does; the kernel has a *)
(* backlog, a table of descriptors and an edge-triggered epoll. What Write *)
(* does with the echo is in TcpStream.tla.                                 *)
(***************************************************************************)
EXTENDS Epoll

CONSTANTS
  Acceptor,   \* the coroutine Accept; all others run NewConnect
  Listener,   \* the AcceptSocket on its stack
  Stack,      \* the TcpSocket on the stack of each coroutine NewConnect
  Fds,        \* the descriptors the process may have for connections
  NoFd,       \* -1
  MaxConns,   \* bound: the clients that connect
  MaxUnread   \* bound: the units in a receive buffer

Handlers == {c \in Coroutines : c # Acceptor}

ASSUME ServerAssumption ==
  /\ Acceptor \in Coroutines /\ Listener \in Sockets /\ NoFd \notin Fds
  /\ \A c \in Coroutines : c \notin Sockets
  /\ Stack \in [Handlers -> {n \in Sockets : n # Listener}]
  /\ \A c, d \in Handlers : Stack[c] = Stack[d] => c = d
ASSUME ServerBoundsAssumption == MaxConns \in Nat /\ MaxUnread \in Nat

VARIABLES
  pc,       \* what a coroutine does next
  local,    \* the descriptor in a coroutine's frame: newsocket, or s
  m_fd,     \* m_fd of each TcpSocket
  arrived,  \* the clients that have connected
  taken,    \* those of them that have left the backlog
  conn,     \* each descriptor: closed, or open; what it has to read
  edges     \* the registered sockets with something to report

bodyVars == <<pc, local, m_fd, taken, conn, edges>>
serverVars == <<bodyVars, arrived>>
allVars == <<vars, serverVars>>

Closed == [is |-> "closed", unread |-> 0]
Fresh == [is |-> "open", unread |-> 0]
Free == {f \in Fds : conn[f] = Closed}
Backlog == arrived - taken

ServerTypeOK ==
  /\ TypeOK
  /\ pc \in [Coroutines -> {"none", "listen", "accept", "spawn", "open", "read", "end"}]
  /\ local \in [Coroutines -> Fds \cup {NoFd}]
  /\ m_fd \in [Sockets -> Fds \cup {NoFd}]
  /\ arrived \in 0..MaxConns /\ taken \in 0..arrived
  /\ conn \in [Fds -> [is : {"closed", "open", "over"}, unread : 0..MaxUnread]]
  /\ edges \subseteq m_notifies

ServerInit ==
  /\ Init
  /\ pc = [c \in Coroutines |-> "none"]
  /\ local = [c \in Coroutines |-> NoFd]
  /\ m_fd = [n \in Sockets |-> NoFd]
  /\ arrived = 0 /\ taken = 0
  /\ conn = [f \in Fds |-> Closed]
  /\ edges = {}

-----------------------------------------------------------------------------
(* The coroutine Accept. *)

At(c, here) == Executes(c) /\ pc[c] = here

(* m_epoll.Go(Accept), before the loop. *)
Start ==
  /\ at = "start"
  /\ Go(Acceptor)
  /\ pc' = [pc EXCEPT ![Acceptor] = "listen"]
  /\ UNCHANGED <<local, m_fd, arrived, taken, conn, edges>>

(* Listen: socket, bind, listen, SetNoblock and add; if one of them fails, *)
(* what was there is closed and Accept returns.                            *)
Listen ==
  /\ At(Acceptor, "listen")
  /\ \/ /\ Open(Acceptor, Listener)
        /\ pc' = [pc EXCEPT ![Acceptor] = "accept"]
        /\ edges' = edges \cup {Listener}
     \/ pc' = [pc EXCEPT ![Acceptor] = "end"] /\ UNCHANGED <<vars, edges>>
  /\ UNCHANGED <<local, m_fd, arrived, taken, conn>>

(* accept gives a descriptor. *)
AcceptTakes ==
  /\ At(Acceptor, "accept")
  /\ Backlog > 0
  /\ taken' = taken + 1
  /\ \E f \in Free :
       /\ local' = [local EXCEPT ![Acceptor] = f]
       /\ conn' = [conn EXCEPT ![f] = Fresh]
  /\ pc' = [pc EXCEPT ![Acceptor] = "spawn"]
  /\ UNCHANGED <<vars, m_fd, arrived, edges>>

(* EAGAIN: wait for an event. The faulty variants poll the listener, and   *)
(* wait without having asked.                                              *)
AcceptPolls ==
  /\ At(Acceptor, "accept")
  /\ Free # {} /\ Backlog = 0
  /\ UNCHANGED allVars
AcceptOnce ==
  /\ At(Acceptor, "accept")
  /\ Free # {}
  /\ ReadWait(Acceptor, Listener)
  /\ UNCHANGED serverVars
AcceptWaits ==
  /\ At(Acceptor, "accept")
  /\ Free # {} /\ Backlog = 0
  /\ ReadWait(Acceptor, Listener)
  /\ UNCHANGED serverVars

(* The loop after an error of accept; the faulty variant returns. *)
OnErrorReturn == pc' = [pc EXCEPT ![Acceptor] = "end"]
OnErrorContinue == UNCHANGED pc

(* The connection was aborted meanwhile: accept reports it and goes on. *)
AcceptAborted ==
  /\ At(Acceptor, "accept")
  /\ Free # {} /\ Backlog > 0
  /\ taken' = taken + 1
  /\ OnErrorContinue
  /\ UNCHANGED <<vars, local, m_fd, arrived, conn, edges>>

(* No descriptor is free, which accept looks at first: EMFILE, and again.  *)
Full == Free = {}
AcceptSpins == At(Acceptor, "accept") /\ Full /\ UNCHANGED allVars

(* Go(NewConnect) with the descriptor bound to it. *)
Spawn ==
  /\ At(Acceptor, "spawn")
  /\ \E c \in Handlers :
       /\ Go(c)
       /\ pc' = [pc EXCEPT ![Acceptor] = "accept", ![c] = "open"]
       /\ local' = [local EXCEPT ![Acceptor] = NoFd, ![c] = local[Acceptor]]
  /\ UNCHANGED <<m_fd, arrived, taken, conn, edges>>

-----------------------------------------------------------------------------
(* The coroutines NewConnect. *)

(* TcpSocket::Open: the socket has the descriptor from now on. *)
Adopt(c) ==
  /\ At(c, "open")
  /\ Open(c, Stack[c])
  /\ m_fd' = [m_fd EXCEPT ![Stack[c]] = local[c]]
  /\ local' = [local EXCEPT ![c] = NoFd]
  /\ edges' = edges \cup {Stack[c]}
  /\ pc' = [pc EXCEPT ![c] = "read"]
  /\ UNCHANGED <<arrived, taken, conn>>

(* What Open does to the descriptor when it fails; the faulty variant      *)
(* leaves that to the caller.                                              *)
LeftOpen(f) == conn
CloseFd(f) == [conn EXCEPT ![f] = Closed]

(* Open fails, and NewConnect returns. *)
AdoptFails(c) ==
  /\ At(c, "open")
  /\ conn' = CloseFd(local[c])
  /\ local' = [local EXCEPT ![c] = NoFd]
  /\ pc' = [pc EXCEPT ![c] = "end"]
  /\ UNCHANGED <<vars, m_fd, arrived, taken, edges>>

fdOf(c) == m_fd[Stack[c]]

(* recv gives some units, which Write echoes ... *)
Echo(c) ==
  /\ At(c, "read")
  /\ \E k \in 1..conn[fdOf(c)].unread : conn' = [conn EXCEPT ![fdOf(c)].unread = @ - k]
  /\ UNCHANGED <<vars, pc, local, m_fd, arrived, taken, edges>>

(* ... or EAGAIN ... *)
ReadWaits(c) ==
  /\ At(c, "read")
  /\ conn[fdOf(c)] = Fresh
  /\ ReadWait(c, Stack[c])
  /\ UNCHANGED serverVars

(* ... or the end or an error, and the destructor closes the socket. *)
Leave(c) ==
  /\ At(c, "read")
  /\ conn[fdOf(c)].is = "over" /\ conn[fdOf(c)].unread = 0
  /\ Close(c, Stack[c])
  /\ conn' = [conn EXCEPT ![fdOf(c)] = Closed]
  /\ m_fd' = [m_fd EXCEPT ![Stack[c]] = NoFd]
  /\ edges' = edges \ {Stack[c]}
  /\ pc' = [pc EXCEPT ![c] = "end"]
  /\ UNCHANGED <<local, arrived, taken>>

(* The body has returned. *)
End(c) ==
  /\ pc[c] = "end"
  /\ Release(c) \/ Return(c)
  /\ UNCHANGED serverVars

-----------------------------------------------------------------------------
(* The kernel and the clients. *)

CanRead(n) ==
  IF n = Listener THEN Backlog > 0
  ELSE m_fd[n] # NoFd /\ conn[m_fd[n]] \notin {Fresh, Closed}
Bits(n) ==
  (IF CanRead(n) THEN {"IN"} ELSE {}) \cup (IF n = Listener THEN {} ELSE {"OUT"})

(* epoll_wait reports the sockets with an edge, and what is true of them.  *)
Collect ==
  /\ EpollWait
  /\ {[ptr |-> n, bits |-> Bits(n)] : n \in {x \in edges : Bits(x) # {}}}
       = {m_events'[i] : i \in 1..Len(m_events')}
  /\ edges' = {}
  /\ UNCHANGED <<pc, local, m_fd, arrived, taken, conn>>

Rest == (Loop /\ ~(at = "funcs" /\ m_funcs = <<>>)) /\ UNCHANGED serverVars

(* A client connects once the server listens. *)
Arrive ==
  /\ Listener \in m_notifies
  /\ arrived < MaxConns
  /\ arrived' = arrived + 1
  /\ edges' = edges \cup {Listener}
  /\ UNCHANGED <<vars, pc, local, m_fd, taken, conn>>

(* A peer sends a unit, or closes or resets the connection. *)
Peer(f) ==
  /\ conn[f].is = "open"
  /\ \/ conn[f].unread < MaxUnread /\ conn' = [conn EXCEPT ![f].unread = @ + 1]
     \/ conn' = [conn EXCEPT ![f].is = "over"]
  /\ edges' = edges \cup {n \in m_notifies : n # Listener /\ m_fd[n] = f}
  /\ UNCHANGED <<vars, pc, local, m_fd, arrived, taken>>

-----------------------------------------------------------------------------
Body ==
  \/ Listen \/ AcceptTakes \/ AcceptWaits \/ AcceptAborted \/ AcceptSpins \/ Spawn
  \/ \E c \in Handlers : Adopt(c) \/ AdoptFails(c) \/ Echo(c) \/ ReadWaits(c) \/ Leave(c)
  \/ \E c \in Coroutines : End(c)

ServerNext ==
  \/ Start \/ Body \/ Rest \/ Collect \/ Arrive
  \/ \E f \in Fds : Peer(f)

ServerSpec == ServerInit /\ [][ServerNext]_allVars

(* One thread, as in Epoll; clients and peers do what they like.           *)
ServerFairSpec ==
  ServerSpec /\ WF_allVars(Body) /\ WF_allVars(Rest) /\ WF_allVars(Collect)

-----------------------------------------------------------------------------
(* Properties. *)

(* Who has descriptor f: the accept loop that has just got it, a coroutine *)
(* it was bound to that has not run yet, or a socket of a coroutine that   *)
(* lives; a socket that is not registered has none.                        *)
Owners(f) ==
  {c \in Coroutines : local[c] = f /\ status[c] \notin {"done", "deleted"}}
    \cup {n \in m_notifies : m_fd[n] = f}

(* A descriptor is closed once, and by the coroutine it was handed to:     *)
(* each open one has exactly one owner and a closed one has none, though   *)
(* it travels by value from accept through std::bind to a socket on        *)
(* another stack, whose address earlier connections have used.             *)
DescriptorOwned ==
  \A f \in Fds :
    IF f \in Free THEN Owners(f) = {}
    ELSE \E x \in Coroutines \cup Sockets : Owners(f) = {x}

(* Accept and NewConnect wait in a socket that has something for them only *)
(* if an event for it is on its way: accept and recv are asked until they  *)
(* say EAGAIN, so no edge is consumed and forgotten, not even for a socket *)
(* that is built where an earlier one was.                                 *)
NobodyForgotten ==
  \A n \in Sockets : m_inWait[n] # NoOne /\ CanRead(n) =>
    n \in edges \/ \E i \in 1..Len(m_events) : m_events[i].ptr = n /\ "IN" \in m_events[i].bits

(* As long as Wait keeps returning, each client's connection leaves the    *)
(* backlog while the server listens, what its peer sends is echoed, and    *)
(* its descriptor is closed after the peer has gone.                       *)
Served ==
  []<>LoopAt("onTime") =>
    /\ \A k \in 1..MaxConns : arrived >= k ~> taken >= k
    /\ \A f \in Fds :
         /\ conn[f].unread > 0 ~> conn[f].unread = 0
         /\ conn[f].is = "over" ~> conn[f].is = "closed"

(* The accept loop gives the thread back unless the process has run out of *)
(* descriptors. Then it never does: nobody else can run to close one.      *)
AcceptorYields == running = Acceptor ~> running # Acceptor \/ Full
=============================================================================
