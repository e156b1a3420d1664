------------------------------ MODULE Connect ------------------------------
(***************************************************************************)
(* TcpSocket::Connect of src/wrapsocket.cpp on top of the scheduler of     *)
(* Epoll: doConnectWithTimeout, the timer coroutine it starts, which works *)
(* on references into its stack frame, and Close, called by anybody who    *)
(* has the socket, at any time. Every step of a coroutine is a call of     *)
(* Epoll together with what it changes here; between two of them the clock *)
(* and the kernel may move, and after one that yields, everybody.          *)
(***************************************************************************)
EXTENDS Epoll

CONSTANTS
  Callers,    \* the coroutines that use the socket; the others are timers
  Connecters, \* those of them that may connect it
  Readers,    \* those of them that wait for events of Other
  Sock,       \* the TcpSocket
  Other,      \* another socket, in which the callers wait meanwhile
  Chan,       \* caller -> the tmpChan of its frame
  Timeouts,   \* the arguments seconds of Connect
  MaxConns    \* bound: the descriptors that are opened

ASSUME CallersAssumption ==
  /\ Callers \subseteq Coroutines
  /\ Connecters \subseteq Callers /\ Readers \subseteq Callers
  /\ Sock \in Sockets /\ Other \in Sockets /\ Sock # Other
  /\ Chan \in [Callers -> Chans]
  /\ \A c, d \in Callers : Chan[c] = Chan[d] => c = d
ASSUME TimeoutsAssumption ==
  /\ Timeouts \subseteq Nat
  /\ MaxConns \in Nat
  /\ 1 \in SleepArgs

Timers == Coroutines \ Callers

VARIABLES
  pc,     \* where each coroutine is in its code
  m_fd,   \* 0 for -1, else the number of the descriptor, all different
  opened, \* how many descriptors there have been
  conn,   \* what the kernel knows of m_fd
  edge,   \* an event of m_fd waits to be reported
  frame,  \* the locals of doConnectWithTimeout on each caller's stack
  refs    \* the caller whose locals a timer refers to, until it ends

kernelVars == <<conn, edge>>
connectVars == <<pc, m_fd, opened, kernelVars, frame, refs>>
allVars == <<vars, connectVars>>

(* timer is NoOne when seconds is 0, due is endpoint - curtime() and 0     *)
(* after that, pSocket is FALSE once it is nullptr. Which timer it is, and *)
(* fd, the descriptor that this call opened, are history.                  *)
Frames == [timer : Timers \cup {NoOne}, due : Nat, pSocket : BOOLEAN,
           timeout : BOOLEAN, err : {"none", "ok", "error"}, fd : 0..MaxConns]
NoFrame == [timer |-> NoOne, due |-> 0, pSocket |-> FALSE,
            timeout |-> FALSE, err |-> "none", fd |-> 0]

ConnectTypeOK ==
  /\ TypeOK
  /\ pc \in [Coroutines -> {"user", "opened", "doConnect", "conn", "tried", "chan",
                            "timer", "end"}]
  /\ m_fd \in 0..opened
  /\ opened \in 0..MaxConns
  /\ conn \in {"none", "fresh", "connecting", "up", "failed", "dead"}
  /\ edge \in BOOLEAN
  /\ frame \in [Callers -> Frames]
  /\ refs \in [Timers -> Callers \cup {NoOne}]
  /\ (m_fd # 0 <=> Sock \in m_notifies)

ConnectInit ==
  /\ Init
  /\ pc = [c \in Coroutines |-> IF c \in Callers THEN "user" ELSE "end"]
  /\ m_fd = 0
  /\ opened = 0
  /\ conn = "none"
  /\ edge = FALSE
  /\ frame = [c \in Callers |-> NoFrame]
  /\ refs = [t \in Timers |-> NoOne]

-----------------------------------------------------------------------------
(* What the steps are made of. *)

Goto(c, where) == pc' = [pc EXCEPT ![c] = where]

(* c is in a call of Connect. *)
InConnect(c) == pc[c] \notin {"user", "timer", "end"}

(* TcpSocket::Close, called by d; nothing if it is not open. *)
CloseSock(d) ==
  /\ IF m_fd = 0 THEN UNCHANGED vars ELSE Close(d, Sock)
  /\ m_fd' = 0
  /\ conn' = "none"
  /\ edge' = FALSE

(* The call of Connect returns and its frame is gone. *)
Leave(c) ==
  /\ Goto(c, "user")
  /\ frame' = [frame EXCEPT ![c] = NoFrame]
  /\ UNCHANGED <<m_fd, opened, kernelVars, refs>>

(* The body of the timer t returns. *)
Gone(t) ==
  /\ Goto(t, "end")
  /\ refs' = [refs EXCEPT ![t] = NoOne]

-----------------------------------------------------------------------------
(* A call of Connect. *)

(* Connect: a socket that is not open gets a descriptor and is added. *)
Connect(c) ==
  /\ c \in Connecters
  /\ pc[c] = "user"
  /\ opened < MaxConns
  /\ Open(c, Sock)
  /\ opened' = opened + 1
  /\ m_fd' = opened + 1
  /\ conn' = "fresh"
  /\ frame' = [frame EXCEPT ![c].fd = opened + 1]
  /\ Goto(c, "opened")
  /\ UNCHANGED <<edge, refs>>

(* doConnectWithTimeout: with seconds = 0 there is no timer; otherwise a   *)
(* coroutine t is started that refers to tmpChan, timeout and pSocket.     *)
Untimed(c) ==
  /\ Executes(c)
  /\ pc[c] = "opened"
  /\ 0 \in Timeouts
  /\ Goto(c, "doConnect")
  /\ UNCHANGED <<vars, m_fd, opened, kernelVars, frame, refs>>

StartTimer(c, t, seconds) ==
  /\ Executes(c)
  /\ pc[c] = "opened"
  /\ seconds > 0
  /\ Go(t)
  /\ pc' = [pc EXCEPT ![c] = "doConnect", ![t] = "timer"]
  /\ frame' = [frame EXCEPT ![c].timer = t, ![c].pSocket = TRUE, ![c].due = seconds]
  /\ refs' = [refs EXCEPT ![t] = c]
  /\ UNCHANGED <<m_fd, opened, kernelVars>>

(* doConnect: connect() succeeds or fails at once, or is in progress.      *)
ConnectNow(c) ==
  /\ Executes(c)
  /\ pc[c] = "doConnect"
  /\ \/ conn' = "up" /\ frame' = [frame EXCEPT ![c].err = "ok"]
     \/ conn' = "dead" /\ frame' = [frame EXCEPT ![c].err = "error"]
  /\ edge' = TRUE
  /\ Goto(c, "tried")
  /\ UNCHANGED <<vars, m_fd, opened, refs>>

InProgress(c) ==
  /\ pc[c] = "doConnect"
  /\ ConnectWait(c, Sock)
  /\ conn' = "connecting"
  /\ Goto(c, "conn")
  /\ UNCHANGED <<m_fd, opened, edge, frame, refs>>

(* doConnect, resumed: getsockopt(m_fd, SO_ERROR), which reads the error   *)
(* of a connection once, and nothing of a descriptor that is -1.           *)
(* The faulty variant does not look.                                       *)
SoErrorUnread == "ok"
SoError == IF conn \in {"none", "failed"} THEN "error" ELSE "ok"

GetError(c) ==
  /\ Executes(c)
  /\ pc[c] = "conn"
  /\ frame' = [frame EXCEPT ![c].err = SoError]
  /\ conn' = IF conn = "failed" THEN "dead" ELSE conn
  /\ Goto(c, "tried")
  /\ UNCHANGED <<vars, m_fd, opened, edge, refs>>

(* doConnectWithTimeout returns what doConnect did, when there is no timer,*)
(* or ETIMEDOUT, when it was the timer that closed the socket.             *)
ReturnUntimed(c) ==
  /\ Executes(c)
  /\ pc[c] = "tried"
  /\ frame[c].timer = NoOne
  /\ UNCHANGED vars
  /\ Leave(c)

(* The faulty variant does not ask whether the timer has gone. *)
TimedOutUnasked(c) == FALSE
TimedOut(c) == frame[c].timeout

ReturnTimedOut(c) ==
  /\ Executes(c)
  /\ pc[c] = "tried"
  /\ frame[c].timer # NoOne
  /\ TimedOut(c)
  /\ UNCHANGED vars
  /\ Leave(c)

(* A faulty variant of what follows: it returns without waiting. *)
ReturnAtOnce(c) ==
  /\ Executes(c)
  /\ pc[c] = "tried"
  /\ frame[c].timer # NoOne
  /\ ~TimedOut(c)
  /\ UNCHANGED vars
  /\ Leave(c)

(* Otherwise it tells the timer to stop, and waits until that has seen it. *)
AwaitTimer(c) ==
  /\ pc[c] = "tried"
  /\ frame[c].timer # NoOne
  /\ ~TimedOut(c)
  /\ ChanWait(c, Chan[c])
  /\ frame' = [frame EXCEPT ![c].pSocket = FALSE]
  /\ Goto(c, "chan")
  /\ UNCHANGED <<m_fd, opened, kernelVars, refs>>

ReturnWoken(c) ==
  /\ Executes(c)
  /\ pc[c] = "chan"
  /\ UNCHANGED vars
  /\ Leave(c)

-----------------------------------------------------------------------------
(* The timer t of the call of c. *)

(* pSocket is nullptr: wake the caller, if it waits, and end. *)
TimerStops(t, c) ==
  /\ Executes(t)
  /\ pc[t] = "timer"
  /\ ~frame[c].pSocket
  /\ IF m_wait[Chan[c]] = NoOne THEN UNCHANGED vars ELSE ChanWake(t, Chan[c])
  /\ Gone(t)
  /\ UNCHANGED <<m_fd, opened, kernelVars, frame>>

(* The time is over: close the socket and end. The faulty variant only     *)
(* tells the caller.                                                       *)
CloseAtDeadlineNot(t) == UNCHANGED <<vars, m_fd, kernelVars>>
CloseAtDeadline(t) == CloseSock(t)

TimerExpires(t, c) ==
  /\ Executes(t)
  /\ pc[t] = "timer"
  /\ frame[c].pSocket
  /\ frame[c].due = 0
  /\ frame' = [frame EXCEPT ![c].timeout = TRUE]
  /\ CloseAtDeadline(t)
  /\ Gone(t)
  /\ UNCHANGED opened

TimerSleeps(t, c) ==
  /\ pc[t] = "timer"
  /\ frame[c].pSocket
  /\ frame[c].due > 0
  /\ Sleep(t, 1)
  /\ UNCHANGED connectVars

(* goimpl: what is left of a coroutine whose body has returned. *)
TimerEnds(t) ==
  /\ pc[t] = "end"
  /\ Release(t) \/ Return(t)
  /\ UNCHANGED connectVars

Timer ==
  \/ \E t \in Timers, c \in Callers :
       refs[t] = c /\ (TimerStops(t, c) \/ TimerExpires(t, c) \/ TimerSleeps(t, c))
  \/ \E t \in Timers : TimerEnds(t)

-----------------------------------------------------------------------------
(* The callers' own code, the loop and the kernel. *)

UserClose(c) ==
  /\ pc[c] = "user"
  /\ Executes(c)
  /\ m_fd # 0
  /\ CloseSock(c)
  /\ UNCHANGED <<pc, opened, frame, refs>>

(* A caller does something else, and has the CPU again after a while. *)
UserWait(c) ==
  /\ pc[c] = "user"
  /\ \/ Sleep(c, 1)
     \/ c \in Readers /\ (Open(c, Other) \/ ReadWait(c, Other))
  /\ UNCHANGED connectVars

(* Epoll::Go in main, before the loop. *)
Start(c) ==
  /\ at = "start"
  /\ Go(c)
  /\ UNCHANGED connectVars

Caller(c) ==
  \/ Connect(c) \/ Untimed(c)
  \/ \E t \in Timers, seconds \in Timeouts : StartTimer(c, t, seconds)
  \/ ConnectNow(c) \/ InProgress(c) \/ GetError(c)
  \/ ReturnUntimed(c) \/ ReturnTimedOut(c) \/ AwaitTimer(c) \/ ReturnWoken(c)
  \/ UserClose(c) \/ UserWait(c)

(* epoll_wait reports the socket if something has happened to it since it  *)
(* was reported last, with what is true of it now: a connection is         *)
(* writable, and readable once data is there; one that failed is both.     *)
ConnectionEvents ==
  \/ ~edge /\ Sock \notin {m_events'[i].ptr : i \in DOMAIN m_events'}
  \/ edge /\ \E i \in DOMAIN m_events' :
               m_events'[i] \in [ptr : {Sock},
                                 bits : IF conn = "up" THEN {{"OUT"}, {"IN", "OUT"}}
                                                       ELSE {{"IN", "OUT"}}]

ConnectLoop ==
  \/ /\ Enter \/ OnTime \/ Tick \/ EndOnTime \/ RunFunc \/ EndWait
        \/ TestOut \/ OnOut \/ TestIn \/ OnIn
     /\ UNCHANGED connectVars
  \/ /\ EpollWait
     /\ ConnectionEvents
     /\ \A i \in DOMAIN m_events' : m_events'[i].ptr # Sock => m_events'[i].bits = {"IN"}
     /\ edge' = FALSE
     /\ UNCHANGED <<pc, m_fd, opened, conn, frame, refs>>

(* A second passes, of those that sleeps and timeouts take. *)
Time ==
  /\ ClockTick
  /\ frame' = [c \in Callers |-> [frame[c] EXCEPT !.due = IF @ > 0 THEN @ - 1 ELSE 0]]
  /\ UNCHANGED <<pc, m_fd, opened, kernelVars, refs>>

(* The attempt succeeds or fails, or data arrives. *)
Kernel ==
  /\ \/ conn = "connecting" /\ conn' \in {"up", "failed"}
     \/ conn = "up" /\ ~edge /\ UNCHANGED conn
  /\ edge' = TRUE
  /\ UNCHANGED <<vars, pc, m_fd, opened, frame, refs>>

Coroutine == Timer \/ \E c \in Callers : Caller(c)

ConnectNext ==
  \/ \E c \in Callers : Start(c)
  \/ Coroutine \/ ConnectLoop \/ Time \/ Kernel

ConnectSpec == ConnectInit /\ [][ConnectNext]_allVars

(* The thread keeps running, callers' segments end, and the clock moves.   *)
(* Nothing is assumed of the kernel: an attempt may never be answered.     *)
ConnectFairSpec ==
  /\ ConnectSpec
  /\ WF_allVars(Coroutine) /\ WF_allVars(ConnectLoop) /\ WF_allVars(Time)

-----------------------------------------------------------------------------
(* Properties. *)

(* The references of a timer are good as long as it uses them: the call    *)
(* that started it has not returned, whoever resumed its caller - the      *)
(* kernel, Close, or the timer itself.                                     *)
FrameAlive ==
  \A t \in Timers :
    pc[t] = "timer" =>
      /\ refs[t] \in Callers
      /\ InConnect(refs[t])
      /\ frame[refs[t]].timer = t

(* Nobody's place in a wait slot is taken: m_connWait and tmpChan are free *)
(* when a call of Connect is about to wait there, even if another call on  *)
(* the same socket has not returned yet.                                   *)
SlotsFree ==
  \A c \in Callers :
    /\ pc[c] = "doConnect" => Sock \in m_notifies /\ m_connWait[Sock] = NoOne
    /\ pc[c] = "tried" => m_wait[Chan[c]] = NoOne

(* When the timer has set timeout, the descriptor of its call is closed,   *)
(* so that a caller that gets ETIMEDOUT can connect again.                 *)
TimeoutCloses == \A c \in Callers : frame[c].timeout => m_fd # frame[c].fd

(* As long as one coroutine does all the connecting, and does it neither   *)
(* without a timeout nor while events of the socket are still to be        *)
(* dispatched, a call that reports success does so of its own connection,  *)
(* and when that is up. Others may close the socket at any time.           *)
TrueOutcome ==
  [][\A c \in Callers :
       frame'[c].err = "ok" /\ frame[c].err # "ok" => m_fd' = frame[c].fd /\ conn' = "up"]_allVars

(* A call of Connect with a timeout returns, though the kernel may never   *)
(* say anything: the timer is always there to end the wait.                *)
ConnectReturns == \A c \in Callers : frame[c].timer # NoOne ~> pc[c] = "user"
=============================================================================
