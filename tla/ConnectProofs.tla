---------------------------- MODULE ConnectProofs ----------------------------
(***************************************************************************)
(* Proofs about Connect for any number of coroutines that connect one      *)
(* socket, any timeouts and any timers: it is a program over the           *)
(* scheduler, no timer uses the frame of a call that has returned, no      *)
(* waiter is overwritten, and a timer closes what its own call opened.     *)
(***************************************************************************)
EXTENDS Connect, EpollProofs

-----------------------------------------------------------------------------
(* Whatever connects, closes and times out, the scheduler sees legal       *)
(* calls.                                                                  *)

LEMMA CloseIsScheduled ==
  ASSUME NEW d \in Coroutines, CloseSock(d)
  PROVE  [Next]_vars
BY CallersAssumption DEF CloseSock, Next, Call

LEMMA ConnectStepIsScheduled ==
  ASSUME [ConnectNext]_allVars
  PROVE  [Next]_vars
<1> USE CallersAssumption, TimeoutsAssumption
<1>1. CASE \E c \in Callers : Start(c)
  BY <1>1 DEF Start, Next
<1>2. ASSUME NEW c \in Callers, Caller(c) PROVE [Next]_vars
  <2>1. CASE Connect(c)
    BY <2>1 DEF Connect, Next, Call
  <2>2. CASE \E t \in Timers, seconds \in Timeouts : StartTimer(c, t, seconds)
    BY <2>2 DEF StartTimer, Next, Timers
  <2>3. CASE InProgress(c)
    BY <2>3 DEF InProgress, Next, Yield
  <2>4. CASE AwaitTimer(c)
    BY <2>4 DEF AwaitTimer, Next, Yield
  <2>5. CASE UserClose(c)
    BY <2>5, CloseIsScheduled DEF UserClose
  <2>6. CASE UserWait(c)
    BY <2>6 DEF UserWait, Next, Yield, Call
  <2>7. CASE \/ Untimed(c) \/ ConnectNow(c) \/ GetError(c)
             \/ ReturnUntimed(c) \/ ReturnTimedOut(c) \/ ReturnWoken(c)
    BY <2>7 DEF Untimed, ConnectNow, GetError, ReturnUntimed, ReturnTimedOut, ReturnWoken
  <2>8. QED
    BY <1>2, <2>1, <2>2, <2>3, <2>4, <2>5, <2>6, <2>7 DEF Caller
<1>3. ASSUME NEW t \in Timers, NEW c \in Callers,
             TimerStops(t, c) \/ TimerExpires(t, c) \/ TimerSleeps(t, c)
      PROVE  [Next]_vars
  <2>1. CASE TimerStops(t, c)
    BY <2>1 DEF TimerStops, Next, Call, Timers
  <2>2. CASE TimerExpires(t, c)
    BY <2>2, CloseIsScheduled DEF TimerExpires, CloseAtDeadline, Timers
  <2>3. CASE TimerSleeps(t, c)
    BY <2>3 DEF TimerSleeps, Next, Yield, Timers
  <2>4. QED
    BY <1>3, <2>1, <2>2, <2>3
<1>4. CASE \E t \in Timers : TimerEnds(t)
  BY <1>4 DEF TimerEnds, Next, Yield, Timers
<1>5. CASE ConnectLoop
  BY <1>5 DEF ConnectLoop, Next, Loop
<1>6. CASE Time \/ Kernel \/ UNCHANGED allVars
  BY <1>6 DEF Time, Kernel, Next, allVars
<1>7. QED
  BY <1>1, <1>2, <1>3, <1>4, <1>5, <1>6 DEF ConnectNext, Coroutine, Timer

(* Connect and its timers are a program over the event loop: every step of *)
(* them is a step of Epoll, so what is proved of Epoll holds of them.      *)
THEOREM RunsOnEpoll == ConnectSpec => Spec
<1>1. ConnectInit => Init
  BY DEF ConnectInit
<1>2. QED
  BY <1>1, ConnectStepIsScheduled, PTL DEF ConnectSpec, Spec

(* Nobody is lost, resumed twice or freed while it runs by a Connect.      *)
LEMMA ConnectSafe == ConnectSpec => []SafetyInv
BY RunsOnEpoll, SafetyInvHolds, PTL

(* Callers and timers are resumed as the promise of the scheduler says: a  *)
(* timer's second is a second, and nobody is woken twice.                  *)
THEOREM ConnectIsScheduled == ConnectSpec => Implements
BY RunsOnEpoll, ImplementsScheduling, PTL

-----------------------------------------------------------------------------
(* The invariant. *)

ConnectTypes ==
  /\ pc \in [Coroutines -> {"user", "opened", "doConnect", "conn", "tried", "chan",
                            "timer", "end"}]
  /\ m_fd \in 0..opened
  /\ opened \in 0..MaxConns
  /\ conn \in {"none", "fresh", "connecting", "up", "failed", "dead"}
  /\ edge \in BOOLEAN
  /\ frame \in [Callers -> Frames]
  /\ refs \in [Timers -> Callers \cup {NoOne}]
  /\ (m_fd # 0 <=> Sock \in m_notifies)

(* Callers and timers run their own code, and only a timer ends. *)
Places ==
  /\ \A c \in Callers : pc[c] \notin {"timer", "end"}
  /\ \A t \in Timers : pc[t] \in {"timer", "end"}
  /\ \A c \in Coroutines :
       status[c] \in {"unborn", "done", "deleted"} => pc[c] \in {"user", "end"}

(* Between two calls that yield a coroutine has the CPU, and what it has   *)
(* found holds: its socket is open and nobody waits to connect it.         *)
Segments ==
  \A c \in Callers :
    /\ pc[c] \in {"opened", "doConnect", "tried"} => Executes(c)
    /\ pc[c] \in {"opened", "doConnect"} =>
         Sock \in m_notifies /\ m_connWait[Sock] = NoOne

(* A frame exists during the call, and its descriptor is that of no other. *)
Calls ==
  \A c \in Callers :
    /\ frame[c].fd <= opened
    /\ InConnect(c) <=> frame[c].fd # 0
    /\ pc[c] \in {"user", "opened"} => frame[c].timer = NoOne /\ ~frame[c].timeout
    /\ frame[c].timeout => frame[c].fd # 0 /\ m_fd # frame[c].fd

(* A timer that runs refers to the frame of the call that started it; once *)
(* the caller knows that it has gone, nobody refers to its frame.          *)
References ==
  /\ \A t \in Timers : refs[t] # NoOne <=> pc[t] = "timer"
  /\ \A t \in Timers : refs[t] # NoOne => InConnect(refs[t]) /\ frame[refs[t]].timer = t
  /\ \A c \in Callers :
       \/ frame[c].timer = NoOne
       \/ frame[c].timeout
       \/ pc[c] = "chan" /\ status[c] # "chan"
       => \A t \in Timers : refs[t] # c

(* Only a caller waits in a tmpChan, its own, for its timer. *)
Channels ==
  \A c \in Callers : m_wait[Chan[c]] # NoOne => m_wait[Chan[c]] = c /\ pc[c] = "chan"

ConnectInv == ConnectTypes /\ Places /\ Segments /\ Calls /\ References /\ Channels

-----------------------------------------------------------------------------
(* What the steps of Epoll do to what the invariant speaks of. *)

(* Close wakes no one who waits in a channel, and ends nobody. *)
LEMMA CloseFates ==
  ASSUME SafetyInv, NEW d \in Coroutines, CloseSock(d), NEW c \in Coroutines
  PROVE  /\ status[c] = "chan" <=> status'[c] = "chan"
         /\ status'[c] \in {"unborn", "done", "deleted"} => status'[c] = status[c]
         /\ UNCHANGED <<running, m_del, m_wait>>
<1>1. CASE m_fd = 0
  BY <1>1 DEF CloseSock, vars, waitVars
<1>2. CASE Close(d, Sock)
  <2>1. \A n \in Sockets : /\ m_inWait[n] = c => status[c] = "in"
                           /\ m_connWait[n] = c => status[c] = "conn"
    BY DEF SafetyInv, OneWaker, With, Status, HeldOnce
  <2>2. QED
    BY <1>2, <2>1, CallersAssumption DEF Close, SafetyInv, TypeOK
<1>3. QED
  BY <1>1, <1>2 DEF CloseSock

-----------------------------------------------------------------------------
(* Each part of the invariant is kept. *)

LEMMA ConnectTypesStep ==
  ASSUME SafetyInv, ConnectTypes, [ConnectNext]_allVars
  PROVE  ConnectTypes'
<1> USE CallersAssumption, TimeoutsAssumption DEF ConnectTypes, Goto, kernelVars, connectVars
<1>f. /\ NoFrame \in Frames
      /\ \A c \in Callers : frame[c] \in Frames
  BY DEF NoFrame, Frames
<1>1. CASE \E c \in Callers : Start(c)
  BY <1>1 DEF Start, Go
<1>2. ASSUME NEW c \in Callers, Connect(c) PROVE ConnectTypes'
  <2>1. opened' \in 0..MaxConns /\ m_fd' \in 0..opened' /\ m_fd' # 0
    BY <1>2 DEF Connect
  <2>2. frame' \in [Callers -> Frames]
    BY <1>2, <1>f, <2>1 DEF Connect, Frames
  <2>3. QED
    BY <1>2, <2>1, <2>2 DEF Connect, Open
<1>3. ASSUME NEW c \in Callers, Untimed(c) PROVE ConnectTypes'
  BY <1>3 DEF Untimed, vars
<1>4. ASSUME NEW c \in Callers, NEW t \in Timers, NEW seconds \in Timeouts,
             StartTimer(c, t, seconds)
      PROVE  ConnectTypes'
  <2>f. [frame[c] EXCEPT !.timer = t, !.pSocket = TRUE, !.due = seconds] \in Frames
    BY <1>f DEF Frames
  <2>1. frame' \in [Callers -> Frames]
    BY <1>4, <2>f DEF StartTimer
  <2>2. QED
    BY <1>4, <2>1 DEF StartTimer, Go, Timers
<1>5. ASSUME NEW c \in Callers, ConnectNow(c) \/ GetError(c) \/ AwaitTimer(c) \/ InProgress(c)
      PROVE  ConnectTypes'
  <2>f. /\ \A x \in {"ok", "error"} : [frame[c] EXCEPT !.err = x] \in Frames
        /\ [frame[c] EXCEPT !.pSocket = FALSE] \in Frames
    BY <1>f DEF Frames
  <2>1. frame' \in [Callers -> Frames]
    BY <1>5, <2>f DEF ConnectNow, GetError, AwaitTimer, InProgress, SoError
  <2>2. QED
    BY <1>5, <2>1 DEF ConnectNow, GetError, AwaitTimer, InProgress, ChanWait, ConnectWait, vars
<1>6. ASSUME NEW c \in Callers, ReturnUntimed(c) \/ ReturnTimedOut(c) \/ ReturnWoken(c)
      PROVE  ConnectTypes'
  BY <1>6, <1>f DEF ReturnUntimed, ReturnTimedOut, ReturnWoken, Leave, vars
<1>7. ASSUME NEW d \in Coroutines, CloseSock(d), UNCHANGED opened
      PROVE  /\ m_fd' \in 0..opened' /\ opened' \in 0..MaxConns
             /\ conn' \in {"none", "fresh", "connecting", "up", "failed", "dead"}
             /\ edge' \in BOOLEAN
             /\ (m_fd' # 0 <=> Sock \in m_notifies')
  <2>1. Sock \notin m_notifies'
    BY <1>7 DEF CloseSock, Close, vars
  <2>2. m_fd' = 0 /\ conn' = "none" /\ edge' = FALSE /\ opened' = opened
    BY <1>7 DEF CloseSock
  <2>3. m_fd' \in 0..opened' /\ opened' \in 0..MaxConns
    BY <2>2
  <2>4. edge' \in BOOLEAN /\ conn' \in {"none", "fresh", "connecting", "up", "failed", "dead"}
    BY <2>2, Zenon
  <2>5. m_fd' # 0 <=> Sock \in m_notifies'
    BY <2>1, <2>2, Zenon
  <2>6. QED
    BY <2>3, <2>4, <2>5, Zenon
<1>8. ASSUME NEW c \in Callers, UserClose(c) PROVE ConnectTypes'
  BY <1>8, <1>7 DEF UserClose
<1>9. ASSUME NEW c \in Callers, UserWait(c) PROVE ConnectTypes'
  BY <1>9 DEF UserWait, Sleep, Open, ReadWait
<1>10. ASSUME NEW t \in Timers, NEW c \in Callers, TimerStops(t, c) PROVE ConnectTypes'
  BY <1>10 DEF TimerStops, ChanWake, Gone, vars, Timers
<1>11. ASSUME NEW t \in Timers, NEW c \in Callers, TimerExpires(t, c) PROVE ConnectTypes'
  <2>1. frame' \in [Callers -> Frames]
    BY <1>11, <1>f DEF TimerExpires, Frames
  <2>2. QED
    BY <1>11, <1>7, <2>1 DEF TimerExpires, CloseAtDeadline, Gone, Timers
<1>12. ASSUME NEW t \in Timers, (\E c \in Callers : TimerSleeps(t, c)) \/ TimerEnds(t)
       PROVE  ConnectTypes'
  BY <1>12 DEF TimerSleeps, TimerEnds, Sleep, Release, Return
<1>13. CASE ConnectLoop
  <2>1. UNCHANGED m_notifies
    BY <1>13 DEF ConnectLoop, Enter, OnTime, Tick, EndOnTime, RunFunc, EndWait, TestOut, OnOut,
                 TestIn, OnIn, EpollWait
  <2>2. QED
    BY <1>13, <2>1 DEF ConnectLoop
<1>14. CASE Time
  <2>f. \A c \in Callers : [frame[c] EXCEPT !.due = IF @ > 0 THEN @ - 1 ELSE 0] \in Frames
    BY <1>f DEF Frames
  <2>1. frame' \in [Callers -> Frames]
    BY <1>14, <2>f DEF Time
  <2>2. QED
    BY <1>14, <2>1 DEF Time, ClockTick
<1>15. CASE Kernel \/ UNCHANGED allVars
  BY <1>15 DEF Kernel, allVars, vars
<1>16. QED
  BY <1>1, <1>2, <1>3, <1>4, <1>5, <1>6, <1>8, <1>9, <1>10, <1>11, <1>12, <1>13, <1>14, <1>15
     DEF ConnectNext, Coroutine, Timer, Caller

LEMMA PlacesStep ==
  ASSUME SafetyInv, ConnectTypes, Places, References, [ConnectNext]_allVars
  PROVE  Places'
<1> USE CallersAssumption DEF ConnectTypes, Places, Timers, Goto, connectVars
<1>t. TypeOK /\ status \in [Coroutines -> Status]
  BY DEF SafetyInv, TypeOK
<1>1. CASE \E c \in Callers : Start(c)
  BY <1>1, <1>t DEF Start, Go
<1>2. ASSUME NEW c \in Callers, Caller(c) PROVE Places'
  <2>0. Executes(c)
    BY <1>2 DEF Caller, Connect, Untimed, StartTimer, ConnectNow, InProgress, GetError,
                ReturnUntimed, ReturnTimedOut, AwaitTimer, ReturnWoken, UserClose, UserWait,
                Open, Sleep, ReadWait, ConnectWait, ChanWait
  <2>c. c \in Coroutines /\ status[c] = "running"
    BY <2>0, OnCpu
  <2>1. CASE Connect(c) \/ UserWait(c)
    BY <1>t, <2>1, <2>c DEF Connect, UserWait, Open, Sleep, ReadWait, Out
  <2>2. ASSUME NEW t \in Timers, NEW seconds \in Timeouts, StartTimer(c, t, seconds)
        PROVE  Places'
    BY <1>t, <2>2, <2>c DEF StartTimer, Go
  <2>3. CASE InProgress(c) \/ AwaitTimer(c)
    BY <1>t, <2>3, <2>c DEF InProgress, AwaitTimer, ConnectWait, ChanWait, Out
  <2>4. CASE UserClose(c)
    BY <1>t, <2>4, CloseFates DEF UserClose
  <2>5. CASE \/ Untimed(c) \/ ConnectNow(c) \/ GetError(c)
             \/ ReturnUntimed(c) \/ ReturnTimedOut(c) \/ ReturnWoken(c)
    BY <1>t, <2>5, <2>c DEF Untimed, ConnectNow, GetError, ReturnUntimed, ReturnTimedOut,
         ReturnWoken, Leave, vars
  <2>6. QED
    BY <1>2, <2>1, <2>2, <2>3, <2>4, <2>5 DEF Caller
<1>3. ASSUME NEW t \in Timers, NEW c \in Callers, TimerStops(t, c) PROVE Places'
  BY <1>3, <1>t, OnCpu DEF TimerStops, ChanWake, Gone, vars, Timers
<1>4. ASSUME NEW t \in Timers, NEW c \in Callers, TimerExpires(t, c) PROVE Places'
  BY <1>4, <1>t, CloseFates DEF TimerExpires, CloseAtDeadline, Gone, Timers
<1>5. ASSUME NEW t \in Timers, NEW c \in Callers, TimerSleeps(t, c) PROVE Places'
  BY <1>5, <1>t DEF TimerSleeps, Sleep, Out, Timers
<1>6. ASSUME NEW t \in Timers, TimerEnds(t) PROVE Places'
  <2>1. CASE Release(t)
    BY <1>6, <2>1, <1>t, OnCpu, NoOneAssumption DEF TimerEnds, Release, Doomed, Timers
  <2>2. CASE Return(t)
    BY <1>6, <2>2, <1>t DEF TimerEnds, Return, Out, Timers
  <2>3. QED
    BY <1>6, <2>1, <2>2 DEF TimerEnds
<1>7. CASE ConnectLoop
  <2>1. Loop /\ UNCHANGED pc
    BY <1>7 DEF ConnectLoop, Loop
  <2>2. QED
    BY <2>1, LoopFates
<1>8. CASE Time \/ Kernel \/ UNCHANGED allVars
  BY <1>8 DEF Time, Kernel, ClockTick, allVars, vars
<1>9. QED
  BY <1>1, <1>2, <1>3, <1>4, <1>5, <1>6, <1>7, <1>8 DEF ConnectNext, Coroutine, Timer

LEMMA SegmentsStep ==
  ASSUME SafetyInv, ConnectTypes, Places, Segments, [ConnectNext]_allVars
  PROVE  Segments'
<1> USE CallersAssumption DEF ConnectTypes, Segments, Goto, connectVars, Executes
<1>t. /\ status \in [Coroutines -> Status]
      /\ m_connWait \in [Sockets -> Coroutines \cup {NoOne}]
  BY DEF SafetyInv, TypeOK
<1>1. CASE \E c \in Callers : Start(c)
  BY <1>1 DEF Start, Go, waitVars
<1>2. ASSUME NEW c \in Callers, Caller(c) PROVE Segments'
  <2>1. CASE Connect(c)
    BY <2>1, <1>t DEF Connect, Open, waitVars, SafetyInv, WaitersRegistered
  <2>2. CASE UserWait(c)
    BY <2>2 DEF UserWait, Open, Sleep, ReadWait, Out, waitVars
  <2>3. CASE \E t \in Timers, seconds \in Timeouts : StartTimer(c, t, seconds)
    BY <2>3 DEF StartTimer, Go, Timers, waitVars
  <2>4. CASE InProgress(c) \/ AwaitTimer(c)
    BY <2>4 DEF InProgress, AwaitTimer, ConnectWait, ChanWait, Out
  <2>5. CASE UserClose(c)
    <3>1. \A d \in Callers : pc[d] \notin {"opened", "doConnect", "tried"}
      BY <2>5 DEF UserClose
    <3>2. QED
      BY <2>5, <3>1 DEF UserClose
  <2>6. CASE Untimed(c) \/ ConnectNow(c) \/ GetError(c)
    BY <2>6 DEF Untimed, ConnectNow, GetError, vars, waitVars
  <2>7. CASE ReturnUntimed(c) \/ ReturnTimedOut(c) \/ ReturnWoken(c)
    BY <2>7 DEF ReturnUntimed, ReturnTimedOut, ReturnWoken, Leave, vars, waitVars
  <2>8. QED
    BY <1>2, <2>1, <2>2, <2>3, <2>4, <2>5, <2>6, <2>7 DEF Caller
<1>3. ASSUME Timer PROVE Segments'
  <2>1. PICK t \in Timers : running = t /\ \A c \in Callers : pc'[c] = pc[c]
    BY <1>3 DEF Timer, TimerStops, TimerExpires, TimerSleeps, TimerEnds, Gone, Timers, Sleep,
                Release, Return
  <2>2. \A d \in Callers : pc[d] \notin {"opened", "doConnect", "tried"}
    BY <2>1 DEF Timers
  <2>3. QED
    BY <2>1, <2>2
<1>4. CASE ConnectLoop
  <2>1. Loop /\ UNCHANGED pc
    BY <1>4 DEF ConnectLoop, Loop
  <2>2. \A d \in Callers : pc[d] \notin {"opened", "doConnect", "tried"}
    BY <2>1, LoopFates
  <2>3. QED
    BY <2>1, <2>2
<1>5. CASE Time \/ Kernel \/ UNCHANGED allVars
  BY <1>5 DEF Time, Kernel, ClockTick, allVars, vars, waitVars
<1>6. QED
  BY <1>1, <1>2, <1>3, <1>4, <1>5 DEF ConnectNext, Coroutine

LEMMA CallsStep ==
  ASSUME SafetyInv, ConnectTypes, Places, Calls, References, [ConnectNext]_allVars
  PROVE  Calls'
<1> USE CallersAssumption, TimeoutsAssumption
    DEF ConnectTypes, Frames, Calls, Goto, InConnect, connectVars
<1>1. CASE \E c \in Callers : Start(c)
  BY <1>1 DEF Start
<1>2. ASSUME NEW c \in Callers, Connect(c) PROVE Calls'
  BY <1>2 DEF Connect
<1>3. ASSUME NEW c \in Callers, Untimed(c) \/ InProgress(c) PROVE Calls'
  BY <1>3 DEF Untimed, InProgress
<1>4. ASSUME NEW c \in Callers, NEW t \in Timers, NEW seconds \in Timeouts,
             StartTimer(c, t, seconds)
      PROVE  Calls'
  BY <1>4 DEF StartTimer, Timers, kernelVars
<1>5. ASSUME NEW c \in Callers, ConnectNow(c) \/ GetError(c) \/ AwaitTimer(c) PROVE Calls'
  BY <1>5 DEF ConnectNow, GetError, AwaitTimer, kernelVars
<1>6. ASSUME NEW c \in Callers, ReturnUntimed(c) \/ ReturnTimedOut(c) \/ ReturnWoken(c)
      PROVE  Calls'
  BY <1>6 DEF ReturnUntimed, ReturnTimedOut, ReturnWoken, Leave, NoFrame, kernelVars
<1>7. ASSUME NEW c \in Callers, UserClose(c) \/ UserWait(c) PROVE Calls'
  BY <1>7 DEF UserClose, UserWait, CloseSock
<1>8. ASSUME NEW t \in Timers, NEW c \in Callers, TimerStops(t, c) PROVE Calls'
  BY <1>8 DEF TimerStops, Gone, Timers, kernelVars
<1>9. ASSUME NEW t \in Timers, NEW c \in Callers, refs[t] = c, TimerExpires(t, c) PROVE Calls'
  <2>1. InConnect(c) /\ frame[c].timer # NoOne
    BY <1>9, NoOneAssumption DEF References, Timers
  <2>2. m_fd' = 0 /\ frame' = [frame EXCEPT ![c].timeout = TRUE] /\ UNCHANGED opened
    BY <1>9 DEF TimerExpires, CloseAtDeadline, CloseSock
  <2>3. pc' = [pc EXCEPT ![t] = "end"]
    BY <1>9 DEF TimerExpires, Gone
  <2>4. QED
    BY <2>1, <2>2, <2>3 DEF Timers
<1>10. ASSUME NEW t \in Timers, (\E c \in Callers : TimerSleeps(t, c)) \/ TimerEnds(t)
       PROVE  Calls'
  BY <1>10 DEF TimerSleeps, TimerEnds
<1>11. CASE ConnectLoop
  BY <1>11 DEF ConnectLoop
<1>12. CASE Time
  <2>1. \A c \in Callers : /\ frame'[c].fd = frame[c].fd
                           /\ frame'[c].timer = frame[c].timer
                           /\ frame'[c].timeout = frame[c].timeout
    BY <1>12 DEF Time
  <2>2. UNCHANGED <<pc, m_fd, opened>>
    BY <1>12 DEF Time
  <2>3. QED
    BY <2>1, <2>2
<1>13. CASE Kernel \/ UNCHANGED allVars
  BY <1>13 DEF Kernel, allVars
<1>14. QED
  BY <1>1, <1>2, <1>3, <1>4, <1>5, <1>6, <1>7, <1>8, <1>9, <1>10, <1>11, <1>12, <1>13
     DEF ConnectNext, Coroutine, Timer, Caller

LEMMA ReferencesStep ==
  ASSUME SafetyInv, ConnectTypes, Places, Calls, References, Channels, [ConnectNext]_allVars
  PROVE  References'
<1> USE CallersAssumption, NoOneAssumption
    DEF ConnectTypes, References, Goto, InConnect, connectVars, Timers
<1>t. TypeOK /\ status \in [Coroutines -> Status]
  BY DEF SafetyInv, TypeOK
<1>f. \A c \in Callers : frame[c] \in Frames
  OBVIOUS
<1>1. CASE \E c \in Callers : Start(c)
  BY <1>1, <1>t DEF Start, Go, Places
<1>2. ASSUME NEW c \in Callers, Caller(c) PROVE References'
  <2>0. Executes(c)
    BY <1>2 DEF Caller, Connect, Untimed, StartTimer, ConnectNow, InProgress, GetError,
                ReturnUntimed, ReturnTimedOut, AwaitTimer, ReturnWoken, UserClose, UserWait,
                Open, Sleep, ReadWait, ConnectWait, ChanWait
  <2>c. c \in Coroutines /\ status[c] = "running"
    BY <2>0, OnCpu
  <2>1. CASE Connect(c)
    BY <2>1, <1>f DEF Connect, Open, Frames
  <2>2. ASSUME NEW t \in Timers, NEW seconds \in Timeouts, StartTimer(c, t, seconds)
        PROVE  References'
    <3>1. pc[t] = "end" /\ refs[t] = NoOne
      BY <2>2 DEF StartTimer, Go, Places
    <3>2. frame[c].timer = NoOne /\ ~frame[c].timeout /\ \A u \in Timers : refs[u] # c
      BY <2>2 DEF StartTimer, Calls
    <3>3. frame'[c].timer = t /\ frame'[c].timeout = frame[c].timeout
      BY <2>2, <1>f DEF StartTimer, Frames
    <3>4. \A d \in Callers : d # c => frame'[d] = frame[d]
      BY <2>2 DEF StartTimer
    <3>5. /\ pc' = [pc EXCEPT ![c] = "doConnect", ![t] = "timer"]
          /\ refs' = [refs EXCEPT ![t] = c]
          /\ \A d \in Callers : status'[d] = status[d]
      BY <2>2, <1>t DEF StartTimer, Go
    <3>6. pc[c] = "opened"
      BY <2>2 DEF StartTimer
    <3>7. QED
      BY <3>1, <3>2, <3>3, <3>4, <3>5, <3>6
  <2>3. CASE Untimed(c) \/ InProgress(c)
    BY <2>3, <1>t, <2>c DEF Untimed, InProgress, ConnectWait, Out, vars
  <2>4. CASE ConnectNow(c) \/ GetError(c)
    BY <2>4, <1>f DEF ConnectNow, GetError, Frames, vars
  <2>5. CASE AwaitTimer(c)
    BY <2>5, <1>t, <1>f DEF AwaitTimer, ChanWait, Out, Frames
  <2>6. CASE ReturnUntimed(c) \/ ReturnTimedOut(c) \/ ReturnWoken(c)
    <3>1. \A t \in Timers : refs[t] # c
      BY <2>6, <2>c DEF ReturnUntimed, ReturnTimedOut, ReturnWoken, TimedOut
    <3>2. QED
      BY <2>6, <3>1 DEF ReturnUntimed, ReturnTimedOut, ReturnWoken, Leave, vars
  <2>7. CASE UserClose(c)
    BY <2>7, <1>t, CloseFates DEF UserClose
  <2>8. CASE UserWait(c)
    BY <2>8, <1>t, <2>c DEF UserWait, Open, Sleep, ReadWait, Out
  <2>9. QED
    BY <1>2, <2>1, <2>2, <2>3, <2>4, <2>5, <2>6, <2>7, <2>8 DEF Caller
<1>3. ASSUME NEW t \in Timers, NEW c \in Callers, refs[t] = c, TimerStops(t, c)
      PROVE  References'
  <2>1. \A d \in Callers : d # c => status'[d] = status[d]
    BY <1>3, <1>t DEF TimerStops, ChanWake, Channels, vars
  <2>2. \A u \in Timers : refs[u] = c => u = t
    BY <1>3
  <2>3. pc' = [pc EXCEPT ![t] = "end"] /\ refs' = [refs EXCEPT ![t] = NoOne] /\ UNCHANGED frame
    BY <1>3 DEF TimerStops, Gone
  <2>4. QED
    BY <2>1, <2>2, <2>3
<1>4. ASSUME NEW t \in Timers, NEW c \in Callers, refs[t] = c, TimerExpires(t, c)
      PROVE  References'
  <2>1. \A d \in Callers : status'[d] = "chan" <=> status[d] = "chan"
    BY <1>4, CloseFates DEF TimerExpires, CloseAtDeadline
  <2>2. \A u \in Timers : refs[u] = c => u = t
    BY <1>4
  <2>3. pc' = [pc EXCEPT ![t] = "end"] /\ refs' = [refs EXCEPT ![t] = NoOne]
    BY <1>4 DEF TimerExpires, Gone
  <2>4. \A d \in Callers : /\ frame'[d].timer = frame[d].timer
                           /\ d # c => frame'[d].timeout = frame[d].timeout
    <3>1. frame' = [frame EXCEPT ![c].timeout = TRUE]
      BY <1>4 DEF TimerExpires
    <3>2. frame'[c].timer = frame[c].timer
      BY <3>1, <1>f DEF Frames
    <3>3. \A d \in Callers : d # c => frame'[d] = frame[d]
      BY <3>1
    <3>4. QED
      BY <3>2, <3>3, Zenon
  <2>5. QED
    BY <2>1, <2>2, <2>3, <2>4
<1>5. ASSUME NEW t \in Timers, NEW c \in Callers, TimerSleeps(t, c) PROVE References'
  BY <1>5, <1>t DEF TimerSleeps, Sleep, Out
<1>6. ASSUME NEW t \in Timers, TimerEnds(t) PROVE References'
  <2>1. CASE Release(t)
    BY <1>6, <2>1, <1>t, OnCpu DEF TimerEnds, Release, Doomed, Places
  <2>2. CASE Return(t)
    BY <1>6, <2>2, <1>t DEF TimerEnds, Return, Out
  <2>3. QED
    BY <1>6, <2>1, <2>2 DEF TimerEnds
<1>7. CASE ConnectLoop
  <2>1. Loop /\ UNCHANGED <<pc, frame, refs>>
    BY <1>7 DEF ConnectLoop, Loop
  <2>2. \A d \in Callers : status'[d] = "chan" <=> status[d] = "chan"
    BY <2>1, LoopFates
  <2>3. QED
    BY <2>1, <2>2
<1>8. CASE Time
  <2>1. \A c \in Callers : /\ frame'[c].timer = frame[c].timer
                           /\ frame'[c].timeout = frame[c].timeout
    BY <1>8, <1>f DEF Time, Frames
  <2>2. UNCHANGED <<pc, refs, status>>
    BY <1>8 DEF Time, ClockTick
  <2>3. QED
    BY <2>1, <2>2
<1>9. CASE Kernel \/ UNCHANGED allVars
  BY <1>9 DEF Kernel, allVars, vars
<1>10. QED
  BY <1>1, <1>2, <1>3, <1>4, <1>5, <1>6, <1>7, <1>8, <1>9 DEF ConnectNext, Coroutine, Timer

LEMMA ChannelsStep ==
  ASSUME SafetyInv, ConnectTypes, Places, Channels, [ConnectNext]_allVars
  PROVE  Channels'
<1> USE CallersAssumption, NoOneAssumption
    DEF ConnectTypes, Channels, Goto, connectVars, Timers, Places
<1>t. m_wait \in [Chans -> Coroutines \cup {NoOne}]
  BY DEF SafetyInv, TypeOK
<1>1. CASE \E c \in Callers : Start(c)
  BY <1>1 DEF Start, Go, waitVars
<1>2. ASSUME NEW c \in Callers, Caller(c) PROVE Channels'
  <2>1. CASE Connect(c) \/ UserWait(c)
    BY <2>1 DEF Connect, UserWait, Open, Sleep, ReadWait, waitVars
  <2>2. ASSUME NEW t \in Timers, NEW seconds \in Timeouts, StartTimer(c, t, seconds)
        PROVE  Channels'
    BY <2>2 DEF StartTimer, Go, waitVars
  <2>3. CASE Untimed(c) \/ ConnectNow(c) \/ InProgress(c)
    BY <2>3 DEF Untimed, ConnectNow, InProgress, ConnectWait, vars, waitVars
  <2>4. CASE GetError(c) \/ ReturnUntimed(c) \/ ReturnTimedOut(c)
    BY <2>4 DEF GetError, ReturnUntimed, ReturnTimedOut, Leave, vars, waitVars
  <2>5. CASE AwaitTimer(c)
    BY <2>5, <1>t DEF AwaitTimer, ChanWait
  <2>6. CASE ReturnWoken(c)
    <3>1. status[c] = "running"
      BY <2>6, OnCpu DEF ReturnWoken
    <3>2. m_wait[Chan[c]] = NoOne
      BY <3>1, <1>t DEF SafetyInv, OneWaker, HeldOnce, With, Status
    <3>3. QED
      BY <2>6, <3>2 DEF ReturnWoken, Leave, vars, waitVars
  <2>7. CASE UserClose(c)
    BY <2>7, CloseFates DEF UserClose
  <2>8. QED
    BY <1>2, <2>1, <2>2, <2>3, <2>4, <2>5, <2>6, <2>7 DEF Caller
<1>3. ASSUME NEW t \in Timers, NEW c \in Callers, TimerStops(t, c) PROVE Channels'
  BY <1>3, <1>t DEF TimerStops, ChanWake, Cleared, Gone, vars, waitVars
<1>4. ASSUME NEW t \in Timers, NEW c \in Callers, TimerExpires(t, c) PROVE Channels'
  BY <1>4, CloseFates DEF TimerExpires, CloseAtDeadline, Gone
<1>5. ASSUME NEW t \in Timers, (\E c \in Callers : TimerSleeps(t, c)) \/ TimerEnds(t)
      PROVE  Channels'
  BY <1>5 DEF TimerSleeps, TimerEnds, Sleep, Release, Return, waitVars
<1>6. CASE ConnectLoop
  <2>1. Loop /\ UNCHANGED pc
    BY <1>6 DEF ConnectLoop, Loop
  <2>2. QED
    BY <2>1, LoopFates
<1>7. CASE Time \/ Kernel \/ UNCHANGED allVars
  BY <1>7 DEF Time, Kernel, ClockTick, allVars, vars, waitVars
<1>8. QED
  BY <1>1, <1>2, <1>3, <1>4, <1>5, <1>6, <1>7 DEF ConnectNext, Coroutine, Timer

-----------------------------------------------------------------------------
(* The theorems. *)

LEMMA ConnectInvInit == ConnectInit => ConnectInv
<1> SUFFICES ASSUME ConnectInit PROVE ConnectInv
  OBVIOUS
<1> USE CallersAssumption, TimeoutsAssumption, NoOneAssumption DEF ConnectInit, Init, Timers
<1>1. ConnectTypes
  <2>1. NoFrame \in Frames
    BY DEF Frames, NoFrame
  <2>2. m_fd \in 0..opened /\ opened \in 0..MaxConns
    OBVIOUS
  <2>3. /\ frame \in [Callers -> Frames]
        /\ edge \in BOOLEAN
        /\ m_fd # 0 <=> Sock \in m_notifies
    BY <2>1, Zenon
  <2>4. QED
    BY <2>2, <2>3 DEF ConnectTypes
<1>2. Places /\ Segments
  BY DEF Places, Segments
<1>3. Calls /\ References
  <2>1. \A c \in Callers : pc[c] = "user" /\ frame[c] = NoFrame
    OBVIOUS
  <2>2. NoFrame.fd = 0 /\ NoFrame.timer = NoOne /\ ~NoFrame.timeout
    BY DEF NoFrame
  <2>3. Calls
    <3>1. 0 <= opened
      OBVIOUS
    <3>2. ASSUME NEW c \in Callers
          PROVE  /\ frame[c].fd <= opened
                 /\ InConnect(c) <=> frame[c].fd # 0
                 /\ pc[c] \in {"user", "opened"} => frame[c].timer = NoOne /\ ~frame[c].timeout
                 /\ frame[c].timeout => frame[c].fd # 0 /\ m_fd # frame[c].fd
      BY <2>1, <2>2, <3>1, Zenon DEF InConnect
    <3>3. QED
      BY <3>2, Zenon DEF Calls
  <2>4. References
    BY DEF References
  <2>5. QED
    BY <2>3, <2>4
<1>4. Channels
  BY DEF Channels
<1>5. QED
  BY <1>1, <1>2, <1>3, <1>4 DEF ConnectInv

LEMMA ConnectInvHolds == ConnectSpec => [](SafetyInv /\ ConnectInv)
<1>1. SafetyInv /\ ConnectInv /\ [ConnectNext]_allVars => ConnectInv'
  BY ConnectTypesStep, PlacesStep, SegmentsStep, CallsStep, ReferencesStep, ChannelsStep
     DEF ConnectInv
<1>2. QED
  BY <1>1, ConnectInvInit, ConnectSafe, PTL DEF ConnectSpec

(* Type correctness of Connect. *)
THEOREM ConnectTypeCorrect == ConnectSpec => []ConnectTypeOK
<1>1. SafetyInv /\ ConnectInv => ConnectTypeOK
  BY DEF SafetyInv, ConnectInv, ConnectTypes, ConnectTypeOK
<1>2. QED
  BY <1>1, ConnectInvHolds, PTL

(* A timer that runs refers to the frame of a call that has not returned,  *)
(* and that call is the one which started it.                              *)
THEOREM FrameAliveHolds == ConnectSpec => []FrameAlive
<1>1. ConnectInv => FrameAlive
  BY DEF ConnectInv, ConnectTypes, References, FrameAlive
<1>2. QED
  BY <1>1, ConnectInvHolds, PTL

(* No coroutine overwrites another one in a wait slot. *)
THEOREM SlotsFreeHolds == ConnectSpec => []SlotsFree
<1>1. ConnectInv => SlotsFree
  BY DEF ConnectInv, Segments, Channels, SlotsFree
<1>2. QED
  BY <1>1, ConnectInvHolds, PTL

(* A call that has timed out has no descriptor open. *)
THEOREM TimeoutClosesHolds == ConnectSpec => []TimeoutCloses
<1>1. ConnectInv => TimeoutCloses
  BY DEF ConnectInv, Calls, TimeoutCloses
<1>2. QED
  BY <1>1, ConnectInvHolds, PTL

-----------------------------------------------------------------------------
(* One coroutine that does all the connecting, always with a timeout, and  *)
(* waits for events of no other socket.                                    *)

OneConnects ==
  /\ \A c, d \in Connecters : c = d
  /\ Connecters \cap Readers = {}
  /\ 0 \notin Timeouts

(* An event of the socket has been reported and not yet dispatched. *)
Pending == \E i \in 1..Len(m_events) : m_events[i].ptr = Sock

(* Until the attempt is answered the kernel has nothing to report of it,   *)
(* and no report is left of an earlier descriptor.                         *)
Descriptor ==
  /\ m_fd = 0 <=> conn = "none"
  /\ conn \in {"none", "fresh", "connecting"} => ~edge
  /\ conn = "connecting" => ~Pending

(* The call has the socket to itself: its descriptor is open or none is.   *)
(* It leaves m_connWait once the attempt is answered or the socket closed. *)
(* It runs in the middle of a batch only to see how the attempt ended, and *)
(* before it can connect again it waits for its timer, outside the batch.  *)
Attempt(c) ==
  /\ InConnect(c) => m_fd \in {0, frame[c].fd}
  /\ InConnect(c) /\ pc[c] # "opened" => frame[c].timer # NoOne
  /\ pc[c] \in {"opened", "doConnect"} => m_fd = frame[c].fd /\ conn = "fresh"
  /\ pc[c] = "conn" => conn \in {"none", "connecting", "up", "failed"}
  /\ pc[c] = "conn" /\ status[c] # "conn" => conn # "connecting"
  /\ status[c] # "in"
  /\ status[c] = "conn" => pc[c] = "conn" /\ m_connWait[Sock] = c
  /\ running = c /\ m_events # <<>> => pc[c] \in {"conn", "tried"} /\ ~frame[c].timeout

Attempts ==
  /\ \A c \in Callers : InConnect(c) => c \in Connecters
  /\ \A c \in Connecters : Attempt(c)

OutcomeInv == Descriptor /\ Attempts

(* Dispatching adds no event to the batch. *)
LEMMA PendingRest ==
  ASSUME TypeOK, m_events # <<>>, m_events' \in {AfterOut, AfterIn}, Pending'
  PROVE  Pending
<1>1. PICK j \in 1..Len(m_events') : m_events'[j].ptr = Sock
  BY DEF Pending
<1>2. m_events \in Seq(Events) /\ Len(m_events) \in Nat
  BY LenProperties DEF TypeOK
<1>3. CASE m_events' = Tail(m_events)
  <2>1. Len(m_events') = Len(m_events) - 1 /\ \A i \in 1..Len(m_events') : m_events'[i] = m_events[i + 1]
    BY <1>2, <1>3, HeadTailProperties
  <2>2. j + 1 \in 1..Len(m_events) /\ m_events[j + 1].ptr = Sock
    BY <1>1, <1>2, <2>1
  <2>3. QED
    BY <2>2 DEF Pending
<1>4. CASE m_events' = [m_events EXCEPT ![1].bits = @ \ {"OUT"}]
  <2>1. 1 \in 1..Len(m_events) /\ \A i \in 1..Len(m_events) : m_events[i] \in Events
    BY <1>2, EmptySeq, ElementOfSeq
  <2>2. [m_events[1] EXCEPT !.bits = @ \ {"OUT"}].ptr = m_events[1].ptr
    BY <2>1 DEF Events
  <2>3. DOMAIN m_events = 1..Len(m_events) /\ m_events = [i \in 1..Len(m_events) |-> m_events[i]]
    BY <1>2
  <2>4. Len(m_events') = Len(m_events)
    BY <1>2, <1>4, <2>1, ExceptSeq
  <2>5. m_events'[j].ptr = m_events[j].ptr
    BY <1>4, <2>1, <2>2, <2>3, <2>4
  <2>6. QED
    BY <1>1, <2>4, <2>5 DEF Pending
<1>5. QED
  BY <1>3, <1>4 DEF AfterOut, AfterIn

LEMMA DescriptorStep ==
  ASSUME OneConnects, SafetyInv, ConnectTypes, Segments, OutcomeInv, [ConnectNext]_allVars
  PROVE  Descriptor'
<1> USE CallersAssumption DEF ConnectTypes, OutcomeInv, Descriptor, kernelVars, connectVars
<1>s. ASSUME UNCHANGED <<m_fd, conn, edge, m_events>> PROVE Descriptor'
  BY <1>s DEF Pending
<1>1. CASE \E c \in Callers : Start(c)
  BY <1>1, <1>s DEF Start, Go, loopVars
<1>2. ASSUME NEW c \in Callers, Connect(c) PROVE Descriptor'
  <2>1. m_fd' # 0 /\ conn' = "fresh" /\ UNCHANGED edge
    BY <1>2 DEF Connect
  <2>2. m_fd = 0
    BY <1>2 DEF Connect, Open
  <2>3. QED
    BY <2>1, <2>2
<1>3. ASSUME NEW c \in Callers, ConnectNow(c) PROVE Descriptor'
  BY <1>3 DEF ConnectNow, Segments
<1>4. ASSUME NEW c \in Callers, InProgress(c) PROVE Descriptor'
  <2>1. Attempt(c) /\ running = c /\ pc[c] = "doConnect"
    BY <1>4 DEF InProgress, ConnectWait, Executes, Attempts, InConnect
  <2>2. conn = "fresh" /\ m_events = <<>>
    BY <2>1 DEF Attempt
  <2>3. ~Pending'
    <3>1. m_events' = <<>>
      BY <1>4, <2>2 DEF InProgress, ConnectWait, loopVars
    <3>2. QED
      BY <3>1, EmptySeq DEF Pending
  <2>4. conn' = "connecting" /\ UNCHANGED <<m_fd, edge>>
    BY <1>4 DEF InProgress
  <2>5. QED
    BY <2>2, <2>3, <2>4
<1>5. ASSUME NEW c \in Callers, GetError(c) PROVE Descriptor'
  BY <1>5 DEF GetError, vars, loopVars, Pending
<1>6. ASSUME NEW c \in Callers, Untimed(c) \/ AwaitTimer(c) \/ UserWait(c) PROVE Descriptor'
  BY <1>6, <1>s DEF Untimed, AwaitTimer, UserWait, ChanWait, Sleep, Open, ReadWait, vars, loopVars
<1>7. ASSUME NEW c \in Callers, ReturnUntimed(c) \/ ReturnTimedOut(c) \/ ReturnWoken(c)
      PROVE  Descriptor'
  BY <1>7, <1>s DEF ReturnUntimed, ReturnTimedOut, ReturnWoken, Leave, vars, loopVars
<1>8. ASSUME NEW c \in Callers, NEW t \in Timers, NEW seconds \in Timeouts,
             StartTimer(c, t, seconds)
      PROVE  Descriptor'
  BY <1>8, <1>s DEF StartTimer, Go, loopVars
<1>9. ASSUME NEW d \in Coroutines, CloseSock(d) PROVE Descriptor'
  BY <1>9 DEF CloseSock
<1>10. ASSUME NEW c \in Callers, UserClose(c) PROVE Descriptor'
  BY <1>9, <1>10 DEF UserClose
<1>11. ASSUME Timer PROVE Descriptor'
  <2>1. ASSUME NEW t \in Timers, NEW c \in Callers, TimerExpires(t, c) PROVE Descriptor'
    BY <1>9, <2>1 DEF TimerExpires, CloseAtDeadline, Timers
  <2>2. ASSUME NEW t \in Timers, NEW c \in Callers, TimerStops(t, c) \/ TimerSleeps(t, c)
        PROVE  Descriptor'
    BY <2>2, <1>s DEF TimerStops, TimerSleeps, ChanWake, Sleep, vars, loopVars
  <2>3. ASSUME NEW t \in Timers, TimerEnds(t) PROVE Descriptor'
    BY <2>3, <1>s DEF TimerEnds, Release, Return, loopVars
  <2>4. QED
    BY <1>11, <2>1, <2>2, <2>3 DEF Timer
<1>12. CASE ConnectLoop
  <2>1. CASE Enter \/ OnTime \/ Tick \/ EndOnTime \/ RunFunc \/ EndWait
    BY <1>12, <2>1, <1>s
       DEF ConnectLoop, Enter, OnTime, Tick, EndOnTime, RunFunc, EndWait, loopVars, EpollWait
  <2>2. CASE TestOut \/ OnOut \/ TestIn \/ OnIn
    <3>1. UNCHANGED <<m_fd, conn, edge>>
      BY <1>12, <2>2 DEF ConnectLoop, TestOut, OnOut, TestIn, OnIn, EpollWait, LoopAt
    <3>2. Pending' => Pending
      <4>1. m_events # <<>>
        BY <2>2 DEF TestOut, OnOut, TestIn, OnIn, LoopAt, SafetyInv, HandlerAlive
      <4>2. m_events' \in {m_events, AfterOut, AfterIn}
        BY <2>2 DEF TestOut, OnOut, TestIn, OnIn
      <4>3. QED
        BY <4>1, <4>2, PendingRest DEF SafetyInv, Pending
    <3>3. QED
      BY <3>1, <3>2
  <2>3. CASE EpollWait /\ ConnectionEvents /\ edge' = FALSE /\ UNCHANGED <<m_fd, conn>>
    <3>1. conn = "connecting" => ~Pending'
      <4> SUFFICES ASSUME conn = "connecting", Pending' PROVE FALSE
        OBVIOUS
      <4>1. Sock \notin {m_events'[i].ptr : i \in DOMAIN m_events'}
        BY <2>3 DEF ConnectionEvents
      <4>2. DOMAIN m_events' = 1..Len(m_events')
        <5>1. PICK k \in 0..MaxEvents : m_events' \in [1..k -> Events]
          BY <2>3 DEF EpollWait
        <5>2. m_events' \in Seq(Events)
          BY <5>1, BatchIsSeq, BoundsAssumption
        <5>3. QED
          BY <5>2
      <4>3. QED
        BY <4>1, <4>2 DEF Pending
    <3>2. QED
      BY <2>3, <3>1
  <2>4. QED
    BY <1>12, <2>1, <2>2, <2>3 DEF ConnectLoop
<1>13. CASE Time \/ UNCHANGED allVars
  BY <1>13, <1>s DEF Time, ClockTick, allVars, vars, loopVars
<1>14. CASE Kernel
  <2>1. m_fd' = m_fd /\ conn # "none" /\ conn' \in {"up", "failed"}
    BY <1>14 DEF Kernel
  <2>2. QED
    BY <2>1
<1>15. QED
  BY <1>1, <1>2, <1>3, <1>4, <1>5, <1>6, <1>7, <1>8, <1>10, <1>11, <1>12, <1>13, <1>14
     DEF ConnectNext, Coroutine, Caller

(* What Attempt(c) speaks of has not changed, or c has left the CPU.       *)
LEMMA AttemptKept ==
  ASSUME NEW c \in Callers, Attempt(c),
         UNCHANGED <<pc[c], frame[c].fd, frame[c].timer, frame[c].timeout, m_fd, conn>>,
         status'[c] = status[c] \/ status'[c] \notin {"conn", "in"},
         status'[c] # "conn" /\ status[c] = "conn" => conn # "connecting",
         status'[c] = "conn" => m_connWait'[Sock] = m_connWait[Sock],
         running' = c => running = c /\ m_events' = m_events
  PROVE  Attempt(c)'
BY DEF Attempt, InConnect

(* The descriptor has been closed, whoever did it: a call that waited for  *)
(* its attempt is ready to see that.                                       *)
LEMMA AttemptClosed ==
  ASSUME SafetyInv, ConnectTypes, Calls, NEW c \in Callers, Attempt(c),
         NEW d \in Coroutines, Executes(d), CloseSock(d),
         pc[c] \notin {"opened", "doConnect"},
         UNCHANGED <<pc[c], frame[c].fd, frame[c].timer>>,
         running = c => frame'[c].timeout = frame[c].timeout
  PROVE  Attempt(c)'
<1> USE CallersAssumption, NoOneAssumption
<1>1. m_fd' = 0 /\ conn' = "none"
  BY DEF CloseSock
<1>2. m_fd = 0 => UNCHANGED vars
  BY DEF CloseSock
<1>3. m_fd # 0 => Close(d, Sock)
  BY DEF CloseSock
<1>4. status'[c] # "in" /\ status'[c] # "conn"
  <2>1. CASE m_fd = 0
    <3>1. status[c] # "conn"
      BY <2>1 DEF Attempt, SafetyInv, WaitersRegistered, ConnectTypes
    <3>2. QED
      BY <2>1, <1>2, <3>1 DEF Attempt, vars
  <2>2. CASE m_fd # 0
    BY <2>2, <1>3 DEF Close, Attempt
  <2>3. QED
    BY <2>1, <2>2
<1>5. UNCHANGED <<running, m_events>>
  BY <1>2, <1>3 DEF Close, vars, loopVars
<1>6. QED
  BY <1>1, <1>4, <1>5 DEF Attempt, InConnect

(* A handler resumes c: it is the event of its own attempt, which has been *)
(* answered, and its timer has not closed the socket.                      *)
LEMMA AttemptAnswered ==
  ASSUME SafetyInv, ConnectTypes, Calls, Descriptor, NEW c \in Connecters, Attempt(c),
         LoopAt("OnOut") \/ LoopAt("OnIn"),
         m_connWait[Head(m_events).ptr] = c \/ m_inWait[Head(m_events).ptr] = c,
         In(c), UNCHANGED connectVars
  PROVE  Attempt(c)'
<1> USE CallersAssumption, NoOneAssumption
<1> DEFINE n == Head(m_events).ptr
<1>1. n \in Sockets /\ m_events # <<>>
  BY DEF LoopAt, SafetyInv, HandlerAlive, TypeOK
<1>2. c \in Coroutines /\ c \in Callers
  OBVIOUS
<1>3. status[c] = "conn" /\ m_connWait[n] = c
  BY <1>1, <1>2, Whereabouts DEF Attempt
<1>4. pc[c] = "conn" /\ m_connWait[Sock] = c
  BY <1>3 DEF Attempt
<1>5. n = Sock
  BY <1>1, <1>3, <1>4 DEF SafetyInv, OneWaker, HeldOnce
<1>6. conn # "connecting"
  <2>1. Head(m_events) = m_events[1] /\ 1 \in 1..Len(m_events)
    BY <1>1, EmptySeq DEF SafetyInv, TypeOK
  <2>2. Pending
    BY <1>5, <2>1 DEF Pending
  <2>3. QED
    BY <2>2 DEF Descriptor
<1>7. m_fd # 0
  BY <1>4 DEF SafetyInv, WaitersRegistered, ConnectTypes
<1>8. InConnect(c)
  BY <1>4 DEF InConnect
<1>9. ~frame[c].timeout
  BY <1>2, <1>7, <1>8 DEF Attempt, Calls
<1>10. status'[c] = "running"
  BY <1>2 DEF In, SafetyInv, TypeOK
<1>11. UNCHANGED <<pc, frame, m_fd, conn>>
  BY DEF connectVars, kernelVars
<1>12. QED
  BY <1>4, <1>6, <1>9, <1>10, <1>11 DEF Attempt, InConnect

LEMMA AttemptLoop ==
  ASSUME SafetyInv, BatchDone, ConnectTypes, Calls, Descriptor, NEW c \in Connecters, Attempt(c),
         ConnectLoop
  PROVE  Attempt(c)'
<1> USE CallersAssumption, NoOneAssumption
<1>c. c \in Coroutines /\ c \in Callers
  OBVIOUS
<1>t. TypeOK
  BY DEF SafetyInv
<1>u. UNCHANGED <<pc, frame, m_fd, conn>>
  BY DEF ConnectLoop, connectVars, kernelVars
<1>1. CASE Tick
  <2>1. running' = NoOne /\ m_connWait' = m_connWait
    BY <1>1 DEF Tick, LoopAt, waitVars
  <2>2. status'[c] = status[c] \/ (status'[c] = "ready" /\ status[c] = "asleep")
    <3>1. NextSlot \in Slots
      BY <1>t, SlotsOfWheel DEF TypeOK
    <3>2. QED
      BY <1>1, <1>c, <3>1, Whereabouts DEF Tick
  <2>3. QED
    BY <1>c, <1>u, <2>1, <2>2, AttemptKept
<1>2. CASE RunFunc
  <2>1. Head(m_funcs) = m_funcs[1] /\ 1 \in 1..Len(m_funcs) /\ Head(m_funcs) \in Coroutines
    BY <1>2, <1>t DEF RunFunc, TypeOK
  <2>2. status[Head(m_funcs)] = "ready"
    BY <2>1, Whereabouts
  <2>3. m_events = <<>> /\ UNCHANGED <<m_events, m_connWait>>
    BY <1>2 DEF RunFunc, LoopAt, BatchDone, loopVars, waitVars
  <2>4. status'[c] = status[c] \/ (status'[c] = "running" /\ status[c] = "ready")
    BY <1>2, <1>t, <2>1, <2>2 DEF RunFunc, In, TypeOK
  <2>5. QED
    BY <1>u, <2>3, <2>4 DEF Attempt, InConnect
<1>3. CASE OnOut \/ OnIn
  <2> DEFINE n == Head(m_events).ptr
  <2>0. LoopAt("OnOut") \/ LoopAt("OnIn")
    BY <1>3 DEF OnOut, OnIn
  <2>1. n \in Sockets /\ running = NoOne
    BY <2>0, <1>t DEF LoopAt, SafetyInv, HandlerAlive, TypeOK
  <2>2. UNCHANGED connectVars
    BY <1>3 DEF ConnectLoop, OnOut, OnIn, EpollWait, LoopAt
  <2>3. CASE In(c) /\ (m_connWait[n] = c \/ m_inWait[n] = c)
    BY <2>0, <2>2, <2>3, AttemptAnswered
  <2>4. CASE ~(In(c) /\ (m_connWait[n] = c \/ m_inWait[n] = c))
    <3>1. \/ \E d \in Coroutines : d # c /\ In(d)
          \/ UNCHANGED <<running, status>>
      BY <1>3, <1>t, <2>1, <2>4 DEF OnOut, OnIn, ResumeWaiter, TypeOK
    <3>2. running' # c /\ status'[c] = status[c]
      BY <1>c, <1>t, <2>1, <3>1 DEF In, TypeOK
    <3>3. m_connWait[Sock] = c => m_connWait'[Sock] = m_connWait[Sock]
      BY <1>3, <1>t, <2>1, <2>4 DEF OnOut, OnIn, ResumeWaiter, Cleared, TypeOK
    <3>4. status[c] = "conn" => m_connWait[Sock] = c
      BY DEF Attempt
    <3>5. QED
      BY <1>c, <1>u, <3>2, <3>3, <3>4, AttemptKept
  <2>5. QED
    BY <2>3, <2>4
<1>4. CASE Enter \/ OnTime \/ EndOnTime \/ EndWait \/ TestOut \/ TestIn \/ EpollWait
  <2>1. running' = NoOne /\ UNCHANGED <<status, m_connWait>>
    BY <1>4 DEF Enter, OnTime, EndOnTime, EndWait, TestOut, TestIn, EpollWait, LoopAt, waitVars
  <2>2. QED
    BY <1>c, <1>u, <2>1, AttemptKept
<1>5. QED
  BY <1>1, <1>2, <1>3, <1>4 DEF ConnectLoop

(* The steps of the one that connects. *)
LEMMA AttemptOwn ==
  ASSUME OneConnects, SafetyInv, ConnectTypes, Segments, Calls, NEW c \in Connecters, Attempt(c),
         Caller(c)
  PROVE  Attempt(c)'
<1> USE CallersAssumption, NoOneAssumption DEF kernelVars, connectVars, Goto
<1>c. c \in Coroutines /\ c \in Callers /\ c \notin Readers /\ Sock # Other
  BY DEF OneConnects
<1>t. status \in [Coroutines -> Status] /\ m_connWait \in [Sockets -> Coroutines \cup {NoOne}]
  BY DEF SafetyInv, TypeOK
<1>p. pc \in [Coroutines -> {"user", "opened", "doConnect", "conn", "tried", "chan",
                             "timer", "end"}]
  BY DEF ConnectTypes
<1>f. frame[c] \in Frames /\ frame \in [Callers -> Frames]
  BY <1>c DEF ConnectTypes
<1>x. Executes(c)
  BY DEF Caller, Connect, Untimed, StartTimer, ConnectNow, InProgress, GetError,
         ReturnUntimed, ReturnTimedOut, AwaitTimer, ReturnWoken, UserClose, UserWait,
         Open, Sleep, ReadWait, ConnectWait, ChanWait
<1>r. running = c /\ status[c] = "running"
  BY <1>c, <1>x, OnCpu DEF Executes
<1>1. CASE Connect(c)
  <2>1. UNCHANGED <<status, running, m_events>> /\ pc[c] = "user"
    BY <1>1 DEF Connect, Open, loopVars
  <2>2. m_fd' = opened + 1 /\ conn' = "fresh" /\ frame' = [frame EXCEPT ![c].fd = opened + 1]
        /\ pc' = [pc EXCEPT ![c] = "opened"]
    BY <1>1 DEF Connect
  <2>3. frame'[c].fd = opened + 1
    BY <2>2, <1>f, <1>c DEF Frames
  <2>4. pc'[c] = "opened" /\ m_events = <<>>
    BY <1>c, <1>p, <1>r, <2>1, <2>2 DEF Attempt
  <2>5. QED
    BY <2>1, <2>2, <2>3, <2>4, <1>r DEF Attempt, InConnect
<1>2. CASE Untimed(c)
  BY <1>2 DEF Untimed, OneConnects
<1>3. ASSUME NEW t \in Timers, NEW seconds \in Timeouts, StartTimer(c, t, seconds)
      PROVE  Attempt(c)'
  <2>1. /\ pc[c] = "opened" /\ t # NoOne /\ t # c
        /\ pc' = [pc EXCEPT ![c] = "doConnect", ![t] = "timer"]
        /\ UNCHANGED <<m_fd, conn, running, m_events, m_connWait>>
        /\ frame' = [frame EXCEPT ![c].timer = t, ![c].pSocket = TRUE, ![c].due = seconds]
    BY <1>3 DEF StartTimer, Go, Timers, loopVars, waitVars
  <2>2. pc'[c] = "doConnect" /\ status'[c] = status[c]
    BY <1>3, <2>1, <1>c, <1>p, <1>t DEF StartTimer, Go, Timers
  <2>3. frame'[c].timer = t /\ frame'[c].fd = frame[c].fd
    BY <2>1, <1>f, <1>c DEF Frames
  <2>4. m_events = <<>>
    BY <2>1, <1>r DEF Attempt
  <2>5. QED
    BY <2>1, <2>2, <2>3, <2>4, <1>r DEF Attempt, InConnect
<1>4. CASE ConnectNow(c) \/ GetError(c)
  <2>1. /\ pc[c] \in {"doConnect", "conn"} /\ pc' = [pc EXCEPT ![c] = "tried"]
        /\ UNCHANGED <<m_fd, status, running, m_events, m_connWait>>
    BY <1>4 DEF ConnectNow, GetError, vars, loopVars, waitVars
  <2>2. PICK x \in {"ok", "error"} : frame' = [frame EXCEPT ![c].err = x]
    BY <1>4 DEF ConnectNow, GetError, SoError
  <2>3. UNCHANGED <<frame[c].timer, frame[c].fd, frame[c].timeout>>
    BY <2>2, <1>f, <1>c DEF Frames
  <2>4. pc'[c] = "tried"
    BY <2>1, <1>c, <1>p
  <2>5. pc[c] = "doConnect" => m_events = <<>>
    BY <1>r DEF Attempt
  <2>6. QED
    BY <2>1, <2>3, <2>4, <2>5, <1>r DEF Attempt, InConnect
<1>5. CASE InProgress(c)
  <2>1. /\ pc[c] = "doConnect" /\ pc' = [pc EXCEPT ![c] = "conn"]
        /\ conn' = "connecting" /\ running' = NoOne
        /\ status' = [status EXCEPT ![c] = "conn"]
        /\ m_connWait' = [m_connWait EXCEPT ![Sock] = c]
        /\ UNCHANGED <<m_fd, frame>>
    BY <1>5 DEF InProgress, ConnectWait, Out
  <2>2. pc'[c] = "conn" /\ status'[c] = "conn" /\ m_connWait'[Sock] = c
    BY <2>1, <1>c, <1>p, <1>t
  <2>3. QED
    BY <2>1, <2>2, <1>c DEF Attempt, InConnect
<1>6. CASE AwaitTimer(c)
  <2>1. /\ pc[c] = "tried" /\ pc' = [pc EXCEPT ![c] = "chan"]
        /\ running' = NoOne /\ status' = [status EXCEPT ![c] = "chan"]
        /\ frame' = [frame EXCEPT ![c].pSocket = FALSE]
        /\ UNCHANGED <<m_fd, conn>>
    BY <1>6 DEF AwaitTimer, ChanWait, Out
  <2>2. pc'[c] = "chan" /\ status'[c] = "chan"
    BY <2>1, <1>c, <1>p, <1>t
  <2>3. UNCHANGED <<frame[c].timer, frame[c].fd>>
    BY <2>1, <1>f, <1>c DEF Frames
  <2>4. QED
    BY <2>1, <2>2, <2>3, <1>c DEF Attempt, InConnect
<1>7. CASE ReturnUntimed(c) \/ ReturnTimedOut(c) \/ ReturnWoken(c)
  <2>1. /\ pc' = [pc EXCEPT ![c] = "user"]
        /\ UNCHANGED <<status, running, m_events>>
    BY <1>7 DEF ReturnUntimed, ReturnTimedOut, ReturnWoken, Leave, vars, loopVars
  <2>2. pc'[c] = "user"
    BY <2>1, <1>c, <1>p
  <2>3. pc[c] = "tried" => frame[c].timer # NoOne
    BY DEF Attempt, InConnect
  <2>4. m_events = <<>>
    BY <1>7, <1>r, <2>3 DEF ReturnUntimed, ReturnTimedOut, ReturnWoken, TimedOut, Attempt
  <2>5. QED
    BY <2>1, <2>2, <2>4, <1>r DEF Attempt, InConnect
<1>8. CASE UserClose(c)
  <2>1. CloseSock(c) /\ pc[c] = "user" /\ UNCHANGED <<pc, frame>>
    BY <1>8 DEF UserClose
  <2>2. QED
    BY <2>1, <1>c, <1>x, AttemptClosed
<1>9. CASE UserWait(c)
  <2>1. /\ pc[c] = "user" /\ UNCHANGED <<pc, frame, m_fd, conn>>
        /\ running' = NoOne
        /\ status' = [status EXCEPT ![c] = "asleep"]
    BY <1>9, <1>c DEF UserWait, Sleep, Out
  <2>2. status'[c] = "asleep"
    BY <2>1, <1>c, <1>t
  <2>3. QED
    BY <2>1, <2>2, <1>c DEF Attempt, InConnect
<1>10. QED
  BY <1>1, <1>2, <1>3, <1>4, <1>5, <1>6, <1>7, <1>8, <1>9 DEF Caller

(* The steps of the timers. *)
LEMMA AttemptTimers ==
  ASSUME SafetyInv, ConnectTypes, Places, Segments, Calls, NEW c \in Connecters, Attempt(c), Timer
  PROVE  Attempt(c)'
<1> USE CallersAssumption, NoOneAssumption DEF kernelVars, connectVars, Goto
<1>c. c \in Coroutines /\ c \in Callers /\ c \notin Timers
  BY DEF Timers
<1>t. /\ status \in [Coroutines -> Status]
      /\ m_wait \in [Chans -> Coroutines \cup {NoOne}]
  BY DEF SafetyInv, TypeOK
<1>1. PICK t \in Timers : \/ \E d \in Callers : \/ TimerStops(t, d) \/ TimerExpires(t, d)
                                                \/ TimerSleeps(t, d)
                          \/ TimerEnds(t)
  BY DEF Timer
<1>2. t \in Coroutines /\ t # c /\ running = t
  BY <1>1, <1>c DEF Timers, TimerStops, TimerExpires, TimerSleeps, TimerEnds, Executes, Sleep,
                    Release, Return
<1>3. pc'[c] = pc[c]
  BY <1>1, <1>2, <1>c DEF TimerStops, TimerExpires, TimerSleeps, TimerEnds, Gone, ConnectTypes
<1>4. ASSUME NEW d \in Callers, TimerStops(t, d) PROVE Attempt(c)'
  <2>1. UNCHANGED <<frame, m_fd, conn, running, m_connWait>>
    BY <1>4 DEF TimerStops, ChanWake, vars, waitVars
  <2>2. status'[c] = status[c] \/ (status'[c] = "ready" /\ status[c] = "chan")
    <3>1. CASE UNCHANGED vars
      BY <3>1 DEF vars
    <3>2. CASE ChanWake(t, Chan[d])
      <4>1. m_wait[Chan[d]] \in Coroutines /\ status[m_wait[Chan[d]]] = "chan"
        BY <3>2, <1>t, Whereabouts DEF ChanWake
      <4>2. QED
        BY <3>2, <4>1, <1>c, <1>t DEF ChanWake
    <3>3. QED
      BY <1>4, <3>1, <3>2 DEF TimerStops
  <2>3. QED
    BY <1>c, <1>2, <1>3, <2>1, <2>2, AttemptKept
<1>5. ASSUME NEW d \in Callers, TimerExpires(t, d) PROVE Attempt(c)'
  <2>1. CloseSock(t) /\ Executes(t) /\ frame' = [frame EXCEPT ![d].timeout = TRUE]
    BY <1>5 DEF TimerExpires, CloseAtDeadline
  <2>2. pc[c] \notin {"opened", "doConnect"}
    BY <1>c, <1>2 DEF Segments, Executes
  <2>3. frame'[c].fd = frame[c].fd /\ frame'[c].timer = frame[c].timer
    BY <2>1, <1>c DEF ConnectTypes, Frames
  <2>4. running # c
    BY <1>2
  <2>5. QED
    BY <1>c, <1>2, <1>3, <2>1, <2>2, <2>3, <2>4, AttemptClosed
<1>6. ASSUME NEW d \in Callers, TimerSleeps(t, d) PROVE Attempt(c)'
  <2>1. /\ UNCHANGED <<frame, m_fd, conn, m_connWait>> /\ running' = NoOne
        /\ status' = [status EXCEPT ![t] = "asleep"]
    BY <1>6 DEF TimerSleeps, Sleep, Out, waitVars
  <2>2. status'[c] = status[c]
    BY <2>1, <1>c, <1>2, <1>t
  <2>3. QED
    BY <1>c, <1>3, <2>1, <2>2, AttemptKept
<1>7. CASE TimerEnds(t)
  <2>1. UNCHANGED <<frame, m_fd, conn, m_connWait>>
    BY <1>7 DEF TimerEnds, Release, Return, waitVars
  <2>2. running' \in {t, NoOne}
    BY <1>2, <1>7 DEF TimerEnds, Release, Return, Out
  <2>3. status'[c] = status[c] \/ (status'[c] = "deleted" /\ status[c] = "done")
    <3>1. CASE Release(t)
      <4>1. \A d \in Coroutines : d = m_del => status[d] = "done"
        BY <1>2, <3>1, OnCpu DEF Release
      <4>2. status'[c] = IF c = m_del THEN "deleted" ELSE status[c]
        BY <1>c, <3>1 DEF Release, Doomed
      <4>3. QED
        BY <1>c, <4>1, <4>2
    <3>2. CASE Return(t)
      BY <3>2, <1>c, <1>2, <1>t DEF Return, Out
    <3>3. QED
      BY <1>7, <3>1, <3>2 DEF TimerEnds
  <2>4. QED
    BY <1>c, <1>2, <1>3, <2>1, <2>2, <2>3, AttemptKept
<1>8. QED
  BY <1>1, <1>4, <1>5, <1>6, <1>7

(* What the other callers do outside any call, and main before the loop. *)
LEMMA AttemptOthers ==
  ASSUME SafetyInv, ConnectTypes, Places, Segments, Calls, NEW c \in Connecters, Attempt(c),
         NEW d \in Callers, Start(d) \/ (d # c /\ (UserClose(d) \/ UserWait(d)))
  PROVE  Attempt(c)'
<1> USE CallersAssumption, NoOneAssumption DEF kernelVars, connectVars
<1>c. c \in Coroutines /\ c \in Callers /\ d \in Coroutines
  OBVIOUS
<1>t. status \in [Coroutines -> Status]
  BY DEF SafetyInv, TypeOK
<1>1. CASE Start(d)
  <2>1. /\ UNCHANGED <<pc, frame, m_fd, conn, running, m_events, m_connWait>>
        /\ status' = [status EXCEPT ![d] = "ready"]
        /\ status[d] \in {"unborn", "deleted"}
    BY <1>1 DEF Start, Go, loopVars, waitVars
  <2>2. status'[c] = status[c] \/ (status'[c] = "ready" /\ status[c] # "conn")
    BY <2>1, <1>c, <1>t
  <2>3. QED
    BY <1>c, <2>1, <2>2, AttemptKept
<1>2. CASE d # c /\ UserClose(d)
  <2>1. CloseSock(d) /\ Executes(d) /\ UNCHANGED <<pc, frame>>
    BY <1>2 DEF UserClose
  <2>2. pc[c] \notin {"opened", "doConnect"}
    BY <1>2, <1>c, <2>1 DEF Segments, Executes
  <2>3. QED
    BY <1>c, <2>1, <2>2, AttemptClosed
<1>3. CASE d # c /\ UserWait(d)
  <2>1. UNCHANGED <<pc, frame, m_fd, conn, m_connWait>>
    BY <1>3 DEF UserWait, Sleep, Open, ReadWait, waitVars
  <2>2. running' \in {d, NoOne}
    BY <1>3 DEF UserWait, Sleep, Open, ReadWait, Out, Executes
  <2>3. status'[c] = status[c]
    BY <1>3, <1>c, <1>t DEF UserWait, Sleep, Open, ReadWait, Out
  <2>4. QED
    BY <1>3, <1>c, <2>1, <2>2, <2>3, AttemptKept
<1>4. QED
  BY <1>1, <1>2, <1>3

LEMMA AttemptsStep ==
  ASSUME OneConnects, SafetyInv, BatchDone, ConnectInv, OutcomeInv, [ConnectNext]_allVars
  PROVE  Attempts'
<1> USE CallersAssumption DEF ConnectInv, OutcomeInv, Attempts
<1>u. \A d \in Callers : d \notin Connecters => pc[d] = "user"
  BY DEF InConnect, Places
<1>d. ASSUME NEW d \in Callers, Caller(d)
      PROVE  d \in Connecters \/ UserClose(d) \/ UserWait(d)
  BY <1>d, <1>u
     DEF Caller, Connect, Untimed, StartTimer, ConnectNow, InProgress, GetError,
         ReturnUntimed, ReturnTimedOut, AwaitTimer, ReturnWoken
<1>1. \A d \in Callers : InConnect(d)' => d \in Connecters
  <2> SUFFICES ASSUME NEW d \in Callers, d \notin Connecters
               PROVE  ~InConnect(d)'
    OBVIOUS
  <2>1. pc[d] = "user"
    BY <1>u
  <2>2. pc'[d] = "user"
    <3>1. CASE \E e \in Callers : Caller(e)
      <4>1. PICK e \in Callers : Caller(e)
        BY <3>1
      <4>2. CASE e \in Connecters
        BY <4>1, <4>2, <2>1 DEF ConnectTypes, Caller, Connect, Untimed, StartTimer, ConnectNow,
              InProgress, GetError, ReturnUntimed, ReturnTimedOut, AwaitTimer, ReturnWoken,
              UserClose, UserWait, Leave, Goto, connectVars, Timers
      <4>3. CASE UserClose(e) \/ UserWait(e)
        BY <4>3, <2>1 DEF UserClose, UserWait, connectVars
      <4>4. QED
        BY <4>1, <4>2, <4>3, <1>d
    <3>2. CASE Timer
      BY <3>2, <2>1 DEF Timer, TimerStops, TimerExpires, TimerSleeps, TimerEnds, Gone, Goto,
                        Timers, connectVars, ConnectTypes
    <3>3. CASE (\E e \in Callers : Start(e)) \/ ConnectLoop \/ Time \/ Kernel \/ UNCHANGED allVars
      BY <3>3, <2>1 DEF Start, ConnectLoop, Time, Kernel, allVars, connectVars
    <3>4. QED
      BY <3>1, <3>2, <3>3 DEF ConnectNext, Coroutine
  <2>3. QED
    BY <2>2 DEF InConnect
<1>2. ASSUME NEW c \in Connecters
      PROVE  Attempt(c)'
  <2>0. c \in Callers /\ Attempt(c)
    OBVIOUS
  <2>1. CASE \E d \in Callers : Start(d)
    BY <2>0, <2>1, AttemptOthers
  <2>2. ASSUME NEW d \in Callers, Caller(d) PROVE Attempt(c)'
    <3>1. CASE d = c
      BY <2>0, <2>2, <3>1, AttemptOwn
    <3>2. CASE d # c
      <4>1. d \notin Connecters
        BY <3>2 DEF OneConnects
      <4>2. QED
        BY <2>0, <2>2, <3>2, <4>1, <1>d, AttemptOthers
    <3>3. QED
      BY <3>1, <3>2
  <2>3. CASE Timer
    BY <2>0, <2>3, AttemptTimers
  <2>4. CASE ConnectLoop
    BY <2>0, <2>4, AttemptLoop
  <2>5. CASE Time
    <3>1. frame'[c].fd = frame[c].fd /\ frame'[c].timer = frame[c].timer
          /\ frame'[c].timeout = frame[c].timeout
      BY <2>0, <2>5 DEF Time, ConnectTypes, Frames
    <3>2. UNCHANGED <<pc, m_fd, conn, status, running, m_events, m_connWait>>
      BY <2>5 DEF Time, ClockTick, waitVars, kernelVars
    <3>3. QED
      BY <2>0, <3>1, <3>2, AttemptKept
  <2>6. CASE Kernel
    <3>1. /\ UNCHANGED <<pc, frame, m_fd, status, running, m_events, m_connWait>>
          /\ conn' # conn => conn = "connecting" /\ conn' \in {"up", "failed"}
      BY <2>6 DEF Kernel, vars, loopVars, waitVars
    <3>2. QED
      BY <2>0, <3>1 DEF Attempt, InConnect
  <2>7. CASE UNCHANGED allVars
    BY <2>0, <2>7, AttemptKept DEF allVars, connectVars, kernelVars, vars, waitVars, loopVars
  <2>8. QED
    BY <2>1, <2>2, <2>3, <2>4, <2>5, <2>6, <2>7 DEF ConnectNext, Coroutine
<1>3. QED
  BY <1>1, <1>2

(* Nobody's call sees a connection or a report but its own.                *)
LEMMA OutcomeInvHolds ==
  ASSUME OneConnects
  PROVE  ConnectSpec => [](SafetyInv /\ BatchDone /\ ConnectInv /\ OutcomeInv)
<1>1. ConnectInit => OutcomeInv
  <2> SUFFICES ASSUME ConnectInit PROVE OutcomeInv
    OBVIOUS
  <2> USE CallersAssumption DEF ConnectInit, Init
  <2>1. Descriptor
    BY DEF Descriptor
  <2>2. \A c \in Callers : pc[c] = "user" /\ status[c] = "unborn"
    OBVIOUS
  <2>3. m_events = <<>>
    OBVIOUS
  <2>4. Attempts
    BY <2>2, <2>3, Zenon DEF Attempts, Attempt, InConnect
  <2>5. QED
    BY <2>1, <2>4 DEF OutcomeInv
<1>2. SafetyInv /\ BatchDone /\ ConnectInv /\ OutcomeInv /\ [ConnectNext]_allVars => OutcomeInv'
  BY OneConnects, DescriptorStep, AttemptsStep DEF OutcomeInv, ConnectInv
<1>3. ConnectSpec => []BatchDone
  BY RunsOnEpoll, BatchDoneHolds, PTL
<1>4. QED
  BY <1>1, <1>2, <1>3, ConnectInvHolds, PTL DEF ConnectSpec

(* A connecter that is told that it is connected is: what it reads of the  *)
(* socket is how its own attempt ended, whatever others close meanwhile,   *)
(* whatever its timers do, and whatever is left of the batch.              *)
THEOREM TrueOutcomeHolds ==
  ASSUME OneConnects
  PROVE  ConnectSpec => TrueOutcome
<1>1. ASSUME SafetyInv, ConnectInv, OutcomeInv, [ConnectNext]_allVars, NEW c \in Callers,
             frame'[c].err = "ok", frame[c].err # "ok"
      PROVE  m_fd' = frame[c].fd /\ conn' = "up"
  <2> USE CallersAssumption
  <2>f. frame[c] \in Frames /\ frame \in [Callers -> Frames] /\ c \in Coroutines
    BY <1>1 DEF ConnectInv, ConnectTypes
  <2>e. ASSUME NEW d \in Callers, Connect(d) \/ Leave(d) \/ AwaitTimer(d) PROVE FALSE
    <3>1. \A x \in 0..MaxConns : [frame[c] EXCEPT !.fd = x].err = frame[c].err
      BY <2>f DEF Frames
    <3>2. [frame[c] EXCEPT !.pSocket = FALSE].err = frame[c].err
      BY <2>f DEF Frames
    <3>3. NoFrame.err = "none"
      BY DEF NoFrame
    <3>4. CASE Connect(d)
      BY <1>1, <2>f, <3>4 DEF Connect, Frames
    <3>5. CASE Leave(d)
      BY <1>1, <2>f, <3>3, <3>5 DEF Leave
    <3>6. CASE AwaitTimer(d)
      BY <1>1, <2>f, <3>2, <3>6 DEF AwaitTimer
    <3>7. QED
      BY <2>e, <3>4, <3>5, <3>6
  <2>s. ASSUME NEW d \in Callers, NEW t \in Timers, NEW seconds \in Timeouts,
               StartTimer(d, t, seconds)
        PROVE  FALSE
    BY <1>1, <2>f, <2>s DEF StartTimer, Frames
  <2>1. ConnectNow(c) \/ GetError(c)
    <3>1. ASSUME frame' = frame PROVE FALSE
      BY <1>1, <3>1
    <3>2. ASSUME NEW d \in Callers, Caller(d), ~ConnectNow(c), ~GetError(c) PROVE FALSE
      <4>1. CASE ConnectNow(d) \/ GetError(d)
        BY <1>1, <2>f, <3>2, <4>1 DEF ConnectNow, GetError
      <4>2. CASE Untimed(d) \/ InProgress(d) \/ UserClose(d) \/ UserWait(d)
        BY <3>1, <4>2 DEF Untimed, InProgress, UserClose, UserWait, connectVars
      <4>3. CASE ReturnUntimed(d) \/ ReturnTimedOut(d) \/ ReturnWoken(d)
        BY <2>e, <4>3 DEF ReturnUntimed, ReturnTimedOut, ReturnWoken
      <4>4. QED
        BY <2>e, <2>s, <3>2, <4>1, <4>2, <4>3 DEF Caller
    <3>3. ASSUME Timer PROVE FALSE
      <4>1. ASSUME NEW t \in Timers, NEW d \in Callers, TimerExpires(t, d) PROVE FALSE
        <5>1. [frame[c] EXCEPT !.timeout = TRUE].err = frame[c].err
          BY <2>f DEF Frames
        <5>2. QED
          BY <1>1, <2>f, <4>1, <5>1 DEF TimerExpires
      <4>2. QED
        BY <3>1, <3>3, <4>1 DEF Timer, TimerStops, TimerSleeps, TimerEnds, connectVars
    <3>4. ASSUME Time PROVE FALSE
      <4>1. frame'[c].err = frame[c].err
        BY <2>f, <3>4 DEF Time, Frames
      <4>2. QED
        BY <1>1, <4>1
    <3>5. QED
      BY <1>1, <3>1, <3>2, <3>3, <3>4
         DEF ConnectNext, Coroutine, Start, ConnectLoop, Kernel, allVars, connectVars
  <2>2. c \in Connecters /\ InConnect(c) /\ Attempt(c)
    <3>1. InConnect(c)
      BY <2>1 DEF ConnectNow, GetError, InConnect
    <3>2. QED
      BY <1>1, <3>1 DEF OutcomeInv, Attempts
  <2>3. CASE ConnectNow(c)
    <3>1. PICK x \in {"ok", "error"} : /\ frame' = [frame EXCEPT ![c].err = x]
                                       /\ x = "ok" => conn' = "up"
      BY <2>3 DEF ConnectNow
    <3>2. x = "ok"
      BY <1>1, <2>f, <3>1
    <3>3. m_fd' = m_fd /\ pc[c] = "doConnect"
      BY <2>3 DEF ConnectNow
    <3>4. QED
      BY <2>2, <3>1, <3>2, <3>3 DEF Attempt
  <2>4. CASE GetError(c)
    <3>1. /\ pc[c] = "conn" /\ m_fd' = m_fd
          /\ frame' = [frame EXCEPT ![c].err = SoError]
          /\ conn' = IF conn = "failed" THEN "dead" ELSE conn
          /\ running = c
      BY <2>4 DEF GetError, Executes
    <3>2. SoError = "ok"
      BY <1>1, <2>f, <3>1
    <3>3. status[c] # "conn"
      <4>1. status[c] = "running"
        BY <1>1, <2>f, <3>1, Whereabouts
      <4>2. QED
        BY <4>1
    <3>4. conn \notin {"none", "failed"} /\ conn \in {"none", "connecting", "up", "failed"}
          /\ conn # "connecting"
      BY <2>2, <3>1, <3>2, <3>3 DEF SoError, Attempt
    <3>5. m_fd # 0
      BY <1>1, <3>4 DEF OutcomeInv, Descriptor
    <3>6. QED
      BY <2>2, <3>1, <3>4, <3>5 DEF Attempt
  <2>5. QED
    BY <2>1, <2>3, <2>4
<1>2. SafetyInv /\ ConnectInv /\ OutcomeInv /\ [ConnectNext]_allVars
        => [\A c \in Callers :
              frame'[c].err = "ok" /\ frame[c].err # "ok"
                => m_fd' = frame[c].fd /\ conn' = "up"]_allVars
  BY <1>1
<1>3. QED
  BY <1>2, OutcomeInvHolds, PTL DEF ConnectSpec, TrueOutcome
-----------------------------------------------------------------------------
(* Nobody is left waiting in Connect. The loop can only run timers and     *)
(* report what the kernel says, and the kernel may never say anything.     *)

(* A call waits where its code is, in the slot that will be looked at.     *)
Waiting ==
  \A c \in Callers :
    /\ InConnect(c) => status[c] \in {"ready", "running", "conn", "chan"}
    /\ status[c] = "conn" => pc[c] = "conn" /\ m_connWait[Sock] = c
    /\ status[c] = "chan" => pc[c] = "chan" /\ m_wait[Chan[c]] = c

(* A timer that has not gone is never itself waiting for somebody.         *)
TimersRun == \A t \in Timers : pc[t] = "timer" => status[t] \in {"ready", "running", "asleep"}

(* The timer of a call is there until it has ended the call's wait, and it *)
(* knows from pSocket which of the two waits it has to end.                *)
Answered(c) ==
  frame[c].timer # NoOne =>
    /\ frame[c].pSocket <=> pc[c] # "chan"
    /\ frame[c].timeout => status[c] # "conn" /\ pc[c] \notin {"doConnect", "chan"}
    /\ \/ frame[c].timeout
       \/ pc[c] = "chan" /\ status[c] # "chan"
       \/ refs[frame[c].timer] = c

StrandInv == Waiting /\ TimersRun /\ \A c \in Callers : Answered(c)

(* Own steps apart, only a timer changes a caller's frame or its place.    *)
LEMMA OwnWait ==
  ASSUME SafetyInv, ConnectTypes, NEW c \in Callers, Caller(c)
  PROVE  /\ running = c /\ status[c] = "running"
         /\ \/ pc'[c] \in {"user", "opened", "doConnect", "tried"}
               /\ (pc'[c] # "user" => status'[c] = "running")
               /\ status'[c] \notin {"conn", "chan"}
            \/ pc'[c] = "conn" /\ status'[c] = "conn" /\ m_connWait'[Sock] = c
            \/ pc'[c] = "chan" /\ status'[c] = "chan" /\ m_wait'[Chan[c]] = c
<1> USE CallersAssumption, NoOneAssumption DEF ConnectTypes, Goto
<1>c. c \in Coroutines /\ c \notin Timers /\ Chan[c] \in Chans
  BY DEF Timers
<1>t. /\ status \in [Coroutines -> Status]
      /\ m_wait \in [Chans -> Coroutines \cup {NoOne}]
      /\ m_connWait \in [Sockets -> Coroutines \cup {NoOne}]
  BY DEF SafetyInv, TypeOK
<1>x. Executes(c)
  BY DEF Caller, Connect, Untimed, StartTimer, ConnectNow, InProgress, GetError,
         ReturnUntimed, ReturnTimedOut, AwaitTimer, ReturnWoken, UserClose, UserWait,
         Open, Sleep, ReadWait, ConnectWait, ChanWait
<1>r. running = c /\ status[c] = "running"
  BY <1>c, <1>x, OnCpu DEF Executes
<1> DEFINE Goal ==
      \/ pc'[c] \in {"user", "opened", "doConnect", "tried"}
         /\ (pc'[c] # "user" => status'[c] = "running")
         /\ status'[c] \notin {"conn", "chan"}
      \/ pc'[c] = "conn" /\ status'[c] = "conn" /\ m_connWait'[Sock] = c
      \/ pc'[c] = "chan" /\ status'[c] = "chan" /\ m_wait'[Chan[c]] = c
<1>1. ASSUME Connect(c) PROVE Goal
  BY <1>1, <1>c, <1>r DEF Connect, Open
<1>2. ASSUME NEW t \in Timers, NEW seconds \in Timeouts, StartTimer(c, t, seconds) PROVE Goal
  BY <1>2, <1>c, <1>r, <1>t DEF StartTimer, Go, Timers
<1>3. ASSUME InProgress(c) PROVE Goal
  BY <1>3, <1>c, <1>t DEF InProgress, ConnectWait, Out
<1>4. ASSUME AwaitTimer(c) PROVE Goal
  BY <1>4, <1>c, <1>t DEF AwaitTimer, ChanWait, Out
<1>5. ASSUME UserClose(c) PROVE Goal
  <2>1. \A n \in Sockets : m_inWait[n] # c /\ m_connWait[n] # c
    BY <1>c, <1>r, Whereabouts
  <2>2. status'[c] = status[c] /\ pc' = pc /\ pc[c] = "user"
    BY <1>5, <1>c, <2>1 DEF UserClose, CloseSock, Close
  <2>3. QED
    BY <1>r, <2>2
<1>6. ASSUME UserWait(c) PROVE Goal
  <2>1. pc[c] = "user" /\ pc' = pc
    BY <1>6 DEF UserWait, connectVars
  <2>2. status'[c] \in {"running", "asleep", "in"}
    BY <1>6, <1>c, <1>r, <1>t DEF UserWait, Sleep, Open, ReadWait, Out
  <2>3. QED
    BY <2>1, <2>2
<1>7. ASSUME Untimed(c) \/ ConnectNow(c) \/ GetError(c) PROVE Goal
  BY <1>7, <1>c, <1>r DEF Untimed, ConnectNow, GetError, vars
<1>8. ASSUME ReturnUntimed(c) \/ ReturnTimedOut(c) \/ ReturnWoken(c) PROVE Goal
  BY <1>8, <1>c, <1>r DEF ReturnUntimed, ReturnTimedOut, ReturnWoken, Leave, vars
<1>9. Goal
  BY <1>1, <1>2, <1>3, <1>4, <1>5, <1>6, <1>7, <1>8 DEF Caller
<1>10. QED
  BY <1>r, <1>9

(* In any other step a caller rests where it is.                           *)
LEMMA OthersWait ==
  ASSUME SafetyInv, ConnectTypes, [ConnectNext]_allVars, NEW c \in Callers, ~Caller(c)
  PROVE  Rests(c) /\ pc'[c] = pc[c]
<1> USE CallersAssumption, NoOneAssumption DEF ConnectTypes, Goto
<1>c. c \in Coroutines /\ c \notin Timers
  BY DEF Timers
<1>n. [Next]_vars
  BY ConnectStepIsScheduled
<1>1. ASSUME NEW d \in Callers, Start(d) PROVE Rests(c) /\ pc' = pc
  BY <1>1, <1>c DEF Start, Go, Rests, SafetyInv, TypeOK, connectVars, waitVars
<1>2. ASSUME NEW d \in Callers, d # c, Caller(d) PROVE Rests(c) /\ pc'[c] = pc[c]
  <2>1. running # c
    BY <1>2, OwnWait
  <2>2. pc'[c] = pc[c]
    BY <1>2, <1>c DEF Caller, Connect, Untimed, StartTimer, ConnectNow, InProgress, GetError,
         ReturnUntimed, ReturnTimedOut, AwaitTimer, ReturnWoken, Leave, UserClose, UserWait,
         connectVars
  <2>3. QED
    BY <2>1, <2>2, <1>c, <1>n, OthersRest
<1>3. CASE Timer
  <2>1. PICK t \in Timers : running = t /\ pc'[c] = pc[c]
    BY <1>3, <1>c DEF Timer, TimerStops, TimerExpires, TimerSleeps, TimerEnds, Gone, Executes,
         Sleep, Release, Return, connectVars
  <2>2. running # c
    BY <2>1, <1>c
  <2>3. QED
    BY <2>1, <2>2, <1>c, <1>n, OthersRest
<1>4. CASE ConnectLoop
  <2>1. Loop /\ pc' = pc
    BY <1>4 DEF ConnectLoop, Loop, connectVars
  <2>2. QED
    BY <2>1, <1>c, LoopRests
<1>5. CASE Time \/ Kernel \/ UNCHANGED allVars
  BY <1>5 DEF Time, Kernel, ClockTick, Rests, allVars, vars, waitVars, connectVars
<1>6. QED
  BY <1>1, <1>2, <1>3, <1>4, <1>5 DEF ConnectNext, Coroutine

LEMMA WaitingStep ==
  ASSUME SafetyInv, ConnectTypes, Waiting, [ConnectNext]_allVars
  PROVE  Waiting'
<1> SUFFICES ASSUME NEW c \in Callers
             PROVE  /\ InConnect(c)' => status'[c] \in {"ready", "running", "conn", "chan"}
                    /\ status'[c] = "conn" => pc'[c] = "conn" /\ m_connWait'[Sock] = c
                    /\ status'[c] = "chan" => pc'[c] = "chan" /\ m_wait'[Chan[c]] = c
  BY DEF Waiting
<1> USE CallersAssumption DEF InConnect
<1>1. CASE Caller(c)
  <2>1. pc'[c] \in {"user", "opened", "doConnect", "tried", "conn", "chan"}
    BY <1>1, OwnWait
  <2>2. QED
    BY <1>1, <2>1, OwnWait
<1>2. CASE ~Caller(c)
  <2>1. Rests(c) /\ pc'[c] = pc[c]
    BY <1>2, OthersWait
  <2>2. QED
    BY <2>1 DEF Rests, Waiting
<1>3. QED
  BY <1>1, <1>2

LEMMA TimersRunStep ==
  ASSUME SafetyInv, ConnectTypes, Places, TimersRun, [ConnectNext]_allVars
  PROVE  TimersRun'
<1> SUFFICES ASSUME NEW t \in Timers, pc'[t] = "timer"
             PROVE  status'[t] \in {"ready", "running", "asleep"}
  BY DEF TimersRun
<1> USE CallersAssumption DEF ConnectTypes, Goto
<1>c. t \in Coroutines /\ t \notin Callers
  BY DEF Timers
<1>n. [Next]_vars
  BY ConnectStepIsScheduled
<1>t. status \in [Coroutines -> Status]
  BY DEF SafetyInv, TypeOK
<1>r. ASSUME Rests(t), pc'[t] = pc[t] PROVE status'[t] \in {"ready", "running", "asleep"}
  BY <1>r DEF Rests, TimersRun
<1>1. ASSUME NEW d \in Callers, Start(d) PROVE Rests(t) /\ pc' = pc
  BY <1>1, <1>c DEF Start, Go, Rests, SafetyInv, TypeOK, connectVars, waitVars
<1>2. ASSUME NEW d \in Callers, Caller(d) PROVE status'[t] \in {"ready", "running", "asleep"}
  <2>1. running # t
    BY <1>2, <1>c, OwnWait
  <2>2. CASE \E s \in Timeouts : StartTimer(d, t, s)
    BY <2>2, <1>c, <1>t DEF StartTimer, Go
  <2>3. CASE ~\E s \in Timeouts : StartTimer(d, t, s)
    <3>1. pc'[t] = pc[t]
      BY <1>2, <2>3, <1>c DEF Caller, Connect, Untimed, StartTimer, ConnectNow, InProgress,
           GetError, ReturnUntimed, ReturnTimedOut, AwaitTimer, ReturnWoken, Leave, UserClose,
           UserWait, connectVars
    <3>2. QED
      BY <2>1, <3>1, <1>c, <1>n, <1>r, OthersRest
  <2>4. QED
    BY <2>2, <2>3
<1>3. CASE Timer
  <2>1. PICK u \in Timers : \/ \E d \in Callers : \/ TimerStops(u, d) \/ TimerExpires(u, d)
                                                  \/ TimerSleeps(u, d)
                            \/ TimerEnds(u)
    BY <1>3 DEF Timer
  <2>2. CASE u # t
    <3>1. running = u /\ pc'[t] = pc[t]
      BY <2>1, <2>2, <1>c DEF TimerStops, TimerExpires, TimerSleeps, TimerEnds, Gone, Executes,
           Sleep, Release, Return, connectVars, Timers
    <3>2. QED
      BY <2>2, <3>1, <1>c, <1>n, <1>r, OthersRest
  <2>3. CASE u = t
    <3>1. \E d \in Callers : TimerSleeps(t, d)
      BY <2>1, <2>3, <1>c DEF TimerStops, TimerExpires, TimerEnds, Gone, connectVars
    <3>2. QED
      BY <3>1, <1>c, <1>t DEF TimerSleeps, Sleep, Out
  <2>4. QED
    BY <2>2, <2>3
<1>4. CASE ConnectLoop
  <2>1. Loop /\ pc' = pc
    BY <1>4 DEF ConnectLoop, Loop, connectVars
  <2>2. QED
    BY <2>1, <1>c, <1>r, LoopRests
<1>5. CASE Time \/ Kernel \/ UNCHANGED allVars
  BY <1>5, <1>r DEF Time, Kernel, ClockTick, Rests, allVars, vars, waitVars, connectVars
<1>6. QED
  BY <1>1, <1>2, <1>3, <1>4, <1>5, <1>r DEF ConnectNext, Coroutine

(* A step that touches neither the call's frame nor its timer's reference. *)
LEMMA AnsweredRests ==
  ASSUME NEW c \in Callers, Answered(c), Rests(c), pc'[c] = pc[c],
         UNCHANGED <<frame[c].timer, frame[c].pSocket, frame[c].timeout>>,
         frame[c].timer # NoOne /\ refs[frame[c].timer] = c => refs'[frame[c].timer] = c
  PROVE  Answered(c)'
<1>1. UNCHANGED frame[c].timer
  OBVIOUS
<1>2. UNCHANGED frame[c].pSocket
  OBVIOUS
<1>3. UNCHANGED frame[c].timeout
  OBVIOUS
<1>4. ASSUME frame[c].timer # NoOne
      PROVE  /\ frame[c].pSocket <=> pc'[c] # "chan"
             /\ frame[c].timeout => status'[c] # "conn" /\ pc'[c] \notin {"doConnect", "chan"}
             /\ \/ frame[c].timeout
                \/ pc'[c] = "chan" /\ status'[c] # "chan"
                \/ refs'[frame[c].timer] = c
  <2>1. /\ frame[c].pSocket <=> pc[c] # "chan"
        /\ frame[c].timeout => status[c] # "conn" /\ pc[c] \notin {"doConnect", "chan"}
        /\ \/ frame[c].timeout
           \/ pc[c] = "chan" /\ status[c] # "chan"
           \/ refs[frame[c].timer] = c
    BY <1>4, Zenon DEF Answered
  <2>2. (status'[c] = "conn" => status[c] = "conn") /\ (status'[c] = "chan" => status[c] = "chan")
    BY DEF Rests
  <2>3. QED
    BY <1>4, <2>1, <2>2, Zenon
<1>5. QED
  BY <1>1, <1>2, <1>3, <1>4, Zenon DEF Answered

(* The steps of the call itself. *)
LEMMA AnsweredOwn ==
  ASSUME SafetyInv, ConnectTypes, Places, Segments, Calls, References,
         NEW c \in Callers, Answered(c), Caller(c)
  PROVE  Answered(c)'
<1> USE CallersAssumption, NoOneAssumption DEF Goto
<1>c. c \in Coroutines /\ c \notin Timers
  BY DEF Timers
<1>f. frame[c] \in Frames /\ frame \in [Callers -> Frames]
  BY DEF ConnectTypes
<1>p. pc \in [Coroutines -> {"user", "opened", "doConnect", "conn", "tried", "chan",
                             "timer", "end"}]
  BY DEF ConnectTypes
<1>r. running = c /\ status[c] = "running" /\ (status'[c] = "conn" => pc'[c] = "conn")
      /\ (status'[c] = "chan" => pc'[c] = "chan")
  BY OwnWait
<1>1. ASSUME frame'[c].timer = NoOne PROVE Answered(c)'
  BY <1>1 DEF Answered
<1>2. CASE Connect(c)
  <2>1. frame' = [frame EXCEPT ![c].fd = opened + 1] /\ pc[c] = "user"
    BY <1>2 DEF Connect
  <2>2. frame'[c].timer = NoOne
    BY <2>1, <1>f DEF Frames, Calls
  <2>3. QED
    BY <1>1, <2>2
<1>3. CASE Untimed(c)
  <2>1. UNCHANGED frame /\ pc[c] = "opened"
    BY <1>3 DEF Untimed
  <2>2. QED
    BY <1>1, <2>1 DEF Calls
<1>4. ASSUME NEW t \in Timers, NEW seconds \in Timeouts, StartTimer(c, t, seconds)
      PROVE  Answered(c)'
  <2>1. /\ pc[c] = "opened" /\ t # NoOne /\ t # c
        /\ pc' = [pc EXCEPT ![c] = "doConnect", ![t] = "timer"]
        /\ frame' = [frame EXCEPT ![c].timer = t, ![c].pSocket = TRUE, ![c].due = seconds]
        /\ refs' = [refs EXCEPT ![t] = c]
    BY <1>4 DEF StartTimer, Timers
  <2>2. pc'[c] = "doConnect"
    BY <2>1, <1>c, <1>p
  <2>3. refs'[t] = c
    BY <2>1 DEF ConnectTypes
  <2>4. frame'[c] = [frame[c] EXCEPT !.timer = t, !.pSocket = TRUE, !.due = seconds]
    BY <2>1, <1>f
  <2>5. frame'[c].timer = t
    BY <2>4, <1>f DEF Frames
  <2>6. frame'[c].pSocket
    BY <2>4, <1>f, Zenon DEF Frames
  <2>7. frame'[c].timeout <=> frame[c].timeout
    BY <2>4, <1>f, Zenon DEF Frames
  <2>8. ~frame[c].timeout
    BY <2>1 DEF Calls
  <2>9. QED
    BY <2>2, <2>3, <2>5, <2>6, <2>7, <2>8, Zenon DEF Answered
<1>5. CASE ConnectNow(c) \/ GetError(c) \/ InProgress(c)
  <2>1. /\ pc[c] \in {"doConnect", "conn"} /\ pc'[c] \in {"tried", "conn"}
        /\ UNCHANGED refs
    BY <1>5, <1>c, <1>p DEF ConnectNow, GetError, InProgress
  <2>2. UNCHANGED frame \/ \E x \in {"ok", "error"} : frame' = [frame EXCEPT ![c].err = x]
    BY <1>5 DEF ConnectNow, GetError, InProgress, SoError
  <2>3. UNCHANGED frame[c].timer
    BY <2>2, <1>f DEF Frames
  <2>4. frame'[c].pSocket <=> frame[c].pSocket
    BY <2>2, <1>f DEF Frames
  <2>5. frame'[c].timeout <=> frame[c].timeout
    BY <2>2, <1>f DEF Frames
  <2>6. pc'[c] = "conn" => pc[c] = "doConnect"
    BY <1>5, <1>c, <1>p DEF ConnectNow, GetError, InProgress
  <2>7. pc[c] # "chan" /\ pc'[c] \notin {"doConnect", "chan"}
    BY <2>1
  <2>8. ASSUME frame[c].timer # NoOne
        PROVE  /\ frame[c].pSocket <=> pc'[c] # "chan"
               /\ frame[c].timeout => status'[c] # "conn" /\ pc'[c] \notin {"doConnect", "chan"}
               /\ frame[c].timeout \/ refs'[frame[c].timer] = c
    <3>1. /\ frame[c].pSocket <=> pc[c] # "chan"
          /\ frame[c].timeout => pc[c] # "doConnect"
          /\ frame[c].timeout \/ pc[c] = "chan" \/ refs[frame[c].timer] = c
      BY <2>8 DEF Answered
    <3>2. refs'[frame[c].timer] = refs[frame[c].timer]
      BY <2>1
    <3>3. status'[c] = "conn" => pc[c] = "doConnect"
      BY <2>6, <1>r
    <3>4. QED
      BY <2>7, <3>1, <3>2, <3>3, Zenon
  <2>9. QED
    BY <2>3, <2>4, <2>5, <2>8, Zenon DEF Answered
<1>6. CASE AwaitTimer(c)
  <2>1. /\ pc[c] = "tried" /\ ~frame[c].timeout /\ pc'[c] = "chan"
        /\ frame' = [frame EXCEPT ![c].pSocket = FALSE] /\ UNCHANGED refs
    BY <1>6, <1>c, <1>p DEF AwaitTimer, TimedOut
  <2>2. frame'[c] = [frame[c] EXCEPT !.pSocket = FALSE]
    BY <2>1, <1>f
  <2>3. frame'[c].timer = frame[c].timer
    BY <2>2, <1>f DEF Frames
  <2>4. ~frame'[c].pSocket
    BY <2>2, <1>f, Zenon DEF Frames
  <2>5. frame'[c].timeout <=> frame[c].timeout
    BY <2>2, <1>f, Zenon DEF Frames
  <2>6. frame[c].timer # NoOne => refs[frame[c].timer] = c
    BY <2>1, Zenon DEF Answered
  <2>7. QED
    BY <2>1, <2>3, <2>4, <2>5, <2>6, Zenon DEF Answered
<1>7. CASE ReturnUntimed(c) \/ ReturnTimedOut(c) \/ ReturnWoken(c)
  <2>1. frame'[c] = NoFrame
    BY <1>7, <1>f DEF ReturnUntimed, ReturnTimedOut, ReturnWoken, Leave
  <2>2. QED
    BY <1>1, <2>1 DEF NoFrame
<1>8. CASE UserClose(c) \/ UserWait(c)
  <2>1. UNCHANGED frame /\ pc[c] = "user"
    BY <1>8 DEF UserClose, UserWait, connectVars
  <2>2. QED
    BY <1>1, <2>1 DEF Calls
<1>9. QED
  BY <1>2, <1>3, <1>4, <1>5, <1>6, <1>7, <1>8 DEF Caller

(* The step of its timer that ends the wait of a call. *)
LEMMA AnsweredByTimer ==
  ASSUME SafetyInv, ConnectTypes, Segments, References, Channels, Waiting,
         NEW c \in Callers, Answered(c), NEW t \in Timers, refs[t] = c,
         TimerStops(t, c) \/ TimerExpires(t, c), Rests(c), pc'[c] = pc[c]
  PROVE  Answered(c)'
<1> USE CallersAssumption, NoOneAssumption
<1>c. c \in Coroutines /\ c # NoOne /\ Chan[c] \in Chans
  OBVIOUS
<1>f. frame[c] \in Frames /\ frame \in [Callers -> Frames]
  BY DEF ConnectTypes
<1>s. /\ status \in [Coroutines -> Status]
      /\ m_wait \in [Chans -> Coroutines \cup {NoOne}]
  BY DEF SafetyInv, TypeOK
<1>t. frame[c].timer = t /\ t # NoOne
  BY DEF References, Timers
<1>a. frame[c].pSocket <=> pc[c] # "chan"
  BY <1>t, Zenon DEF Answered
<1>1. CASE TimerStops(t, c)
  <2>1. UNCHANGED frame /\ pc'[c] = "chan"
    BY <1>1, <1>a DEF TimerStops
  <2>2. status'[c] # "chan"
    <3>1. CASE m_wait[Chan[c]] = NoOne
      <4>1. status[c] # "chan"
        BY <1>c, <3>1 DEF Waiting
      <4>2. QED
        BY <1>1, <3>1, <4>1 DEF TimerStops, vars
    <3>2. CASE m_wait[Chan[c]] # NoOne
      <4>1. m_wait[Chan[c]] = c
        BY <3>2 DEF Channels
      <4>2. status' = [status EXCEPT ![c] = "ready"]
        BY <1>1, <3>2, <4>1 DEF TimerStops, ChanWake
      <4>3. QED
        BY <1>c, <1>s, <4>2
    <3>3. QED
      BY <3>1, <3>2
  <2>3. QED
    BY <1>a, <2>1, <2>2, Zenon DEF Answered
<1>2. CASE TimerExpires(t, c)
  <2>1. frame[c].pSocket /\ CloseSock(t) /\ frame' = [frame EXCEPT ![c].timeout = TRUE]
    BY <1>2 DEF TimerExpires, CloseAtDeadline
  <2>2. pc[c] \notin {"doConnect", "chan"}
    BY <1>2, <1>a, <2>1 DEF TimerExpires, Segments, Executes, Timers
  <2>3. status'[c] # "conn"
    <3>1. CASE status[c] = "conn"
      <4>1. m_connWait[Sock] = c /\ Sock \in m_notifies /\ m_fd # 0
        BY <1>c, <3>1 DEF Waiting, SafetyInv, WaitersRegistered, ConnectTypes
      <4>2. Close(t, Sock)
        BY <2>1, <4>1 DEF CloseSock
      <4>3. QED
        BY <1>c, <4>1, <4>2 DEF Close
    <3>2. CASE status[c] # "conn"
      BY <3>2 DEF Rests
    <3>3. QED
      BY <3>1, <3>2
  <2>4. frame'[c] = [frame[c] EXCEPT !.timeout = TRUE]
    BY <2>1, <1>f
  <2>5. frame'[c].timeout
    BY <2>4, <1>f, Zenon DEF Frames
  <2>6. frame'[c].pSocket <=> frame[c].pSocket
    BY <2>4, <1>f, Zenon DEF Frames
  <2>7. QED
    BY <1>a, <2>2, <2>3, <2>5, <2>6, Zenon DEF Answered
<1>3. QED
  BY <1>1, <1>2

LEMMA AnsweredStep ==
  ASSUME SafetyInv, ConnectInv, StrandInv, [ConnectNext]_allVars, NEW c \in Callers
  PROVE  Answered(c)'
<1> USE CallersAssumption, NoOneAssumption DEF ConnectInv, StrandInv
<1>f. frame[c] \in Frames /\ frame \in [Callers -> Frames]
  BY DEF ConnectTypes
<1>1. CASE Caller(c)
  BY <1>1, AnsweredOwn
<1>2. CASE ~Caller(c)
  <2>0. Rests(c) /\ pc'[c] = pc[c]
    BY <1>2, OthersWait
  <2>t. frame[c].timer # NoOne => frame[c].timer \in Timers
    BY <1>f DEF Frames
  <2>1. CASE \E d \in Callers : Start(d)
    BY <2>0, <2>1, AnsweredRests DEF Start, connectVars
  <2>2. ASSUME NEW d \in Callers, Caller(d) PROVE Answered(c)'
    <3>1. d # c
      BY <1>2, <2>2
    <3>2. frame'[c] = frame[c]
      BY <2>2, <3>1, <1>f DEF Caller, Connect, Untimed, StartTimer, ConnectNow, InProgress,
           GetError, ReturnUntimed, ReturnTimedOut, AwaitTimer, ReturnWoken, Leave, UserClose,
           UserWait, connectVars
    <3>3. ASSUME frame[c].timer # NoOne, refs[frame[c].timer] = c
          PROVE  refs'[frame[c].timer] = c
      <4>1. ASSUME NEW t \in Timers, NEW s \in Timeouts, StartTimer(d, t, s)
            PROVE  refs'[frame[c].timer] = c
        <5>1. refs' = [refs EXCEPT ![t] = d] /\ status[t] \in {"unborn", "deleted"}
          BY <4>1 DEF StartTimer, Go
        <5>2. refs[t] = NoOne
          BY <5>1 DEF Places, References, Timers
        <5>3. frame[c].timer # t
          BY <3>3, <5>2
        <5>4. QED
          BY <2>t, <3>3, <5>1, <5>3 DEF ConnectTypes
      <4>2. CASE ~\E t \in Timers, s \in Timeouts : StartTimer(d, t, s)
        <5>1. UNCHANGED refs
          BY <2>2, <4>2 DEF Caller, Connect, Untimed, ConnectNow, InProgress, GetError,
               ReturnUntimed, ReturnTimedOut, AwaitTimer, ReturnWoken, Leave, UserClose,
               UserWait, connectVars
        <5>2. QED
          BY <3>3, <5>1
      <4>3. QED
        BY <4>1, <4>2
    <3>4. QED
      BY <2>0, <3>2, <3>3, AnsweredRests
  <2>3. ASSUME NEW t \in Timers, NEW d \in Callers, refs[t] = d,
               TimerStops(t, d) \/ TimerExpires(t, d)
        PROVE  Answered(c)'
    <3>1. CASE d = c
      BY <2>0, <2>3, <3>1, AnsweredByTimer
    <3>2. CASE d # c
      <4>1. frame'[c] = frame[c]
        BY <2>3, <3>2, <1>f DEF TimerStops, TimerExpires
      <4>2. refs' = [refs EXCEPT ![t] = NoOne]
        BY <2>3 DEF TimerStops, TimerExpires, Gone
      <4>3. frame[c].timer # NoOne /\ refs[frame[c].timer] = c => refs'[frame[c].timer] = c
        BY <2>3, <2>t, <3>2, <4>2 DEF ConnectTypes
      <4>4. QED
        BY <2>0, <4>1, <4>3, AnsweredRests
    <3>3. QED
      BY <3>1, <3>2
  <2>4. CASE \/ \E t \in Timers : TimerEnds(t) \/ \E d \in Callers : TimerSleeps(t, d)
             \/ ConnectLoop \/ Kernel \/ UNCHANGED allVars
    <3>1. UNCHANGED <<frame, refs>>
      BY <2>4 DEF TimerEnds, TimerSleeps, ConnectLoop, Kernel, allVars, connectVars
    <3>2. QED
      BY <2>0, <3>1, AnsweredRests
  <2>5. CASE Time
    <3>1. frame'[c] = [frame[c] EXCEPT !.due = IF @ > 0 THEN @ - 1 ELSE 0] /\ UNCHANGED refs
      BY <2>5 DEF Time
    <3>2. UNCHANGED <<frame[c].timer, frame[c].pSocket, frame[c].timeout>>
      BY <1>f, <3>1 DEF Frames
    <3>3. QED
      BY <2>0, <3>1, <3>2, AnsweredRests
  <2>6. QED
    BY <2>1, <2>2, <2>3, <2>4, <2>5 DEF ConnectNext, Coroutine, Timer
<1>3. QED
  BY <1>1, <1>2

LEMMA StrandInvHolds == ConnectSpec => [](SafetyInv /\ ConnectInv /\ StrandInv)
<1>1. ConnectInit => StrandInv
  <2> SUFFICES ASSUME ConnectInit PROVE StrandInv
    OBVIOUS
  <2>1. \A c \in Callers : ~InConnect(c) /\ status[c] = "unborn" /\ frame[c].timer = NoOne
    BY CallersAssumption DEF ConnectInit, Init, NoFrame, InConnect
  <2>2. \A t \in Timers : pc[t] = "end"
    BY DEF ConnectInit, Timers
  <2>3. QED
    BY <2>1, <2>2 DEF StrandInv, Waiting, TimersRun, Answered
<1>2. SafetyInv /\ ConnectInv /\ StrandInv /\ [ConnectNext]_allVars => StrandInv'
  <2> SUFFICES ASSUME SafetyInv, ConnectInv, StrandInv, [ConnectNext]_allVars PROVE StrandInv'
    OBVIOUS
  <2>1. Waiting' /\ TimersRun'
    BY WaitingStep, TimersRunStep DEF ConnectInv, StrandInv
  <2>2. \A c \in Callers : Answered(c)'
    BY AnsweredStep
  <2>3. QED
    BY <2>1, <2>2 DEF StrandInv
<1>3. QED
  BY <1>1, <1>2, ConnectInvHolds, PTL DEF ConnectSpec

(* Whoever waits in a call of Connect with a timeout has a timer that runs *)
(* or sleeps, that refers to its frame, and that will look at the wait the *)
(* caller is in: at m_connWait by closing the socket, at tmpChan by waking *)
(* it. The call then returns without a word from the kernel, and whatever  *)
(* others do to the socket meanwhile.                                      *)
NobodyStranded ==
  \A c \in Callers :
    InConnect(c) /\ frame[c].timer # NoOne =>
      \/ status[c] \in {"ready", "running"}
      \/ /\ refs[frame[c].timer] = c
         /\ pc[frame[c].timer] = "timer"
         /\ status[frame[c].timer] \in {"ready", "running", "asleep"}
         /\ \/ status[c] = "conn" /\ frame[c].pSocket /\ m_connWait[Sock] = c /\ m_fd # 0
            \/ status[c] = "chan" /\ ~frame[c].pSocket /\ m_wait[Chan[c]] = c

(* A call of Connect with a timeout is never left waiting for the kernel   *)
(* alone, for any callers, timers, timeouts, and closes by others.         *)
THEOREM NobodyStrandedHolds == ConnectSpec => []NobodyStranded
<1> USE CallersAssumption DEF ConnectInv
<1>1. SafetyInv /\ ConnectInv /\ StrandInv => NobodyStranded
  <2> SUFFICES ASSUME SafetyInv, ConnectInv, StrandInv, NEW c \in Callers,
                      InConnect(c), frame[c].timer # NoOne,
                      status[c] \notin {"ready", "running"}
               PROVE  /\ refs[frame[c].timer] = c
                      /\ pc[frame[c].timer] = "timer"
                      /\ status[frame[c].timer] \in {"ready", "running", "asleep"}
                      /\ \/ /\ status[c] = "conn" /\ frame[c].pSocket
                            /\ m_connWait[Sock] = c /\ m_fd # 0
                         \/ status[c] = "chan" /\ ~frame[c].pSocket /\ m_wait[Chan[c]] = c
    BY DEF NobodyStranded
  <2> DEFINE t == frame[c].timer
  <2>1. c \in Coroutines /\ c # NoOne /\ t \in Timers
    BY NoOneAssumption DEF ConnectTypes, Frames
  <2>2. \/ status[c] = "conn" /\ pc[c] = "conn" /\ m_connWait[Sock] = c
        \/ status[c] = "chan" /\ pc[c] = "chan" /\ m_wait[Chan[c]] = c
    BY DEF StrandInv, Waiting
  <2>3. /\ frame[c].pSocket <=> pc[c] # "chan"
        /\ frame[c].timeout => status[c] # "conn" /\ pc[c] # "chan"
        /\ \/ frame[c].timeout
           \/ pc[c] = "chan" /\ status[c] # "chan"
           \/ refs[t] = c
    BY Zenon DEF StrandInv, Answered
  <2>4. refs[t] = c
    BY <2>2, <2>3, Zenon
  <2>5. pc[t] = "timer"
    BY <2>1, <2>4 DEF References
  <2>6. status[t] \in {"ready", "running", "asleep"}
    BY <2>1, <2>5 DEF StrandInv, TimersRun
  <2>7. status[c] = "conn" => m_fd # 0
    BY <2>1, <2>2 DEF SafetyInv, WaitersRegistered, ConnectTypes
  <2>8. QED
    BY <2>2, <2>3, <2>4, <2>5, <2>6, <2>7, Zenon
<1>2. QED
  BY <1>1, StrandInvHolds, PTL
=============================================================================
