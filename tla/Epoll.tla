-------------------------------- MODULE Epoll --------------------------------
(***************************************************************************)
(* The event loop and the coroutine scheduler of src/epoll.h and           *)
(* src/epoll.cpp: Epoll, GoContext, GoChan, and the wait slots through     *)
(* which the sockets of src/wrapsocket.cpp suspend and resume coroutines.  *)
(* One thread runs everything. A step is a loop step of Epoll::Wait when   *)
(* no coroutine is on the CPU, or one library call of the coroutine that   *)
(* is. Coroutine bodies are arbitrary: the running one may make any legal  *)
(* call, in any order.                                                     *)
(***************************************************************************)
EXTENDS Naturals, Sequences

CONSTANTS
  Coroutines, \* the addresses a GoContext may have
  Chans,      \* the GoChan objects
  Sockets,    \* the INotify objects (TcpSocket; the others use fewer slots)
  MaxSleep,   \* the slots of m_timeWheel, 60 in the code
  SleepArgs,  \* the arguments of GoContext::Sleep that are explored
  MaxEvents,  \* the capacity of m_events, 10000 in the code
  MaxLag,     \* bound: how far the clock runs ahead of m_baseTime
  NoOne       \* nullptr

ASSUME NoOneAssumption == NoOne \notin Coroutines
ASSUME MaxSleepAssumption == MaxSleep \in Nat \ {0}
ASSUME SleepArgsAssumption == SleepArgs \subseteq Nat \ {0}
ASSUME BoundsAssumption == MaxEvents \in Nat /\ MaxLag \in Nat

VARIABLES
  status,      \* what each GoContext is doing (history; no such field exists)
  running,     \* the coroutine on the CPU, NoOne when the loop is
  at,          \* where Epoll::Wait is
  m_funcs,     \* the pushed resumptions not yet run: m_funcs[i..]
  m_del,       \* the finished coroutine that is still to be deleted
  m_notifies,  \* the registered INotify objects
  m_events,    \* the events of the batch not yet dispatched
  m_timeIndex, \* the slot of the current second
  m_timeWheel, \* slot -> the coroutines to wake in that second
  left,        \* the ticks each sleeper has left of what it asked for (history)
  elapsed,     \* curtime() - m_baseTime
  sub,         \* the iterations left of the loop in onTime
  m_wait,      \* GoChan::m_wait
  m_inWait,    \* the coroutine in a socket's m_inWait
  m_connWait   \* the coroutine in a socket's m_connWait

loopVars == <<at, m_events, elapsed, sub>>
timeVars == <<m_timeIndex, m_timeWheel, left>>
waitVars == <<m_wait, m_inWait, m_connWait>>
vars == <<status, running, m_funcs, m_del, m_notifies, loopVars, timeVars, waitVars>>

Slots == 0..MaxSleep-1
Events == [ptr : Sockets, bits : SUBSET {"IN", "OUT"} \ {{}}]
Status == {"unborn", "ready", "running", "asleep", "chan", "in", "conn", "done", "deleted"}

TypeOK ==
  /\ status \in [Coroutines -> Status]
  /\ running \in Coroutines \cup {NoOne}
  /\ at \in {"start", "onTime", "tick", "funcs", "events", "OnOut", "OnIn"}
  /\ m_funcs \in Seq(Coroutines)
  /\ m_del \in Coroutines \cup {NoOne}
  /\ m_notifies \subseteq Sockets
  /\ m_events \in Seq(Events)
  /\ m_timeIndex \in Slots
  /\ m_timeWheel \in [Slots -> Seq(Coroutines)]
  /\ left \in [Coroutines -> 0..MaxSleep]
  /\ elapsed \in 0..MaxLag
  /\ sub \in 0..MaxLag
  /\ m_wait \in [Chans -> Coroutines \cup {NoOne}]
  /\ m_inWait \in [Sockets -> Coroutines \cup {NoOne}]
  /\ m_connWait \in [Sockets -> Coroutines \cup {NoOne}]

Init ==
  /\ status = [c \in Coroutines |-> "unborn"]
  /\ running = NoOne
  /\ at = "start"
  /\ m_funcs = <<>>
  /\ m_del = NoOne
  /\ m_notifies = {}
  /\ m_events = <<>>
  /\ m_timeIndex = 0
  /\ m_timeWheel = [k \in Slots |-> <<>>]
  /\ left = [c \in Coroutines |-> 0]
  /\ elapsed = 0
  /\ sub = 0
  /\ m_wait = [h \in Chans |-> NoOne]
  /\ m_inWait = [n \in Sockets |-> NoOne]
  /\ m_connWait = [n \in Sockets |-> NoOne]

-----------------------------------------------------------------------------
(* Giving a coroutine the CPU and taking it back. *)

(* GoContext::In: switch to c, whatever c is doing. *)
In(c) ==
  /\ running' = c
  /\ status' = [status EXCEPT ![c] = "running"]

(* GoContext::Out: c goes back to the loop for the reason given. *)
Out(c, reason) ==
  /\ running' = NoOne
  /\ status' = [status EXCEPT ![c] = reason]

(* c executes its body: it is on the CPU and has not yet called release. *)
Executes(c) == running = c /\ m_del # c

(* Resume the coroutine in a wait slot, if there is one. *)
ResumeWaiter(c) ==
  IF c = NoOne THEN UNCHANGED <<running, status>> ELSE In(c)

(* What pushing the coroutine of a wait slot appends to m_funcs. *)
Pushed(c) == IF c = NoOne THEN <<>> ELSE <<c>>

(* The wait slots once slot x is set to nullptr; and a faulty variant that *)
(* forgets to.                                                             *)
NotCleared(slot, x) == slot
Cleared(slot, x) == [slot EXCEPT ![x] = NoOne]

-----------------------------------------------------------------------------
(* The calls of the running coroutine. *)

(* Epoll::Go(d): an address that no live GoContext has; caller is NoOne    *)
(* when main calls it before the loop, as server::Start does.              *)
Go(d) ==
  /\ \/ at = "start" /\ running = NoOne
     \/ \E c \in Coroutines : Executes(c)
  /\ status[d] \in {"unborn", "deleted"}
  /\ status' = [status EXCEPT ![d] = "ready"]
  /\ m_funcs' = Append(m_funcs, d)
  /\ UNCHANGED <<running, m_del, m_notifies, loopVars, timeVars, waitVars>>

(* The seconds a coroutine that asks for s of them sleeps. *)
Granted(s) == IF s > MaxSleep THEN MaxSleep ELSE s

(* The slot s seconds ahead; the faulty variant is off by one. *)
SlotAheadLate(s) == (m_timeIndex + Granted(s) + 1) % MaxSleep
SlotAhead(s) == (m_timeIndex + Granted(s)) % MaxSleep

(* Epoll::sleep. *)
Sleep(c, s) ==
  /\ Executes(c)
  /\ m_timeWheel' = [m_timeWheel EXCEPT ![SlotAhead(s)] = Append(@, c)]
  /\ left' = [left EXCEPT ![c] = Granted(s)]
  /\ Out(c, "asleep")
  /\ UNCHANGED <<m_funcs, m_del, m_notifies, loopVars, m_timeIndex, waitVars>>

(* GoChan::Wait. The slot is a plain assignment in the code; its users     *)
(* never have two waiters on one channel, which the guard states.          *)
ChanWait(c, h) ==
  /\ Executes(c)
  /\ m_wait[h] = NoOne
  /\ m_wait' = [m_wait EXCEPT ![h] = c]
  /\ Out(c, "chan")
  /\ UNCHANGED <<m_funcs, m_del, m_notifies, loopVars, timeVars, m_inWait, m_connWait>>

(* GoChan::Wake, with somebody waiting (it returns false otherwise). *)
ChanWake(c, h) ==
  /\ Executes(c)
  /\ m_wait[h] # NoOne
  /\ m_wait' = Cleared(m_wait, h)
  /\ m_funcs' = Append(m_funcs, m_wait[h])
  /\ status' = [status EXCEPT ![m_wait[h]] = "ready"]
  /\ UNCHANGED <<running, m_del, m_notifies, loopVars, timeVars, m_inWait, m_connWait>>

(* Epoll::add, called when a socket is opened (m_fd was -1). *)
Open(c, n) ==
  /\ Executes(c)
  /\ n \notin m_notifies
  /\ m_notifies' = m_notifies \cup {n}
  /\ UNCHANGED <<status, running, m_funcs, m_del, loopVars, timeVars, waitVars>>

(* recv or accept found nothing: m_inWait = ctx; ctx->Out(). One reader to *)
(* a socket, as for channels.                                              *)
ReadWait(c, n) ==
  /\ Executes(c)
  /\ n \in m_notifies
  /\ m_inWait[n] = NoOne
  /\ m_inWait' = [m_inWait EXCEPT ![n] = c]
  /\ Out(c, "in")
  /\ UNCHANGED <<m_funcs, m_del, m_notifies, loopVars, timeVars, m_wait, m_connWait>>

(* connect is in progress: m_connWait = ctx; ctx->Out(). *)
ConnectWait(c, n) ==
  /\ Executes(c)
  /\ n \in m_notifies
  /\ m_connWait[n] = NoOne
  /\ m_connWait' = [m_connWait EXCEPT ![n] = c]
  /\ Out(c, "conn")
  /\ UNCHANGED <<m_funcs, m_del, m_notifies, loopVars, timeVars, m_wait, m_inWait>>

(* TcpSocket::Close of an open socket: deregister, push whoever waits. *)
Close(c, n) ==
  /\ Executes(c)
  /\ n \in m_notifies
  /\ m_notifies' = m_notifies \ {n}
  /\ m_funcs' = m_funcs \o Pushed(m_connWait[n]) \o Pushed(m_inWait[n])
  /\ status' = [d \in Coroutines |->
                  IF d \in {m_connWait[n], m_inWait[n]} THEN "ready" ELSE status[d]]
  /\ m_connWait' = Cleared(m_connWait, n)
  /\ m_inWait' = Cleared(m_inWait, n)
  /\ UNCHANGED <<running, m_del, loopVars, timeVars, m_wait>>

(* What release(c) deletes: the coroutine that finished before c. The      *)
(* faulty variant deletes c at once.                                       *)
DoomedAtOnce(c) == c
Doomed(c) == m_del

(* Epoll::release, called by goimpl on the stack of c after c's body. *)
Release(c) ==
  /\ Executes(c)
  /\ status' = [d \in Coroutines |-> IF d = Doomed(c) THEN "deleted" ELSE status[d]]
  /\ m_del' = c
  /\ UNCHANGED <<running, m_funcs, m_notifies, loopVars, timeVars, waitVars>>

(* goimpl returns: c leaves its stack for the last time. *)
Return(c) ==
  /\ running = c
  /\ m_del = c
  /\ Out(c, "done")
  /\ UNCHANGED <<m_funcs, m_del, m_notifies, loopVars, timeVars, waitVars>>

(* The calls after which the coroutine is no longer on the CPU. *)
Yield ==
  \E c \in Coroutines :
    \/ \E s \in SleepArgs : Sleep(c, s)
    \/ \E h \in Chans : ChanWait(c, h)
    \/ \E n \in Sockets : ReadWait(c, n) \/ ConnectWait(c, n)
    \/ Release(c)
    \/ Return(c)

Call ==
  \E c \in Coroutines :
    \/ \E h \in Chans : ChanWake(c, h)
    \/ \E n \in Sockets : Open(c, n) \/ Close(c, n)

-----------------------------------------------------------------------------
(* Epoll::Wait, step by step; the loop has the CPU when running is NoOne. *)

LoopAt(here) == at = here /\ running = NoOne

(* main calls Wait for the first time. *)
Enter ==
  /\ LoopAt("start")
  /\ at' = "onTime"
  /\ UNCHANGED <<status, running, m_funcs, m_del, m_notifies, m_events, elapsed, sub,
                 timeVars, waitVars>>

(* The ticks that onTime owes. *)
Owed == elapsed

(* onTime: m_baseTime = now, then tick() for every second gone by. *)
OnTime ==
  /\ LoopAt("onTime")
  /\ at' = "tick"
  /\ sub' = Owed
  /\ elapsed' = 0
  /\ UNCHANGED <<status, running, m_funcs, m_del, m_notifies, m_events, timeVars, waitVars>>

(* The slot of the next second; the faulty variant wraps one slot early. *)
NextSlotEarly == (m_timeIndex + 1) % (MaxSleep - 1)
NextSlot == (m_timeIndex + 1) % MaxSleep

InSlot(c, k) == \E i \in 1..Len(m_timeWheel[k]) : m_timeWheel[k][i] = c

(* tick: move to the next slot, push everyone in it and empty it. *)
Tick ==
  /\ LoopAt("tick")
  /\ sub > 0
  /\ sub' = sub - 1
  /\ m_timeIndex' = NextSlot
  /\ m_funcs' = m_funcs \o m_timeWheel[NextSlot]
  /\ status' = [c \in Coroutines |-> IF InSlot(c, NextSlot) THEN "ready" ELSE status[c]]
  /\ m_timeWheel' = [m_timeWheel EXCEPT ![NextSlot] = <<>>]
  /\ left' = [c \in Coroutines |-> IF left[c] > 0 THEN left[c] - 1 ELSE 0]
  /\ UNCHANGED <<running, at, m_del, m_notifies, m_events, elapsed, waitVars>>

EndOnTime ==
  /\ LoopAt("tick")
  /\ sub = 0
  /\ at' = "funcs"
  /\ UNCHANGED <<status, running, m_funcs, m_del, m_notifies, m_events, elapsed, sub,
                 timeVars, waitVars>>

(* A faulty variant of the loop over m_funcs: the newest first. *)
RunNewest ==
  /\ LoopAt("funcs")
  /\ m_funcs # <<>>
  /\ m_funcs' = SubSeq(m_funcs, 1, Len(m_funcs) - 1)
  /\ In(m_funcs[Len(m_funcs)])
  /\ UNCHANGED <<m_del, m_notifies, loopVars, timeVars, waitVars>>

(* (m_funcs[i])(): resume the next pushed coroutine. *)
RunFunc ==
  /\ LoopAt("funcs")
  /\ m_funcs # <<>>
  /\ m_funcs' = Tail(m_funcs)
  /\ In(Head(m_funcs))
  /\ UNCHANGED <<m_del, m_notifies, loopVars, timeVars, waitVars>>

(* Every pushed function has run: epoll_wait returns events of registered  *)
(* sockets, each at most once, or none (timeout or error).                 *)
EpollWait ==
  /\ LoopAt("funcs")
  /\ m_funcs = <<>>
  /\ \E k \in 0..MaxEvents : \E batch \in [1..k -> Events] :
       /\ \A i \in 1..k : batch[i].ptr \in m_notifies
       /\ \A i, j \in 1..k : batch[i].ptr = batch[j].ptr => i = j
       /\ m_events' = batch
  /\ at' = "events"
  /\ UNCHANGED <<status, running, m_funcs, m_del, m_notifies, elapsed, sub, timeVars, waitVars>>

(* Epoll::exist; the faulty variant trusts the pointer of the event. *)
existUnchecked(n) == TRUE
exist(n) == n \in m_notifies

(* The batch once the EPOLLOUT of its first event is dealt with, and once  *)
(* the whole event is.                                                     *)
AfterOut == IF Head(m_events).bits = {"OUT"} THEN Tail(m_events)
            ELSE [m_events EXCEPT ![1].bits = @ \ {"OUT"}]
AfterIn == Tail(m_events)

(* The event has EPOLLOUT: call OnOut if the object is still registered. *)
TestOut ==
  /\ LoopAt("events")
  /\ m_events # <<>>
  /\ "OUT" \in Head(m_events).bits
  /\ IF exist(Head(m_events).ptr)
     THEN at' = "OnOut" /\ UNCHANGED m_events
     ELSE m_events' = AfterOut /\ UNCHANGED at
  /\ UNCHANGED <<status, running, m_funcs, m_del, m_notifies, elapsed, sub, timeVars, waitVars>>

(* The event is not EPOLLOUT alone: call OnIn if still registered. *)
TestIn ==
  /\ LoopAt("events")
  /\ m_events # <<>>
  /\ "OUT" \notin Head(m_events).bits
  /\ IF exist(Head(m_events).ptr)
     THEN at' = "OnIn" /\ UNCHANGED m_events
     ELSE m_events' = AfterIn /\ UNCHANGED at
  /\ UNCHANGED <<status, running, m_funcs, m_del, m_notifies, elapsed, sub, timeVars, waitVars>>

(* TcpSocket::OnOut: resume the connecting coroutine at once. Flushing the *)
(* write buffer touches no coroutine.                                      *)
OnOut ==
  LET n == Head(m_events).ptr
  IN /\ LoopAt("OnOut")
     /\ m_connWait' = Cleared(m_connWait, n)
     /\ ResumeWaiter(m_connWait[n])
     /\ m_events' = AfterOut
     /\ at' = "events"
     /\ UNCHANGED <<m_funcs, m_del, m_notifies, elapsed, sub, timeVars, m_wait, m_inWait>>

(* TcpSocket::OnIn: resume the connecting coroutine, else the reader. *)
OnIn ==
  LET n == Head(m_events).ptr
  IN /\ LoopAt("OnIn")
     /\ IF m_connWait[n] # NoOne
        THEN /\ m_connWait' = Cleared(m_connWait, n)
             /\ In(m_connWait[n])
             /\ UNCHANGED m_inWait
        ELSE /\ m_inWait' = Cleared(m_inWait, n)
             /\ ResumeWaiter(m_inWait[n])
             /\ UNCHANGED m_connWait
     /\ m_events' = AfterIn
     /\ at' = "events"
     /\ UNCHANGED <<m_funcs, m_del, m_notifies, elapsed, sub, timeVars, m_wait>>

(* Wait returns and main calls it again. *)
EndWait ==
  /\ LoopAt("events")
  /\ m_events = <<>>
  /\ at' = "onTime"
  /\ UNCHANGED <<status, running, m_funcs, m_del, m_notifies, m_events, elapsed, sub,
                 timeVars, waitVars>>

Loop ==
  \/ Enter \/ OnTime \/ Tick \/ EndOnTime \/ RunFunc \/ EpollWait
  \/ TestOut \/ OnOut \/ TestIn \/ OnIn \/ EndWait

(* A second passes on the clock that curtime reads. *)
ClockTick ==
  /\ elapsed < MaxLag
  /\ elapsed' = elapsed + 1
  /\ UNCHANGED <<status, running, at, m_funcs, m_del, m_notifies, m_events, sub,
                 timeVars, waitVars>>

Next ==
  \/ \E d \in Coroutines : Go(d)
  \/ Call
  \/ Yield
  \/ Loop
  \/ ClockTick

Spec == Init /\ [][Next]_vars

(* The thread keeps running, every coroutine segment ends in a yield after *)
(* finitely many calls, and the clock advances.                            *)
Fairness == WF_vars(Loop) /\ WF_vars(Yield) /\ WF_vars(ClockTick)

FairSpec == Spec /\ Fairness

-----------------------------------------------------------------------------
(* Safety. *)

(* The coroutines that are doing each thing. *)
With == [x \in Status |-> {c \in Coroutines : status[c] = x}]

(* The sequence q lists exactly the coroutines of S, each once. *)
ListsOnce(q, S) ==
  /\ \A i, j \in 1..Len(q) : q[i] = q[j] => i = j
  /\ \A c \in Coroutines : c \in S <=> \E i \in 1..Len(q) : q[i] = c

(* The slots of wheel hold exactly the coroutines of S, each in one place. *)
WheelOnce(wheel, S) ==
  /\ \A k, l \in Slots : \A i \in 1..Len(wheel[k]), j \in 1..Len(wheel[l]) :
       wheel[k][i] = wheel[l][j] => k = l /\ i = j
  /\ \A c \in Coroutines :
       c \in S <=> \E k \in Slots : \E i \in 1..Len(wheel[k]) : wheel[k][i] = c

(* The wait slots of X hold exactly the coroutines of S, each in one. *)
HeldOnce(slot, X, S) ==
  /\ \A x, y \in X : slot[x] = slot[y] /\ slot[x] # NoOne => x = y
  /\ \A c \in Coroutines : c \in S <=> \E x \in X : slot[x] = c

(* Every suspended coroutine is held by exactly one waker - the queue, the *)
(* wheel, a channel or a socket - so it is resumed once for each time it   *)
(* gave up the CPU, and a finished or deleted one is held by none: Go,     *)
(* GoChan::Wake, Close, tick and the loop in Wait never lose or repeat a   *)
(* resumption, whatever they do to one another.                            *)
OneWaker ==
  /\ ListsOnce(m_funcs, With["ready"])
  /\ WheelOnce(m_timeWheel, With["asleep"])
  /\ HeldOnce(m_wait, Chans, With["chan"])
  /\ HeldOnce(m_inWait, Sockets, With["in"])
  /\ HeldOnce(m_connWait, Sockets, With["conn"])
  /\ With["running"] = {running} \ {NoOne}

(* Epoll::release never frees the stack it is called on, and no finished   *)
(* coroutine but the one in m_del is left behind: the loop leaks nothing.  *)
StackSafe ==
  /\ running # NoOne => status[running] # "deleted"
  /\ \A c \in Coroutines : status[c] = "done" => c = m_del
  /\ m_del # NoOne => status[m_del] = "done" \/ running = m_del

(* A handler runs only on a registered object, also when a coroutine that  *)
(* an earlier event of the batch resumed has closed the socket meanwhile.  *)
HandlerAlive ==
  at \in {"OnIn", "OnOut"} =>
    /\ running = NoOne
    /\ m_events # <<>>
    /\ Head(m_events).ptr \in m_notifies
    /\ at = "OnOut" => "OUT" \in Head(m_events).bits

(* Nobody waits in a socket that is closed, where no event can reach. *)
WaitersRegistered ==
  \A n \in Sockets :
    m_inWait[n] # NoOne \/ m_connWait[n] # NoOne => n \in m_notifies

-----------------------------------------------------------------------------
(* Epoll implements Scheduling. *)

absStatus == [c \in Coroutines |->
  CASE status[c] \in {"chan", "in", "conn"} -> "blocked"
    [] status[c] \in {"done", "deleted"} -> "unborn"
    [] OTHER -> status[c]]

Promise == INSTANCE Scheduling WITH status <- absStatus

(* Every behaviour of the loop is one of Scheduling: no lost, repeated or  *)
(* spurious resumption, and the wheel wakes each sleeper at the tick at    *)
(* which the time it asked for is over, neither earlier nor later.         *)
Implements == Promise!Spec

-----------------------------------------------------------------------------
(* Liveness. *)

(* A coroutine pushed on m_funcs is resumed, whatever the others push. *)
ReadyRuns == \A c \in Coroutines : status[c] = "ready" ~> running = c

(* While the loop over m_funcs runs, somebody pushes another resumption. *)
PushesOn == at = "funcs" /\ Len(m_funcs') > Len(m_funcs)

(* A sleeping coroutine wakes, if Wait keeps returning or if these pushes  *)
(* come to an end: only coroutines that go on waking one another for ever  *)
(* can hold the loop over m_funcs, and nothing else starves the wheel.     *)
SleeperWakes ==
  []<>(at = "onTime") \/ <>[][~PushesOn]_vars =>
    \A c \in Coroutines : status[c] = "asleep" ~> status[c] = "ready"
=============================================================================
