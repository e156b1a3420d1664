------------------------------ MODULE GoSocket ------------------------------
(***************************************************************************)
(* The socket of src/goserver/tcpsocket/socket.go and its buffer.go: any   *)
(* number of goroutines call Write and Close; one goroutine, dosend, takes *)
(* what they wrote to the connection. They share two buffers, a mutex and  *)
(* a channel of capacity one. A step is one access to shared state, or     *)
(* several that no other goroutine can see apart.                          *)
(***************************************************************************)
EXTENDS Naturals, Sequences

CONSTANTS
  Goroutines, \* the callers of Write and Close
  MaxSlices,  \* the most slices one Write is given
  MaxUnits,   \* bound: the units accepted in a behaviour
  NoOne,      \* m is unlocked
  Sender      \* m is held by dosend

ASSUME GoroutinesAssumption ==
  NoOne \notin Goroutines /\ Sender \notin Goroutines /\ NoOne # Sender
ASSUME SlicesAssumption == MaxSlices \in Nat /\ MaxUnits \in Nat

VARIABLES
  buffers,    \* the two buffers
  sendIndex,  \* the buffer dosend empties; only dosend uses it
  writeIndex, \* the buffer Write fills; used under m only
  notify,     \* the values in the channel my.notify
  hungup,     \* my.notify is closed
  m,          \* who holds the mutex
  bclose,     \* the socket and its connection are closed
  pc,         \* where each goroutine is in Write or Close
  size,       \* the slices of the Write that holds m
  dataLen,    \* the length of the buffer when that Write began
  done,       \* how many of them it has appended
  dosend,     \* where the sending goroutine is
  sendSplice, \* what it still has to send of the buffer it took
  writeErr,   \* a conn.Write has failed
  accepted,   \* the units of every completed Write (history)
  wire        \* what conn.Write has taken (the connection)

bufferVars == <<buffers, sendIndex, writeIndex>>
chanVars == <<notify, hungup>>
localVars == <<size, dataLen, done>>
writeVars == <<pc, localVars>>
sendVars == <<dosend, sendSplice, writeErr>>
streamVars == <<accepted, wire>>
vars == <<bufferVars, chanVars, m, bclose, writeVars, sendVars, streamVars>>

(* One unit stands for the bytes of one slice. *)
Units == [by : Goroutines, part : 1..MaxSlices]

Unit(g, i) == [by |-> g, part |-> i]

Message(g, k) == [i \in 1..k |-> Unit(g, i)]

Messages == {Message(g, k) : g \in Goroutines, k \in 0..MaxSlices}

TypeOK ==
  /\ buffers \in [0..1 -> Seq(Units)]
  /\ sendIndex \in 0..1
  /\ writeIndex \in 0..1
  /\ notify \in 0..1
  /\ hungup \in BOOLEAN
  /\ m \in Goroutines \cup {NoOne, Sender}
  /\ bclose \in BOOLEAN
  /\ pc \in [Goroutines -> {"idle", "append", "notify", "unlock", "close", "closeNotify"}]
  /\ size \in 0..MaxSlices
  /\ dataLen \in Nat
  /\ done \in 0..MaxSlices
  /\ dosend \in {"recv", "lock", "swap", "flip", "send", "clear", "returned"}
  /\ sendSplice \in Seq(Units)
  /\ writeErr \in BOOLEAN
  /\ accepted \in Seq(Units)
  /\ wire \in Seq(Units)

(* New. *)
Init ==
  /\ buffers = [i \in 0..1 |-> <<>>]
  /\ sendIndex = 0
  /\ writeIndex = 1
  /\ notify = 0
  /\ hungup = FALSE
  /\ m = NoOne
  /\ bclose = FALSE
  /\ pc = [g \in Goroutines |-> "idle"]
  /\ size = 0
  /\ dataLen = 0
  /\ done = 0
  /\ dosend = "recv"
  /\ sendSplice = <<>>
  /\ writeErr = FALSE
  /\ accepted = <<>>
  /\ wire = <<>>

Goto(g, where) == pc' = [pc EXCEPT ![g] = where]

-----------------------------------------------------------------------------
(* Write. *)

(* Where a Write of k slices goes once j of them are in the buffer, which  *)
(* held n units before: it notifies dosend of a buffer that was empty. The *)
(* faulty variants notify always, and only of a buffer that was not empty. *)
AfterAlways(j, k, n) ==
  IF j < k THEN "append" ELSE IF k # 0 THEN "notify" ELSE "unlock"
AfterLate(j, k, n) ==
  IF j < k THEN "append" ELSE IF n # 0 /\ k # 0 THEN "notify" ELSE "unlock"
After(j, k, n) ==
  IF j < k THEN "append" ELSE IF n = 0 /\ k # 0 THEN "notify" ELSE "unlock"

(* Lock, and read the length of the buffer. On a closed socket Write only  *)
(* locks and unlocks.                                                      *)
WriteLock(g, k) ==
  /\ pc[g] = "idle"
  /\ m = NoOne
  /\ ~bclose
  /\ Len(accepted) + k <= MaxUnits
  /\ m' = g
  /\ size' = k
  /\ dataLen' = Len(buffers[writeIndex])
  /\ done' = 0
  /\ Goto(g, After(0, k, dataLen'))
  /\ UNCHANGED <<bufferVars, chanVars, bclose, sendVars, streamVars>>

(* Append one slice; the Write is accepted with its last. *)
WriteAppend(g) ==
  /\ pc[g] = "append"
  /\ buffers' = [buffers EXCEPT ![writeIndex] = Append(@, Unit(g, done + 1))]
  /\ done' = done + 1
  /\ Goto(g, After(done + 1, size, dataLen))
  /\ accepted' = IF done + 1 = size THEN accepted \o Message(g, size) ELSE accepted
  /\ UNCHANGED <<sendIndex, writeIndex, chanVars, m, bclose, size, dataLen,
                 sendVars, wire>>

(* my.notify <- 0, holding m: it blocks while the channel is full, and     *)
(* panics when it is closed (NotifyReady: neither ever happens).           *)
WriteNotify(g) ==
  /\ pc[g] = "notify"
  /\ notify < 1
  /\ ~hungup
  /\ notify' = notify + 1
  /\ Goto(g, "unlock")
  /\ UNCHANGED <<bufferVars, hungup, m, bclose, localVars, sendVars,
                 streamVars>>

WriteUnlock(g) ==
  /\ pc[g] = "unlock"
  /\ m' = NoOne
  /\ Goto(g, "idle")
  /\ UNCHANGED <<bufferVars, chanVars, bclose, localVars, sendVars, streamVars>>

-----------------------------------------------------------------------------
(* Close. *)

(* Lock, and find the socket open; a second Close does nothing. *)
CloseLock(g) ==
  /\ pc[g] = "idle"
  /\ m = NoOne
  /\ ~bclose
  /\ m' = g
  /\ Goto(g, "close")
  /\ UNCHANGED <<bufferVars, chanVars, bclose, localVars, sendVars, streamVars>>

(* bclose = true, which only holders of m see, and conn.Close(). *)
CloseConn(g) ==
  /\ pc[g] = "close"
  /\ bclose' = TRUE
  /\ Goto(g, "closeNotify")
  /\ UNCHANGED <<bufferVars, chanVars, m, localVars, sendVars, streamVars>>

(* Whether my.notify is closed after Close; the faulty variant forgets. *)
StillOpen == hungup
HungUp == TRUE

(* close(my.notify) and Unlock. *)
CloseNotify(g) ==
  /\ pc[g] = "closeNotify"
  /\ hungup' = HungUp
  /\ m' = NoOne
  /\ Goto(g, "idle")
  /\ UNCHANGED <<bufferVars, notify, bclose, localVars, sendVars, streamVars>>

-----------------------------------------------------------------------------
(* dosend. *)

(* _, ok := <-my.notify, with a value: also when the channel is closed. *)
Recv ==
  /\ dosend = "recv"
  /\ notify > 0
  /\ notify' = notify - 1
  /\ dosend' = "lock"
  /\ UNCHANGED <<bufferVars, hungup, m, bclose, writeVars, sendSplice, writeErr,
                 streamVars>>

(* The channel is empty and closed: ok is false. *)
RecvClosed ==
  /\ dosend = "recv"
  /\ notify = 0
  /\ hungup
  /\ dosend' = "returned"
  /\ UNCHANGED <<bufferVars, chanVars, m, bclose, writeVars, sendSplice,
                 writeErr, streamVars>>

SwapLock ==
  /\ dosend = "lock"
  /\ m = NoOne
  /\ m' = Sender
  /\ dosend' = "swap"
  /\ UNCHANGED <<bufferVars, chanVars, bclose, writeVars, sendSplice, writeErr,
                 streamVars>>

(* Writers now fill the buffer that dosend has emptied; the faulty variant *)
(* leaves them the one that dosend is about to send.                       *)
SwapNothing == writeIndex
SwapTo == sendIndex

Swap ==
  /\ dosend = "swap"
  /\ writeIndex' = SwapTo
  /\ m' = NoOne
  /\ dosend' = "flip"
  /\ UNCHANGED <<buffers, sendIndex, chanVars, bclose, writeVars, sendSplice,
                 writeErr, streamVars>>

(* dosend turns to the other buffer and takes its data, unless a write to  *)
(* the connection has failed before.                                       *)
Flip ==
  LET i == (sendIndex + 1) % 2
  IN /\ dosend = "flip"
     /\ sendIndex' = i
     /\ IF writeErr THEN dosend' = "clear" /\ UNCHANGED sendSplice
                    ELSE dosend' = "send" /\ sendSplice' = buffers[i]
     /\ UNCHANGED <<buffers, writeIndex, chanVars, m, bclose, writeVars,
                    writeErr, streamVars>>

(* sendSplice[n:]; the faulty variant skips a unit. *)
RestSkipping(n) == SubSeq(sendSplice, n + 2, Len(sendSplice))
Rest(n) == SubSeq(sendSplice, n + 1, Len(sendSplice))

(* conn.Write takes n units without an error. *)
ConnWrite(n) ==
  /\ dosend = "send"
  /\ ~bclose
  /\ wire' = wire \o SubSeq(sendSplice, 1, n)
  /\ sendSplice' = Rest(n)
  /\ UNCHANGED <<bufferVars, chanVars, m, bclose, writeVars, dosend, writeErr,
                 accepted>>

(* conn.Write fails after n units, and at once on a closed connection. *)
ConnFail(n) ==
  /\ dosend = "send"
  /\ sendSplice # <<>>
  /\ bclose => n = 0
  /\ wire' = wire \o SubSeq(sendSplice, 1, n)
  /\ sendSplice' = <<>>
  /\ writeErr' = TRUE
  /\ UNCHANGED <<bufferVars, chanVars, m, bclose, writeVars, dosend, accepted>>

(* The buffer that dosend clears; the faulty variant takes the writers'. *)
ClearedWriters == writeIndex
ClearedBuffer == sendIndex

Clear ==
  /\ dosend = "clear" \/ (dosend = "send" /\ sendSplice = <<>>)
  /\ buffers' = [buffers EXCEPT ![ClearedBuffer] = <<>>]
  /\ dosend' = "recv"
  /\ UNCHANGED <<sendIndex, writeIndex, chanVars, m, bclose, writeVars,
                 sendSplice, writeErr, streamVars>>

-----------------------------------------------------------------------------
Locks ==
  \/ \E g \in Goroutines, k \in 0..MaxSlices : WriteLock(g, k)
  \/ \E g \in Goroutines : CloseLock(g)
  \/ SwapLock

(* The steps of whoever is inside Write or Close. *)
Holder(g) ==
  \/ WriteAppend(g) \/ WriteNotify(g) \/ WriteUnlock(g)
  \/ CloseConn(g) \/ CloseNotify(g)

Sending ==
  \/ Recv \/ RecvClosed \/ Swap \/ Flip \/ Clear
  \/ \E n \in 1..Len(sendSplice) : ConnWrite(n)
  \/ \E n \in 0..Len(sendSplice) : ConnFail(n)

(* Everything has come to rest: the socket is closed and dosend is gone. *)
Finished ==
  /\ dosend = "returned"
  /\ m = NoOne
  /\ UNCHANGED vars

Next == Locks \/ (\E g \in Goroutines : Holder(g)) \/ Sending \/ Finished

Spec == Init /\ [][Next]_vars

(* Goroutines are scheduled fairly, sync.Mutex starves nobody, and         *)
(* conn.Write returns: the peer reads, or the connection fails.            *)
Fairness ==
  /\ SF_vars(SwapLock)
  /\ WF_vars(Sending)
  /\ \A g \in Goroutines : WF_vars(Holder(g))

FairSpec == Spec /\ Fairness

-----------------------------------------------------------------------------
(* Safety. *)

(* my.notify <- 0 neither blocks nor panics: whoever sends, holding the    *)
(* mutex that dosend needs to empty the channel, finds it empty and open.  *)
NotifyReady ==
  \A g \in Goroutines : pc[g] = "notify" => notify = 0 /\ ~hungup

(* Writers and dosend never use the same buffer at the same time, although *)
(* dosend sends and clears without the mutex.                              *)
Disjoint ==
  dosend \in {"send", "clear"} => writeIndex # sendIndex

(* dosend never waits for a notification that will not come: data in the   *)
(* writers' buffer means that the channel holds a value, that dosend has   *)
(* taken it, or that the writer is about to send it.                       *)
NoLostWakeup ==
  buffers[writeIndex] # <<>> =>
    \/ notify = 1
    \/ dosend \in {"lock", "swap"}
    \/ \E g \in Goroutines : pc[g] \in {"append", "notify"}

(* What dosend has still to send before the writers' buffer. *)
Outgoing ==
  CASE dosend = "flip" -> buffers[1 - sendIndex]
    [] dosend = "send" -> sendSplice
    [] OTHER -> <<>>

(* The accepted part of the writers' buffer: without the slices that a     *)
(* Write in progress has appended so far.                                  *)
Pending ==
  IF \E g \in Goroutines : pc[g] = "append" THEN SubSeq(buffers[writeIndex], 1, dataLen)
                                            ELSE buffers[writeIndex]

(* As long as the connection works, what it has taken, what dosend holds   *)
(* and what waits in the writers' buffer are together exactly what was     *)
(* accepted, in order: nothing is lost, repeated or overtaken by a swap.   *)
StreamKept == ~writeErr => wire \o Outgoing \o Pending = accepted

(* Goroutines see one stream: GoSocket implements SendStream. *)
Promise == INSTANCE SendStream WITH broken <- writeErr, closed <- bclose

Implements == Promise!Spec

-----------------------------------------------------------------------------
(* Liveness. *)

(* What was accepted reaches the connection, unless that fails or is       *)
(* closed first: data accepted just before Close may be lost.              *)
Delivered ==
  \A n \in 1..MaxUnits : Len(accepted) >= n ~> Len(wire) >= n \/ writeErr \/ bclose

(* Once the socket is closed dosend returns: the goroutine does not leak.  *)
SenderReturns == bclose ~> dosend = "returned"
=============================================================================
