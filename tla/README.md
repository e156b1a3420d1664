# epoll4: specifications and proofs

epoll4 is a small network library: stackful coroutines (boost.Coroutine2) on one
thread, driven by `epoll`, an RPC client built on them, and a Go server for it.
This directory models it in TLA+, checks the models with TLC on small instances
and proves theorems about them with TLAPS. `PROJECT.json` lists, for every
definition, the lines it stands for, and every run, mutant, hazard and theorem.

## 1. The system

| component | state | operations | talks to |
|---|---|---|---|
| **Event loop** `epoll.{h,cpp}` | `m_funcs` (pushed resumptions), `m_timeWheel`/`m_timeIndex`/`m_baseTime`, `m_notifies`, the batch `m_events`, `m_del` | `Wait` (= `onTime`, the loop over `m_funcs`, `epoll_wait`, the dispatch), `Go`, `add`, `del`, `push`, `release`, `sleep` | resumes coroutines; calls `OnIn`/`OnOut` of sockets |
| **Coroutine, channel** `GoContext`, `GoChan` | the stack; `m_wait` | `In`, `Out`, `Sleep`; `Wait`, `Wake` | `m_funcs`, the wheel |
| **TcpSocket** `wrapsocket.cpp` | `m_fd`, `m_inWait`, `m_connWait`, `m_sendFail`, `m_writeBuffer` | `Open`, `Connect` (with a timer coroutine), `Read`, `Write`, `Close`, `OnIn`, `OnOut` | kernel (edge-triggered), event loop |
| **AcceptSocket** `wrapsocket.cpp` | `m_fd`, `m_inWait` | `Listen` (two of them), `Accept`, `Close`, `OnIn` | the same |
| **UdpSocket** `wrapsocket.cpp` | `m_fd`, `m_inWait`, `m_writeBuffer` (records of address, length, data) | `Open`, `Bind`, `Recvfrom`, `Sendto`, `Close`, `OnIn`, `OnOut` | the same |
| **RPC client** `protorpc.{h,cpp}`, `gorpc.*` | `m_waitResp`, `m_msg`, `m_psocket`, `m_reqSeq` | `Call` (two of them), coroutines `Worker` (`doWork`, `onProcess`) and `Check` (`doCheck`) | a `TcpSocket`; a `GoChan` in each call's frame |
| **Framing** `doWork`/`onProcess`, `NewConnect`/`OnProcess` | the read buffer | split a stream into messages | sockets, RPC |
| **Go socket** `goserver/tcpsocket` | two buffers, `sendIndex`, `writeIndex`, mutex, channel of capacity 1, `bclose` | `Write`, `Close` by any goroutine; goroutine `dosend` | `net.Conn` |
| **Go server** `goserver/main.go` | one read buffer per connection | accept, read, a goroutine per message | Go socket |
| **Echo server** `server.cpp` | a descriptor in the frame of `Accept`, then of `NewConnect` | `Accept` starts a coroutine `NewConnect` for each connection | `AcceptSocket`, event loop, `TcpSocket` |
| other examples of `server.cpp`, generated `ctogo.pb.*`, build files | | | |

What is hard in it, and what correctness means:

- *Scheduling.* There are four ways to be resumed (queue, wheel, channel, socket) and
  two to be resumed by one socket; `Close` and events of the same batch meet. Each
  suspension must be followed by exactly one resumption; no handler may run on a
  closed object; no stack may be freed while in use; a sleep takes as many ticks as asked.
- *The RPC client.* An answer, a timeout, the end of the connection and the caller's
  own resumption come in any order, and each callback writes into the frame of a
  `Call`. Each call must return once, with its own answer or an error; requests must
  be written in order and once.
- *The Go socket.* Writers and the sender share buffers without a lock in half of the
  code, and notify under a lock: no deadlock, no send on a closed channel, no lost
  wakeup, nothing lost or repeated.
- *Connecting.* A timer coroutine works on references into the frame of the call that
  started it, while that call may be resumed by the kernel, by `Close`, or by the timer
  itself. The frame must outlive the timer; nobody may lose a wait slot to a later
  call; a connect attempt ends, and reports what became of its own connection.
- *The byte stream.* Edge-triggered readiness: no edge may be consumed and forgotten; what is
  written arrives in order, once, and on the connection it was written to; a failed
  send must not outlive its connection.
- *Accepting.* The listener's edge is spent when the accept loop runs; a descriptor travels by
  value from `accept` to a coroutine that has not started yet, and whose socket stands where
  earlier ones stood. Every connection must be taken, every descriptor closed once and by its
  owner.
- *Datagrams.* What the kernel does not take waits in one buffer as records, which `OnOut` has to
  find again where `Sendto` has put them; a datagram that is refused must not stop those behind it.
- *Framing.* A message comes in any number of reads: however the stream is cut, the same
  messages must come out, and the loop must not wait for what it already has.

## 2. Modules

| module | models | abstract view of |
|---|---|---|
| `Scheduling` | what the loop promises the author of a coroutine | `Epoll` |
| `Epoll` | `epoll.{h,cpp}` and the wait slots of `TcpSocket` | |
| `EpollProofs` | proofs of the safety of `Epoll` | |
| `SendStream` | one stream of whole messages, a prefix of which is delivered | `GoSocket` |
| `GoSocket` | `goserver/tcpsocket` | |
| `GoSocketProofs` | proofs of the safety of `GoSocket`, and that it implements `SendStream` | |
| `RemoteCalls` | a call returns once, with its own answer or an error | `ProtoRPC` |
| `ProtoRPC` | `protorpc.{h,cpp}` and, as its server, `goserver/main.go` | |
| `ProtoRPCProofs` | proofs of the safety of `ProtoRPC`, and that it implements `RemoteCalls` | |
| `Connect` | `TcpSocket::Connect`, its timer coroutine and `Close`, over `Epoll` | |
| `ConnectProofs` | proofs that it is a program over `Epoll`, and of its safety | |
| `EchoServer` | `AcceptSocket`, the accept loop and the echoing coroutines of `server.cpp`, over `Epoll` | |
| `EchoServerProofs` | the same for the server | |
| `UdpQueue` | `UdpSocket` against a kernel | |
| `UdpQueueProofs` | proofs of the safety of `UdpQueue` | |
| `TcpStream` | `Write`, `OnOut`, `Read`, `OnIn`, `Close` of `TcpSocket` against a kernel | |
| `TcpStreamProofs` | proofs of the safety of `TcpStream` | |
| `Framing` | the read loops with `onProcess`/`OnProcess` | |
| `FramingProofs` | proofs of the safety of `Framing` | |
| `MCEpoll`, `MCGoSocket`, `MCProtoRPC`, `MCConnect`, `MCEchoServer`, `MCTcpStream`, `MCUdpQueue`, `MCFraming` | instances for TLC | |

Who uses whom: `Connect` and `EchoServer` extend `Epoll` and compose it with the coroutines that run on
it: every step of them is a step of the scheduler, or none for it (`RunsOnEpoll`, a theorem in both), so
that what is proved of arbitrary coroutines holds of these.
`ProtoRPC`, `TcpStream`, `UdpQueue` and `Framing` take from `Epoll` only that nothing else runs between two
yields, and stand alone. `Scheduling`, `SendStream` and `RemoteCalls` are implemented by
`Epoll`, `GoSocket` and `ProtoRPC` (their `Implements`).

### Epoll

One thread runs everything, so a step is either a step of `Epoll::Wait` (`running =
NoOne`; `at` says where) or one library call of the running coroutine. Bodies are
arbitrary: the running coroutine may make any legal call, so whatever holds does so
for every program over the library. `status` is a history variable: the code has no
such field, a coroutine's fate is only implied by who refers to it, and that the two
agree is the property (`OneWaker`). So is `left`, the ticks each sleeper still has to go
of what it asked for, counted down beside the wheel; `Implements` is false if the wheel wakes
anyone at another tick. Sockets appear by their wait slots `m_inWait` and
`m_connWait` and their registration in `m_notifies`; whether the kernel has data is left open
(`ReadWait` may happen at any time; an event may come for any registered socket).
`OnOut` and `OnIn` are separate steps of a batch because the code asks `exist`
before each of them, and a coroutine runs in between. An address (`Go(d)`) is reused
only after its object was deleted. `release` and the return of `goimpl` are
two steps: between them the coroutine runs on a stack that `m_del` refers to.

`ChanWait`, `ReadWait` and `ConnectWait` have a guard the code lacks: their slot is
free. Two waiters on one slot lose one of them (a listed hazard); no caller does it.

### GoSocket

One step per access to shared state. `Write` is `WriteLock` (lock, read the length),
one `WriteAppend` per slice, `WriteNotify` if the buffer was empty, `WriteUnlock`;
`Close` is `CloseLock`, `CloseConn`, `CloseNotify`; `dosend` is `Recv`/`RecvClosed`,
`SwapLock`, `Swap`, `Flip`, then `ConnWrite`/`ConnFail` without the lock and `Clear`. A unit
stands for the bytes of one slice. A `Write` that finds the socket closed only
locks and unlocks; this changes nothing and is left out. `accepted` and
`wire` are what completed `Write`s were given and what `conn.Write` has taken.

### ProtoRPC

A step is what one coroutine does between two yields, which is what `Epoll` justifies:
no other coroutine runs in between. `Call` up to `ch.Wait`, `Return` after it;
`Connected`, `Disconnected`, `Reconnect`, `onProcess` and `Drop` for `Worker`; `doCheck` for
`Check`; `OnCmd` for the server. `onProcess` handles one message: between the
messages of one `Read` the code does not yield, but they might as well have arrived
one by one. `m_reqSeq` counts without wrapping; the number on the wire, and in a
`Key`, is `n % SeqMod`. `age` is `curtime() - Value::Time` up to the only value the
code compares it with. Both callbacks and the frame they write to are modelled by
`pc`: a callback is legal exactly when its caller is `"waiting"`. Connections, reads and
answers succeed or fail at any time: what the sockets do is left open here. A request
that `Write` drops after a failed `send` is one that is never served.

### Connect

`Coroutines` are callers and timers. A step of a coroutine is a call of `Epoll` (`Go`,
`Open`, `ConnectWait`, `ChanWait`, `ChanWake`, `Sleep`, `Close`, `Release`, `Return`) and what the code
around it does to `m_fd`, the descriptor, and the locals of `doConnectWithTimeout`, which are
the record `frame[c]`; `pc` says between which calls a coroutine is. The timer refers to
the frame of its caller by address: `refs[t]` is whose frame timer `t` has a reference to, for as
long as it may use it, and `FrameAlive` is that this frame is one of a call in progress, and
of the call that started `t`. `due` is `endpoint - curtime()`; it counts down with the clock of `Epoll`, for which the
sleeping timer is one more sleeper. The kernel answers an attempt at any time or never;
`epoll_wait` reports the socket once for each change (`edge`). `Connecters` and `Readers` are
the callers that connect, and that also wait for another socket. The code allows all of
them everything, and `connect_shared` does, but for `TrueOutcome`: it holds when one
coroutine does all the connecting with a timeout and does not connect again while events of
the old descriptor are in the batch. Otherwise an event of the old descriptor, dispatched
by the object's address, resumes the new attempt too early, `getsockopt` finds no error on
it, and `Connect` reports success (a listed hazard without a property).

### EchoServer

The coroutine `Acceptor` runs `Accept` of `server.cpp`, all others `NewConnect`, each with a `TcpSocket` on its
stack (`Stack`), whose address is the same each time the stack is used. `local[c]` is the descriptor in a
frame: `newsocket` from `accept` to `Go`, the argument that `std::bind` has copied from `Go` to `Open`. A
step is a call of `Epoll` with what the code around it does to `m_fd` and the table of descriptors (`conn`), or a system
call. `accept` finds no free descriptor before it looks at the backlog (`EMFILE`), as the kernel does.
`edges` are the sockets with something to report; `Collect` is the `epoll_wait` of `Epoll` with the
batch that they and the state of the kernel determine, where `Epoll` alone allows any. What
`Write` does with the echo is in `TcpStream`.

### UdpQueue

The buffer is a sequence of cells of eight bytes: an address has two, of which the second is
padding, a length one, data as many as the datagram is long. Each cell is named for the
datagram it comes from and its place in the record, so that a misplaced address shows up
as cells of one datagram in the record of another. `Sendto` behind others writes the address at
offset `len` instead of `size` (a finding), and `Queued` does what that does to the buffer.
`OnOut` is one `sendto` a step; where no length stands where it looks for one it is lost
(`RunWild`): what the code does beyond the buffer is undefined, and `at = "wild"` is the end of the model. An
address of zero is refused by the kernel. `shared` is a history variable: the datagrams that were
in the buffer with others, and so may have lost data.

### TcpStream

A step is a call, or what a call does up to the next system call, because between two of
these the kernel moves: `Write` decides to queue or to send, each `Send` is one `send` that
takes units, and `AllSent`, `WouldBlock` and `SendFails` end the loop, which is the same for `Write`
(`at = "send"`) and `OnOut` (`at = "flush"`). `ReadCall`, `Recv` and `RecvBlocks` are `Read` and `OnIn`. `OnOut` and `OnIn`
are the dispatch of one bit of the event, with the test of `exist` and of `m_connWait` (`Skip`). The
kernel has a send buffer of `SndBuf` units and owes an event once it was found full
(`nospace`), reports each change once (`edge`), and tells what is true when `epoll_wait` asks. After
`Close` an event in the batch stays there, as in the code, and may meet the next connection:
more than the kernel does for one descriptor, which only adds behaviours. `early` is a history
variable: the socket was used although it was not connected, or before `Connect` had
returned. The code allows this and such a socket loses units (`m_sendFail` on a closed socket
survives into the next connection, `EAGAIN` or an event swallowed while connecting), so the
properties but `StreamKept` are about sockets never used that way. `accepted` and `wire` are the
units written to the connection and those its kernel has taken.

### Framing

One read loop; a message is one step, since nothing yields but the read. A stream is a
sequence of cells; the first cell of a message stands for its head's length field. `readBuffer` begins as
`Junk` (it is not initialised) and is reused for the next connection with what it has in
it, as `doWork` does on its stack. `Moved` is what the shift to the front does: the code calls
`memcpy` on ranges that may overlap, which is undefined; the model has the outcome that the C
libraries of the supported builds produce for such forward copies, that of `memmove`.
`stream`, `handled` and `starts` are history: what the connection gave and where the messages
were found in it, against which the properties, the reference definition of a
cut, compare.

## 3. Runs

| run | instance | shows |
|---|---|---|
| `epoll` | 3 coroutines, 1 channel, 2 sockets, wheel of 3 | `OneWaker`, `StackSafe`, `HandlerAlive`, `WaitersRegistered` |
| `epoll_promise` | 3 coroutines, 1 channel, 1 socket, wheel of 3 | `Epoll` implements `Scheduling`: no lost, repeated or spurious resumption, sleeps of the right number of ticks; `ReadyRuns`, `SleeperWakes` |
| `gosocket` | 2 goroutines, messages of 0 to 2 slices, 4 units | `NotifyReady`, `Disjoint`, `NoLostWakeup`, `StreamKept`, no deadlock; `GoSocket` implements `SendStream`; `Delivered`, `SenderReturns` |
| `rpc` | 2 callers, 4 requests, sequence numbers modulo 2 | `FramesAlive`, `BufferExact`, `SentInOrder` |
| `rpc_live` | 2 callers, 4 requests, no wraparound | `ProtoRPC` implements `RemoteCalls`; `CallReturns` |
| `connect` | 1 connecter, 1 reader, 2 timers, 3 connections, timeouts of 1 and 2 | `TrueOutcome` |
| `connect_shared` | 2 coroutines that both connect, close and read, 3 timers, 2 connections, timeouts of 0 and 2 | `FrameAlive`, `SlotsFree`, `TimeoutCloses`; `ConnectReturns` |
| `tcpstream` | send buffer of 2, writes of up to 3, 5 units, 3 connections | `StreamKept`, `FlushOwed`, `ReadOwed`, `NoSilentDrop`; `Delivered` |
| `framing` | head of 2 cells, buffer of 4, streams of up to 6 cells, lengths 1 to 5 | `StreamKept`, `EndToEnd`, `Blame` |
| `udp` | send buffer of 2, 4 datagrams of 2 to 4 cells, 2 openings | `InOrder`, `Addressed`, `EdgeOwed`; `Drained` |
| `udp_as_given` | the same, of 3 cells | that `SentAsGiven` does not hold: see below |
| `echo` | the acceptor, 3 handlers, 2 descriptors, 4 clients | `DescriptorOwned`, `NobodyForgotten`; `Served`, `AcceptorYields` |

*A finding.* `SentAsGiven` is what `udpclient` of `server.cpp`, the example that the repository's README
refers to, expects of `Sendto`: a datagram that leaves has its own destination and its own data. It is
violated: once the kernel's buffer is full, the address of the second datagram in `m_writeBuffer`
overwrites data of the first (`wrapsocket.cpp:535`), and the second is refused for want of an
address. What does hold of such lengths, that the buffer is never left and that no datagram
goes astray or overtakes another, is `InOrder` and `Addressed`; for lengths shorter than a head,
or that differ by more, a length field can be hit, and not even that holds.

Every property has a mutant: a plausible bug in a mapped definition (a slot not
cleared, the wrong buffer cleared, a key looked up by half) with which TLC
finds it violated. The faulty variants stand next to the definitions they would replace.

*Why the bounds are enough.* Three coroutines are a resumed one, one that waits
beside it and one that wakes or closes; two sockets give a batch with an event
for a socket that the coroutine of the first event closes. A wheel of three slots has
sleeps shorter than, equal to and longer than a turn, and `MaxLag = 2` several ticks in
one `onTime`. In `GoSocket` one goroutine writes or closes between any two steps of another one and
of dosend; four units are both buffers' worth of messages of two. In `ProtoRPC` four requests are an old one timed out, its late
answer, and new ones of both callers; with sequence numbers modulo two every third
one meets the key of an earlier call. In `Connect` a finished timer's address stays
in `m_del` until the next one ends, so two timers are one that runs and one that has
just gone, and two callers that both connect need a third; `MaxConns` descriptors are an attempt, one
after its `Close`, and one after the timeout. In `TcpStream` a write of three does not fit in
the send buffer of two, five units are two such writes or one behind units that
wait, three connections are a failed one and what follows it. In `Framing` the lengths
are less than a head, a head, between, the buffer and more than it; six cells make the
shift happen with and without a rest. In `UdpQueue` four datagrams, of which the kernel takes two, leave
two that share the buffer, and the lengths are one less than a head, a head and one more, so that
length fields are hit and are not; the second opening meets what the first left behind. In `EchoServer` a
finished handler is deleted when the next one ends, so three are one that runs, one that has
just gone and one whose stack is used again; two descriptors run out, and four clients use
each of them twice. The theorems below lift the safety properties of all of them from the bounds,
`TrueOutcome` for one coroutine that connects, which is what the run `connect` has.

`TcpStream` and `UdpQueue` check without deadlock detection: when all connections have been
used up (`MaxOpens`), the program may really stop, and so it may when `OnOut` is lost. Elsewhere a deadlock is an error.

`rpc_live` takes fewer requests than there are sequence numbers. Beyond that a
very late answer can be given to another call; the code cannot know (a listed hazard). `OwnOrTurnApartHolds`
of section 5 says that this is all that can go wrong: such an answer belongs to a request a whole turn of the
numbers away.

## 4. Fairness

- `Epoll`: weak fairness of the loop, of the running coroutine's yields (segments end) and
  of the clock. It is one thread; nothing else is scheduled. Coroutines that wake one another for ever
  really hold the loop over `m_funcs` and starve the timers; `SleeperWakes` says that nothing else does: it assumes
  either that `Wait` keeps returning or only that, in the end, nobody pushes others out of that loop (`PushesOn`).
- `GoSocket`: weak fairness of whoever holds the mutex and of `dosend` (`conn.Write`
  returns), strong fairness of `dosend`'s lock, since Go's mutex starves nobody.
  Nobody has to write or close.
- `ProtoRPC`: a connect attempt ends (it has a timeout), sleeps end, pushed coroutines
  run (`ReadyRuns`), time passes. Nothing is assumed of the server, nor of `Read`.
- `Connect`: weak fairness of the thread (coroutines and loop) and of the clock. Nothing is assumed of the
  kernel: the point of `ConnectReturns` is that an attempt may never be answered.
- `TcpStream`: calls end (weak fairness of `Working`); coroutines yield, so a pushed reader and the loop get
  the CPU again and again though others write in between (strong fairness of `Resumed`
  and `Loop`); the peer acknowledges what it was sent (weak fairness of `Drain`). Nobody
  has to write, read, close or connect, and nothing has to arrive. `UdpQueue` is the same, with a
  network that takes what is in the send buffer.
- `EchoServer`: weak fairness of the coroutine that runs (`Body`), of the loop (`Rest`) and of `epoll_wait` (`Collect`): one
  thread. `Served` assumes that `Wait` keeps returning (`SleeperWakes` says what else it may do), and `AcceptorYields` tells when it does not
  because of the accept loop: only when the process is out of descriptors. Clients and peers do
  what they like.

## 5. Proofs

For any coroutines, channels, sockets and wheel size (`EpollProofs`), callers, timers and timeouts
(`ConnectProofs`), handlers, descriptors and clients (`EchoServerProofs`), any goroutines and message
sizes (`GoSocketProofs`), callers, commands, numbers of requests and sequence numbers (`ProtoRPCProofs`),
buffers, writes and number of connections (`TcpStreamProofs`), datagrams and their lengths
(`UdpQueueProofs`), and any buffer, head, cells and cut (`FramingProofs`):

| theorem | statement |
|---|---|
| `EpollProofs!TypeCorrect` | `Spec => [](TypeOK /\ HandlerAlive)` |
| `EpollProofs!OneWakerHolds` | `Spec => []OneWaker` |
| `EpollProofs!StackSafeHolds` | `Spec => []StackSafe` |
| `EpollProofs!WaitersRegisteredHolds` | `Spec => []WaitersRegistered` |
| `EpollProofs!ImplementsScheduling` | `Spec => Implements` |
| `GoSocketProofs!TypeCorrect`, `NotifyReadyHolds`, `DisjointHolds`, `NoLostWakeupHolds`, `StreamKeptHolds` | `Spec => []...` |
| `GoSocketProofs!ImplementsStream` | `Spec => Implements` |
| `TcpStreamProofs!TypeCorrect`, `StreamKeptHolds`, `FlushOwedHolds`, `ReadOwedHolds`, `NoSilentDropHolds` | `Spec => []...` |
| `ConnectProofs!RunsOnEpoll`, `EchoServerProofs!RunsOnEpoll` | `ConnectSpec => Spec`, `ServerSpec => Spec`, with `Epoll`'s `Spec` |
| `ConnectProofs!ConnectIsScheduled`, `EchoServerProofs!ServerIsScheduled` | `ConnectSpec => Implements`, `ServerSpec => Implements`, with `Epoll`'s `Implements` |
| `ConnectProofs!ConnectTypeCorrect`, `FrameAliveHolds`, `SlotsFreeHolds`, `TimeoutClosesHolds` | `ConnectSpec => []...` |
| `ConnectProofs!TrueOutcomeHolds` | `ConnectSpec => TrueOutcome`, if `OneConnects` |
| `ConnectProofs!NobodyStrandedHolds` | `ConnectSpec => []NobodyStranded`, the safety half of `ConnectReturns` |
| `EchoServerProofs!ServerTypeCorrect`, `DescriptorOwnedHolds`, `NobodyForgottenHolds` | `ServerSpec => []...` |
| `EchoServerProofs!AttendedHolds` | `ServerSpec => []Attended`, the safety half of `Served` |
| `ProtoRPCProofs!TypeCorrect`, `FramesAliveHolds`, `BufferExactHolds`, `SentInOrderHolds` | `Spec => []...` |
| `ProtoRPCProofs!ImplementsRemoteCalls` | `Spec => Implements`, if `SeqMod > MaxCalls` |
| `ProtoRPCProofs!OwnOrTurnApartHolds` | `Spec => []OwnOrTurnApart`, with numbers that wrap |
| `UdpQueueProofs!TypeCorrect`, `InOrderHolds`, `AddressedHolds`, `EdgeOwedHolds` | `Spec => []...` |
| `FramingProofs!TypeCorrect`, `StreamKeptHolds`, `EndToEndHolds`, `BlameHolds` | `Spec => []...`; `EndToEndHolds` has `Waits` with it |

*Epoll.* The five properties are proved together, because they need one another: a
handler may empty the slots of a registered socket (`HandlerAlive`), that a
resumed coroutine was not also queued is `OneWaker`, that the coroutine on the CPU is
not the one being deleted is `StackSafe`. `OneWaker` is split by waker: `ListsOnce` for the
queue, `WheelOnce` for the wheel, `HeldOnce` for each kind of slot; lemmas say
how each changes when one coroutine is appended, taken, put in a slot or removed, and
every action then is a combination of them.

That `Epoll` implements `Scheduling` needs two more invariants. `WheelOnTime`: who is in the slot that the wheel reaches
after `s` ticks has `s` ticks left of its sleep, and nobody else has any left; without it a `Tick` cannot be
shown to wake exactly those whose time is over. Indices are modulo the size of the wheel, but never more than a
turn is added (`WrapsOnce`), so that one tick brings every slot one nearer and only the next one due (`OneTickNearer`). `BatchDone`: the wheel
turns only when the batch is empty. The lemmas `Abs...` then say of each call, dispatch and tick which step of
`Scheduling` it is, or that it is none. `OthersRest` states what a proof about one coroutine needs of all the rest:
while it is off the CPU, others leave it where it is, or push it and take it out of its slot.

*Connect* and *EchoServer* are proved on top of these: `RunsOnEpoll` gives them `Epoll`'s invariant at every step, and
their own one says only what the coroutines add to it. `ConnectIsScheduled` and `ServerIsScheduled` follow at once.

*Connect.* `Places`: who runs which code. `Segments`: between two calls that yield a coroutine has the
CPU, so that what it has just found (the socket is open, nobody waits to connect it) still holds; `SlotsFree`
follows. `Calls`: a frame has a descriptor of its own exactly during the call, and once it has
timed out that descriptor is no longer the socket's. `References`: a timer that has a reference is the
timer of the call it refers to, and when the call knows that its timer has gone, by the flag or
by having been woken in its `tmpChan`, nobody refers to it; `Channels`: nobody else can have
woken it there. The last two are what makes a return safe, whoever resumed the caller in between.

`TrueOutcome` is proved from `OutcomeInv`, for one coroutine that connects, always with a timeout and waiting for
no other socket (`OneConnects`, what the only caller in the library does); any number of others close the
socket and wait for other sockets meanwhile. `Descriptor`: until the attempt is answered the kernel has no event of it, and none of an earlier descriptor is left in the
batch. `Attempts`: the call has the socket to itself, and it runs in the middle of a batch only to see how the attempt
ended: before it can connect again it waits for its timer, which is awake only outside of one. That
is why a stale event never meets a fresh descriptor, and it is where the hypotheses are used: without any
one of the three TLC finds a call that reports another's outcome.

`NobodyStranded` holds of any callers. `StrandInv` says of each wait of a call whose timer is to come:
the timer has not looked at it yet (`Answered`), and will; it is kept by the caller itself (`OwnWait`), by its timer
(`AnsweredByTimer`) and by all others (`OthersWait`).

*EchoServer.* `Places` says what a coroutine holds from where it is, `Stacks` that a `TcpSocket` is open exactly while
the coroutine it belongs to reads, `Owned` that the descriptors in frames and in sockets differ and are
the open ones; `DescriptorOwned` follows. `Quiet` (nobody connects; a batch is empty between two `epoll_wait`s) and
`Epoll`'s `OneWaker` and `WaitersRegistered` are what `NobodyForgotten` needs: that an event of the batch, when it is
dispatched, finds whoever waits. `Attended` is the other direction: each connection has a coroutine whose post it is
(`Posts`: where the coroutine is tells what it serves), which is about to run or waits in its socket; `NobodyForgotten`
then says that an event is on its way to it.

*GoSocket.* The inductive invariant `IInv` adds what the properties leave out: who
holds the mutex (`LockInv`), that the two indices agree only between the swap and the
flip and that the buffer offered for the swap is empty (`IndexInv`), that nobody is
inside `Write` on a closed socket (`CloseInv`), that a notification is pending or taken
only for data (`SignalInv`), what a `Write` in progress has appended (`AppendInv`), that
dosend has nothing to send once a write failed (`ErrInv`), and that a `Write` to a
buffer that had data relies on somebody else's notification (`WakeInv`). `StreamKept` is what
makes the refinement step of `ConnWrite` go through: what it sends is a prefix of what
was accepted, and follows what was sent before.

*ProtoRPC.* `FramesAlive` is inductive with the types, because `Call` draws numbers until it has a key that is not in
use, and the callbacks erase the entries they run; `BufferExact` is with it. `Ordered` adds to `SentInOrder` that
what is in `m_msg` is in order too, newer than what was written, and no newer than `m_reqSeq`. For the
refinement, `Calls` relates the fields of a call to its entry, and `Flights` follows a request on its way:
it is in one place until it is served. While no number is used twice, an answer that finds
an entry then finds that of the call it answers, which is where `SeqMod > MaxCalls` comes in. Without it, `Answers`
keeps that the two have the same remainder, and two numbers with one remainder are equal or `SeqMod` apart
(`TurnApart`). They may be apart in either direction: a `Post`, a `Call` without a response, takes the next number
without looking whether somebody waits under it.

*TcpStream.* `IInv` adds: a loop over `send` runs only on a socket that has not failed, `Write`'s
only with an empty buffer, a closed socket's buffer is empty, nothing arrives before a
connection does (`LoopInv`); before a connection is there, and until `Connect` has
returned, nothing was written and the event that the connecting coroutine takes is
still to come (`QuietInv`); an event that is there already will find room in the send buffer
(`RoomInv`, without which an `epoll_wait` that reports no `OUT` would break `FlushOwed`). The
stream is kept because `\o` is associative: what `Write` appends, what `Send` moves from
one sequence to the other, and what a failed send cuts off are lemmas of their own.

*UdpQueue.* `LayoutInv` says of the buffer from `total` on: the length fields lie one record apart, in the order of the
datagrams, and each record has its own address or none. Lemmas say what each
operation does to a buffer that is laid out: a record is passed (`NextLaid`), the rest moves to the front
(`RestLaid`), one is queued (`QueuedLaid`), where a misplaced address hits only data of the first
record because of the lengths. `InOrder` and `Addressed` follow; `OwedInv` is `EdgeOwed` while a receiver runs.

*Framing.* What is kept is `Kept` (the cells handled and those in the buffer are the
stream, the starts lie end to end); that the loop waits only for what it needs follows
from the guard of `Shift` and is what makes an error of the full buffer the peer's (`Blame`).
Most of the proof is about the indices: a message that lies in the buffer from `procTotal` lies
in the stream from `Len(handled)`.

The type invariants are proved and not part of the runs (`HandlerAlive` is part of `Epoll`'s). The assumptions are the
named `ASSUME`s of the modules: special values differ from the coroutines, goroutines and cells, sizes are
natural numbers, the wheel has a slot, the send buffer room for a unit, the read buffer room for a
head; and `SeqMod > MaxCalls` and `OneConnects` where they are stated.

*Only model-checked* are the liveness properties `ReadyRuns`, `SleeperWakes`, `Delivered` (of both ends), `SenderReturns`,
`CallReturns`, `ConnectReturns`, `Drained`, `Served` and `AcceptorYields`: liveness under fairness is beyond the prover. What is
proved of them is the safety half, that whatever has to happen is always on its way: `OneWaker` and `WheelOnTime` (who is
ready is queued, who sleeps has its slot), `NoLostWakeup`, `FlushOwed` and `EdgeOwed` (data that waits has a notification
or an event coming), `FramesAlive` and `BufferExact` (who waits for an answer is known to those who end its
call), `NobodyStranded`, and `Attended` with `NobodyForgotten`.

## 6. Not modelled, and why

Bytes: the layout of heads, protobuf, addresses beyond what `UdpQueue` needs. Memory below the level of "this object
is alive": a vector that moves while its element is executed (the lambdas that are pushed read what they have
captured before they resume a coroutine, and nothing after), `memcpy` on overlapping ranges (see
Framing). `SIGPIPE`, `fork`, descriptors that run out in `socket`/`epoll_ctl` (they return an error and change
nothing). Several event loops on several threads share nothing. `Accept` after a `Close` of the listener: nothing
in the repository closes one. The accept loop of `goserver/main.go` has no state; it starts a `NewConnect` for each
connection, which are independent. The other coroutines of `server.cpp` (clients, udp, statistics, the load
test of the RPC client) are instances of the arbitrary callers of `Epoll`, `TcpStream`, `UdpQueue` and `ProtoRPC`.

## 7. Plan

1. *(done)* `Scheduling`, `Epoll`, `SendStream`, `GoSocket`, `RemoteCalls`, `ProtoRPC`, `Connect`, `TcpStream`, `Framing`, `UdpQueue`,
   `EchoServer`; the proofs of section 5.
2. *(done)* Proofs: `Epoll` implements `Scheduling`; `TrueOutcome`; the safety halves of `ConnectReturns` and `Served`; late
   answers when numbers wrap.
3. `TcpStream` implements `SendStream`, with units for messages, as `GoSocket` does: one promise for both ends.
