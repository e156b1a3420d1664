----------------------------- MODULE Scheduling -----------------------------
(***************************************************************************)
(* What epoll.h promises the author of a coroutine, with no queue, timer   *)
(* wheel, wait slot or epoll descriptor in sight: at most one coroutine is *)
(* on the CPU; one that was started runs; one that blocked runs again only *)
(* after a wake, one wake for each block; one that sleeps becomes ready    *)
(* after exactly as many ticks as it asked for, MaxSleep at the most.      *)
(* Epoll.tla is shown to implement this module.                            *)
(***************************************************************************)
EXTENDS Naturals

CONSTANTS Coroutines, \* the GoContext objects there can be at one time
          MaxSleep    \* the longest sleep, in ticks

VARIABLES status,     \* what each coroutine is doing
          left        \* the ticks each sleeping coroutine has left, else 0

vars == <<status, left>>

Status == {"unborn", "ready", "running", "asleep", "blocked"}

TypeOK ==
  /\ status \in [Coroutines -> Status]
  /\ left \in [Coroutines -> 0..MaxSleep]

CpuFree == \A c \in Coroutines : status[c] # "running"

Move(c, from, to) ==
  /\ status[c] = from
  /\ status' = [status EXCEPT ![c] = to]

Init ==
  /\ status = [c \in Coroutines |-> "unborn"]
  /\ left = [c \in Coroutines |-> 0]

(* Epoll::Go: a new coroutine is ready to run. *)
Spawn(c) == Move(c, "unborn", "ready") /\ UNCHANGED left

(* A ready coroutine, or one whose event arrived, is given the CPU. *)
Resume(c) ==
  /\ CpuFree
  /\ Move(c, "ready", "running") \/ Move(c, "blocked", "running")
  /\ UNCHANGED left

(* The running coroutine waits for a channel or a socket. *)
Block(c) == Move(c, "running", "blocked") /\ UNCHANGED left

(* Blocked coroutines are made ready: a channel's waiter, or everyone that *)
(* waits for a socket that is closed.                                      *)
Wake(S) ==
  /\ \A c \in S : status[c] = "blocked"
  /\ status' = [c \in Coroutines |-> IF c \in S THEN "ready" ELSE status[c]]
  /\ UNCHANGED left

(* The running coroutine sleeps for s ticks. *)
Sleep(c, s) ==
  /\ Move(c, "running", "asleep")
  /\ left' = [left EXCEPT ![c] = s]

(* A second passes for every sleeper at once; the CPU is free meanwhile. *)
Tick ==
  /\ CpuFree
  /\ status' = [c \in Coroutines |->
                  IF status[c] = "asleep" /\ left[c] = 1 THEN "ready"
                                                         ELSE status[c]]
  /\ left' = [c \in Coroutines |->
                IF status[c] = "asleep" THEN left[c] - 1 ELSE left[c]]

(* The body of the running coroutine returns. *)
Finish(c) == Move(c, "running", "unborn") /\ UNCHANGED left

Next ==
  \/ \E c \in Coroutines : Spawn(c) \/ Resume(c) \/ Block(c) \/ Finish(c)
  \/ \E c \in Coroutines, s \in 1..MaxSleep : Sleep(c, s)
  \/ \E S \in SUBSET Coroutines : Wake(S)
  \/ Tick

Spec == Init /\ [][Next]_vars
=============================================================================
