---------------------------- MODULE RemoteCalls ----------------------------
(***************************************************************************)
(* What ProtoRPC promises to the coroutines that make calls, with no       *)
(* connection, buffer, sequence number or timer in sight: a call returns   *)
(* exactly once, either with the answer to its own request or with an      *)
(* error, and the server executes a request at most once.                  *)
(* ProtoRPC.tla is shown to implement this module.                         *)
(***************************************************************************)
EXTENDS Naturals

CONSTANTS Callers,   \* the coroutines that make calls
          Requests   \* the numbers that requests can have

VARIABLES asked,     \* the request each caller waits for, 0 for none
          outcome,   \* how its call has ended: "unset", "ok" or "error"
          answer,    \* the request whose answer the call was given, 0 for none
          last,      \* the number of the last request
          served     \* the requests the server has executed

vars == <<asked, outcome, answer, last, served>>

Init ==
  /\ asked = [c \in Callers |-> 0]
  /\ outcome = [c \in Callers |-> "unset"]
  /\ answer = [c \in Callers |-> 0]
  /\ last = 0
  /\ served = {}

(* A caller makes a request. *)
Ask(c, n) ==
  /\ asked[c] = 0
  /\ n > last
  /\ asked' = [asked EXCEPT ![c] = n]
  /\ last' = n
  /\ UNCHANGED <<outcome, answer, served>>

(* A request that nobody waits for. *)
Post(n) ==
  /\ n > last
  /\ last' = n
  /\ UNCHANGED <<asked, outcome, answer, served>>

Serve(n) ==
  /\ n <= last
  /\ n \notin served
  /\ served' = served \cup {n}
  /\ UNCHANGED <<asked, outcome, answer, last>>

Open(c) == asked[c] # 0 /\ outcome[c] = "unset"

(* A caller is given the answer to its own request. *)
Succeed(c) ==
  /\ Open(c)
  /\ asked[c] \in served
  /\ outcome' = [outcome EXCEPT ![c] = "ok"]
  /\ answer' = [answer EXCEPT ![c] = asked[c]]
  /\ UNCHANGED <<asked, last, served>>

(* The calls of some callers fail: a timeout, a lost connection. *)
Fail(S) ==
  /\ \A c \in S : Open(c)
  /\ outcome' = [c \in Callers |-> IF c \in S THEN "error" ELSE outcome[c]]
  /\ UNCHANGED <<asked, answer, last, served>>

Return(c) ==
  /\ outcome[c] # "unset"
  /\ asked' = [asked EXCEPT ![c] = 0]
  /\ outcome' = [outcome EXCEPT ![c] = "unset"]
  /\ answer' = [answer EXCEPT ![c] = 0]
  /\ UNCHANGED <<last, served>>

Next ==
  \/ \E c \in Callers, n \in Requests : Ask(c, n)
  \/ \E n \in Requests : Post(n) \/ Serve(n)
  \/ \E c \in Callers : Succeed(c) \/ Return(c)
  \/ \E S \in SUBSET Callers : Fail(S)

Spec == Init /\ [][Next]_vars
=============================================================================
