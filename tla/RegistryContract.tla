--------------------------- MODULE RegistryContract ---------------------------
(***************************************************************************)
(* What client_registry.h promises its callers, without locks or arrays: a *)
(* set of at most Capacity clients that each join once and leave once, and *)
(* a call, by any number of threads, that blocks until the set is empty.   *)
(***************************************************************************)
EXTENDS Naturals, FiniteSets

CONSTANTS Clients, Capacity, Waiters

VARIABLES
  status,  \* "out", then "in", then "left"
  waiter   \* "idle", "waiting", "released" or "returned"

contractVars == <<status, waiter>>

Members == {c \in Clients : status[c] = "in"}

Init ==
  /\ status = [c \in Clients |-> "out"]
  /\ waiter = [w \in Waiters |-> "idle"]

Join(c) ==
  /\ status[c] = "out"
  /\ Cardinality(Members) < Capacity
  /\ status' = [status EXCEPT ![c] = "in"]
  /\ UNCHANGED waiter

\* Whoever waits when the last one leaves is released.
Leave(c) ==
  /\ status[c] = "in"
  /\ status' = [status EXCEPT ![c] = "left"]
  /\ waiter' = [w \in Waiters |->
       IF Members = {c} /\ waiter[w] = "waiting" THEN "released" ELSE waiter[w]]

Wait(w) ==
  /\ waiter[w] = "idle"
  /\ waiter' = [waiter EXCEPT ![w] = IF Members = {} THEN "released" ELSE "waiting"]
  /\ UNCHANGED status

Return(w) ==
  /\ waiter[w] = "released"
  /\ waiter' = [waiter EXCEPT ![w] = "returned"]
  /\ UNCHANGED status

\* Another termination signal makes the thread start again.
Abandon(w) ==
  /\ waiter[w] # "idle"
  /\ waiter' = [waiter EXCEPT ![w] = "idle"]
  /\ UNCHANGED status

Next ==
  \/ \E c \in Clients : Join(c) \/ Leave(c)
  \/ \E w \in Waiters : Wait(w) \/ Return(w) \/ Abandon(w)

Spec == Init /\ [][Next]_contractVars
===============================================================================
