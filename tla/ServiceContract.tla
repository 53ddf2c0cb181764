---------------------------- MODULE ServiceContract ----------------------------
(***************************************************************************)
(* What protocol.h promises the client of a connection: its requests are   *)
(* dealt with in the order they were made, each once, with one answer.     *)
(* Until a login succeeds nothing else does, and a login does not succeed  *)
(* twice.  A request of an unknown type is refused before the login and    *)
(* passed over after it.  When a packet is lost in part the connection is  *)
(* spoilt and nothing is promised any more.                                *)
(***************************************************************************)
EXTENDS Naturals, Sequences

CONSTANTS Requests   \* the types

VARIABLES
  made,     \* the types of the requests, in the order the client makes them
  answers,  \* which request was dealt with, and how: "ack", "nack" or "none"
  loggedIn,
  spoilt

contractVars == <<made, answers, loggedIn, spoilt>>

Init == made = <<>> /\ answers = <<>> /\ loggedIn = FALSE /\ spoilt = FALSE

Make(type) == made' = Append(made, type) /\ UNCHANGED <<answers, loggedIn, spoilt>>

Turn == Len(answers) + 1
Asks(types) == Turn \in DOMAIN made /\ made[Turn] \in types

Answer(what) ==
  /\ answers' = Append(answers, [of |-> Turn, what |-> what])
  /\ UNCHANGED <<made, spoilt>>

LogIn ==
  /\ ~loggedIn /\ Asks({"LOGIN"})
  /\ Answer("ack") /\ loggedIn' = TRUE

Grant ==
  /\ loggedIn /\ Asks(Requests \ {"LOGIN", "other"})
  /\ Answer("ack") /\ UNCHANGED loggedIn

Refuse ==
  /\ Asks(Requests) /\ ~(loggedIn /\ Asks({"other"}))
  /\ Answer("nack") /\ UNCHANGED loggedIn

PassOver ==
  /\ loggedIn /\ Asks({"other"})
  /\ Answer("none") /\ UNCHANGED loggedIn

Spoil == spoilt' = TRUE /\ UNCHANGED <<made, answers, loggedIn>>
Anything == spoilt /\ spoilt'

Next ==
  \/ \E type \in Requests : Make(type)
  \/ LogIn \/ Grant \/ Refuse \/ PassOver \/ Spoil \/ Anything

Spec == Init /\ [][Next]_contractVars
===============================================================================
