--------------------------- MODULE ServiceProperties ---------------------------
(***************************************************************************)
(* What a connection of the server can rely on.                            *)
(***************************************************************************)
EXTENDS Service

LoginIsUnanswered == pc = "reply" /\ inHdr.type = "LOGIN" /\ reply.what = "ack"
LoggedIn == player /\ ~LoginIsUnanswered
Contract ==
  INSTANCE ServiceContract WITH
    made <- [n \in DOMAIN made |-> made[n].type],
    Requests <- Types,
    loggedIn <- LoggedIn

\* The one departure from the contract: a login that failed is acknowledged, because what
\* client_login() returns is ignored (server.c:173-181).
FalseAck ==
  /\ ~LoggedIn /\ ~LoggedIn'
  /\ Contract!Asks({"LOGIN"})
  /\ Contract!Answer("ack")

\* The requests are dealt with as protocol.h has it, in their order, each once, a login
\* with an ACK that says it has succeeded unless it is a false one, as long as no read is
\* cut short.
ImplementsServiceContract ==
  /\ Contract!Init
  /\ [][Contract!Next \/ FalseAck]_(Contract!contractVars)

\* A payload is freed when its request has been dealt with, and not again, unless a
\* read was cut short.  One that comes before the login may stay.
InUse(b) ==
  b = dPtr /\ pc \in {"payload", "switch", "hung", "reply", "data", "release"}
PayloadsAreFreedOnce ==
  ~spoilt =>
    /\ status # "undefined"
    /\ \A b \in DOMAIN heap :
         IF heap[b].freed THEN ~InUse(b) ELSE InUse(b) \/ heap[b].early

\* A client that waits for its answers, reads them and then closes, or is closed, does
\* not end the server, however what it sends is cut up on its way; unless another client's
\* thread goes on writing a notice to it, which is two writes if it has data, and the
\* second one kills (protocol.c:74, 82).
PoliteClientsDoNoHarm == (polite /\ ~spoilt /\ ~late) => status = "running"

\* A request that has been made is dealt with, if the client stays; when it has gone
\* the thread ends, wherever that found it; unless the thread hangs on a mutex that is
\* never returned (invitation.c:336, player.c:204-205).
TheServiceGoesOn ==
  /\ \A n \in 1..MaxRequests :
       Len(made) >= n ~> \/ Len(answers) >= n \/ sock # "open"
                        \/ spoilt \/ pc = "hung"
  /\ sock # "open" ~> pc \in {"ended", "hung", "hungInCleanup"} \/ status # "running"
===============================================================================
