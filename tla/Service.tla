-------------------------------- MODULE Service --------------------------------
(***************************************************************************)
(* One connection of the Jeux server: the stream of bytes its client       *)
(* sends, proto_recv_packet() and proto_send_packet() of protocol.c, and   *)
(* the service loop of server.c with the payloads it is given.  What the   *)
(* requests do is the matter of ClientRegistry, Invitations and Players;   *)
(* here each succeeds, fails, or waits for ever for a mutex.               *)
(*                                                                         *)
(* The stream is one of units: a header has three (its type; its size; the *)
(* timestamps), a payload two.  A read may end after any of them.          *)
(***************************************************************************)
EXTENDS Integers, Sequences, FiniteSetsExt

CONSTANTS
  Requests,     \* the packets the client may send
  MaxRequests,  \* how many of them it sends
  NULL

\* Packet types the server takes, and one it does not know.
Types == {"LOGIN", "USERS", "INVITE", "REVOKE", "DECLINE", "ACCEPT", "MOVE", "RESIGN", "other"}
Sizes == {0, 2}

ASSUME RequestsAssumption == Requests \subseteq [type : Types, size : Sizes]
\* A name to look up and a move are payloads; without one they are a NULL pointer.
ASSUME PayloadAssumption ==
  \A r \in Requests : r.type \in {"INVITE", "MOVE"} => r.size # 0
ASSUME NullAssumption == NULL \notin Nat
ASSUME MaxRequestsAssumption == MaxRequests \in Nat

VARIABLES
  made,      \* the requests the client has made
  stream,    \* the units they consist of
  arrived,   \* how many of them are there to be read
  read,      \* how many have been read
  sock,      \* "open"; "fin": the client has closed; "doomed": and was written to;
             \* "reset": an error is to be reported; "broken": neither end is there
  unread,    \* the client has not read what was sent to it last
  polite,    \* history: it has closed, and been closed, with nothing unanswered
  status,    \* of the process: "running", "killed" by SIGPIPE, or "undefined"
  pc,        \* what the service thread does next
  inHdr,     \* the header: type, size, and the number of the request it is of
  dPtr,      \* the payload, a number of a block
  heap,      \* the payloads allocated so far: the request, and whether it is freed
  notice,    \* a notice to the client has its header written and its data not yet
  late,      \* history: a notice was written to the connection after its end
  player,    \* whether the client is logged in
  reply,     \* the answer to be sent
  answers,   \* history: the requests dealt with, and how, until a read was spoilt
  spoilt     \* history: a read failed or was cut short

notices == <<notice, late>>
network == <<stream, arrived, sock, notice, late>>
client == <<made, unread, polite>>
thread == <<inHdr, dPtr, heap, player>>
history == <<answers, spoilt>>
vars == <<made, stream, arrived, read, sock, unread, polite, status, pc, inHdr, dPtr, heap,
          notice, late, player, reply, answers, spoilt>>

Unit(k, n) == [k |-> k, of |-> n]
\* A packet on its way: header, then payload.
Packet(r, n) ==
  <<Unit("type", n), Unit("size", n), Unit("time", n)>>
  \o (IF r.size = 0 THEN <<>> ELSE <<Unit("text", n), Unit("end", n)>>)

Init ==
  /\ made = <<>> /\ stream = <<>> /\ arrived = 0 /\ read = 0
  /\ sock = "open" /\ unread = FALSE /\ polite = TRUE
  /\ status = "running" /\ pc = "poll"
  /\ inHdr \in [type : {r.type : r \in Requests}, size : {0}, of : {0}]    \* never initialized
  /\ notice = FALSE /\ late = FALSE
  /\ dPtr = NULL /\ heap = <<>> /\ player = FALSE
  /\ reply = [what |-> "none", data |-> FALSE, then |-> "poll"]
  /\ answers = <<>> /\ spoilt = FALSE

At(label) == status = "running" /\ pc = label
GoOn(label) == pc' = label /\ UNCHANGED status

-------------------------------------------------------------------------------
(***************************************************************************)
(* The client and the network.                                             *)
(***************************************************************************)

Answered == Len(answers) = Len(made) /\ pc # "data" /\ ~unread

Make ==
  /\ status = "running" /\ sock = "open" /\ Len(made) < MaxRequests
  /\ \E r \in Requests :
       /\ made' = Append(made, r)
       /\ stream' = stream \o Packet(r, Len(made) + 1)
  /\ UNCHANGED <<arrived, read, sock, notices, unread, polite, status, pc, thread, reply,
                 history>>

\* What comes while something is left to be read might as well have come with it.
Arrive ==
  /\ status = "running" /\ arrived = read /\ arrived < Len(stream)
  /\ arrived' \in arrived + 1..Len(stream)
  /\ UNCHANGED <<client, stream, read, sock, notices, status, pc, thread, reply, history>>

Collect ==
  /\ status = "running" /\ sock = "open" /\ unread
  /\ unread' = FALSE
  /\ UNCHANGED <<made, polite, network, read, status, pc, thread, reply, history>>

\* The client closes, or it ends: some of what it has not sent is lost, the rest has
\* arrived before the end does.  If it leaves something unread the connection is reset.
Close ==
  /\ status = "running" /\ sock = "open"
  /\ arrived' \in arrived..Len(stream) /\ stream' = SubSeq(stream, 1, arrived')
  /\ sock' = IF unread THEN "reset" ELSE "fin"
  /\ polite' = (polite /\ Answered)
  /\ UNCHANGED <<made, unread, read, notices, status, pc, thread, reply, history>>

\* The client's end answers what was sent to it after it had closed.
Reset ==
  /\ status = "running" /\ sock = "doomed"
  /\ sock' = "broken"
  /\ UNCHANGED <<client, stream, arrived, read, notices, status, pc, thread, reply, history>>

\* creg_shutdown_all() ends the connection, for reading and for writing.
Shutdown ==
  /\ status = "running" /\ sock \in {"open", "fin", "doomed"}
  /\ stream' = SubSeq(stream, 1, arrived)
  /\ sock' = "broken"
  /\ polite' = (polite /\ Answered)
  /\ UNCHANGED <<made, unread, arrived, read, notices, status, pc, thread, reply, history>>

\* write(2) to the socket.
Write ==
  CASE sock = "open"   -> unread' = TRUE /\ UNCHANGED <<sock, status>>
    [] sock = "fin"    -> sock' = "doomed" /\ UNCHANGED <<unread, status>>
    [] sock = "doomed" -> UNCHANGED <<sock, unread, status>>
    [] sock = "reset"  -> sock' = "broken" /\ UNCHANGED <<unread, status>>
    [] sock = "broken" -> status' = "killed" /\ UNCHANGED <<sock, unread>>

\* Another client's thread notifies this one, with or without data, in as many writes.
\* client_send_packet() holds the mutex of the CLIENT: no answer comes in between.
WriteNotice == Write /\ late' = (late \/ sock # "open")

Notify ==
  /\ status = "running" /\ pc \notin {"data", "ended"} /\ player /\ ~notice
  /\ WriteNotice
  /\ notice' \in IF status' = "killed" THEN {FALSE} ELSE BOOLEAN
  /\ UNCHANGED <<made, polite, stream, arrived, read, pc, thread, reply, history>>

\* The descriptor may have been closed meanwhile.
NotifyData ==
  /\ status = "running" /\ notice
  /\ IF pc = "ended" THEN UNCHANGED <<sock, unread, status, late>> ELSE WriteNotice
  /\ notice' = FALSE
  /\ UNCHANGED <<made, polite, stream, arrived, read, pc, thread, reply, history>>

-------------------------------------------------------------------------------
(***************************************************************************)
(* proto_recv_packet().                                                    *)
(***************************************************************************)

Readable == arrived - read
\* A read that finds nothing comes back when there is no more to come.
Drained == Readable = 0 /\ sock # "open"

Garbage == [type : {r.type : r \in Requests}, size : Sizes]

\* The header of which the next n units are: what they do not say is as it was, the
\* size 0.  Units of anything else may say anything.
Header(n, hdr, junk) ==
  LET u == [i \in 1..n |-> stream[read + i]]
      IsType == u[1].k = "type"
      IsSize == n > 1 /\ u[2].k = "size" IN
    [type |-> IF IsType THEN made[u[1].of].type ELSE junk.type,
     size |-> IF n = 1 THEN 0 ELSE IF IsSize THEN made[u[2].of].size ELSE junk.size,
     of   |-> IF IsType THEN u[1].of ELSE 0]

Whole(n) == n = 3 /\ stream[read + 1].k = "type"

ReadHeader ==
  /\ At("poll") /\ Readable > 0
  /\ LET n == Min({3, Readable}) IN
       \E junk \in IF Whole(n) THEN {inHdr} ELSE Garbage :
         /\ inHdr' = Header(n, inHdr, junk)
         /\ read' = read + n
         /\ spoilt' = (spoilt \/ n < 3)
  /\ IF inHdr'.size = 0 THEN dPtr' = NULL /\ UNCHANGED heap
     ELSE /\ dPtr' = Len(heap) + 1
          /\ heap' = Append(heap, [freed |-> FALSE, early |-> ~player])
  /\ GoOn(IF inHdr'.size = 0 THEN "switch" ELSE "payload")
  /\ UNCHANGED <<client, network, player, reply, answers>>

\* A read that fails is no end of file: the header is that of the last packet.
ReadFails ==
  /\ At("poll") /\ Drained /\ sock = "reset"
  /\ sock' = "broken"
  /\ inHdr' = [inHdr EXCEPT !.size = 0]
  /\ dPtr' = NULL
  /\ spoilt' = TRUE
  /\ GoOn("switch")
  /\ UNCHANGED <<client, stream, arrived, read, notices, heap, player, reply, answers>>

\* Variant: end of file is no different.
EndUnnoticed ==
  /\ At("poll") /\ Drained /\ sock # "reset"
  /\ inHdr' = [inHdr EXCEPT !.size = 0]
  /\ dPtr' = NULL
  /\ GoOn("switch")
  /\ UNCHANGED <<client, network, read, heap, player, reply, history>>
EndOfFile ==
  /\ At("poll") /\ Drained /\ sock # "reset"
  /\ GoOn("cleanup")
  /\ UNCHANGED <<client, network, read, thread, reply, history>>

Freed(b) == heap' = [heap EXCEPT ![b].freed = TRUE]

\* Variant: the payload of a request that will be refused is not read.
ReadPayloadIfLoggedIn ==
  /\ At("payload") /\ Readable > 0
  /\ IF ~player /\ inHdr.type # "LOGIN" THEN UNCHANGED <<read, heap, spoilt>>
     ELSE LET n == Min({inHdr.size, Readable}) IN
       /\ read' = read + n
       /\ IF n < inHdr.size THEN Freed(dPtr) /\ spoilt' = TRUE ELSE UNCHANGED <<heap, spoilt>>
  /\ GoOn("switch")
  /\ UNCHANGED <<client, network, inHdr, dPtr, player, reply, answers>>
ReadPayload ==
  /\ At("payload") /\ Readable > 0
  /\ LET n == Min({inHdr.size, Readable}) IN
       /\ read' = read + n
       /\ IF n < inHdr.size THEN Freed(dPtr) /\ spoilt' = TRUE ELSE UNCHANGED <<heap, spoilt>>
  /\ GoOn("switch")
  /\ UNCHANGED <<client, network, inHdr, dPtr, player, reply, answers>>

\* Variant: a payload that does not come is waited for.
WaitForPayload ==
  /\ At("payload") /\ Drained
  /\ UNCHANGED vars
PayloadFails ==
  /\ At("payload") /\ Drained
  /\ sock' = IF sock = "reset" THEN "broken" ELSE sock
  /\ Freed(dPtr)
  /\ spoilt' = TRUE
  /\ GoOn("switch")
  /\ UNCHANGED <<client, stream, arrived, read, notices, inHdr, dPtr, player, reply, answers>>

-------------------------------------------------------------------------------
(***************************************************************************)
(* jeux_client_service(): a request is dealt with.                         *)
(***************************************************************************)

\* What is done with a payload that is freed already is undefined.
Usable == dPtr # NULL => ~heap[dPtr].freed

Replies(what, data, label) ==
  /\ reply' = [what |-> what, data |-> data, then |-> label]
  /\ GoOn("reply")
  /\ UNCHANGED <<client, network, read, inHdr, dPtr, heap, history>>
Crashes ==
  /\ status' = "undefined"
  /\ UNCHANGED <<client, network, read, pc, thread, reply, history>>

DealtWith(what) ==
  answers' = IF spoilt THEN answers ELSE Append(answers, [of |-> inHdr.of, what |-> what])

Requested(type) == At("switch") /\ inHdr.type = type
Serving(types) == At("switch") /\ player /\ inHdr.type \in types

\* The payload is not freed.
NotLoggedIn ==
  /\ At("switch") /\ ~player /\ inHdr.type # "LOGIN"
  /\ Replies("nack", FALSE, "poll")
  /\ UNCHANGED player

\* The login is acknowledged, whether client_login() accepts it or not.
LogIn ==
  /\ Requested("LOGIN") /\ ~player /\ Usable
  /\ player' \in IF dPtr = NULL THEN {FALSE} ELSE BOOLEAN
  /\ Replies("ack", FALSE, "release")

Refuse ==
  /\ Serving(Types \ {"USERS", "other"})
  /\ inHdr.type \in {"INVITE", "MOVE"} => Usable
  /\ inHdr.type = "INVITE" => dPtr # NULL
  /\ Replies("nack", FALSE, "release")
  /\ UNCHANGED player

Grant ==
  /\ Serving({"INVITE", "MOVE", "REVOKE", "DECLINE", "RESIGN"})
  /\ inHdr.type \in {"INVITE", "MOVE"} => dPtr # NULL /\ Usable
  /\ Replies("ack", FALSE, "release")
  /\ UNCHANGED player

\* The list of players; the state of a game, if the one who accepts is to move.
Inform ==
  /\ Serving({"USERS", "ACCEPT"})
  /\ \E data \in BOOLEAN : (Requested("USERS") => data) /\ Replies("ack", data, "release")
  /\ UNCHANGED player

Misuse ==
  /\ Serving({"INVITE", "MOVE"}) \/ (Requested("LOGIN") /\ ~player)
  /\ ~Usable \/ (dPtr = NULL /\ ~Requested("LOGIN"))
  /\ Crashes

PassOver ==
  /\ Serving({"other"})
  /\ DealtWith("none")
  /\ GoOn("release")
  /\ UNCHANGED <<client, network, read, thread, reply, spoilt>>

\* A mutex of an invitation that inv_close() has kept, or of a player whom a thread has
\* locked twice, is not returned: whoever needs it waits for ever, and so does whoever
\* needs one that is held by a thread that waits.
Hangs ==
  /\ \/ Serving(Types \ {"LOGIN", "other"}) /\ GoOn("hung")
     \/ Requested("LOGIN") /\ ~player /\ GoOn("hung")
     \/ At("cleanup") /\ GoOn("hungInCleanup")
  /\ UNCHANGED <<client, network, read, thread, reply, history>>

\* proto_send_packet() writes the header, then the data; neither write is looked at.
SendHeader ==
  /\ At("reply") /\ ~notice
  /\ Write
  /\ IF status' = "killed" THEN UNCHANGED <<pc, answers>>
     ELSE /\ pc' = IF reply.data THEN "data" ELSE reply.then
          /\ DealtWith(reply.what)
  /\ UNCHANGED <<made, polite, stream, arrived, read, notices, thread, reply, spoilt>>

SendData ==
  /\ At("data")
  /\ Write
  /\ pc' = reply.then
  /\ UNCHANGED <<made, polite, stream, arrived, read, notices, thread, reply, history>>

\* Variant: the name a client was looked up by is kept.
ReleaseOthers ==
  /\ At("release")
  /\ IF dPtr = NULL \/ inHdr.type = "INVITE" THEN GoOn("poll") /\ UNCHANGED heap
     ELSE Freed(dPtr) /\ IF Usable THEN GoOn("poll") ELSE status' = "undefined" /\ UNCHANGED pc
  /\ UNCHANGED <<client, network, read, inHdr, dPtr, player, reply, history>>
Release ==
  /\ At("release")
  /\ IF dPtr = NULL THEN GoOn("poll") /\ UNCHANGED heap
     ELSE Freed(dPtr) /\ IF Usable THEN GoOn("poll") ELSE status' = "undefined" /\ UNCHANGED pc
  /\ UNCHANGED <<client, network, read, inHdr, dPtr, player, reply, history>>

\* cleanup()
CleanUp ==
  /\ At("cleanup")
  /\ GoOn("ended")
  /\ UNCHANGED <<client, network, read, thread, reply, history>>

-------------------------------------------------------------------------------
Client == Make \/ Collect \/ Close
Others == Shutdown \/ Notify \/ NotifyData
Service ==
  \/ ReadHeader \/ ReadFails \/ EndOfFile \/ ReadPayload \/ PayloadFails
  \/ NotLoggedIn \/ LogIn \/ Refuse \/ Grant \/ Inform \/ Misuse \/ PassOver
  \/ Hangs \/ SendHeader \/ SendData \/ Release \/ CleanUp
Ended ==
  /\ status # "running" \/ pc \in {"ended", "hung", "hungInCleanup"}
  /\ UNCHANGED vars

Next == Client \/ Arrive \/ Reset \/ Others \/ Service \/ Ended
Spec == Init /\ [][Next]_vars

\* What is sent arrives, and the threads run; the answer may find the mutex of the
\* CLIENT taken now and then, but never for long.
FairSpec ==
  /\ Spec
  /\ WF_vars(Arrive) /\ WF_vars(Service) /\ WF_vars(NotifyData) /\ SF_vars(SendHeader)
===============================================================================
