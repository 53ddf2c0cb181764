----------------------------- MODULE Invitations ------------------------------
(***************************************************************************)
(* The INVITATIONs of the Jeux server (invitation.c) as the service threads *)
(* use them (server.c), through the client library in lib/jeux.a.           *)
(*                                                                         *)
(* A service thread serves one connection and has the name of its CLIENT.   *)
(* An INVITATION is shared by its source and its target: each has it in a   *)
(* list, and whoever works on it holds one more reference.  Two kinds of    *)
(* mutex matter: the invitation's own (inv->lock), and that of a CLIENT,    *)
(* which is held while an invitation of its list is looked up.  Requests    *)
(* that fail before they reach an invitation are left out; once a mutex is  *)
(* lost for good, more threads hang than are shown to.                      *)
(***************************************************************************)
EXTENDS Integers, FiniteSets

CONSTANTS
  Clients,      \* connections / service threads / CLIENT objects
  Invitations,  \* INVITATION objects ever created
  Requests,     \* the requests about an invitation that clients send
  NULL          \* no client, no invitation, no owner of a lock

ASSUME ClientsAssumption == IsFiniteSet(Clients)
ASSUME RequestsAssumption ==
  Requests \subseteq {"accept", "decline", "revoke", "resign", "move"}
ASSUME DistinctAssumption == NULL \notin Clients \cup Invitations

VARIABLES
  state,    \* state of each invitation, "absent" before and "freed" after
  game,     \* the GAME stored in it
  lock,     \* owner of its mutex
  numRef,   \* its reference count
  source,   \* the CLIENT that made it
  target,   \* the CLIENT it was made to
  listed,   \* the invitations in the list of each CLIENT
  made,     \* the ids each service thread will revoke when it ends
  eof,      \* the connection has ended and everything sent on it was read
  pc,       \* position of each service thread
  op,       \* the request it works on
  cur,      \* the invitation it works on
  posted,   \* history: the result of the game was posted
  process   \* what has become of the process

invitationVars == <<state, game, lock, numRef, source, target, posted>>
threadVars == <<made, eof, pc, op, cur>>
vars == <<invitationVars, listed, threadVars, process>>

States == {"absent", "open", "accepted", "closed", "freed"}
Operations == Requests \cup {"none", "invite", "cleanup"}

\* Positions of a service thread that owns a reference to an invitation.
Working == {"offering", "offered", "deciding", "resigning", "applying",
            "applied", "unlisting", "unlisted", "posting", "dropping"}
ThreadStates == Working \cup {"serving", "looking", "closing", "done"}

Running == process = "running"
Exists(v) == state[v] \notin {"absent", "freed"}

\* A thread in client_xxx() holds the lock of its CLIENT across inv_ref().
ClientUnlocked(c) == pc[c] # "looking"

\* inv->lock can be taken.
Unlocked(v) == lock[v] = NULL

At(c, p) == pc[c] = p
Goto(c, p) == pc' = [pc EXCEPT ![c] = p]

Init ==
  /\ state = [v \in Invitations |-> "absent"]
  /\ game = [v \in Invitations |-> "none"]
  /\ lock = [v \in Invitations |-> NULL]
  /\ numRef = [v \in Invitations |-> 0]
  /\ source = [v \in Invitations |-> NULL]
  /\ target = [v \in Invitations |-> NULL]
  /\ listed = [c \in Clients |-> {}]
  /\ made = [c \in Clients |-> {}]
  /\ eof = [c \in Clients |-> FALSE]
  /\ pc = [c \in Clients |-> "serving"]
  /\ op = [c \in Clients |-> "none"]
  /\ cur = [c \in Clients |-> NULL]
  /\ posted = [v \in Invitations |-> FALSE]
  /\ process = "running"

(***************************************************************************)
(* INVITE: inv_create(), an entry in both lists, then the creator's         *)
(* reference is dropped and the id is remembered for cleanup().             *)
(***************************************************************************)

\* inv_create() and the source's list.
Invite(c, t, v) ==
  /\ At(c, "serving")
  /\ c # t
  /\ ~At(t, "done")
  /\ state[v] = "absent"
  /\ state' = [state EXCEPT ![v] = "open"]
  /\ numRef' = [numRef EXCEPT ![v] = 2]
  /\ source' = [source EXCEPT ![v] = c]
  /\ target' = [target EXCEPT ![v] = t]
  /\ listed' = [listed EXCEPT ![c] = @ \cup {v}]
  /\ op' = [op EXCEPT ![c] = "invite"]
  /\ cur' = [cur EXCEPT ![c] = v]
  /\ Goto(c, "offering")
  /\ UNCHANGED <<game, lock, posted, made, eof, process>>

\* The target's list: from here on the target can answer.
Offer(c) ==
  /\ At(c, "offering")
  /\ ClientUnlocked(target[cur[c]])
  /\ Unlocked(cur[c])
  /\ numRef' = [numRef EXCEPT ![cur[c]] = @ + 1]
  /\ listed' = [listed EXCEPT ![target[cur[c]]] = @ \cup {cur[c]}]
  /\ Goto(c, "offered")
  /\ UNCHANGED <<state, game, lock, source, target, posted, made, eof, op, cur,
                 process>>

\* addId(), in the thread's own list of ids, which no other thread sees.
Remember(c) ==
  /\ At(c, "offered")
  /\ made' = [made EXCEPT ![c] = @ \cup {cur[c]}]
  /\ Goto(c, "dropping")
  /\ UNCHANGED <<invitationVars, listed, eof, op, cur, process>>

(***************************************************************************)
(* The other requests: the id is looked up in the client's list, under the  *)
(* client's lock, and a reference is taken.                                *)
(***************************************************************************)

Find(c, v, request) ==
  /\ At(c, "serving")
  /\ v \in listed[c]
  /\ request = "revoke" => v \in made[c]
  /\ op' = [op EXCEPT ![c] = request]
  /\ cur' = [cur EXCEPT ![c] = v]
  /\ Goto(c, "looking")
  /\ UNCHANGED <<invitationVars, listed, made, eof, process>>

\* inv_ref()
CountUp(c) == numRef' = [numRef EXCEPT ![cur[c]] = @ + 1]

Take(c) ==
  /\ At(c, "looking")
  /\ Unlocked(cur[c])
  /\ CountUp(c)
  /\ Goto(c, "deciding")
  /\ UNCHANGED <<state, game, lock, source, target, posted, listed, made, eof,
                 op, cur, process>>

\* Only the source revokes, only the target accepts or declines.
Entitled(c) ==
  /\ op[c] \in {"revoke", "cleanup"} => source[cur[c]] = c
  /\ op[c] \in {"accept", "decline"} => target[cur[c]] = c

Refuse(c) ==
  /\ At(c, "deciding")
  /\ ~Entitled(c)
  /\ Unlocked(cur[c])
  /\ Goto(c, "dropping")
  /\ UNCHANGED <<invitationVars, listed, made, eof, op, cur, process>>

\* removeId() on the thread's own list of ids when a request has succeeded.
Forget(c) == made' = [made EXCEPT ![c] = @ \ {cur[c]}]

(***************************************************************************)
(* inv_accept().                                                           *)
(***************************************************************************)

\* Variant: the state is not tested.
StillThere(v) == Exists(v)
MayAccept(v) == state[v] = "open"

Accept(c) ==
  /\ At(c, "deciding")
  /\ op[c] = "accept"
  /\ Entitled(c)
  /\ Unlocked(cur[c])
  /\ MayAccept(cur[c])
  /\ game' = [game EXCEPT ![cur[c]] = "playing"]
  /\ state' = [state EXCEPT ![cur[c]] = "accepted"]
  /\ Forget(c)
  /\ Goto(c, "dropping")
  /\ UNCHANGED <<lock, numRef, source, target, posted, listed, eof, op, cur,
                 process>>

\* Not open, or game_create() fails.
AcceptRefused(c) ==
  /\ At(c, "deciding")
  /\ op[c] = "accept"
  /\ Entitled(c)
  /\ Unlocked(cur[c])
  /\ Goto(c, "dropping")
  /\ UNCHANGED <<invitationVars, listed, made, eof, op, cur, process>>

(***************************************************************************)
(* inv_close(): DECLINE, REVOKE and cleanup() pass NULL_ROLE, RESIGN passes *)
(* the role of the client.                                                 *)
(***************************************************************************)

Closing(c) ==
  /\ At(c, "deciding")
  /\ op[c] \in {"decline", "revoke", "cleanup", "resign"}
  /\ Entitled(c)
  /\ Unlocked(cur[c])

MayClose(v) == state[v] \in {"open", "accepted"}

CloseRefused(c) ==
  /\ Closing(c)
  /\ ~MayClose(cur[c])
  /\ Goto(c, "dropping")
  /\ UNCHANGED <<invitationVars, listed, made, eof, op, cur, process>>

\* Variant: an invitation with a game in progress is closed as well.
AnyGame(v) == TRUE
NoGameInProgress(v) == game[v] # "playing"

Close(c) ==
  /\ Closing(c)
  /\ MayClose(cur[c])
  /\ NoGameInProgress(cur[c])
  /\ state' = [state EXCEPT ![cur[c]] = "closed"]
  /\ Forget(c)
  /\ Goto(c, "unlisting")
  /\ UNCHANGED <<game, lock, numRef, source, target, posted, listed, eof, op,
                 cur, process>>

\* NULL_ROLE and a game in progress: -1 is returned, the mutex is not released.
CloseKeepsLock(c) ==
  /\ Closing(c)
  /\ MayClose(cur[c])
  /\ game[cur[c]] = "playing"
  /\ op[c] # "resign"
  /\ lock' = [lock EXCEPT ![cur[c]] = c]
  /\ Goto(c, "dropping")
  /\ UNCHANGED <<state, game, numRef, source, target, posted, listed, made, eof,
                 op, cur, process>>

\* game_is_over() said no; game_resign() is still to come.
BeginResign(c) ==
  /\ Closing(c)
  /\ MayClose(cur[c])
  /\ game[cur[c]] = "playing"
  /\ op[c] = "resign"
  /\ lock' = [lock EXCEPT ![cur[c]] = c]
  /\ Goto(c, "resigning")
  /\ UNCHANGED <<state, game, numRef, source, target, posted, listed, made, eof,
                 op, cur, process>>

\* Variant: this path, too, forgets the mutex.
KeptLocked(v) == UNCHANGED lock
Release(v) == lock' = [lock EXCEPT ![v] = NULL]

Resign(c) ==
  /\ At(c, "resigning")
  /\ game[cur[c]] = "playing"
  /\ game' = [game EXCEPT ![cur[c]] = "over"]
  /\ state' = [state EXCEPT ![cur[c]] = "closed"]
  /\ Release(cur[c])
  /\ Forget(c)
  /\ Goto(c, "unlisting")
  /\ UNCHANGED <<numRef, source, target, posted, listed, eof, op, cur, process>>

\* A move ended the game in between: game_resign() fails, and again -1 is
\* returned without releasing the mutex.
ResignKeepsLock(c) ==
  /\ At(c, "resigning")
  /\ game[cur[c]] = "over"
  /\ Goto(c, "dropping")
  /\ UNCHANGED <<invitationVars, listed, made, eof, op, cur, process>>

(***************************************************************************)
(* MOVE: the game has a lock of its own, inv->lock only guards the pointer. *)
(***************************************************************************)

\* inv_get_game().
GetGame(c) ==
  /\ At(c, "deciding")
  /\ op[c] = "move"
  /\ Unlocked(cur[c])
  /\ Goto(c, IF game[cur[c]] = "none" THEN "dropping" ELSE "applying")
  /\ UNCHANGED <<invitationVars, listed, made, eof, op, cur, process>>

\* game_apply_move(): the move is illegal, or it is made and may end the game.
ApplyMove(c) ==
  /\ At(c, "applying")
  /\ \/ /\ Goto(c, "dropping")
        /\ UNCHANGED game
     \/ /\ game[cur[c]] = "playing"
        /\ \E g \in {"playing", "over"} : game' = [game EXCEPT ![cur[c]] = g]
        /\ Goto(c, "applied")
  /\ UNCHANGED <<state, lock, numRef, source, target, posted, listed, made, eof,
                 op, cur, process>>

\* game_is_over(): by this move, or by what the opponent has done since.
\* Variant: every move is taken for the last.
HasGame(v) == game[v] # "none"
IsOver(v) == game[v] = "over"

CheckOver(c) ==
  /\ At(c, "applied")
  /\ Goto(c, IF IsOver(cur[c]) THEN "unlisting" ELSE "dropping")
  /\ UNCHANGED <<invitationVars, listed, made, eof, op, cur, process>>

(***************************************************************************)
(* Both lists give the invitation up, the source's first.                  *)
(***************************************************************************)

Unlist(c, d) ==
  /\ ClientUnlocked(d)
  /\ IF cur[c] \in listed[d]
     THEN /\ Unlocked(cur[c])
          /\ listed' = [listed EXCEPT ![d] = @ \ {cur[c]}]
          /\ numRef' = [numRef EXCEPT ![cur[c]] = @ - 1]
     ELSE UNCHANGED <<listed, numRef>>
  /\ UNCHANGED <<state, game, lock, source, target, posted, made, eof, op, cur,
                 process>>

UnlistAtSource(c) ==
  /\ At(c, "unlisting")
  /\ Unlist(c, source[cur[c]])
  /\ Goto(c, "unlisted")

UnlistAtTarget(c) ==
  /\ At(c, "unlisted")
  /\ Unlist(c, target[cur[c]])
  /\ Goto(c, IF op[c] \in {"resign", "move"} THEN "posting" ELSE "dropping")

\* The result of the game is posted; an invitation that was resigned before it
\* was accepted has no game to ask for the winner.
PostResult(c) ==
  /\ At(c, "posting")
  /\ IF game[cur[c]] = "none"
     THEN /\ process' = "nullDereference"
          /\ UNCHANGED <<posted, pc>>
     ELSE /\ posted' = [posted EXCEPT ![cur[c]] = TRUE]
          /\ Goto(c, "dropping")
          /\ UNCHANGED process
  /\ UNCHANGED <<state, game, lock, numRef, source, target, listed, made, eof, op,
                 cur>>

(***************************************************************************)
(* inv_unref() at the end of every request.                                *)
(***************************************************************************)

\* Variant: the invitation is freed one reference early.
LastButOne(v) == numRef[v] <= 2
LastReference(v) == numRef[v] = 1

Drop(c) ==
  /\ At(c, "dropping")
  /\ Unlocked(cur[c])
  /\ numRef' = [numRef EXCEPT ![cur[c]] = @ - 1]
  /\ state' = IF LastReference(cur[c]) THEN [state EXCEPT ![cur[c]] = "freed"]
                                       ELSE state
  /\ op' = [op EXCEPT ![c] = "none"]
  /\ cur' = [cur EXCEPT ![c] = NULL]
  /\ Goto(c, IF op[c] = "cleanup" THEN "closing" ELSE "serving")
  /\ UNCHANGED <<game, lock, source, target, posted, listed, made, eof, process>>

(***************************************************************************)
(* The end of a connection: cleanup() revokes what the thread remembers.    *)
(***************************************************************************)

Hangup(c) ==
  /\ ~eof[c]
  /\ eof' = [eof EXCEPT ![c] = TRUE]
  /\ UNCHANGED <<invitationVars, listed, made, pc, op, cur, process>>

BeginCleanup(c) ==
  /\ At(c, "serving")
  /\ eof[c]
  /\ Goto(c, "closing")
  /\ UNCHANGED <<invitationVars, listed, made, eof, op, cur, process>>

\* An id that is no longer in the client's list is an error without effect.
CleanupOne(c, v) ==
  /\ At(c, "closing")
  /\ v \in made[c]
  /\ made' = [made EXCEPT ![c] = @ \ {v}]
  /\ IF v \in listed[c]
     THEN /\ op' = [op EXCEPT ![c] = "cleanup"]
          /\ cur' = [cur EXCEPT ![c] = v]
          /\ Goto(c, "looking")
     ELSE UNCHANGED <<op, cur, pc>>
  /\ UNCHANGED <<invitationVars, listed, eof, process>>

\* Variant: nothing is revoked.
GivesUp(c) == TRUE
NothingLeft(c) == made[c] = {}

\* The descriptor is closed and the CLIENT unregistered.
EndService(c) ==
  /\ At(c, "closing")
  /\ NothingLeft(c)
  /\ Goto(c, "done")
  /\ UNCHANGED <<invitationVars, listed, made, eof, op, cur, process>>

(***************************************************************************)
(* The specification.                                                      *)
(***************************************************************************)

Request(c) ==
  /\ ~eof[c]
  /\ \E v \in Invitations : \/ \E t \in Clients : Invite(c, t, v)
                            \/ \E r \in Requests : Find(c, v, r)

Work(c) ==
  \/ Offer(c) \/ Remember(c) \/ Take(c) \/ Refuse(c)
  \/ Accept(c) \/ AcceptRefused(c)
  \/ CloseRefused(c) \/ Close(c) \/ CloseKeepsLock(c)
  \/ BeginResign(c) \/ Resign(c) \/ ResignKeepsLock(c)
  \/ GetGame(c) \/ ApplyMove(c) \/ CheckOver(c)
  \/ UnlistAtSource(c) \/ UnlistAtTarget(c) \/ PostResult(c) \/ Drop(c)
  \/ BeginCleanup(c) \/ (\E v \in Invitations : CleanupOne(c, v))
  \/ EndService(c)

Next ==
  \/ Running /\ \E c \in Clients : Request(c) \/ Work(c) \/ Hangup(c)
  \/ ~Running /\ UNCHANGED vars

Spec == Init /\ [][Next]_vars

\* A service thread that can go on does.  Strong fairness: mutexes are held for
\* a few instructions at a time, so a thread that finds one taken again and
\* again gets it in the end.
Fairness == \A c \in Clients : SF_vars(Running /\ Work(c))

FairSpec == Spec /\ Fairness
===============================================================================
