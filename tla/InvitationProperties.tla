------------------------- MODULE InvitationProperties -------------------------
(***************************************************************************)
(* What should hold of invitations and the threads that share them.        *)
(***************************************************************************)
EXTENDS Invitations

WorkersOn(v) == {c \in Clients : pc[c] \in Working /\ cur[c] = v}
Listing(v) == {c \in Clients : v \in listed[c]}

(***************************************************************************)
(* Invariants.                                                             *)
(***************************************************************************)

\* The reference count of an invitation is the number of lists it is in plus
\* the number of threads at work on it, and it is freed when and only when
\* the last of them is gone (invitation.c:109-160).
RefsAreExact ==
  \A v \in Invitations :
    /\ numRef[v] = Cardinality(Listing(v)) + Cardinality(WorkersOn(v))
    /\ Exists(v) <=> numRef[v] > 0

\* Whoever loses the race between accept, decline, revoke, resign and the last
\* move: a closed invitation has no game in progress, an open one never had
\* one, an accepted one always has one; and as long as it is in progress both
\* players have it in their list, to move or to resign (invitation.c:270-355).
GameFitsState ==
  \A v \in Invitations :
    /\ state[v] = "open" => game[v] = "none"
    /\ state[v] = "accepted" => game[v] # "none"
    /\ game[v] = "playing" =>
         /\ state[v] = "accepted"
         /\ v \in listed[source[v]] /\ v \in listed[target[v]]

\* When a service thread has ended, no invitation its client made is open and
\* no game from one is in progress (server.c:29-38).
DepartedSourceLeavesNothingOpen ==
  \A v \in Invitations, c \in Clients :
    Exists(v) /\ source[v] = c /\ pc[c] = "done"
      => state[v] = "closed" \/ game[v] = "over"

\* A result is posted only after the game has ended and is off the lists of
\* both players (client.h, client_make_move and client_resign_game).
ResultsAreFinal ==
  \A v \in Invitations : posted[v] => game[v] = "over" /\ Listing(v) = {}

(***************************************************************************)
(* What must happen.                                                       *)
(***************************************************************************)

\* A mutex that its owner will never release: inv_close() has returned -1, and
\* the owner's next call, inv_unref(), waits for it.
Leaked(v) == lock[v] # NULL /\ pc[lock[v]] = "dropping"

\* The service loop ends when the connection has ended (server.c:115-119),
\* unless inv_close() has kept the mutex of some invitation.
ServiceEndsUnlessLeaked ==
  \A c \in Clients :
    eof[c] ~> pc[c] = "done" \/ ~Running \/ \E v \in Invitations : Leaked(v)

(***************************************************************************)
(* Invitations as invitation.h describes them.                             *)
(***************************************************************************)

\* An invitation that is freed stays what it was at last: closed.
Life(v) ==
  INSTANCE InvitationContract WITH
    phase <- IF state[v] = "freed" THEN "closed" ELSE state[v],
    game <- game[v]

\* Every invitation lives the life that invitation.h promises, whoever else
\* works on it: Life(v)!Spec for each v, in the form that TLC can check.
LivesAsPromised ==
  /\ \A v \in Invitations : Life(v)!Init
  /\ [][\A v \in Invitations :
          Life(v)!Next \/ UNCHANGED Life(v)!lifeVars]_vars
===============================================================================
