-------------------------- MODULE InvitationContract --------------------------
(***************************************************************************)
(* The life of one invitation as invitation.h tells it: OPEN until it is    *)
(* accepted, declined or revoked; ACCEPTED with a game until the game has   *)
(* ended; CLOSED for good.                                                 *)
(***************************************************************************)
VARIABLES
  phase,  \* "absent", "open", "accepted" or "closed"
  game    \* "none", "playing" or "over"

lifeVars == <<phase, game>>

Init == phase = "absent" /\ game = "none"

Create == phase = "absent" /\ phase' = "open" /\ UNCHANGED game

Accept ==
  /\ phase = "open"
  /\ phase' = "accepted"
  /\ game' = "playing"

\* Declined, revoked, or given up before it was accepted.
Withdraw == phase = "open" /\ phase' = "closed" /\ UNCHANGED game

EndByMove ==
  /\ phase = "accepted"
  /\ game = "playing"
  /\ game' = "over"
  /\ UNCHANGED phase

EndByResignation ==
  /\ phase = "accepted"
  /\ game = "playing"
  /\ game' = "over"
  /\ phase' = "closed"

\* Nobody wants it any more after the game.
Retire ==
  /\ phase = "accepted"
  /\ game = "over"
  /\ phase' = "closed"
  /\ UNCHANGED game

Next == Create \/ Accept \/ Withdraw \/ EndByMove \/ EndByResignation \/ Retire

Spec == Init /\ [][Next]_lifeVars
===============================================================================
