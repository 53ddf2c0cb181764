----------------------------- MODULE MCInvitations -----------------------------
(* Instances of Invitations for TLC.                                        *)
EXTENDS InvitationProperties, TLC

\* To an invitation, DECLINE is a REVOKE by the other side.
WithoutDecline == {"accept", "revoke", "resign", "move"}
===============================================================================
