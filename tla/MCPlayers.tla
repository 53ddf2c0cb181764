------------------------------- MODULE MCPlayers -------------------------------
(* Instances of Players for TLC.                                            *)
EXTENDS PlayerProperties, TLC

Names == 1..3    \* more names than connections, so that logins differ in order
Points == 0..2   \* with 0 for a start, two results can leave two players below it
===============================================================================
