--------------------------- MODULE PlayerProperties ---------------------------
(***************************************************************************)
(* What should hold of players, their references and their ratings.        *)
(***************************************************************************)
EXTENDS Players, Functions

\* Two connections logged in under one name, which client.h:79-80 rules out.
Twins(c, d) == c # d /\ player[c] # NULL /\ player[c] = player[d]

(***************************************************************************)
(* Invariants.                                                             *)
(***************************************************************************)

\* The reference count of a player is the number of pointers to it: one in the
\* player registry, one in each CLIENT logged in as it, one in each LOGIN on
\* its way and one in each list that creg_all_players() has returned.
LoggedInAs(p) == {c \in Clients : player[c] = p}
LoggingInAs(p) == {c \in Clients : name[c] = p}
ListedBy(p) == {e \in Clients \X Clients : <<e[2], p>> \in roll[e[1]]}
RefsAreExact ==
  \A p \in Players :
    refs[p] = Cardinality(LoggedInAs(p)) + Cardinality(LoggingInAs(p))
                + Cardinality(ListedBy(p)) + (IF refs[p] = 0 THEN 0 ELSE 1)

\* No result takes more than one point out of the pool, and none brings a point into
\* it, which truncation towards zero does (player.c:208-209), unless it leaves neither
\* player above zero: the sum of all ratings, with what is still to be paid, has moved
\* by as much from where it began.  So no result is paid on a rating that another one
\* has changed meanwhile.
Owed(c) == IF pc[c] = "computed" THEN gain[c][1] + gain[c][2]
           ELSE IF pc[c] = "paidOne" THEN gain[c][2]
           ELSE 0
Pool == SumFunction([p \in Players |-> PLAYER_INITIAL_RATING])
Balance == SumFunction(rating) + SumFunction([c \in Clients |-> Owed(c)])
RatingsBalance == Balance - Pool \in (-results)..sunk

(***************************************************************************)
(* What must happen.                                                       *)
(***************************************************************************)

\* Every result is posted and every listing ends, whatever pairs of players other
\* threads post for at the same time, unless two connections share a player: locking
\* one player twice, the thread waits for itself (player.c:192-205, server.c:193-210).
ThreadsGetOn ==
  \A c \in Clients :
    pc[c] \in {"posting", "visiting"} ~>
      \/ pc[c] = "serving"
      \/ \E d, e \in Clients : Twins(d, e)
===============================================================================
