------------------------------- MODULE Players --------------------------------
(***************************************************************************)
(* The PLAYERs of the Jeux server (player.c): service threads log in as     *)
(* them, list them for USERS and post the results of games to them          *)
(* (server.c, client_registry.c).  The player registry and client_login()   *)
(* are in lib/jeux.a: the registry keeps one PLAYER for each name and never *)
(* gives it up; client.h:79-80 has a login fail if another CLIENT is logged *)
(* in as the PLAYER, which the library does not look at: here it may.       *)
(*                                                                         *)
(* A PLAYER is the rank of its name in the order of strcmp().  Ratings are  *)
(* integers; how many points a result is worth is left open, but that the   *)
(* assignment to an int drops the fraction, towards zero, is not.  The      *)
(* arithmetic of doubles is taken for exact.                                *)
(***************************************************************************)
EXTENDS Integers, FiniteSets

CONSTANTS
  Clients,     \* connections / service threads / CLIENT objects
  Players,     \* PLAYERs that ever log in, as the ranks of their names
  PLAYER_INITIAL_RATING,
  Gains,       \* whole points that a result can be worth
  MaxResults,  \* bound: results posted
  NULL         \* no player, no opponent, no owner of a lock

ASSUME ClientsAssumption == IsFiniteSet(Clients)
ASSUME PlayersAssumption == Players \subseteq Nat /\ IsFiniteSet(Players)
ASSUME RatingAssumption == PLAYER_INITIAL_RATING \in Nat
ASSUME GainsAssumption == Gains \subseteq Nat
ASSUME MaxResultsAssumption == MaxResults \in Nat
ASSUME DistinctAssumption == NULL \notin Clients \cup Players

VARIABLES
  rating,    \* rating of each player
  refs,      \* reference count of each player, 0 while it does not exist
  lock,      \* owner of its mutex
  player,    \* the player each CLIENT is logged in as
  pc,        \* position of each service thread
  name,      \* the player it logs in as
  opponent,  \* the CLIENT its game was against
  gain,      \* what <<first, second>> are to win, once computed
  seen,      \* the ratings they were computed from
  toVisit,   \* the clients creg_all_players() has still to visit
  roll,      \* the clients whose players it has put into its list
  results,   \* the number of results posted
  sunk       \* history: how many of them leave neither player above zero

playerVars == <<rating, refs, lock>>
postVars == <<opponent, gain, seen, results, sunk>>
listVars == <<toVisit, roll>>
vars == <<playerVars, player, pc, name, postVars, listVars>>

LoginSteps == {"registered", "loggedIn"}
PostSteps == {"posting", "lockedOne", "lockedBoth", "computed", "paidOne",
              "paidBoth", "releasing"}
ThreadStates == {"serving", "visiting", "printing", "done"}
                  \cup LoginSteps \cup PostSteps

Unlocked(p) == lock[p] = NULL
At(c, p) == pc[c] = p
Goto(c, p) == pc' = [pc EXCEPT ![c] = p]

Init ==
  /\ rating = [p \in Players |-> PLAYER_INITIAL_RATING]
  /\ refs = [p \in Players |-> 0]
  /\ lock = [p \in Players |-> NULL]
  /\ player = [c \in Clients |-> NULL]
  /\ pc = [c \in Clients |-> "serving"]
  /\ name = [c \in Clients |-> NULL]
  /\ opponent = [c \in Clients |-> NULL]
  /\ gain = [c \in Clients |-> <<0, 0>>]
  /\ seen = [c \in Clients |-> <<0, 0>>]
  /\ toVisit = [c \in Clients |-> {}]
  /\ roll = [c \in Clients |-> {}]
  /\ results = 0
  /\ sunk = 0

(***************************************************************************)
(* LOGIN: a reference from the registry, one for the CLIENT, and the first  *)
(* one is given back.                                                      *)
(***************************************************************************)

\* preg_register(); player_create() if the name is new.
Register(c, p) ==
  /\ At(c, "serving")
  /\ player[c] = NULL
  /\ Unlocked(p)
  /\ refs' = [refs EXCEPT ![p] = IF @ = 0 THEN 2 ELSE @ + 1]
  /\ name' = [name EXCEPT ![c] = p]
  /\ Goto(c, "registered")
  /\ UNCHANGED <<rating, lock, player, postVars, listVars>>

\* Variant: the reference of the CLIENT is not counted.
NotCounted(p) == UNCHANGED refs
CountUp(p) == refs' = [refs EXCEPT ![p] = @ + 1]

Login(c) ==
  /\ At(c, "registered")
  /\ Unlocked(name[c])
  /\ CountUp(name[c])
  /\ player' = [player EXCEPT ![c] = name[c]]
  /\ Goto(c, "loggedIn")
  /\ UNCHANGED <<rating, lock, name, postVars, listVars>>

\* The failure goes unnoticed: what client_login() returns is ignored.
LoginFails(c) ==
  /\ At(c, "registered")
  /\ \E d \in Clients : player[d] = name[c]
  /\ Goto(c, "loggedIn")
  /\ UNCHANGED <<playerVars, player, name, postVars, listVars>>

CountDown(p) == refs' = [refs EXCEPT ![p] = @ - 1]

AfterLogin(c) ==
  /\ At(c, "loggedIn")
  /\ Unlocked(name[c])
  /\ CountDown(name[c])
  /\ name' = [name EXCEPT ![c] = NULL]
  /\ Goto(c, "serving")
  /\ UNCHANGED <<rating, lock, player, postVars, listVars>>

(***************************************************************************)
(* USERS: creg_all_players() takes a reference for every client that is     *)
(* logged in when it is visited, under the lock of the client registry; the *)
(* handler drops them one by one.                                          *)
(***************************************************************************)

RegistryUnlocked == \A c \in Clients : ~At(c, "visiting")

BeginListing(c) ==
  /\ At(c, "serving")
  /\ player[c] # NULL
  /\ RegistryUnlocked
  /\ toVisit' = [toVisit EXCEPT ![c] = {d \in Clients : ~At(d, "done")}]
  /\ Goto(c, "visiting")
  /\ UNCHANGED <<playerVars, player, name, postVars, roll>>

Visit(c, d) ==
  /\ At(c, "visiting")
  /\ d \in toVisit[c]
  /\ toVisit' = [toVisit EXCEPT ![c] = @ \ {d}]
  /\ IF player[d] = NULL
     THEN UNCHANGED <<refs, roll>>
     ELSE /\ Unlocked(player[d])
          /\ CountUp(player[d])
          /\ roll' = [roll EXCEPT ![c] = @ \cup {<<d, player[d]>>}]
  /\ UNCHANGED <<rating, lock, player, pc, name, postVars>>

EndListing(c) ==
  /\ At(c, "visiting")
  /\ toVisit[c] = {}
  /\ Goto(c, "printing")
  /\ UNCHANGED <<playerVars, player, name, postVars, listVars>>

\* player_get_name(), player_get_rating() and player_unref().
ShowRating(c, entry) ==
  /\ At(c, "printing")
  /\ entry \in roll[c]
  /\ Unlocked(entry[2])
  /\ CountDown(entry[2])
  /\ roll' = [roll EXCEPT ![c] = @ \ {entry}]
  /\ UNCHANGED <<rating, lock, player, pc, name, postVars, toVisit>>

EndPrinting(c) ==
  /\ At(c, "printing")
  /\ roll[c] = {}
  /\ Goto(c, "serving")
  /\ UNCHANGED <<playerVars, player, name, postVars, listVars>>

(***************************************************************************)
(* player_post_result(), by the thread that ended the game.                *)
(***************************************************************************)

\* The players are locked in the order of their names.  Variant: as given.
GivenOrder(c) == <<player[c], player[opponent[c]]>>
NameOrder(c) ==
  IF player[c] < player[opponent[c]] THEN <<player[c], player[opponent[c]]>>
                                     ELSE <<player[opponent[c]], player[c]>>
First(c) == NameOrder(c)[1]
Second(c) == NameOrder(c)[2]

BeginPost(c, d) ==
  /\ At(c, "serving")
  /\ c # d
  /\ player[c] # NULL
  /\ player[d] # NULL
  /\ results < MaxResults
  /\ results' = results + 1
  /\ opponent' = [opponent EXCEPT ![c] = d]
  /\ Goto(c, "posting")
  /\ UNCHANGED <<playerVars, player, name, gain, seen, sunk, listVars>>

LockFirst(c) ==
  /\ At(c, "posting")
  /\ Unlocked(First(c))
  /\ lock' = [lock EXCEPT ![First(c)] = c]
  /\ Goto(c, "lockedOne")
  /\ UNCHANGED <<rating, refs, player, name, postVars, listVars>>

\* Variant: the second mutex is not taken.
Careless(p) == TRUE
CanLock(p) == Unlocked(p)

LockSecond(c) ==
  /\ At(c, "lockedOne")
  /\ CanLock(Second(c))
  /\ lock' = [lock EXCEPT ![Second(c)] = c]
  /\ Goto(c, "lockedBoth")
  /\ UNCHANGED <<rating, refs, player, name, postVars, listVars>>

\* A number between n and n + 1 as an int.
Truncated(n) == IF n >= 0 THEN n ELSE n + 1

\* What one wins the other loses: k points, or k and a fraction, which is cut off
\* the new rating of each.
Stakes(k, r) ==
  {<<k, -k>>, <<Truncated(r[1] + k) - r[1], Truncated(r[2] - k - 1) - r[2]>>}

\* Both ratings are read and the points computed from them.
Compute(c) ==
  /\ At(c, "lockedBoth")
  /\ seen' = [seen EXCEPT ![c] = <<rating[First(c)], rating[Second(c)]>>]
  /\ \E g \in Gains : \E k \in {g, -g} : \E stake \in Stakes(k, seen'[c]) :
       /\ gain' = [gain EXCEPT ![c] = stake]
       /\ sunk' = IF \A i \in 1..2 : seen'[c][i] + stake[i] <= 0 THEN sunk + 1 ELSE sunk
  /\ Goto(c, "computed")
  /\ UNCHANGED <<playerVars, player, name, opponent, results, listVars>>

PayFirst(c) ==
  /\ At(c, "computed")
  /\ rating' = [rating EXCEPT ![First(c)] = seen[c][1] + gain[c][1]]
  /\ Goto(c, "paidOne")
  /\ UNCHANGED <<refs, lock, player, name, postVars, listVars>>

PaySecond(c) ==
  /\ At(c, "paidOne")
  /\ rating' = [rating EXCEPT ![Second(c)] = seen[c][2] + gain[c][2]]
  /\ Goto(c, "paidBoth")
  /\ UNCHANGED <<refs, lock, player, name, postVars, listVars>>

Unlock(p) == lock' = [lock EXCEPT ![p] = NULL]

UnlockSecond(c) ==
  /\ At(c, "paidBoth")
  /\ Unlock(Second(c))
  /\ Goto(c, "releasing")
  /\ UNCHANGED <<rating, refs, player, name, postVars, listVars>>

UnlockFirst(c) ==
  /\ At(c, "releasing")
  /\ Unlock(First(c))
  /\ opponent' = [opponent EXCEPT ![c] = NULL]
  /\ gain' = [gain EXCEPT ![c] = <<0, 0>>]
  /\ seen' = [seen EXCEPT ![c] = <<0, 0>>]
  /\ Goto(c, "serving")
  /\ UNCHANGED <<rating, refs, player, name, results, sunk, listVars>>

(***************************************************************************)
(* The end of a connection: the CLIENT leaves the registry, and is freed    *)
(* with its reference to the player when no game names it any more.         *)
(***************************************************************************)

Leave(c) ==
  /\ At(c, "serving")
  /\ RegistryUnlocked
  /\ Goto(c, "done")
  /\ UNCHANGED <<playerVars, player, name, postVars, listVars>>

FreeClient(c) ==
  /\ At(c, "done")
  /\ player[c] # NULL
  /\ \A d \in Clients : opponent[d] # c
  /\ Unlocked(player[c])
  /\ CountDown(player[c])
  /\ player' = [player EXCEPT ![c] = NULL]
  /\ UNCHANGED <<rating, lock, pc, name, postVars, listVars>>

\* The next connection: another thread, another CLIENT.
Connect(c) ==
  /\ At(c, "done")
  /\ player[c] = NULL
  /\ RegistryUnlocked
  /\ Goto(c, "serving")
  /\ UNCHANGED <<playerVars, player, name, postVars, listVars>>

(***************************************************************************)
(* The specification.                                                      *)
(***************************************************************************)

Request(c) ==
  \/ \E p \in Players : Register(c, p)
  \/ BeginListing(c)
  \/ \E d \in Clients : BeginPost(c, d)
  \/ Leave(c) \/ Connect(c)

Post(c) ==
  \/ LockFirst(c) \/ LockSecond(c) \/ Compute(c) \/ PayFirst(c)
  \/ PaySecond(c) \/ UnlockSecond(c) \/ UnlockFirst(c)

Work(c) ==
  \/ Login(c) \/ LoginFails(c) \/ AfterLogin(c)
  \/ \E d \in Clients : Visit(c, d)
  \/ EndListing(c)
  \/ \E entry \in roll[c] : ShowRating(c, entry)
  \/ EndPrinting(c)
  \/ Post(c)
  \/ FreeClient(c)

Next == \E c \in Clients : Request(c) \/ Work(c)

Spec == Init /\ [][Next]_vars

\* A thread in the middle of a request goes on; strong fairness, because it
\* may find a mutex taken now and then, but never for long.
Fairness == \A c \in Clients : SF_vars(Work(c))

FairSpec == Spec /\ Fairness
===============================================================================
