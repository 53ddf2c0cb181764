----------------------------- MODULE PlayerProofs -----------------------------
(***************************************************************************)
(* Proofs about the players, for any connections, names and stakes.        *)
(***************************************************************************)
EXTENDS PlayerProperties, FiniteSetTheorems, WellFoundedInduction, TLAPS

(***************************************************************************)
(* Sums: SumFunctionOnSet() of the community module Functions, and how it  *)
(* changes with one of its terms.  There is no induction theorem to cite   *)
(* that does not take a predicate as a parameter, so each proof takes a    *)
(* least counterexample instead, which exists because strict inclusion is  *)
(* well founded on the finite sets.                                        *)
(***************************************************************************)

\* A nonempty family of subsets of a finite set has a least member.
LEMMA LeastSubset ==
  ASSUME NEW S, IsFiniteSet(S), NEW T, T \subseteq SUBSET S, T # {}
  PROVE  \E w \in T : \A v \in T : v \subseteq w => v = w
<1>1. IsWellFoundedOn(StrictSubsetOrdering(S), SUBSET S)
  BY FS_StrictSubsetOrderingWellFounded, FS_FiniteSubsetsOfFinite
<1>2. PICK w \in T : \A v \in T : <<v, w>> \notin StrictSubsetOrdering(S)
  <2> HIDE DEF StrictSubsetOrdering
  <2> QED
    BY <1>1, WFMin
<1> QED
  BY <1>2 DEF StrictSubsetOrdering

\* The element that a sum over a set takes first.
Taken(s) == CHOOSE x \in s : TRUE

\* What is taken from a set is one of its elements.
LEMMA TakenIsElement ==
  ASSUME NEW s, s # {}
  PROVE  Taken(s) \in s
BY DEF Taken

\* One unfolding of the recursion by which a sum of values of f is defined.
Unfolded(f, g, s) == IF s = {} THEN 0 ELSE f[Taken(s)] + g[s \ {Taken(s)}]

\* g sums the values of f over every subset of S.
IsSumOn(f, g, S) ==
  /\ g \in [SUBSET S -> Int]
  /\ \A s \in SUBSET S : g[s] = Unfolded(f, g, s)

\* Two such functions agree wherever both are defined.
LEMMA SumsAgree ==
  ASSUME NEW f, NEW S, NEW R, NEW g, NEW h, IsFiniteSet(S),
         IsSumOn(f, g, S), IsSumOn(f, h, R),
         NEW w, w \subseteq S, w \subseteq R
  PROVE  g[w] = h[w]
<1> DEFINE T == {s \in SUBSET w : g[s] # h[s]}
<1> SUFFICES ASSUME g[w] # h[w] PROVE FALSE
  OBVIOUS
<1>1. T \subseteq SUBSET S /\ T # {}
  OBVIOUS
<1>2. PICK s \in T : \A v \in T : v \subseteq s => v = s
  <2> HIDE DEF T
  <2> QED
    BY <1>1, LeastSubset
<1>3. s \subseteq S /\ s \subseteq R /\ g[s] # h[s]
  OBVIOUS
<1>4. g[s] = Unfolded(f, g, s) /\ h[s] = Unfolded(f, h, s)
  BY <1>3 DEF IsSumOn
<1>5. s # {}
  BY <1>3, <1>4 DEF Unfolded
<1>6. PICK r : r = s \ {Taken(s)}
  OBVIOUS
<1>7. r \subseteq s /\ r # s /\ r \in SUBSET w
  BY <1>5, <1>6, TakenIsElement
<1>8. g[r] = h[r]
  BY <1>2, <1>7
<1> QED
  BY <1>3, <1>4, <1>5, <1>6, <1>8 DEF Unfolded

\* There is such a function.
LEMMA SumsExist ==
  ASSUME NEW S, IsFiniteSet(S), NEW f, \A x \in S : f[x] \in Int
  PROVE  \E g : IsSumOn(f, g, S)
<1> DEFINE T == {s \in SUBSET S : ~ \E g : IsSumOn(f, g, s)}
<1> SUFFICES ASSUME S \in T PROVE FALSE
  OBVIOUS
<1>1. PICK w \in T : \A v \in T : v \subseteq w => v = w
  <2>1. T \subseteq SUBSET S /\ T # {}
    OBVIOUS
  <2> HIDE DEF T
  <2> QED
    BY <2>1, LeastSubset
<1>2. w \subseteq S /\ IsFiniteSet(w)
  BY FS_Subset
<1> DEFINE h(u) == CHOOSE g : IsSumOn(f, g, u)
           rest(t) == t \ {Taken(t)}
           G == [t \in SUBSET w |-> IF t = {} THEN 0 ELSE f[Taken(t)] + h(rest(t))[rest(t)]]
<1>3. ASSUME NEW u \in SUBSET w, u # w PROVE IsSumOn(f, h(u), u)
  BY <1>1, <1>2, <1>3
<1>4. ASSUME NEW t \in SUBSET w, t # {}
      PROVE  /\ rest(t) \in SUBSET w /\ rest(t) # w /\ rest(t) \subseteq t
             /\ Taken(t) \in S
  BY <1>2, <1>4, TakenIsElement
<1> HIDE DEF h, rest
<1>5. ASSUME NEW u \in SUBSET w, u # w PROVE h(u)[u] \in Int /\ h(u)[u] = Unfolded(f, h(u), u)
  BY <1>3, <1>5 DEF IsSumOn
<1>6. G \in [SUBSET w -> Int]
  <2>1. ASSUME NEW t \in SUBSET w, t # {} PROVE f[Taken(t)] + h(rest(t))[rest(t)] \in Int
    BY <1>4, <1>5, <2>1
  <2> QED
    BY <2>1
<1>7. ASSUME NEW u \in SUBSET w, u # w PROVE h(u)[u] = G[u]
  <2>1. CASE u = {}
    BY <1>5, <1>7, <2>1 DEF Unfolded
  <2>2. CASE u # {}
    <3>1. h(u)[u] = f[Taken(u)] + h(u)[rest(u)]
      BY <1>5, <1>7, <2>2 DEF Unfolded, rest
    <3>2. IsSumOn(f, h(u), u) /\ IsSumOn(f, h(rest(u)), rest(u)) /\ IsFiniteSet(u)
      BY <1>2, <1>3, <1>4, <1>7, <2>2, FS_Subset
    <3>3. h(u)[rest(u)] = h(rest(u))[rest(u)]
      BY <1>4, <2>2, <3>2, SumsAgree
    <3> QED
      BY <2>2, <3>1, <3>3
  <2> QED
    BY <2>1, <2>2
<1>8. ASSUME NEW t \in SUBSET w PROVE G[t] = Unfolded(f, G, t)
  <2>1. CASE t = {}
    BY <2>1 DEF Unfolded
  <2>2. CASE t # {}
    <3>1. G[t] = f[Taken(t)] + h(rest(t))[rest(t)]
      BY <2>2
    <3>2. h(rest(t))[rest(t)] = G[rest(t)]
      BY <1>4, <1>7, <2>2
    <3> HIDE DEF G
    <3> QED
      BY <2>2, <3>1, <3>2 DEF Unfolded, rest
  <2> QED
    BY <2>1, <2>2
<1>9. IsSumOn(f, G, w)
  <2> HIDE DEF G
  <2> QED
    BY <1>6, <1>8 DEF IsSumOn
<1> QED
  BY <1>9

\* The function that SumFunctionOnSet(f, S) takes its value from.
Sums(f, S) == CHOOSE g : g = [s \in SUBSET S |-> Unfolded(f, g, s)]

\* The recursive definition of a sum over a finite set is satisfied by its value.
LEMMA SumsAreSums ==
  ASSUME NEW S, IsFiniteSet(S), NEW f, \A x \in S : f[x] \in Int
  PROVE  IsSumOn(f, Sums(f, S), S)
<1>1. PICK g : IsSumOn(f, g, S)
  BY SumsExist
<1>2. g = [s \in SUBSET S |-> Unfolded(f, g, s)]
  BY <1>1 DEF IsSumOn
<1>3. Sums(f, S) = [s \in SUBSET S |-> Unfolded(f, Sums(f, S), s)]
  BY <1>2 DEF Sums
<1>4. PICK h : h = Sums(f, S)
  OBVIOUS
<1>5. \A s \in SUBSET S : h[s] = Unfolded(f, h, s)
  BY <1>3, <1>4
<1> DEFINE T == {s \in SUBSET S : h[s] \notin Int}
<1>6. T = {}
  <2> SUFFICES ASSUME T # {} PROVE FALSE
    OBVIOUS
  <2>1. PICK s \in T : \A v \in T : v \subseteq s => v = s
    <3>1. T \subseteq SUBSET S
      OBVIOUS
    <3> HIDE DEF T
    <3> QED
      BY <3>1, LeastSubset
  <2>2. s # {}
    <3>1. s \in SUBSET S /\ h[s] \notin Int
      OBVIOUS
    <3>2. h[s] = Unfolded(f, h, s)
      BY <1>5, <3>1
    <3> QED
      BY <3>1, <3>2 DEF Unfolded
  <2>3. PICK r : r = s \ {Taken(s)}
    OBVIOUS
  <2>4. r \subseteq s /\ r # s /\ r \in SUBSET S /\ Taken(s) \in S
    BY <2>2, <2>3, TakenIsElement
  <2>5. h[r] \in Int /\ f[Taken(s)] \in Int
    BY <2>1, <2>4
  <2>6. h[s] = f[Taken(s)] + h[r]
    BY <1>5, <2>2, <2>3 DEF Unfolded
  <2> QED
    BY <2>5, <2>6
<1>7. h \in [SUBSET S -> Int]
  BY <1>3, <1>4, <1>6
<1> QED
  BY <1>4, <1>5, <1>7 DEF IsSumOn

\* A sum over a finite set of integers is an integer, that over the empty set is 0, and
\* any other is its first term and the sum of the rest.
THEOREM SumOnSet ==
  ASSUME NEW S, IsFiniteSet(S), NEW f, \A x \in S : f[x] \in Int
  PROVE  /\ SumFunctionOnSet(f, S) \in Int
         /\ S = {} => SumFunctionOnSet(f, S) = 0
         /\ S # {} => SumFunctionOnSet(f, S) =
              f[Taken(S)] + SumFunctionOnSet(f, S \ {Taken(S)})
<1>1. \A R : SumFunctionOnSet(f, R) = Sums(f, R)[R]
  BY DEF SumFunctionOnSet, FoldFunctionOnSet, MapThenFoldSet, Sums, Unfolded, Taken
<1>2. IsSumOn(f, Sums(f, S), S)
  BY SumsAreSums
<1>3. /\ Sums(f, S)[S] \in Int
      /\ Sums(f, S)[S] = Unfolded(f, Sums(f, S), S)
  BY <1>2 DEF IsSumOn
<1>4. ASSUME S # {}
      PROVE  Sums(f, S)[S \ {Taken(S)}] = Sums(f, S \ {Taken(S)})[S \ {Taken(S)}]
  <2>1. PICK R : R = S \ {Taken(S)}
    OBVIOUS
  <2>2. R \subseteq S /\ IsFiniteSet(R)
    BY <2>1, FS_Subset
  <2>3. IsSumOn(f, Sums(f, R), R)
    BY <2>2, SumsAreSums
  <2> QED
    BY <1>2, <2>1, <2>2, <2>3, SumsAgree
<1> QED
  BY <1>1, <1>3, <1>4 DEF Unfolded

\* When one term changes, the sum changes by as much.
THEOREM SumOfChanged ==
  ASSUME NEW S, IsFiniteSet(S), NEW f \in [S -> Int], NEW g \in [S -> Int],
         NEW a \in S, \A x \in S : x # a => f[x] = g[x]
  PROVE  SumFunction(g) = SumFunction(f) + g[a] - f[a]
<1> DEFINE change(w) == IF a \in w THEN g[a] - f[a] ELSE 0
           T == {w \in SUBSET S : SumFunctionOnSet(g, w) # SumFunctionOnSet(f, w) + change(w)}
<1>1. ASSUME NEW w \in SUBSET S
      PROVE  /\ SumFunctionOnSet(f, w) \in Int /\ SumFunctionOnSet(g, w) \in Int
             /\ w = {} => SumFunctionOnSet(f, w) = 0 /\ SumFunctionOnSet(g, w) = 0
             /\ w # {} =>
                  /\ SumFunctionOnSet(f, w) = f[Taken(w)] + SumFunctionOnSet(f, w \ {Taken(w)})
                  /\ SumFunctionOnSet(g, w) = g[Taken(w)] + SumFunctionOnSet(g, w \ {Taken(w)})
  <2>1. IsFiniteSet(w) /\ (\A x \in w : f[x] \in Int) /\ (\A x \in w : g[x] \in Int)
    BY FS_Subset
  <2> QED
    BY <2>1, SumOnSet
<1>2. T = {}
  <2> SUFFICES ASSUME T # {} PROVE FALSE
    OBVIOUS
  <2>1. PICK w \in T : \A v \in T : v \subseteq w => v = w
    <3>1. T \subseteq SUBSET S
      OBVIOUS
    <3> HIDE DEF T
    <3> QED
      BY <3>1, LeastSubset
  <2>2. w # {}
    <3>1. w = {} => change(w) = 0
      OBVIOUS
    <3>2. /\ w \in SUBSET S
          /\ SumFunctionOnSet(g, w) # SumFunctionOnSet(f, w) + change(w)
      OBVIOUS
    <3> HIDE DEF change, T
    <3> QED
      <4> SUFFICES ASSUME w = {} PROVE FALSE
        OBVIOUS
      <4>1. change(w) = 0
        BY <3>1
      <4>2. SumFunctionOnSet(f, w) = 0 /\ SumFunctionOnSet(g, w) = 0
        BY <1>1, <3>2
      <4> QED
        BY <3>2, <4>1, <4>2
  <2>3. PICK x \in w : x = Taken(w)
    BY <2>2, TakenIsElement
  <2>4. PICK r \in SUBSET S : r = w \ {x}
    OBVIOUS
  <2>5. SumFunctionOnSet(g, r) = SumFunctionOnSet(f, r) + change(r)
    BY <2>1, <2>3, <2>4
  <2>6. /\ SumFunctionOnSet(f, w) = f[x] + SumFunctionOnSet(f, r)
        /\ SumFunctionOnSet(g, w) = g[x] + SumFunctionOnSet(g, r)
    BY <1>1, <2>2, <2>3, <2>4
  <2>7. change(w) = change(r) + g[x] - f[x]
    BY <2>3, <2>4
  <2>8. /\ SumFunctionOnSet(f, r) \in Int /\ change(r) \in Int
        /\ f[x] \in Int /\ g[x] \in Int
    <3>1. x \in S /\ f[x] \in Int /\ g[x] \in Int /\ change(r) \in Int
      OBVIOUS
    <3> HIDE DEF change, T
    <3> QED
      BY <1>1, <3>1
  <2>9. SumFunctionOnSet(g, w) # SumFunctionOnSet(f, w) + change(w)
    BY <2>1
  <2> HIDE DEF change, T
  <2> QED
    BY <2>5, <2>6, <2>7, <2>8, <2>9
<1>3. SumFunctionOnSet(g, S) = SumFunctionOnSet(f, S) + change(S)
  BY <1>2
<1>4. SumFunctionOnSet(f, S) \in Int
  BY <1>1
<1> QED
  BY <1>3, <1>4 DEF SumFunction

\* A sum of zeros is zero.
THEOREM SumOfZeros ==
  ASSUME NEW S, IsFiniteSet(S), NEW f \in [S -> Int], \A x \in S : f[x] = 0
  PROVE  SumFunction(f) = 0
<1> DEFINE T == {w \in SUBSET S : SumFunctionOnSet(f, w) # 0}
<1>1. T = {}
  <2> SUFFICES ASSUME T # {} PROVE FALSE
    OBVIOUS
  <2>1. PICK w \in T : \A v \in T : v \subseteq w => v = w
    <3>1. T \subseteq SUBSET S
      OBVIOUS
    <3> HIDE DEF T
    <3> QED
      BY <3>1, LeastSubset
  <2>2. IsFiniteSet(w) /\ \A x \in w : f[x] \in Int
    BY FS_Subset
  <2>3. w # {}
    BY <2>2, SumOnSet
  <2>4. PICK r \in SUBSET S : r = w \ {Taken(w)} /\ r # w
    <3>1. Taken(w) \in w
      BY <2>3, TakenIsElement
    <3>2. w \ {Taken(w)} \in SUBSET S /\ w \ {Taken(w)} # w
      BY <3>1
    <3> QED
      BY <3>2
  <2>5. SumFunctionOnSet(f, r) = 0
    BY <2>1, <2>4
  <2>6. SumFunctionOnSet(f, w) = f[Taken(w)] + SumFunctionOnSet(f, r)
    BY <2>2, <2>3, <2>4, SumOnSet
  <2>7. SumFunctionOnSet(f, w) # 0
    OBVIOUS
  <2>8. f[Taken(w)] = 0
    <3>1. w \subseteq S
      OBVIOUS
    <3>2. Taken(w) \in w
      BY <2>3, TakenIsElement
    <3> QED
      BY <3>1, <3>2
  <2> QED
    BY <2>5, <2>6, <2>7, <2>8
<1>2. SumFunctionOnSet(f, S) = 0
  BY <1>1
<1> QED
  BY <1>2 DEF SumFunction

(***************************************************************************)
(* The inductive invariants.                                               *)
(***************************************************************************)

\* The values the variables take.
ShapeOK ==
  /\ rating \in [Players -> Int]
  /\ refs \in [Players -> Int]
  /\ lock \in [Players -> Clients \cup {NULL}]
  /\ player \in [Clients -> Players \cup {NULL}]
  /\ pc \in [Clients -> ThreadStates]
  /\ name \in [Clients -> Players \cup {NULL}]
  /\ opponent \in [Clients -> Clients \cup {NULL}]
  /\ gain \in [Clients -> Int \X Int]
  /\ seen \in [Clients -> Int \X Int]
  /\ toVisit \in [Clients -> SUBSET Clients]
  /\ roll \in [Clients -> SUBSET (Clients \X Players)]
  /\ results \in Nat
  /\ sunk \in Nat

\* A LOGIN on its way has its player, and its CLIENT none before it is logged in.
LoginsAreUnderWay ==
  \A c \in Clients : /\ pc[c] \in LoginSteps <=> name[c] # NULL
                     /\ pc[c] = "registered" => player[c] = NULL

\* A list is empty unless it is in use, and names no client still to be visited.
RollsAreOfVisited ==
  \A c \in Clients :
    /\ pc[c] \notin {"visiting", "printing"} => roll[c] = {}
    /\ \A d \in Clients, p \in Players : <<d, p>> \in roll[c] =>
         d \notin toVisit[c]

\* While a result is posted, both CLIENTs of the game keep their players.
PostsHavePlayers ==
  \A c \in Clients :
    IF pc[c] \in PostSteps
      THEN opponent[c] \in Clients /\ player[c] # NULL /\ player[opponent[c]] # NULL
      ELSE opponent[c] = NULL

\* The mutexes that a thread holds at each step of player_post_result().
HoldsFirst(c) == pc[c] \in PostSteps \ {"posting"}
HoldsSecond(c) == pc[c] \in PostSteps \ {"posting", "lockedOne", "releasing"}
Owns(c, p) ==
  \/ HoldsFirst(c) /\ p = First(c)
  \/ HoldsSecond(c) /\ p = Second(c)

\* A mutex is held by whom it says and by nobody else, and a thread has got the
\* second one only if it is not the first.
MutexesAreOwned ==
  /\ \A c \in Clients, p \in Players : lock[p] = c <=> Owns(c, p)
  /\ \A c \in Clients : HoldsSecond(c) => First(c) # Second(c)

\* A rating that is still to be paid on is what it was when it was read, and the
\* stakes come from Stakes().
RatingsAreAsSeen ==
  \A c \in Clients :
    /\ pc[c] = "computed" => seen[c][1] = rating[First(c)]
    /\ pc[c] \in {"computed", "paidOne"} => seen[c][2] = rating[Second(c)]

PlayerInv ==
  /\ ShapeOK /\ LoginsAreUnderWay /\ RollsAreOfVisited /\ PostsHavePlayers
  /\ RefsAreExact /\ MutexesAreOwned /\ RatingsAreAsSeen

\* Posts that are counted and not yet computed.
NotComputed == {c \in Clients : pc[c] \in {"posting", "lockedOne", "lockedBoth"}}

\* Each result computed takes at most one point out of the pool, and only one that leaves
\* neither player above zero brings one in.
BalanceInv ==
  /\ Pool \in Int /\ Balance \in Int
  /\ Balance - Pool <= sunk
  /\ Balance - Pool >= Cardinality(NotComputed) - results

(***************************************************************************)
(* Positions, lists and mutexes.                                           *)
(***************************************************************************)

\* No player is registered, and no thread is at work, when the server starts.
LEMMA PlayerInit == Init => PlayerInv
<1> SUFFICES ASSUME Init PROVE PlayerInv
  OBVIOUS
<1> USE DistinctAssumption DEF Init, LoginSteps, PostSteps
<1>1. ShapeOK
  BY RatingAssumption DEF ShapeOK, ThreadStates
<1>2. LoginsAreUnderWay /\ RollsAreOfVisited /\ PostsHavePlayers
  BY DEF LoginsAreUnderWay, RollsAreOfVisited, PostsHavePlayers
<1>3. MutexesAreOwned /\ RatingsAreAsSeen
  BY DEF MutexesAreOwned, RatingsAreAsSeen, Owns, HoldsFirst, HoldsSecond
<1>4. ASSUME NEW p \in Players
      PROVE  LoggedInAs(p) = {} /\ LoggingInAs(p) = {} /\ ListedBy(p) = {}
  BY DEF LoggedInAs, LoggingInAs, ListedBy
<1>5. Cardinality({}) = 0
  BY FS_EmptySet
<1>6. RefsAreExact
  <2>1. \A p \in Players : /\ refs[p] = 0 /\ Cardinality(LoggedInAs(p)) = 0
                           /\ Cardinality(LoggingInAs(p)) = 0
                           /\ Cardinality(ListedBy(p)) = 0
    BY <1>4, <1>5
  <2> HIDE DEF Init
  <2> QED
    BY <2>1 DEF RefsAreExact
<1> QED
  BY <1>1, <1>2, <1>3, <1>6 DEF PlayerInv

\* One step of one thread.
Step(c) == Request(c) \/ Work(c)

\* The two players of a game, in the order in which they are locked.
LEMMA NamesInOrder ==
  ASSUME ShapeOK, PostsHavePlayers, NEW c \in Clients, pc[c] \in PostSteps
  PROVE  /\ First(c) \in Players /\ Second(c) \in Players
         /\ First(c) \in {player[c], player[opponent[c]]}
         /\ Second(c) \in {player[c], player[opponent[c]]}
         /\ First(c) <= Second(c)
<1>1. PICK a \in Players, b \in Players : a = player[c] /\ b = player[opponent[c]]
  BY DEF ShapeOK, PostsHavePlayers
<1>2. NameOrder(c) = IF a < b THEN <<a, b>> ELSE <<b, a>>
  BY <1>1 DEF NameOrder
<1>3. First(c) = (IF a < b THEN a ELSE b) /\ Second(c) = (IF a < b THEN b ELSE a)
  BY <1>2 DEF First, Second
<1> QED
  BY <1>1, <1>3, PlayersAssumption

\* What the two players win, as whole numbers, differs by at most one point from nothing,
\* and is a point more only if neither is left above zero.
LEMMA StakesNearlyBalance ==
  ASSUME NEW k \in Int, NEW a \in Int, NEW b \in Int, NEW stake \in Stakes(k, <<a, b>>)
  PROVE  /\ stake \in Int \X Int
         /\ stake[1] + stake[2] \in {-1, 0, 1}
         /\ stake[1] + stake[2] = 1 => a + stake[1] <= 0 /\ b + stake[2] <= 0
<1>1. /\ Truncated(a + k) \in Int /\ Truncated(b - k - 1) \in Int
      /\ Truncated(a + k) - a \in {k, k + 1}
      /\ Truncated(b - k - 1) - b \in {-k - 1, -k}
      /\ Truncated(a + k) - a = k + 1 => Truncated(a + k) <= 0
      /\ Truncated(b - k - 1) - b = -k => Truncated(b - k - 1) <= 0
  BY DEF Truncated
<1>2. PICK u \in Int, v \in Int : /\ u = Truncated(a + k) - a
                                 /\ v = Truncated(b - k - 1) - b
  BY <1>1
<1>3. stake = <<k, -k>> \/ stake = <<u, v>>
  BY <1>2 DEF Stakes
<1>4. CASE stake = <<k, -k>>
  BY <1>4
<1>5. CASE stake = <<u, v>>
  BY <1>1, <1>2, <1>5
<1> QED
  BY <1>3, <1>4, <1>5

\* Counting up or down leaves a function of integers.
LEMMA Counted ==
  ASSUME NEW S, NEW f \in [S -> Int], NEW x
  PROVE  /\ [f EXCEPT ![x] = @ + 1] \in [S -> Int]
         /\ [f EXCEPT ![x] = @ - 1] \in [S -> Int]
<1>1. \A v : v \in Int => [f EXCEPT ![x] = v] \in [S -> Int]
  OBVIOUS
<1>2. CASE x \in S
  <2>1. f[x] + 1 \in Int /\ f[x] - 1 \in Int
    BY <1>2
  <2> QED
    BY <1>1, <2>1
<1>3. CASE x \notin S
  <2>1. [f EXCEPT ![x] = @ + 1] = f /\ [f EXCEPT ![x] = @ - 1] = f
    BY <1>3
  <2> QED
    BY <2>1
<1> QED
  BY <1>2, <1>3

\* The points of a thread that posts nothing.
LEMMA IntPair == <<0, 0>> \in Int \X Int
OBVIOUS

\* They stay the same as long as nobody logs in or out as the game is posted.
LEMMA OrderKept ==
  ASSUME NEW c \in Clients, opponent'[c] = opponent[c], player'[c] = player[c],
         player'[opponent[c]] = player[opponent[c]]
  PROVE  First(c)' = First(c) /\ Second(c)' = Second(c)
BY DEF First, Second, NameOrder

\* A step leaves every variable in its range.
LEMMA ShapeStep ==
  ASSUME ShapeOK, PostsHavePlayers, LoginsAreUnderWay, NEW c \in Clients, Step(c)
  PROVE  ShapeOK'
<1> USE DEF ShapeOK, PostsHavePlayers, LoginsAreUnderWay, At, Goto, playerVars, postVars, listVars,
        ThreadStates, LoginSteps, PostSteps
<1>1. ASSUME NEW p \in Players, Register(c, p) PROVE ShapeOK'
  BY <1>1, DistinctAssumption DEF Register
<1>2. ASSUME NEW d \in Clients, Visit(c, d) PROVE ShapeOK'
  <2>1. refs \in [Players -> Int]
    OBVIOUS
  <2>2. [toVisit EXCEPT ![c] = @ \ {d}] \in [Clients -> SUBSET Clients]
    OBVIOUS
  <2>3. CASE player[d] = NULL
    BY <1>2, <2>2, <2>3 DEF Visit
  <2>4. CASE player[d] # NULL
    <3>1. [roll EXCEPT ![c] = @ \cup {<<d, player[d]>>}]
            \in [Clients -> SUBSET (Clients \X Players)]
      BY <2>4
    <3>2. refs' \in [Players -> Int]
      BY <1>2, <2>1, <2>4, Counted DEF Visit, CountUp
    <3> QED
      BY <1>2, <2>2, <2>4, <3>1, <3>2 DEF Visit
  <2> QED
    BY <2>3, <2>4
<1>3. ASSUME NEW e \in roll[c], ShowRating(c, e) PROVE ShapeOK'
  <2>1. refs \in [Players -> Int]
    OBVIOUS
  <2>2. [roll EXCEPT ![c] = @ \ {e}] \in [Clients -> SUBSET (Clients \X Players)]
    OBVIOUS
  <2>3. refs' \in [Players -> Int]
    BY <1>3, <2>1, Counted DEF ShowRating, CountDown
  <2> QED
    BY <1>3, <2>2, <2>3 DEF ShowRating
<1>4. ASSUME NEW d \in Clients, BeginPost(c, d) PROVE ShapeOK'
  BY <1>4, DistinctAssumption DEF BeginPost
<1>5. CASE Compute(c)
  <2>1. pc[c] \in PostSteps /\ First(c) \in Players /\ Second(c) \in Players
    BY <1>5, NamesInOrder DEF Compute
  <2>2. PICK a \in Int, b \in Int : a = rating[First(c)] /\ b = rating[Second(c)]
    BY <2>1
  <2>3. <<a, b>> \in Int \X Int /\ seen' = [seen EXCEPT ![c] = <<a, b>>]
    BY <1>5, <2>2 DEF Compute
  <2>4. seen'[c] = <<a, b>>
    BY <2>3
  <2>5. PICK g \in Gains : \E k \in {g, -g} : \E stake \in Stakes(k, <<a, b>>) :
          /\ gain' = [gain EXCEPT ![c] = stake]
          /\ sunk' \in {sunk, sunk + 1}
    BY <1>5, <2>4 DEF Compute
  <2>6. PICK k \in Int : \E stake \in Stakes(k, <<a, b>>) :
          /\ gain' = [gain EXCEPT ![c] = stake]
          /\ sunk' \in {sunk, sunk + 1}
    <3>1. g \in Int /\ -g \in Int
      BY GainsAssumption
    <3> HIDE DEF ShapeOK
    <3> QED
      BY <2>5, <3>1
  <2>7. PICK stake \in Stakes(k, <<a, b>>) :
          /\ gain' = [gain EXCEPT ![c] = stake]
          /\ sunk' \in {sunk, sunk + 1}
    BY <2>6
  <2>8. stake \in Int \X Int
    BY StakesNearlyBalance
  <2> QED
    BY <1>5, <2>3, <2>7, <2>8 DEF Compute
<1>6. CASE PayFirst(c)
  <2>1. pc[c] \in PostSteps /\ First(c) \in Players
    BY <1>6, NamesInOrder DEF PayFirst
  <2>2. seen[c][1] + gain[c][1] \in Int
    <3>1. seen[c] \in Int \X Int /\ gain[c] \in Int \X Int
      OBVIOUS
    <3> HIDE DEF ShapeOK
    <3> QED
      BY <3>1
  <2> QED
    BY <1>6, <2>1, <2>2 DEF PayFirst
<1>7. CASE PaySecond(c)
  <2>1. pc[c] \in PostSteps /\ Second(c) \in Players
    BY <1>7, NamesInOrder DEF PaySecond
  <2>2. seen[c][2] + gain[c][2] \in Int
    <3>1. seen[c] \in Int \X Int /\ gain[c] \in Int \X Int
      OBVIOUS
    <3> HIDE DEF ShapeOK
    <3> QED
      BY <3>1
  <2> QED
    BY <1>7, <2>1, <2>2 DEF PaySecond
<1>8. CASE UnlockFirst(c)
  <2>1. /\ [lock EXCEPT ![First(c)] = NULL] \in [Players -> Clients \cup {NULL}]
        /\ [opponent EXCEPT ![c] = NULL] \in [Clients -> Clients \cup {NULL}]
        /\ [pc EXCEPT ![c] = "serving"] \in [Clients -> ThreadStates]
    OBVIOUS
  <2>2. PICK x \in Int \X Int : x = <<0, 0>>
    BY IntPair
  <2>3. /\ [gain EXCEPT ![c] = x] \in [Clients -> Int \X Int]
        /\ [seen EXCEPT ![c] = x] \in [Clients -> Int \X Int]
    BY <2>2
  <2>4. /\ lock' = [lock EXCEPT ![First(c)] = NULL] /\ opponent' = [opponent EXCEPT ![c] = NULL]
        /\ pc' = [pc EXCEPT ![c] = "serving"] /\ gain' = [gain EXCEPT ![c] = x]
        /\ seen' = [seen EXCEPT ![c] = x]
        /\ UNCHANGED <<rating, refs, player, name, results, sunk, toVisit, roll>>
    BY <1>8, <2>2 DEF UnlockFirst, Unlock
  <2> QED
    BY <2>1, <2>3, <2>4
<1>9. CASE Login(c)
  BY <1>9, DistinctAssumption
  DEF Login, CountUp
<1>10. CASE LoginFails(c)
  BY <1>10 DEF LoginFails
<1>19. CASE AfterLogin(c)
  BY <1>19, DistinctAssumption
  DEF AfterLogin, CountDown
<1>11. CASE EndListing(c)
  BY <1>11, DistinctAssumption
  DEF EndListing
<1>12. CASE EndPrinting(c)
  BY <1>12, DistinctAssumption
  DEF EndPrinting
<1>13. CASE LockFirst(c)
  BY <1>13, DistinctAssumption
  DEF LockFirst
<1>14. CASE LockSecond(c)
  BY <1>14, DistinctAssumption
  DEF LockSecond, CanLock
<1>15. CASE UnlockSecond(c)
  BY <1>15, DistinctAssumption
  DEF UnlockSecond, Unlock
<1>16. CASE FreeClient(c)
  BY <1>16, DistinctAssumption
  DEF FreeClient, CountDown
<1>17. CASE BeginListing(c)
  BY <1>17, DistinctAssumption
  DEF BeginListing
<1>18. CASE Leave(c) \/ Connect(c)
  BY <1>18, DistinctAssumption
  DEF Leave, Connect
<1> QED
  BY <1>1, <1>2, <1>3, <1>4, <1>5, <1>6, <1>7, <1>8, <1>9, <1>10, <1>11, <1>12, <1>13,
     <1>14, <1>15, <1>16, <1>17, <1>18, <1>19
  DEF Step, Request, Work, Post

\* No step logs a client in that is logged in already, or forgets a login.
LEMMA LoginStep ==
  ASSUME ShapeOK, LoginsAreUnderWay, NEW c \in Clients, Step(c)
  PROVE  LoginsAreUnderWay'
<1> USE DEF ShapeOK, LoginsAreUnderWay, At, Goto, playerVars, postVars, listVars, LoginSteps,
        PostSteps
<1>1. ASSUME NEW p \in Players, Register(c, p) PROVE LoginsAreUnderWay'
  BY <1>1, DistinctAssumption DEF Register
<1>2. ASSUME NEW d \in Clients, Visit(c, d) PROVE LoginsAreUnderWay'
  BY <1>2, DistinctAssumption DEF Visit, CountUp
<1>3. ASSUME NEW e \in roll[c], ShowRating(c, e) PROVE LoginsAreUnderWay'
  BY <1>3, DistinctAssumption DEF ShowRating, CountDown
<1>4. ASSUME NEW d \in Clients, BeginPost(c, d) PROVE LoginsAreUnderWay'
  BY <1>4, DistinctAssumption DEF BeginPost
<1>5. CASE \/ Login(c) \/ LoginFails(c) \/ AfterLogin(c) \/ EndListing(c)
  BY <1>5, DistinctAssumption
  DEF Login, CountUp, LoginFails, AfterLogin, CountDown, EndListing
<1>6. CASE \/ EndPrinting(c) \/ LockFirst(c) \/ LockSecond(c)
  BY <1>6, DistinctAssumption
  DEF EndPrinting, LockFirst, LockSecond, CanLock
<1>7. CASE \/ Compute(c) \/ PayFirst(c) \/ PaySecond(c)
  BY <1>7, DistinctAssumption
  DEF Compute, PayFirst, PaySecond
<1>8. CASE \/ UnlockSecond(c) \/ UnlockFirst(c) \/ FreeClient(c)
  BY <1>8, DistinctAssumption
  DEF UnlockSecond, Unlock, UnlockFirst, FreeClient, CountDown
<1>9. CASE \/ BeginListing(c) \/ Leave(c) \/ Connect(c)
  BY <1>9, DistinctAssumption
  DEF BeginListing, Leave, Connect
<1> QED
  BY <1>1, <1>2, <1>3, <1>4, <1>5, <1>6, <1>7, <1>8, <1>9
  DEF Step, Request, Work, Post

\* No step lists a client twice.
LEMMA RollStep ==
  ASSUME ShapeOK, RollsAreOfVisited, NEW c \in Clients, Step(c)
  PROVE  RollsAreOfVisited'
<1> USE DEF ShapeOK, RollsAreOfVisited, At, Goto, playerVars, postVars, listVars
<1>1. ASSUME NEW p \in Players, Register(c, p) PROVE RollsAreOfVisited'
  BY <1>1, DistinctAssumption DEF Register
<1>2. ASSUME NEW d \in Clients, Visit(c, d) PROVE RollsAreOfVisited'
  BY <1>2, DistinctAssumption DEF Visit, CountUp
<1>3. ASSUME NEW e \in roll[c], ShowRating(c, e) PROVE RollsAreOfVisited'
  BY <1>3, DistinctAssumption DEF ShowRating, CountDown
<1>4. ASSUME NEW d \in Clients, BeginPost(c, d) PROVE RollsAreOfVisited'
  BY <1>4, DistinctAssumption DEF BeginPost
<1>5. CASE \/ Login(c) \/ LoginFails(c) \/ AfterLogin(c)
  BY <1>5, DistinctAssumption
  DEF Login, CountUp, LoginFails, AfterLogin, CountDown
<1>6. CASE \/ EndListing(c) \/ EndPrinting(c)
  BY <1>6, DistinctAssumption
  DEF EndListing, EndPrinting
<1>7. CASE \/ LockFirst(c) \/ LockSecond(c)
  BY <1>7, DistinctAssumption
  DEF LockFirst, LockSecond, CanLock
<1>8. CASE \/ Compute(c) \/ PayFirst(c)
  BY <1>8, DistinctAssumption
  DEF Compute, PayFirst
<1>9. CASE \/ PaySecond(c) \/ UnlockSecond(c)
  BY <1>9, DistinctAssumption
  DEF PaySecond, UnlockSecond, Unlock
<1>10. CASE \/ UnlockFirst(c) \/ FreeClient(c)
  BY <1>10, DistinctAssumption
  DEF UnlockFirst, Unlock, FreeClient, CountDown
<1>11. CASE \/ BeginListing(c) \/ Leave(c) \/ Connect(c)
  BY <1>11, DistinctAssumption
  DEF BeginListing, Leave, Connect
<1> QED
  BY <1>1, <1>2, <1>3, <1>4, <1>5, <1>6, <1>7, <1>8, <1>9, <1>10, <1>11
  DEF Step, Request, Work, Post

\* No step takes the player from a client of a game that is being posted.
LEMMA PostStep ==
  ASSUME ShapeOK, PostsHavePlayers, LoginsAreUnderWay, NEW c \in Clients, Step(c)
  PROVE  PostsHavePlayers'
<1> USE DEF ShapeOK, PostsHavePlayers, LoginsAreUnderWay, At, Goto, playerVars, postVars,
        listVars, PostSteps, LoginSteps
<1>1. ASSUME NEW p \in Players, Register(c, p) PROVE PostsHavePlayers'
  BY <1>1, DistinctAssumption DEF Register
<1>2. ASSUME NEW d \in Clients, Visit(c, d) PROVE PostsHavePlayers'
  BY <1>2, DistinctAssumption DEF Visit, CountUp
<1>3. ASSUME NEW e \in roll[c], ShowRating(c, e) PROVE PostsHavePlayers'
  BY <1>3, DistinctAssumption DEF ShowRating, CountDown
<1>4. ASSUME NEW d \in Clients, BeginPost(c, d) PROVE PostsHavePlayers'
  BY <1>4, DistinctAssumption DEF BeginPost
<1>5. CASE Login(c)
  BY <1>5, DistinctAssumption
  DEF Login, CountUp
<1>6. CASE LoginFails(c) \/ AfterLogin(c)
  BY <1>6, DistinctAssumption
  DEF LoginFails, AfterLogin, CountDown
<1>7. CASE EndListing(c)
  BY <1>7, DistinctAssumption
  DEF EndListing
<1>8. CASE EndPrinting(c)
  BY <1>8, DistinctAssumption
  DEF EndPrinting
<1>9. CASE LockFirst(c)
  BY <1>9, DistinctAssumption
  DEF LockFirst
<1>10. CASE LockSecond(c)
  BY <1>10, DistinctAssumption
  DEF LockSecond, CanLock
<1>11. CASE Compute(c)
  BY <1>11, DistinctAssumption
  DEF Compute
<1>12. CASE PayFirst(c)
  BY <1>12, DistinctAssumption
  DEF PayFirst
<1>13. CASE PaySecond(c)
  BY <1>13, DistinctAssumption
  DEF PaySecond
<1>14. CASE UnlockSecond(c)
  BY <1>14, DistinctAssumption
  DEF UnlockSecond, Unlock
<1>15. CASE UnlockFirst(c)
  BY <1>15, DistinctAssumption
  DEF UnlockFirst, Unlock
<1>16. CASE FreeClient(c)
  BY <1>16, DistinctAssumption
  DEF FreeClient, CountDown
<1>17. CASE BeginListing(c)
  BY <1>17, DistinctAssumption
  DEF BeginListing
<1>18. CASE Leave(c) \/ Connect(c)
  BY <1>18, DistinctAssumption
  DEF Leave, Connect
<1> QED
  BY <1>1, <1>2, <1>3, <1>4, <1>5, <1>6, <1>7, <1>8, <1>9, <1>10, <1>11, <1>12, <1>13,
     <1>14, <1>15, <1>16, <1>17, <1>18
  DEF Step, Request, Work, Post

(***************************************************************************)
(* The mutexes, and the ratings read under them.                           *)
(***************************************************************************)

\* While a thread posts, the order of its two players does not change.
LEMMA OrderStep ==
  ASSUME ShapeOK, PostsHavePlayers, LoginsAreUnderWay, NEW c \in Clients, Step(c),
         NEW d \in Clients, pc[d] \in PostSteps, pc'[d] \in PostSteps
  PROVE  First(d)' = First(d) /\ Second(d)' = Second(d)
<1> DEFINE Kept == /\ opponent'[d] = opponent[d] /\ player'[d] = player[d]
                   /\ player'[opponent[d]] = player[opponent[d]]
<1> SUFFICES Kept
  BY OrderKept
<1> USE DEF ShapeOK, PostsHavePlayers, LoginsAreUnderWay, At, Goto, playerVars, postVars,
        listVars, PostSteps, LoginSteps
<1>1. ASSUME NEW p \in Players, Register(c, p) PROVE Kept
  BY <1>1 DEF Register
<1>2. CASE Login(c)
  BY <1>2, DistinctAssumption DEF Login
<1>3. CASE \/ LoginFails(c) \/ AfterLogin(c) \/ BeginListing(c) \/ EndListing(c)
           \/ EndPrinting(c) \/ Leave(c) \/ Connect(c)
  BY <1>3 DEF LoginFails, AfterLogin, BeginListing, EndListing, EndPrinting, Leave, Connect
<1>4. ASSUME NEW e \in Clients, Visit(c, e) PROVE Kept
  BY <1>4 DEF Visit
<1>5. ASSUME NEW e \in roll[c], ShowRating(c, e) PROVE Kept
  BY <1>5 DEF ShowRating
<1>6. ASSUME NEW e \in Clients, BeginPost(c, e) PROVE Kept
  BY <1>6 DEF BeginPost
<1>7. CASE LockFirst(c) \/ LockSecond(c) \/ Compute(c) \/ PayFirst(c) \/ PaySecond(c)
  BY <1>7 DEF LockFirst, LockSecond, Compute, PayFirst, PaySecond
<1>8. CASE UnlockSecond(c) \/ UnlockFirst(c)
  BY <1>8 DEF UnlockSecond, UnlockFirst
<1>9. CASE FreeClient(c)
  BY <1>9 DEF FreeClient
<1> QED
  BY <1>1, <1>2, <1>3, <1>4, <1>5, <1>6, <1>7, <1>8, <1>9 DEF Step, Request, Work, Post

\* A step that is not one of posting touches no mutex, no rating and no stake, and
\* takes no thread further into player_post_result() than its beginning.
LEMMA NotPosting ==
  ASSUME ShapeOK, NEW c \in Clients, Step(c), ~Post(c)
  PROVE  /\ UNCHANGED <<rating, lock, gain, seen, sunk>>
         /\ pc[c] \notin PostSteps
         /\ pc'[c] \notin PostSteps \ {"posting"}
         /\ \A d \in Clients \ {c} : pc'[d] = pc[d]
         /\ \/ \E d \in Clients : BeginPost(c, d)
            \/ results' = results /\ pc'[c] \notin PostSteps
<1> DEFINE Quiet == /\ UNCHANGED <<rating, lock, gain, seen, sunk>>
                    /\ pc[c] \notin PostSteps
                    /\ pc'[c] \notin PostSteps \ {"posting"}
                    /\ \A d \in Clients \ {c} : pc'[d] = pc[d]
                    /\ \/ \E d \in Clients : BeginPost(c, d)
                       \/ results' = results /\ pc'[c] \notin PostSteps
<1> SUFFICES Quiet
  OBVIOUS
<1> USE DEF ShapeOK, At, Goto, playerVars, postVars, listVars, PostSteps
<1>1. ASSUME NEW p \in Players, Register(c, p) PROVE Quiet
  BY <1>1 DEF Register
<1>2. CASE Login(c) \/ LoginFails(c) \/ AfterLogin(c) \/ FreeClient(c)
  BY <1>2 DEF Login, LoginFails, AfterLogin, FreeClient
<1>3. CASE BeginListing(c) \/ EndListing(c) \/ EndPrinting(c) \/ Leave(c) \/ Connect(c)
  BY <1>3 DEF BeginListing, EndListing, EndPrinting, Leave, Connect
<1>4. ASSUME NEW e \in Clients, Visit(c, e) PROVE Quiet
  BY <1>4 DEF Visit
<1>5. ASSUME NEW e \in roll[c], ShowRating(c, e) PROVE Quiet
  BY <1>5 DEF ShowRating
<1>6. ASSUME NEW e \in Clients, BeginPost(c, e) PROVE Quiet
  BY <1>6 DEF BeginPost
<1> QED
  BY <1>1, <1>2, <1>3, <1>4, <1>5, <1>6 DEF Step, Request, Work

\* What a step leaves of the mutexes of a thread: all of them, if it does not take
\* the thread over one of the borders at which it takes or returns one.
LEMMA OwnsKept ==
  ASSUME ShapeOK, PostsHavePlayers, LoginsAreUnderWay, NEW c \in Clients, Step(c),
         NEW d \in Clients, HoldsFirst(d)' <=> HoldsFirst(d),
         HoldsSecond(d)' <=> HoldsSecond(d)
  PROVE  /\ \A p \in Players : Owns(d, p)' <=> Owns(d, p)
         /\ HoldsSecond(d) => First(d)' = First(d) /\ Second(d)' = Second(d)
<1>1. HoldsSecond(d) => HoldsFirst(d)
  BY DEF HoldsFirst, HoldsSecond, PostSteps
<1>2. HoldsFirst(d) => First(d)' = First(d) /\ Second(d)' = Second(d)
  <2>1. HoldsFirst(d) => pc[d] \in PostSteps /\ pc'[d] \in PostSteps
    BY DEF HoldsFirst
  <2> QED
    BY <2>1, OrderStep
<1> QED
  BY <1>1, <1>2 DEF Owns

\* Mutexes are taken and returned by the threads that the positions say.
LEMMA MutexStep ==
  ASSUME ShapeOK, PostsHavePlayers, LoginsAreUnderWay, MutexesAreOwned,
         NEW c \in Clients, Step(c)
  PROVE  MutexesAreOwned'
<1> DEFINE Same(d) == (HoldsFirst(d)' <=> HoldsFirst(d)) /\ (HoldsSecond(d)' <=> HoldsSecond(d))
<1>1. ASSUME lock' = lock, \A d \in Clients : Same(d)
      PROVE  MutexesAreOwned'
  BY <1>1, OwnsKept DEF MutexesAreOwned
<1>2. CASE ~Post(c)
  BY <1>1, <1>2, NotPosting DEF HoldsFirst, HoldsSecond
<1>3. CASE Compute(c) \/ PayFirst(c) \/ PaySecond(c)
  <2>1. lock' = lock /\ \A d \in Clients : Same(d)
    BY <1>3 DEF Compute, PayFirst, PaySecond, HoldsFirst, HoldsSecond, PostSteps, At, Goto,
      playerVars, ShapeOK
  <2> QED
    BY <1>1, <2>1
<1>4. ASSUME LockFirst(c) \/ LockSecond(c) \/ UnlockSecond(c) \/ UnlockFirst(c)
      PROVE  /\ \A d \in Clients \ {c} : /\ \A p \in Players : Owns(d, p)' <=> Owns(d, p)
                                         /\ HoldsSecond(d)' => First(d)' # Second(d)'
             /\ First(c) \in Players /\ Second(c) \in Players
             /\ ~UnlockFirst(c) => First(c)' = First(c) /\ Second(c)' = Second(c)
  <2>1. pc[c] \in PostSteps /\ (~UnlockFirst(c) => pc'[c] \in PostSteps)
    BY <1>4 DEF LockFirst, LockSecond, UnlockSecond, UnlockFirst, PostSteps, At, Goto, ShapeOK
  <2>2. ASSUME NEW d \in Clients \ {c} PROVE Same(d)
    BY <1>4 DEF LockFirst, LockSecond, UnlockSecond, UnlockFirst, Goto, ShapeOK, HoldsFirst,
      HoldsSecond
  <2> QED
    BY <2>1, <2>2, NamesInOrder, OrderStep, OwnsKept DEF MutexesAreOwned
<1>5. CASE LockFirst(c)
  <2>1. /\ lock' = [lock EXCEPT ![First(c)] = c] /\ pc[c] = "posting" /\ pc'[c] = "lockedOne"
        /\ lock[First(c)] = NULL
    BY <1>5 DEF LockFirst, Unlocked, At, Goto, ShapeOK
  <2>2. First(c)' = First(c) /\ Second(c)' = Second(c)
    BY <1>4, <1>5, <2>1 DEF UnlockFirst, At
  <2>3. ASSUME NEW p \in Players
        PROVE  ~Owns(c, p) /\ (Owns(c, p)' <=> p = First(c))
    BY <2>1, <2>2 DEF Owns, HoldsFirst, HoldsSecond, PostSteps
  <2>5. HoldsSecond(c)' => First(c)' # Second(c)'
    BY <2>1 DEF HoldsSecond, PostSteps
  <2>6. ASSUME NEW d \in Clients, NEW p \in Players
        PROVE  lock'[p] = d <=> Owns(d, p)'
    <3>1. lock[p] = d <=> Owns(d, p)
      BY DEF MutexesAreOwned
    <3>2. lock'[p] = IF p = First(c) THEN c ELSE lock[p]
      BY <2>1 DEF ShapeOK
    <3>3. lock[p] = c <=> Owns(c, p)
      BY DEF MutexesAreOwned
    <3>4. d # c => (Owns(d, p)' <=> Owns(d, p))
      BY <1>4, <1>5
    <3>5. CASE d = c
      BY <2>1, <2>3, <3>1, <3>2, <3>5, DistinctAssumption
    <3>6. CASE d # c
      BY <2>1, <2>3, <3>1, <3>2, <3>3, <3>4, <3>6, DistinctAssumption
    <3> QED
      BY <3>5, <3>6
  <2> QED
    BY <1>4, <1>5, <2>5, <2>6 DEF MutexesAreOwned
<1>6. CASE LockSecond(c)
  <2>1. /\ lock' = [lock EXCEPT ![Second(c)] = c] /\ pc[c] = "lockedOne" /\ pc'[c] = "lockedBoth"
        /\ lock[Second(c)] = NULL
    BY <1>6 DEF LockSecond, CanLock, Unlocked, At, Goto, ShapeOK
  <2>2. First(c)' = First(c) /\ Second(c)' = Second(c)
    BY <1>4, <1>6, <2>1 DEF UnlockFirst, At
  <2>3. ASSUME NEW p \in Players
        PROVE  (Owns(c, p) <=> p = First(c)) /\ (Owns(c, p)' <=> p \in {First(c), Second(c)})
    BY <2>1, <2>2 DEF Owns, HoldsFirst, HoldsSecond, PostSteps
  <2>4. First(c) # Second(c)
    BY <1>4, <1>6, <2>1, <2>3, DistinctAssumption DEF MutexesAreOwned
  <2>5. HoldsSecond(c)' => First(c)' # Second(c)'
    BY <2>2, <2>4
  <2>6. ASSUME NEW d \in Clients, NEW p \in Players
        PROVE  lock'[p] = d <=> Owns(d, p)'
    <3>1. lock[p] = d <=> Owns(d, p)
      BY DEF MutexesAreOwned
    <3>2. lock'[p] = IF p = Second(c) THEN c ELSE lock[p]
      BY <2>1 DEF ShapeOK
    <3>3. lock[p] = c <=> Owns(c, p)
      BY DEF MutexesAreOwned
    <3>4. d # c => (Owns(d, p)' <=> Owns(d, p))
      BY <1>4, <1>6
    <3>5. CASE d = c
      BY <2>1, <2>3, <2>4, <3>1, <3>2, <3>5, DistinctAssumption
    <3>6. CASE d # c
      BY <2>1, <2>3, <3>1, <3>2, <3>3, <3>4, <3>6, DistinctAssumption
    <3> QED
      BY <3>5, <3>6
  <2> QED
    BY <1>4, <1>6, <2>5, <2>6 DEF MutexesAreOwned
<1>7. CASE UnlockSecond(c)
  <2>1. /\ lock' = [lock EXCEPT ![Second(c)] = NULL] /\ pc[c] = "paidBoth" /\ pc'[c] = "releasing"
    BY <1>7 DEF UnlockSecond, Unlock, At, Goto, ShapeOK
  <2>2. First(c)' = First(c) /\ Second(c)' = Second(c)
    BY <1>4, <1>7, <2>1 DEF UnlockFirst, At
  <2>3. ASSUME NEW p \in Players
        PROVE  (Owns(c, p) <=> p \in {First(c), Second(c)}) /\ (Owns(c, p)' <=> p = First(c))
    BY <2>1, <2>2 DEF Owns, HoldsFirst, HoldsSecond, PostSteps
  <2>4. First(c) # Second(c)
    BY <2>1 DEF MutexesAreOwned, HoldsSecond, PostSteps
  <2>5. HoldsSecond(c)' => First(c)' # Second(c)'
    BY <2>1 DEF HoldsSecond, PostSteps
  <2>6. ASSUME NEW d \in Clients, NEW p \in Players
        PROVE  lock'[p] = d <=> Owns(d, p)'
    <3>1. lock[p] = d <=> Owns(d, p)
      BY DEF MutexesAreOwned
    <3>2. lock'[p] = IF p = Second(c) THEN NULL ELSE lock[p]
      BY <2>1 DEF ShapeOK
    <3>3. lock[p] = c <=> Owns(c, p)
      BY DEF MutexesAreOwned
    <3>4. d # c => (Owns(d, p)' <=> Owns(d, p))
      BY <1>4, <1>7
    <3>5. CASE d = c
      BY <2>1, <2>3, <2>4, <3>1, <3>2, <3>5, DistinctAssumption
    <3>6. CASE d # c
      BY <2>1, <2>3, <3>1, <3>2, <3>3, <3>4, <3>6, DistinctAssumption
    <3> QED
      BY <3>5, <3>6
  <2> QED
    BY <1>4, <1>7, <2>5, <2>6 DEF MutexesAreOwned
<1>8. CASE UnlockFirst(c)
  <2>1. /\ lock' = [lock EXCEPT ![First(c)] = NULL] /\ pc[c] = "releasing" /\ pc'[c] = "serving"
    BY <1>8 DEF UnlockFirst, Unlock, At, Goto, ShapeOK
  <2>3. ASSUME NEW p \in Players
        PROVE  (Owns(c, p) <=> p = First(c)) /\ ~Owns(c, p)'
    BY <2>1 DEF Owns, HoldsFirst, HoldsSecond, PostSteps
  <2>5. HoldsSecond(c)' => First(c)' # Second(c)'
    BY <2>1 DEF HoldsSecond, PostSteps
  <2>6. ASSUME NEW d \in Clients, NEW p \in Players
        PROVE  lock'[p] = d <=> Owns(d, p)'
    <3>1. lock[p] = d <=> Owns(d, p)
      BY DEF MutexesAreOwned
    <3>2. lock'[p] = IF p = First(c) THEN NULL ELSE lock[p]
      BY <2>1 DEF ShapeOK
    <3>3. lock[p] = c <=> Owns(c, p)
      BY DEF MutexesAreOwned
    <3>4. d # c => (Owns(d, p)' <=> Owns(d, p))
      BY <1>4, <1>8
    <3>5. CASE d = c
      BY <2>1, <2>3, <3>1, <3>2, <3>5, DistinctAssumption
    <3>6. CASE d # c
      BY <2>1, <2>3, <3>1, <3>2, <3>3, <3>4, <3>6, DistinctAssumption
    <3> QED
      BY <3>5, <3>6
  <2> QED
    BY <1>4, <1>8, <2>5, <2>6 DEF MutexesAreOwned
<1> QED
  BY <1>2, <1>3, <1>5, <1>6, <1>7, <1>8 DEF Post

\* A rating is written only by the thread that holds its mutex, so nobody else has
\* read it and is still to write it.
LEMMA SeenStep ==
  ASSUME ShapeOK, PostsHavePlayers, LoginsAreUnderWay, MutexesAreOwned, RatingsAreAsSeen,
         NEW c \in Clients, Step(c)
  PROVE  RatingsAreAsSeen'
<1> DEFINE Computed(d) == pc[d] \in {"computed", "paidOne"}
           AsSeen(d) == /\ pc[d] = "computed" => seen[d][1] = rating[First(d)]
                        /\ pc[d] \in {"computed", "paidOne"} => seen[d][2] = rating[Second(d)]
<1>1. \A d \in Clients : Computed(d) => /\ pc[d] \in PostSteps /\ HoldsFirst(d)
                                        /\ HoldsSecond(d) /\ First(d) \in Players
                                        /\ Second(d) \in Players /\ lock[First(d)] = d
                                        /\ lock[Second(d)] = d /\ First(d) # Second(d)
  BY NamesInOrder DEF HoldsFirst, HoldsSecond, PostSteps, MutexesAreOwned, Owns
<1>2. \A d \in Clients : Computed(d) /\ Computed(d)' =>
                            First(d)' = First(d) /\ Second(d)' = Second(d)
  BY OrderStep DEF PostSteps
<1>3. ASSUME UNCHANGED <<rating, seen>>,
             \A d \in Clients : Computed(d)' => pc'[d] = pc[d]
      PROVE  RatingsAreAsSeen'
  BY <1>2, <1>3 DEF RatingsAreAsSeen
<1>4. CASE ~Post(c)
  <2>1. UNCHANGED <<rating, seen>> /\ \A d \in Clients : Computed(d)' => pc'[d] = pc[d]
    BY <1>4, NotPosting DEF PostSteps
  <2> QED
    BY <1>3, <2>1
<1>5. CASE LockFirst(c) \/ LockSecond(c) \/ UnlockSecond(c) \/ UnlockFirst(c)
  <2>1. \A d \in Clients : Computed(d)' => pc'[d] = pc[d] /\ d # c
    BY <1>5 DEF LockFirst, LockSecond, UnlockSecond, UnlockFirst, At, Goto, ShapeOK
  <2>2. rating' = rating /\ \A d \in Clients \ {c} : seen'[d] = seen[d]
    BY <1>5 DEF LockFirst, LockSecond, UnlockSecond, UnlockFirst, postVars, ShapeOK
  <2> QED
    BY <1>2, <2>1, <2>2 DEF RatingsAreAsSeen
<1>6. CASE Compute(c)
  <2>1. /\ rating' = rating /\ pc' = [pc EXCEPT ![c] = "computed"]
        /\ seen' = [seen EXCEPT ![c] = <<rating[First(c)], rating[Second(c)]>>]
        /\ pc[c] = "lockedBoth"
    BY <1>6 DEF Compute, Goto, At, playerVars
  <2>2. First(c)' = First(c) /\ Second(c)' = Second(c)
    BY <2>1, OrderStep DEF PostSteps, ShapeOK
  <2>3. ASSUME NEW d \in Clients \ {c} PROVE AsSeen(d)'
    BY <1>2, <2>1, <2>3 DEF RatingsAreAsSeen, ShapeOK
  <2>4. AsSeen(c)'
    <3>1. seen'[c] = <<rating[First(c)], rating[Second(c)]>>
      BY <2>1 DEF ShapeOK
    <3> QED
      BY <2>1, <2>2, <3>1
  <2> QED
    BY <2>3, <2>4 DEF RatingsAreAsSeen
<1>7. CASE PayFirst(c)
  <2>1. /\ \A p \in Players \ {First(c)} : rating'[p] = rating[p]
        /\ seen' = seen /\ pc' = [pc EXCEPT ![c] = "paidOne"] /\ pc[c] = "computed"
    BY <1>7 DEF PayFirst, Goto, At, postVars, ShapeOK
  <2> QED
    BY <1>1, <1>2, <2>1 DEF RatingsAreAsSeen, ShapeOK
<1>8. CASE PaySecond(c)
  <2>1. /\ \A p \in Players \ {Second(c)} : rating'[p] = rating[p]
        /\ seen' = seen /\ pc' = [pc EXCEPT ![c] = "paidBoth"] /\ pc[c] = "paidOne"
    BY <1>8 DEF PaySecond, Goto, At, postVars, ShapeOK
  <2> QED
    BY <1>1, <1>2, <2>1 DEF RatingsAreAsSeen, ShapeOK
<1> QED
  BY <1>4, <1>5, <1>6, <1>7, <1>8 DEF Post

(***************************************************************************)
(* The reference counts.                                                   *)
(***************************************************************************)

\* The number of pointers to a player outside the player registry.
Pointers(p) ==
  Cardinality(LoggedInAs(p)) + Cardinality(LoggingInAs(p)) + Cardinality(ListedBy(p))

\* What RefsAreExact says of one player.
Exact(r, n) == r = n + (IF r = 0 THEN 0 ELSE 1)

\* There are finitely many pointers to each player.
LEMMA PointersAreFinite ==
  ASSUME ShapeOK, NEW p
  PROVE  /\ IsFiniteSet(LoggedInAs(p)) /\ Cardinality(LoggedInAs(p)) \in Nat
         /\ IsFiniteSet(LoggingInAs(p)) /\ Cardinality(LoggingInAs(p)) \in Nat
         /\ IsFiniteSet(ListedBy(p)) /\ Cardinality(ListedBy(p)) \in Nat
<1>1. IsFiniteSet(Clients) /\ IsFiniteSet(Clients \X Clients)
  BY ClientsAssumption, FS_Product
<1>2. /\ LoggedInAs(p) \subseteq Clients /\ LoggingInAs(p) \subseteq Clients
      /\ ListedBy(p) \subseteq Clients \X Clients
  BY DEF LoggedInAs, LoggingInAs, ListedBy
<1> QED
  BY <1>1, <1>2, FS_Subset, FS_CardinalityType

\* A pointer more and a pointer less, in a finite set of them.
LEMMA PointerTaken ==
  ASSUME NEW S, IsFiniteSet(S), NEW x
  PROVE  /\ x \notin S => Cardinality(S \cup {x}) = Cardinality(S) + 1
         /\ x \in S => Cardinality(S \ {x}) = Cardinality(S) - 1 /\ Cardinality(S) > 0
<1>1. x \notin S => Cardinality(S \cup {x}) = Cardinality(S) + 1
  BY FS_AddElement
<1>2. x \in S => Cardinality(S \ {x}) = Cardinality(S) - 1
  BY FS_RemoveElement
<1>3. Cardinality(S) \in Nat /\ (Cardinality(S) = 0 <=> S = {})
  BY FS_CardinalityType, FS_EmptySet
<1> QED
  BY <1>1, <1>2, <1>3

\* A count that is exact stays so when it follows its pointers; the first pointer of
\* a new player comes with that of the registry.
LEMMA CountsFollow ==
  ASSUME NEW r \in Int, NEW n \in Nat, Exact(r, n)
  PROVE  /\ n > 0 => Exact(r + 1, n + 1) /\ Exact(r - 1, n - 1)
         /\ Exact(IF r = 0 THEN 2 ELSE r + 1, n + 1)
BY DEF Exact

\* It is what RefsAreExact says of every player.
LEMMA ExactRefs == RefsAreExact <=> \A p \in Players : Exact(refs[p], Pointers(p))
BY DEF RefsAreExact, Exact, Pointers

\* Every pointer that is taken is counted, and every one given up is counted off.
LEMMA CountStep ==
  ASSUME ShapeOK, LoginsAreUnderWay, RollsAreOfVisited, RefsAreExact,
         NEW c \in Clients, Step(c)
  PROVE  RefsAreExact'
<1> SUFFICES ASSUME NEW p \in Players PROVE Exact(refs'[p], Pointers(p)')
  BY DEF RefsAreExact, Exact, Pointers
<1> DEFINE a == Cardinality(LoggedInAs(p))
           b == Cardinality(LoggingInAs(p))
           l == Cardinality(ListedBy(p))
<1>1. /\ refs[p] \in Int /\ a \in Nat /\ b \in Nat /\ l \in Nat
      /\ Pointers(p) \in Nat /\ Exact(refs[p], Pointers(p))
      /\ Pointers(p) = a + b + l
  BY PointersAreFinite DEF RefsAreExact, Exact, Pointers, ShapeOK
<1>2. ASSUME UNCHANGED <<refs, player, name, roll>>
      PROVE  Exact(refs'[p], Pointers(p)')
  BY <1>1, <1>2 DEF Pointers, LoggedInAs, LoggingInAs, ListedBy
<1>3. ASSUME NEW q \in Players, Register(c, q) PROVE Exact(refs'[p], Pointers(p)')
  <2>1. /\ LoggedInAs(p)' = LoggedInAs(p) /\ ListedBy(p)' = ListedBy(p)
        /\ LoggingInAs(p)' = IF p = q THEN LoggingInAs(p) \cup {c} ELSE LoggingInAs(p)
        /\ c \notin LoggingInAs(p)
    <3>1. name[c] = NULL /\ UNCHANGED <<player, roll>> /\ name' = [name EXCEPT ![c] = q]
      BY <1>3 DEF Register, listVars, LoginsAreUnderWay, LoginSteps, At
    <3> QED
      BY <3>1, DistinctAssumption DEF LoggedInAs, LoggingInAs, ListedBy, ShapeOK
  <2>2. refs'[p] = IF p = q THEN IF refs[p] = 0 THEN 2 ELSE refs[p] + 1 ELSE refs[p]
    BY <1>3 DEF Register, ShapeOK
  <2>3. Pointers(p)' = IF p = q THEN Pointers(p) + 1 ELSE Pointers(p)
    BY <1>1, <2>1, PointersAreFinite, PointerTaken DEF Pointers
  <2> QED
    BY <1>1, <2>2, <2>3, CountsFollow
<1>4. CASE Login(c)
  <2>0. PICK q \in Players : q = name[c]
    BY <1>4 DEF Login, LoginsAreUnderWay, LoginSteps, At, ShapeOK
  <2>1. /\ LoggingInAs(p)' = LoggingInAs(p) /\ ListedBy(p)' = ListedBy(p)
        /\ LoggedInAs(p)' = IF p = q THEN LoggedInAs(p) \cup {c} ELSE LoggedInAs(p)
        /\ c \notin LoggedInAs(p) /\ (p = q => c \in LoggingInAs(p))
    BY <1>4, <2>0, DistinctAssumption DEF Login, listVars, LoggedInAs, LoggingInAs, ListedBy,
      LoginsAreUnderWay, LoginSteps, At, ShapeOK
  <2>2. refs'[p] = IF p = q THEN refs[p] + 1 ELSE refs[p]
    BY <1>4, <2>0 DEF Login, CountUp, ShapeOK
  <2>3. /\ Pointers(p)' = IF p = q THEN Pointers(p) + 1 ELSE Pointers(p)
        /\ p = q => Pointers(p) > 0
    <3>1. Cardinality(LoggedInAs(p) \cup {c}) = Cardinality(LoggedInAs(p)) + 1
      BY <2>1, PointersAreFinite, PointerTaken
    <3>2. p = q => Cardinality(LoggingInAs(p)) > 0
      BY <2>1, PointersAreFinite, PointerTaken
    <3> QED
      BY <1>1, <2>1, <3>1, <3>2 DEF Pointers
  <2> QED
    BY <1>1, <2>2, <2>3, CountsFollow
<1>5. CASE AfterLogin(c)
  <2>0. PICK q \in Players : q = name[c]
    BY <1>5 DEF AfterLogin, LoginsAreUnderWay, LoginSteps, At, ShapeOK
  <2>1. /\ LoggedInAs(p)' = LoggedInAs(p) /\ ListedBy(p)' = ListedBy(p)
        /\ LoggingInAs(p)' = IF p = q THEN LoggingInAs(p) \ {c} ELSE LoggingInAs(p)
        /\ p = q => c \in LoggingInAs(p)
    BY <1>5, <2>0, DistinctAssumption DEF AfterLogin, listVars, LoggedInAs, LoggingInAs, ListedBy,
      ShapeOK
  <2>2. refs'[p] = IF p = q THEN refs[p] - 1 ELSE refs[p]
    BY <1>5, <2>0 DEF AfterLogin, CountDown, ShapeOK
  <2>3. /\ Pointers(p)' = IF p = q THEN Pointers(p) - 1 ELSE Pointers(p)
        /\ p = q => Pointers(p) > 0
    BY <1>1, <2>1, PointersAreFinite, PointerTaken DEF Pointers
  <2> QED
    BY <1>1, <2>2, <2>3, CountsFollow
<1>6. ASSUME NEW d \in Clients, Visit(c, d) PROVE Exact(refs'[p], Pointers(p)')
  <2>1. CASE player[d] = NULL
    BY <1>2, <1>6, <2>1 DEF Visit
  <2>2. CASE player[d] # NULL
    <3>0. PICK q \in Players : q = player[d]
      BY <2>2 DEF ShapeOK
    <3>1. /\ LoggedInAs(p)' = LoggedInAs(p) /\ LoggingInAs(p)' = LoggingInAs(p)
          /\ p = q => d \in LoggedInAs(p)
      BY <1>6, <3>0 DEF Visit, LoggedInAs, LoggingInAs
    <3>2. /\ ListedBy(p)' = IF p = q THEN ListedBy(p) \cup {<<c, d>>} ELSE ListedBy(p)
          /\ <<c, d>> \notin ListedBy(p)
      BY <1>6, <2>2, <3>0 DEF Visit, ListedBy, RollsAreOfVisited, ShapeOK
    <3>3. refs'[p] = IF p = q THEN refs[p] + 1 ELSE refs[p]
      BY <1>6, <2>2, <3>0 DEF Visit, CountUp, ShapeOK
    <3>4. /\ Pointers(p)' = IF p = q THEN Pointers(p) + 1 ELSE Pointers(p)
          /\ p = q => Pointers(p) > 0
      <4>1. Cardinality(ListedBy(p) \cup {<<c, d>>}) = Cardinality(ListedBy(p)) + 1
        BY <3>2, PointersAreFinite, PointerTaken
      <4>2. p = q => Cardinality(LoggedInAs(p)) > 0
        BY <3>1, PointersAreFinite, PointerTaken
      <4> QED
        BY <1>1, <3>1, <3>2, <4>1, <4>2 DEF Pointers
    <3> QED
      BY <1>1, <3>3, <3>4, CountsFollow
  <2> QED
    BY <2>1, <2>2
<1>7. ASSUME NEW e \in roll[c], ShowRating(c, e) PROVE Exact(refs'[p], Pointers(p)')
  <2>1. PICK d \in Clients, q \in Players : e = <<d, q>>
    BY DEF ShapeOK
  <2>2. LoggedInAs(p)' = LoggedInAs(p) /\ LoggingInAs(p)' = LoggingInAs(p)
    BY <1>7 DEF ShowRating, LoggedInAs, LoggingInAs
  <2>3. /\ ListedBy(p)' = IF p = q THEN ListedBy(p) \ {<<c, d>>} ELSE ListedBy(p)
        /\ p = q => <<c, d>> \in ListedBy(p)
    <3>1. roll' = [roll EXCEPT ![c] = @ \ {<<d, q>>}] /\ <<d, q>> \in roll[c]
      BY <1>7, <2>1 DEF ShowRating
    <3>2. ASSUME NEW f \in Clients \X Clients
          PROVE  <<f[2], p>> \in roll'[f[1]] <=>
                   <<f[2], p>> \in roll[f[1]] /\ ~(p = q /\ f = <<c, d>>)
      BY <3>1 DEF ShapeOK
    <3> QED
      BY <3>1, <3>2 DEF ListedBy
  <2>4. refs'[p] = IF p = q THEN refs[p] - 1 ELSE refs[p]
    BY <1>7, <2>1 DEF ShowRating, CountDown, ShapeOK
  <2>5. /\ Pointers(p)' = IF p = q THEN Pointers(p) - 1 ELSE Pointers(p)
        /\ p = q => Pointers(p) > 0
    BY <1>1, <2>2, <2>3, PointersAreFinite, PointerTaken DEF Pointers
  <2> QED
    BY <1>1, <2>4, <2>5, CountsFollow
<1>8. CASE FreeClient(c)
  <2>0. PICK q \in Players : q = player[c]
    BY <1>8 DEF FreeClient, ShapeOK
  <2>1. /\ LoggingInAs(p)' = LoggingInAs(p) /\ ListedBy(p)' = ListedBy(p)
        /\ LoggedInAs(p)' = IF p = q THEN LoggedInAs(p) \ {c} ELSE LoggedInAs(p)
        /\ p = q => c \in LoggedInAs(p)
    BY <1>8, <2>0, DistinctAssumption DEF FreeClient, listVars, LoggedInAs, LoggingInAs, ListedBy,
      ShapeOK
  <2>2. refs'[p] = IF p = q THEN refs[p] - 1 ELSE refs[p]
    BY <1>8, <2>0 DEF FreeClient, CountDown, ShapeOK
  <2>3. /\ Pointers(p)' = IF p = q THEN Pointers(p) - 1 ELSE Pointers(p)
        /\ p = q => Pointers(p) > 0
    BY <1>1, <2>1, PointersAreFinite, PointerTaken DEF Pointers
  <2> QED
    BY <1>1, <2>2, <2>3, CountsFollow
<1>9. CASE \/ LoginFails(c) \/ BeginListing(c) \/ EndListing(c) \/ EndPrinting(c)
           \/ Leave(c) \/ Connect(c)
  BY <1>2, <1>9 DEF LoginFails, BeginListing, EndListing, EndPrinting, Leave, Connect,
    playerVars, listVars
<1>10. CASE Post(c) \/ \E d \in Clients : BeginPost(c, d)
  BY <1>2, <1>10 DEF Post, BeginPost, LockFirst, LockSecond, Compute, PayFirst, PaySecond,
    UnlockSecond, UnlockFirst, playerVars, listVars
<1> QED
  BY <1>3, <1>4, <1>5, <1>6, <1>7, <1>8, <1>9, <1>10 DEF Step, Request, Work

(***************************************************************************)
(* The balance of the ratings.                                             *)
(***************************************************************************)

\* What is still to be paid to all players.
AllOwed == [c \in Clients |-> Owed(c)]

\* Ratings and points are whole numbers, and so are their sums.
LEMMA SumsAreWhole ==
  ASSUME NEW S, IsFiniteSet(S), NEW f \in [S -> Int]
  PROVE  SumFunction(f) \in Int
<1>1. SumFunctionOnSet(f, S) \in Int
  BY SumOnSet
<1>2. DOMAIN f = S
  OBVIOUS
<1> QED
  BY <1>1, <1>2 DEF SumFunction

\* What a thread owes is a whole number, and so it is after a step.
LEMMA OwedIsWhole ==
  /\ ShapeOK => AllOwed \in [Clients -> Int]
  /\ ShapeOK' => AllOwed' \in [Clients -> Int]
<1>1. ASSUME NEW g \in [Clients -> Int \X Int], NEW c \in Clients
      PROVE  g[c][1] + g[c][2] \in Int /\ g[c][2] \in Int
  <2>1. g[c] \in Int \X Int
    OBVIOUS
  <2> QED
    BY <2>1
<1> QED
  BY <1>1 DEF ShapeOK, AllOwed, Owed

\* So is the balance.
LEMMA BalanceIsWhole ==
  ASSUME ShapeOK
  PROVE  /\ Balance = SumFunction(rating) + SumFunction(AllOwed)
         /\ SumFunction(rating) \in Int /\ SumFunction(AllOwed) \in Int
<1>1. rating \in [Players -> Int] /\ AllOwed \in [Clients -> Int]
  BY OwedIsWhole DEF ShapeOK
<1> QED
  BY <1>1, SumsAreWhole, PlayersAssumption, ClientsAssumption DEF Balance, AllOwed

\* Before the first result nothing is owed and the ratings are those everyone starts with.
LEMMA BalanceInit == Init => BalanceInv
<1> SUFFICES ASSUME Init PROVE BalanceInv
  OBVIOUS
<1>1. /\ rating \in [Players -> Int] /\ rating = [p \in Players |-> PLAYER_INITIAL_RATING]
      /\ \A c \in Clients : Owed(c) = 0
      /\ NotComputed = {} /\ results = 0 /\ sunk = 0
  BY RatingAssumption DEF Init, Owed, NotComputed
<1>2. AllOwed \in [Clients -> Int] /\ \A c \in Clients : AllOwed[c] = 0
  BY <1>1 DEF AllOwed
<1>3. SumFunction(AllOwed) = 0
  BY <1>2, SumOfZeros, ClientsAssumption
<1>4. SumFunction(rating) = Pool /\ Pool \in Int
  BY <1>1, SumsAreWhole, PlayersAssumption DEF Pool
<1>5. Balance = Pool
  BY <1>3, <1>4 DEF Balance, AllOwed
<1>6. Cardinality(NotComputed) = 0
  BY <1>1, FS_EmptySet
<1> QED
  BY <1>1, <1>4, <1>5, <1>6 DEF BalanceInv

\* The sum of the ratings moves as the one that is written.
LEMMA RatingsMove ==
  \A f, g \in [Players -> Int], p \in Players :
    (\A q \in Players : q # p => f[q] = g[q]) =>
      SumFunction(g) = SumFunction(f) + g[p] - f[p]
<1>1. IsFiniteSet(Players)
  BY PlayersAssumption
<1> QED
  BY <1>1, SumOfChanged

\* A rating that is written, and what one thread owes that is, move the balance by the
\* difference.
LEMMA BalanceMoves ==
  ASSUME ShapeOK, ShapeOK', NEW c \in Clients,
         \A d \in Clients \ {c} : Owed(d)' = Owed(d)
  PROVE  /\ rating' = rating => Balance' = Balance + Owed(c)' - Owed(c)
         /\ \A p \in Players : (\A q \in Players \ {p} : rating'[q] = rating[q]) =>
              Balance' = Balance + rating'[p] - rating[p] + Owed(c)' - Owed(c)
<1>1. /\ rating \in [Players -> Int] /\ rating' \in [Players -> Int]
      /\ AllOwed \in [Clients -> Int] /\ AllOwed' \in [Clients -> Int]
  <2>1. AllOwed \in [Clients -> Int]
    BY OwedIsWhole
  <2>2. AllOwed' \in [Clients -> Int]
    BY OwedIsWhole
  <2> QED
    BY <2>1, <2>2 DEF ShapeOK
<1>2. /\ Balance = SumFunction(rating) + SumFunction(AllOwed)
      /\ Balance' = SumFunction(rating') + SumFunction(AllOwed')
      /\ SumFunction(rating) \in Int /\ SumFunction(AllOwed) \in Int
      /\ SumFunction(rating') \in Int /\ SumFunction(AllOwed') \in Int
  <2>1. SumFunction(rating') \in Int /\ SumFunction(AllOwed') \in Int
    BY <1>1, SumsAreWhole, PlayersAssumption, ClientsAssumption
  <2> QED
    BY <2>1, BalanceIsWhole DEF Balance, AllOwed
<1>3. /\ AllOwed[c] = Owed(c) /\ AllOwed'[c] = Owed(c)'
      /\ \A d \in Clients : d # c => AllOwed[d] = AllOwed'[d]
  BY DEF AllOwed
<1>4. SumFunction(AllOwed') = SumFunction(AllOwed) + Owed(c)' - Owed(c)
  BY <1>1, <1>3, SumOfChanged, ClientsAssumption
<1>5. Owed(c) \in Int /\ Owed(c)' \in Int
  BY <1>1, <1>3
<1>6. rating' = rating => Balance' = Balance + Owed(c)' - Owed(c)
  BY <1>2, <1>4, <1>5
<1>7. ASSUME NEW p \in Players, \A q \in Players \ {p} : rating'[q] = rating[q]
      PROVE  Balance' = Balance + rating'[p] - rating[p] + Owed(c)' - Owed(c)
  <2>1. \A q \in Players : q # p => rating[q] = rating'[q]
    BY <1>7
  <2>2. SumFunction(rating') = SumFunction(rating) + rating'[p] - rating[p]
    BY <1>1, <2>1, RatingsMove
  <2>3. rating[p] \in Int /\ rating'[p] \in Int
    BY <1>1
  <2> QED
    BY <1>2, <1>4, <1>5, <2>2, <2>3
<1> QED
  BY <1>6, <1>7

\* Every result takes at most one point out of the balance, when it is computed, and
\* none brings one in that leaves a player above zero.
LEMMA BalanceStep ==
  ASSUME PlayerInv, ShapeOK', BalanceInv, NEW c \in Clients, Step(c)
  PROVE  BalanceInv'
<1>0. /\ ShapeOK /\ PostsHavePlayers /\ LoginsAreUnderWay /\ MutexesAreOwned
      /\ RatingsAreAsSeen /\ results \in Nat /\ sunk \in Nat
      /\ Pool \in Int /\ Pool' = Pool /\ Balance \in Int
      /\ Balance - Pool <= sunk /\ Balance - Pool >= Cardinality(NotComputed) - results
  BY DEF PlayerInv, BalanceInv, ShapeOK, Pool
<1>1. IsFiniteSet(NotComputed) /\ Cardinality(NotComputed) \in Nat
  <2>1. NotComputed \subseteq Clients
    BY DEF NotComputed
  <2> QED
    BY <2>1, ClientsAssumption, FS_Subset, FS_CardinalityType
<1>2. ASSUME Balance' = Balance, NotComputed' = NotComputed, results' = results,
             sunk' = sunk
      PROVE  BalanceInv'
  BY <1>0, <1>2 DEF BalanceInv
<1>3. ASSUME rating' = rating, Owed(c)' = Owed(c), \A d \in Clients \ {c} : Owed(d)' = Owed(d)
      PROVE  Balance' = Balance
  <2>1. Owed(c) \in Int
    BY <1>0, OwedIsWhole DEF AllOwed
  <2> QED
    BY <1>0, <1>3, <2>1, BalanceMoves
<1>4. CASE ~Post(c)
  <2>1. Balance' = Balance
    <3>1. /\ rating' = rating /\ gain' = gain
          /\ pc[c] \notin {"computed", "paidOne"} /\ pc'[c] \notin {"computed", "paidOne"}
          /\ \A d \in Clients \ {c} : pc'[d] = pc[d]
      BY <1>0, <1>4, NotPosting DEF PostSteps
    <3> QED
      BY <1>3, <3>1 DEF Owed
  <2>2. /\ pc[c] \notin PostSteps /\ \A d \in Clients \ {c} : pc'[d] = pc[d]
        /\ sunk' = sunk
    BY <1>0, <1>4, NotPosting
  <2>3. CASE results' = results /\ pc'[c] \notin PostSteps
    BY <1>2, <2>1, <2>2, <2>3 DEF NotComputed, PostSteps
  <2>4. ASSUME NEW d \in Clients, BeginPost(c, d) PROVE BalanceInv'
    <3>1. results' = results + 1 /\ pc'[c] = "posting"
      BY <1>0, <2>4 DEF BeginPost, Goto, ShapeOK
    <3>2. NotComputed' = NotComputed \cup {c} /\ c \notin NotComputed
      BY <2>2, <3>1 DEF NotComputed, PostSteps
    <3>3. Cardinality(NotComputed') = Cardinality(NotComputed) + 1
      BY <1>1, <3>2, PointerTaken
    <3> QED
      BY <1>0, <1>1, <2>1, <2>2, <3>1, <3>3 DEF BalanceInv
  <2> QED
    BY <1>0, <1>4, <2>3, <2>4, NotPosting
<1>5. CASE LockFirst(c) \/ LockSecond(c) \/ UnlockSecond(c) \/ UnlockFirst(c)
  <2>1. /\ rating' = rating /\ results' = results /\ sunk' = sunk
        /\ \A d \in Clients \ {c} : gain'[d] = gain[d] /\ pc'[d] = pc[d]
        /\ pc[c] \notin {"computed", "paidOne"} /\ pc'[c] \notin {"computed", "paidOne"}
        /\ c \in NotComputed <=> pc'[c] \in {"posting", "lockedOne", "lockedBoth"}
    BY <1>0, <1>5 DEF LockFirst, LockSecond, UnlockSecond, UnlockFirst, postVars, At, Goto,
      ShapeOK, NotComputed
  <2>2. NotComputed' = NotComputed
    BY <2>1 DEF NotComputed
  <2>3. Balance' = Balance
    BY <1>3, <2>1 DEF Owed
  <2> QED
    BY <1>2, <2>1, <2>2, <2>3
<1>6. CASE Compute(c)
  <2>1. /\ rating' = rating /\ results' = results /\ pc[c] = "lockedBoth"
        /\ pc'[c] = "computed" /\ \A d \in Clients \ {c} : pc'[d] = pc[d]
    BY <1>0, <1>6 DEF Compute, At, Goto, playerVars, ShapeOK
  <2>2. PICK a \in Int, b \in Int : a = rating[First(c)] /\ b = rating[Second(c)]
    BY <1>0, <2>1, NamesInOrder DEF PostSteps, ShapeOK
  <2>3. seen'[c] = <<a, b>>
    BY <1>0, <1>6, <2>2 DEF Compute, ShapeOK
  <2> DEFINE Told(stake) ==
        /\ gain' = [gain EXCEPT ![c] = stake]
        /\ sunk' = IF a + stake[1] <= 0 /\ b + stake[2] <= 0 THEN sunk + 1 ELSE sunk
  <2>4. PICK k \in Int : \E stake \in Stakes(k, <<a, b>>) : Told(stake)
    <3>1. PICK g \in Gains : \E k \in {g, -g} : \E stake \in Stakes(k, <<a, b>>) :
            /\ gain' = [gain EXCEPT ![c] = stake]
            /\ sunk' = IF \A i \in 1..2 : <<a, b>>[i] + stake[i] <= 0
                         THEN sunk + 1 ELSE sunk
      BY <1>6, <2>3 DEF Compute
    <3>2. g \in Int /\ -g \in Int
      BY GainsAssumption
    <3>3. PICK k \in Int : \E stake \in Stakes(k, <<a, b>>) :
            /\ gain' = [gain EXCEPT ![c] = stake]
            /\ sunk' = IF \A i \in 1..2 : <<a, b>>[i] + stake[i] <= 0
                         THEN sunk + 1 ELSE sunk
      BY <3>1, <3>2
    <3>4. \A stake : (\A i \in 1..2 : <<a, b>>[i] + stake[i] <= 0)
                       <=> a + stake[1] <= 0 /\ b + stake[2] <= 0
      <4>1. 1..2 = {1, 2} /\ <<a, b>>[1] = a /\ <<a, b>>[2] = b
        OBVIOUS
      <4> QED
        BY <4>1
    <3> QED
      BY <3>3, <3>4
  <2>5. PICK stake \in Stakes(k, <<a, b>>) : Told(stake)
    BY <2>4
  <2>6. /\ stake \in Int \X Int /\ stake[1] + stake[2] \in {-1, 0, 1}
        /\ stake[1] + stake[2] = 1 => sunk' = sunk + 1
        /\ sunk' \in {sunk, sunk + 1}
    BY <1>0, <2>5, StakesNearlyBalance
  <2>7. gain'[c] = stake /\ \A d \in Clients \ {c} : gain'[d] = gain[d]
    BY <1>0, <2>5, <2>6 DEF ShapeOK
  <2>8. /\ Owed(c) = 0 /\ Owed(c)' = stake[1] + stake[2]
        /\ \A d \in Clients \ {c} : Owed(d)' = Owed(d)
    BY <2>1, <2>7 DEF Owed
  <2>9. Balance' = Balance + Owed(c)' - Owed(c)
    BY <1>0, <2>1, <2>8, BalanceMoves
  <2>10. NotComputed' = NotComputed \ {c} /\ c \in NotComputed
    BY <2>1 DEF NotComputed
  <2>11. Cardinality(NotComputed') = Cardinality(NotComputed) - 1
    BY <1>1, <2>10, PointerTaken
  <2> QED
    BY <1>0, <1>1, <2>1, <2>6, <2>8, <2>9, <2>11 DEF BalanceInv
<1>7. ASSUME NEW p \in Players, NEW g \in Int, UNCHANGED <<gain, results, sunk, NotComputed>>,
             \A q \in Players \ {p} : rating'[q] = rating[q], rating'[p] = rating[p] + g,
             \A d \in Clients \ {c} : pc'[d] = pc[d], Owed(c) = Owed(c)' + g
      PROVE  BalanceInv'
  <2>1. \A d \in Clients \ {c} : Owed(d)' = Owed(d)
    BY <1>7 DEF Owed
  <2>2. rating[p] \in Int /\ Owed(c)' \in Int
    <3>1. Owed(c)' \in Int
      BY <1>0, OwedIsWhole DEF AllOwed
    <3> QED
      BY <1>0, <3>1 DEF ShapeOK
  <2>3. Balance' = Balance
    BY <1>0, <1>7, <2>1, <2>2, BalanceMoves
  <2> QED
    BY <1>2, <1>7, <2>3
<1>8. CASE PayFirst(c) \/ PaySecond(c)
  <2>1. /\ pc[c] \in {"computed", "paidOne"} /\ results' = results /\ sunk' = sunk /\ gain' = gain
        /\ PayFirst(c) => pc[c] = "computed" /\ pc'[c] = "paidOne"
        /\ PaySecond(c) => pc[c] = "paidOne" /\ pc'[c] = "paidBoth"
        /\ \A d \in Clients \ {c} : pc'[d] = pc[d]
    BY <1>0, <1>8 DEF PayFirst, PaySecond, At, Goto, postVars, ShapeOK
  <2>2. NotComputed' = NotComputed
    BY <1>8, <2>1 DEF NotComputed
  <2>3. First(c) \in Players /\ Second(c) \in Players
    BY <1>0, <2>1, NamesInOrder DEF PostSteps
  <2>4. PICK g \in Int \X Int : g = gain[c]
    BY <1>0 DEF ShapeOK
  <2>5. g[1] \in Int /\ g[2] \in Int
    OBVIOUS
  <2>6. CASE PayFirst(c)
    <3>1. rating' = [rating EXCEPT ![First(c)] = rating[First(c)] + g[1]]
      BY <1>0, <2>1, <2>4, <2>6 DEF PayFirst, RatingsAreAsSeen
    <3>2. Owed(c) = g[1] + g[2] /\ Owed(c)' = g[2]
      BY <2>1, <2>4, <2>6 DEF Owed
    <3> QED
      BY <1>0, <1>7, <2>1, <2>2, <2>3, <2>5, <3>1, <3>2 DEF ShapeOK
  <2>7. CASE PaySecond(c)
    <3>1. rating' = [rating EXCEPT ![Second(c)] = rating[Second(c)] + g[2]]
      BY <1>0, <2>1, <2>4, <2>7 DEF PaySecond, RatingsAreAsSeen
    <3>2. Owed(c) = g[2] /\ Owed(c)' = 0
      BY <2>1, <2>4, <2>7 DEF Owed
    <3> QED
      BY <1>0, <1>7, <2>1, <2>2, <2>3, <2>5, <3>1, <3>2 DEF ShapeOK
  <2> QED
    BY <1>8, <2>6, <2>7
<1> QED
  BY <1>4, <1>5, <1>6, <1>8 DEF Post

(***************************************************************************)
(* The theorems.                                                           *)
(***************************************************************************)

\* A step in which nothing happens changes nothing.
LEMMA PlayerStutter ==
  ASSUME PlayerInv, BalanceInv, UNCHANGED vars
  PROVE  PlayerInv' /\ BalanceInv'
<1> USE DEF vars, playerVars, postVars, listVars
<1>1. ShapeOK' /\ LoginsAreUnderWay' /\ RollsAreOfVisited' /\ PostsHavePlayers'
  BY DEF PlayerInv, ShapeOK, LoginsAreUnderWay, RollsAreOfVisited, PostsHavePlayers
<1>2. RefsAreExact'
  BY DEF PlayerInv, RefsAreExact, LoggedInAs, LoggingInAs, ListedBy
<1>3. MutexesAreOwned' /\ RatingsAreAsSeen'
  BY DEF PlayerInv, MutexesAreOwned, RatingsAreAsSeen, Owns, HoldsFirst, HoldsSecond, First,
    Second, NameOrder
<1>4. BalanceInv'
  BY DEF BalanceInv, Balance, Pool, Owed, NotComputed
<1> QED
  BY <1>1, <1>2, <1>3, <1>4 DEF PlayerInv

\* The invariants are inductive.
THEOREM PlayerInvariant == Spec => [](PlayerInv /\ BalanceInv)
<1>1. Init => PlayerInv /\ BalanceInv
  BY PlayerInit, BalanceInit
<1>2. PlayerInv /\ BalanceInv /\ [Next]_vars => (PlayerInv /\ BalanceInv)'
  <2>1. ASSUME PlayerInv, BalanceInv, NEW c \in Clients, Step(c)
        PROVE  PlayerInv' /\ BalanceInv'
    <3>1. ShapeOK' /\ LoginsAreUnderWay' /\ RollsAreOfVisited' /\ PostsHavePlayers'
      BY <2>1, ShapeStep, LoginStep, RollStep, PostStep DEF PlayerInv
    <3>2. RefsAreExact' /\ MutexesAreOwned' /\ RatingsAreAsSeen'
      BY <2>1, CountStep, MutexStep, SeenStep DEF PlayerInv
    <3>3. BalanceInv'
      BY <2>1, <3>1, BalanceStep
    <3> QED
      BY <3>1, <3>2, <3>3 DEF PlayerInv
  <2> QED
    BY <2>1, PlayerStutter DEF Next, Step
<1> QED
  BY <1>1, <1>2, PTL DEF Spec

\* The reference count of a player is the number of pointers to it, however logins,
\* listings and departures interleave (player.c, server.c, client_registry.c).
THEOREM PlayerRefsAreExact == Spec => []RefsAreExact
BY PlayerInvariant, PTL DEF PlayerInv

\* player_post_result() takes at most one point out of the pool for every result, and brings
\* at most one in for every result that leaves neither player above zero, whoever else
\* posts results for the same players at the same time (player.c:208-209).
THEOREM RatingsAlwaysBalance == Spec => []RatingsBalance
<1>1. ASSUME PlayerInv, BalanceInv PROVE RatingsBalance
  <2>1. NotComputed \subseteq Clients
    BY DEF NotComputed
  <2>2. Cardinality(NotComputed) \in Nat /\ results \in Nat /\ sunk \in Nat
    BY <1>1, <2>1, ClientsAssumption, FS_Subset, FS_CardinalityType DEF PlayerInv, ShapeOK
  <2> QED
    BY <1>1, <2>2 DEF RatingsBalance, BalanceInv
<1> QED
  BY <1>1, PlayerInvariant, PTL

\* A thread that has both mutexes of its game has two different players, and no other
\* thread has either of them.
PostingIsExclusive ==
  \A c, d \in Clients :
    HoldsSecond(c) => /\ First(c) # Second(c)
                      /\ HoldsFirst(d) /\ c # d => First(d) \notin {First(c), Second(c)}

\* player_post_result() reads and writes the two ratings of a game under both mutexes
\* and alone; a thread that is to lock one player twice never gets that far.
THEOREM RatingsAreWrittenAlone == Spec => []PostingIsExclusive
<1>1. ASSUME PlayerInv PROVE PostingIsExclusive
  <2>1. ASSUME NEW c \in Clients, NEW d \in Clients, HoldsSecond(c), HoldsFirst(d), c # d
        PROVE  First(d) \notin {First(c), Second(c)}
    <3>1. First(d) \in Players /\ HoldsFirst(c)
      BY <1>1, <2>1, NamesInOrder DEF PlayerInv, HoldsFirst, HoldsSecond
    <3> QED
      BY <1>1, <2>1, <3>1 DEF PlayerInv, MutexesAreOwned, Owns
  <2> QED
    BY <1>1, <2>1 DEF PlayerInv, MutexesAreOwned, PostingIsExclusive
<1> QED
  BY <1>1, PlayerInvariant, PTL
===============================================================================
