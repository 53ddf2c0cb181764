--------------------------- MODULE InvitationProofs ---------------------------
(***************************************************************************)
(* Proofs about the invitations, for any clients, invitations and requests. *)
(***************************************************************************)
EXTENDS InvitationProperties, FiniteSetTheorems, TLAPS

(***************************************************************************)
(* The inductive invariant.                                                *)
(***************************************************************************)

\* The values the variables take.
ShapeOK ==
  /\ state \in [Invitations -> States]
  /\ game \in [Invitations -> {"none", "playing", "over"}]
  /\ lock \in [Invitations -> Clients \cup {NULL}]
  /\ numRef \in [Invitations -> Int]
  /\ source \in [Invitations -> Clients \cup {NULL}]
  /\ target \in [Invitations -> Clients \cup {NULL}]
  /\ listed \in [Clients -> SUBSET Invitations]
  /\ made \in [Clients -> SUBSET Invitations]
  /\ eof \in [Clients -> BOOLEAN]
  /\ pc \in [Clients -> ThreadStates]
  /\ op \in [Clients -> Operations]
  /\ cur \in [Clients -> Invitations \cup {NULL}]
  /\ posted \in [Invitations -> BOOLEAN]
  /\ process \in {"running", "nullDereference"}

\* An invitation has two different parties, and nobody else lists it.
PartiesAreKnown ==
  \A v \in Invitations :
    /\ state[v] # "absent" =>
         source[v] \in Clients /\ target[v] \in Clients /\ source[v] # target[v]
    /\ state[v] = "absent" => game[v] = "none"
    /\ \A c \in Clients : v \in listed[c] => c \in {source[v], target[v]}

\* Thread c has invitation v in hand, with a reference or under its own lock.
Holds(c, v) == pc[c] \in Working \cup {"looking"} /\ cur[c] = v

\* Who looks an invitation up still has it in its list; who works on one works
\* on one that was created.
WorkIsOnInvitations ==
  \A c \in Clients :
    /\ pc[c] \in Working \cup {"looking"} => cur[c] \in Invitations
    /\ pc[c] = "looking" => cur[c] \in listed[c]

\* The mutex of an invitation stays locked between two steps only in
\* inv_close(), by the thread that is in it or has left it without unlocking.
MutexesAreHeldInClose ==
  /\ \A v \in Invitations : lock[v] # NULL =>
       pc[lock[v]] \in {"resigning", "dropping"} /\ cur[lock[v]] = v
  /\ \A c \in Clients : pc[c] = "resigning" =>
       /\ lock[cur[c]] = c /\ op[c] = "resign"
       /\ state[cur[c]] = "accepted"

\* Until the target has it in its list, nobody but its creator knows it.
OfferIsPrivate ==
  \A c \in Clients : pc[c] = "offering" =>
    /\ source[cur[c]] = c /\ state[cur[c]] = "open"
    /\ cur[c] \notin listed[target[cur[c]]]
    /\ \A d \in Clients : Holds(d, cur[c]) => d = c

\* An open invitation is in the lists of both, as soon as it is offered.
OpenIsListed ==
  \A v \in Invitations : state[v] = "open" =>
    /\ v \in listed[source[v]]
    /\ \/ v \in listed[target[v]]
       \/ At(source[v], "offering") /\ cur[source[v]] = v

\* Only what is closed or over is taken off the lists, the source's first.
OnlyFinishedIsUnlisted ==
  \A c \in Clients :
    /\ pc[c] \in {"unlisting", "unlisted", "posting"} =>
         /\ game[cur[c]] # "playing"
         /\ state[cur[c]] = "closed" \/ game[cur[c]] = "over"
    /\ pc[c] \in {"unlisted", "posting"} => cur[c] \notin listed[source[cur[c]]]
    /\ pc[c] = "posting" => cur[c] \notin listed[target[cur[c]]]

\* What the source has still to revoke when its connection ends.
Unfinished(v) == state[v] \in {"open", "accepted"} /\ game[v] # "over"

\* It remembers it, or has it in hand.
UnfinishedIsRemembered ==
  \A v \in Invitations : Unfinished(v) =>
    \/ v \in made[source[v]]
    \/ pc[source[v]] \in {"offering", "offered"} /\ cur[source[v]] = v
    \/ /\ op[source[v]] = "cleanup" /\ cur[source[v]] = v
       /\ pc[source[v]] \in {"looking", "deciding"} \/ lock[v] = source[v]

\* A service thread ends when there is nothing left that it remembers.
EndedRememberNothing == \A c \in Clients : pc[c] = "done" => made[c] = {}

InvitationInv ==
  /\ ShapeOK /\ RefsAreExact /\ PartiesAreKnown /\ WorkIsOnInvitations
  /\ MutexesAreHeldInClose /\ OfferIsPrivate /\ OpenIsListed
  /\ OnlyFinishedIsUnlisted /\ GameFitsState /\ ResultsAreFinal
  /\ UnfinishedIsRemembered /\ EndedRememberNothing

\* There is no invitation, and no thread has begun to serve, at the start.
LEMMA InvitationInit == Init => InvitationInv
<1> SUFFICES ASSUME Init PROVE InvitationInv
  OBVIOUS
<1> USE DistinctAssumption DEF Init, Exists, Working
<1>1. \A v \in Invitations : Listing(v) = {} /\ WorkersOn(v) = {}
  BY DEF Listing, WorkersOn
<1>2. RefsAreExact
  <2>1. Cardinality({}) = 0
    BY FS_EmptySet
  <2>2. \A v \in Invitations : numRef[v] = 0 /\ ~Exists(v)
    OBVIOUS
  <2>3. \A v \in Invitations :
          Cardinality(Listing(v)) = 0 /\ Cardinality(WorkersOn(v)) = 0
    BY <1>1, <2>1, Zenon
  <2> HIDE DEF Init, Exists
  <2> QED
    BY <2>2, <2>3 DEF RefsAreExact
<1>3. ShapeOK
  <2>1. /\ state \in [Invitations -> States]
        /\ lock \in [Invitations -> Clients \cup {NULL}]
        /\ numRef \in [Invitations -> Int]
        /\ source \in [Invitations -> Clients \cup {NULL}]
        /\ target \in [Invitations -> Clients \cup {NULL}]
    BY DEF States
  <2>2. /\ listed \in [Clients -> SUBSET Invitations]
        /\ made \in [Clients -> SUBSET Invitations]
        /\ eof \in [Clients -> BOOLEAN]
        /\ pc \in [Clients -> ThreadStates]
        /\ op \in [Clients -> Operations]
        /\ cur \in [Clients -> Invitations \cup {NULL}]
    BY DEF ThreadStates, Operations
  <2>3. /\ game \in [Invitations -> {"none", "playing", "over"}]
        /\ posted \in [Invitations -> BOOLEAN]
        /\ process \in {"running", "nullDereference"}
    OBVIOUS
  <2> QED
    BY <2>1, <2>2, <2>3 DEF ShapeOK
<1>4. /\ PartiesAreKnown /\ WorkIsOnInvitations /\ MutexesAreHeldInClose
      /\ OfferIsPrivate /\ OpenIsListed /\ OnlyFinishedIsUnlisted
      /\ GameFitsState /\ ResultsAreFinal /\ UnfinishedIsRemembered
      /\ EndedRememberNothing
  BY DEF PartiesAreKnown, WorkIsOnInvitations, MutexesAreHeldInClose, OfferIsPrivate,
         OpenIsListed, OnlyFinishedIsUnlisted, GameFitsState, ResultsAreFinal,
         UnfinishedIsRemembered, EndedRememberNothing, Unfinished, At
<1> QED
  BY <1>2, <1>3, <1>4 DEF InvitationInv

(***************************************************************************)
(* One step of one thread.                                                 *)
(***************************************************************************)

Step(c) == Request(c) \/ Work(c) \/ Hangup(c)

\* A step leaves every variable in its range.
LEMMA ShapeStep ==
  ASSUME ShapeOK, WorkIsOnInvitations, NEW c \in Clients, Step(c)
  PROVE  ShapeOK'
<1> USE DEF ShapeOK, WorkIsOnInvitations, At, Goto, invitationVars, Working, ThreadStates,
        Operations, States
<1>1. ASSUME NEW t \in Clients, NEW v \in Invitations, Invite(c, t, v) PROVE ShapeOK'
  BY <1>1 DEF Invite
<1>2. ASSUME NEW v \in Invitations, NEW r \in Requests, Find(c, v, r) PROVE ShapeOK'
  BY <1>2 DEF Find
<1>3. ASSUME NEW v \in Invitations, CleanupOne(c, v) PROVE ShapeOK'
  <2>1. /\ [op EXCEPT ![c] = "cleanup"] \in [Clients -> Operations]
        /\ [cur EXCEPT ![c] = v] \in [Clients -> Invitations \cup {NULL}]
        /\ [pc EXCEPT ![c] = "looking"] \in [Clients -> ThreadStates]
        /\ [made EXCEPT ![c] = @ \ {v}] \in [Clients -> SUBSET Invitations]
    OBVIOUS
  <2> HIDE DEF Operations, ThreadStates, States
  <2> QED
    BY <1>3, <2>1 DEF CleanupOne
<1>4. CASE Offer(c)
  <2>1. \A d : [listed EXCEPT ![d] = @ \cup {cur[c]}] \in [Clients -> SUBSET Invitations]
    BY <1>4 DEF Offer
  <2> QED
    BY <1>4, <2>1 DEF Offer
<1>5. CASE Remember(c)
  BY <1>5
  DEF Remember
<1>6. CASE Take(c)
  BY <1>6
  DEF Take, CountUp
<1>7. CASE Refuse(c)
  BY <1>7
  DEF Refuse, Entitled
<1>8. CASE Accept(c)
  BY <1>8
  DEF Accept, Forget, MayAccept
<1>9. CASE AcceptRefused(c)
  BY <1>9
  DEF AcceptRefused
<1>10. CASE CloseRefused(c)
  BY <1>10
  DEF CloseRefused, Closing, MayClose
<1>11. CASE Close(c)
  BY <1>11
  DEF Close, Closing, Forget, MayClose, NoGameInProgress
<1>12. CASE CloseKeepsLock(c)
  BY <1>12
  DEF CloseKeepsLock, Closing, MayClose
<1>13. CASE BeginResign(c)
  BY <1>13
  DEF BeginResign, Closing, MayClose
<1>14. CASE Resign(c)
  BY <1>14
  DEF Resign, Release, Forget
<1>15. CASE ResignKeepsLock(c)
  BY <1>15
  DEF ResignKeepsLock
<1>16. CASE GetGame(c)
  BY <1>16
  DEF GetGame
<1>17. CASE ApplyMove(c)
  BY <1>17
  DEF ApplyMove
<1>18. CASE CheckOver(c)
  BY <1>18
  DEF CheckOver, IsOver
<1>19. CASE UnlistAtSource(c)
  BY <1>19
  DEF UnlistAtSource, Unlist
<1>20. CASE UnlistAtTarget(c)
  BY <1>20
  DEF UnlistAtTarget, Unlist
<1>21. CASE PostResult(c)
  BY <1>21
  DEF PostResult
<1>22. CASE Drop(c)
  BY <1>22
  DEF Drop, LastReference
<1>23. CASE BeginCleanup(c)
  BY <1>23
  DEF BeginCleanup
<1>24. CASE EndService(c)
  BY <1>24
  DEF EndService, NothingLeft
<1>25. CASE Hangup(c)
  BY <1>25
  DEF Hangup
<1> QED
  BY <1>1, <1>2, <1>3, <1>4, <1>5, <1>6, <1>7, <1>8, <1>9, <1>10, <1>11, <1>12, <1>13,
     <1>14, <1>15, <1>16, <1>17, <1>18, <1>19, <1>20, <1>21, <1>22, <1>23, <1>24, <1>25
  DEF Step, Request, Work

(***************************************************************************)
(* Reference counts.                                                       *)
(***************************************************************************)

RefIsExact(v) ==
  /\ numRef[v] = Cardinality(Listing(v)) + Cardinality(WorkersOn(v))
  /\ Exists(v) <=> numRef[v] > 0

\* The sharers of an invitation can be counted.
LEMMA SharersAreFinite ==
  ASSUME NEW v
  PROVE  /\ IsFiniteSet(Listing(v)) /\ Cardinality(Listing(v)) \in Nat
         /\ IsFiniteSet(WorkersOn(v)) /\ Cardinality(WorkersOn(v)) \in Nat
<1>1. IsFiniteSet(Listing(v)) /\ IsFiniteSet(WorkersOn(v))
  BY ClientsAssumption, FS_Subset DEF Listing, WorkersOn
<1> QED
  BY <1>1, FS_CardinalityType

\* Whoever lists an invitation or works on it is counted, so it exists.
LEMMA SharersAreCounted ==
  ASSUME RefsAreExact, NEW v \in Invitations, NEW c \in Clients
  PROVE  /\ v \in listed[c] => Cardinality(Listing(v)) > 0 /\ Exists(v)
         /\ pc[c] \in Working /\ cur[c] = v => Cardinality(WorkersOn(v)) > 0 /\ Exists(v)
<1>1. v \in listed[c] => Cardinality(Listing(v)) # 0
  BY SharersAreFinite, FS_EmptySet DEF Listing
<1>2. pc[c] \in Working /\ cur[c] = v => Cardinality(WorkersOn(v)) # 0
  BY SharersAreFinite, FS_EmptySet DEF WorkersOn
<1> QED
  BY <1>1, <1>2, SharersAreFinite DEF RefsAreExact

\* Who drops the last reference is the last sharer.
LEMMA LastIsAlone ==
  ASSUME RefsAreExact, NEW v \in Invitations, NEW c \in Clients,
         pc[c] \in Working, cur[c] = v, numRef[v] = 1
  PROVE  Listing(v) = {} /\ WorkersOn(v) = {c}
<1>1. Cardinality(Listing(v)) = 0 /\ Cardinality(WorkersOn(v)) = 1
  BY SharersAreFinite, SharersAreCounted DEF RefsAreExact
<1>2. Listing(v) = {}
  BY <1>1, SharersAreFinite, FS_EmptySet
<1>3. PICK d : WorkersOn(v) = {d}
  BY <1>1, SharersAreFinite, FS_Singleton
<1> QED
  BY <1>2, <1>3 DEF WorkersOn

\* What a step neither counts nor touches is still counted right.
LEMMA CountFrame ==
  ASSUME RefsAreExact, NEW v \in Invitations,
         numRef'[v] = numRef[v], Exists(v)' = Exists(v),
         Listing(v)' = Listing(v), WorkersOn(v)' = WorkersOn(v)
  PROVE  RefIsExact(v)'
BY DEF RefsAreExact, RefIsExact

\* Every step counts what it adds and what it takes away, and the last
\* reference is dropped with the invitation.
LEMMA CountStep ==
  ASSUME InvitationInv, NEW c \in Clients, Step(c)
  PROVE  RefsAreExact'
<1> USE DEF ShapeOK, At, Goto, invitationVars, Exists
<1>0. /\ ShapeOK /\ RefsAreExact /\ PartiesAreKnown /\ WorkIsOnInvitations
      /\ MutexesAreHeldInClose /\ OfferIsPrivate
  BY DEF InvitationInv
<1> DEFINE Same == /\ UNCHANGED <<numRef, listed>>
                   /\ \A v \in Invitations : Exists(v)' = Exists(v)
                   /\ \A d \in Clients, v \in Invitations :
                        (pc'[d] \in Working /\ cur'[d] = v) <=> (pc[d] \in Working /\ cur[d] = v)
<1>1. ASSUME \A v \in Invitations : RefIsExact(v)' PROVE RefsAreExact'
  BY <1>1 DEF RefsAreExact, RefIsExact
<1>2. ASSUME Same PROVE RefsAreExact'
  <2>1. \A v \in Invitations : Listing(v)' = Listing(v) /\ WorkersOn(v)' = WorkersOn(v)
    BY <1>2 DEF Listing, WorkersOn
  <2> QED
    BY <1>0, <1>1, <1>2, <2>1, CountFrame
<1>3. ASSUME NEW t \in Clients, NEW v \in Invitations, Invite(c, t, v) PROVE RefsAreExact'
  <2>1. numRef[v] = 0 /\ Cardinality(Listing(v)) = 0 /\ Cardinality(WorkersOn(v)) = 0
    <3>1. ~(numRef[v] > 0)
      BY <1>0, <1>3 DEF Invite, RefsAreExact
    <3> HIDE DEF ShapeOK, Exists
    <3> QED
      BY <1>0, <3>1, SharersAreFinite DEF RefsAreExact
  <2>2. Listing(v) = {} /\ WorkersOn(v) = {}
    BY <2>1, SharersAreFinite, FS_EmptySet
  <2>3. Listing(v)' = {c} /\ WorkersOn(v)' = {c}
    BY <1>0, <1>3, <2>2 DEF Invite, Listing, WorkersOn, Working
  <2>4. numRef'[v] = 2 /\ Exists(v)'
    BY <1>0, <1>3 DEF Invite
  <2>5. RefIsExact(v)'
    <3>1. Cardinality({c}) = 1
      BY FS_Singleton
    <3> QED
      BY <2>3, <2>4, <3>1 DEF RefIsExact
  <2>6. ASSUME NEW w \in Invitations, w # v PROVE RefIsExact(w)'
    <3>1. Listing(w)' = Listing(w) /\ WorkersOn(w)' = WorkersOn(w)
      BY <1>0, <1>3, <2>6 DEF Invite, Listing, WorkersOn, Working
    <3>2. numRef'[w] = numRef[w] /\ state'[w] = state[w]
      BY <1>0, <1>3, <2>6 DEF Invite
    <3> QED
      BY <1>0, <3>1, <3>2, CountFrame
  <2> QED
    BY <1>1, <2>5, <2>6
<1>4. CASE Offer(c)
  <2>1. PICK v \in Invitations : v = cur[c]
    BY <1>0, <1>4 DEF Offer, WorkIsOnInvitations, Working
  <2>2. PICK t \in Clients : t = target[v]
    BY <1>0, <1>4, <2>1 DEF Offer, OfferIsPrivate, PartiesAreKnown
  <2>3. /\ pc[c] = "offering" /\ pc' = [pc EXCEPT ![c] = "offered"] /\ cur' = cur
        /\ numRef' = [numRef EXCEPT ![v] = @ + 1] /\ state' = state
        /\ listed' = [listed EXCEPT ![t] = @ \cup {v}] /\ v \notin listed[t]
    BY <1>0, <1>4, <2>1, <2>2 DEF Offer, OfferIsPrivate
  <2>4. /\ \A w \in Invitations : WorkersOn(w)' = WorkersOn(w)
        /\ \A w \in Invitations : w # v => Listing(w)' = Listing(w)
        /\ Listing(v)' = Listing(v) \cup {t} /\ t \notin Listing(v)
    BY <1>0, <2>3 DEF Listing, WorkersOn, Working
  <2>5. Cardinality(Listing(v)') = Cardinality(Listing(v)) + 1
    BY <2>4, SharersAreFinite, FS_AddElement
  <2>6. RefIsExact(v)'
    BY <1>0, <2>1, <2>3, <2>4, <2>5, SharersAreFinite, SharersAreCounted
    DEF RefsAreExact, RefIsExact, Working
  <2>7. \A w \in Invitations : w # v => RefIsExact(w)'
    BY <1>0, <2>3, <2>4, CountFrame
  <2> QED
    BY <1>1, <2>6, <2>7
<1>5. CASE Take(c)
  <2>1. PICK v \in Invitations : v = cur[c]
    BY <1>0, <1>5 DEF Take, WorkIsOnInvitations
  <2>2. /\ pc[c] = "looking" /\ pc' = [pc EXCEPT ![c] = "deciding"] /\ cur' = cur
        /\ numRef' = [numRef EXCEPT ![v] = @ + 1] /\ UNCHANGED <<state, listed>>
    BY <1>5, <2>1 DEF Take, CountUp
  <2>3. /\ \A w \in Invitations : Listing(w)' = Listing(w)
        /\ \A w \in Invitations : w # v => WorkersOn(w)' = WorkersOn(w)
        /\ WorkersOn(v)' = WorkersOn(v) \cup {c} /\ c \notin WorkersOn(v)
    BY <1>0, <2>1, <2>2 DEF Listing, WorkersOn, Working
  <2>4. Cardinality(WorkersOn(v)') = Cardinality(WorkersOn(v)) + 1
    BY <2>3, SharersAreFinite, FS_AddElement
  <2>5. Exists(v)
    BY <1>0, <2>1, <2>2, SharersAreCounted DEF WorkIsOnInvitations
  <2>6. RefIsExact(v)'
    BY <1>0, <2>2, <2>3, <2>4, <2>5, SharersAreFinite DEF RefsAreExact, RefIsExact
  <2>7. \A w \in Invitations : w # v => RefIsExact(w)'
    BY <1>0, <2>2, <2>3, CountFrame
  <2> QED
    BY <1>1, <2>6, <2>7
<1>6. ASSUME NEW d \in Clients, Unlist(c, d), pc[c] \in Working, pc'[c] \in Working,
             pc' = [pc EXCEPT ![c] = pc'[c]]
      PROVE  RefsAreExact'
  <2>1. PICK v \in Invitations : v = cur[c]
    BY <1>0, <1>6 DEF WorkIsOnInvitations
  <2>2. /\ UNCHANGED <<state, cur>>
        /\ \A w \in Invitations : WorkersOn(w)' = WorkersOn(w)
    BY <1>0, <1>6 DEF Unlist, WorkersOn
  <2>3. CASE v \notin listed[d]
    BY <1>0, <1>2, <1>6, <2>1, <2>2, <2>3 DEF Unlist
  <2>4. CASE v \in listed[d]
    <3>1. /\ numRef' = [numRef EXCEPT ![v] = @ - 1]
          /\ listed' = [listed EXCEPT ![d] = @ \ {v}]
      BY <1>6, <2>1, <2>4 DEF Unlist
    <3>2. /\ \A w \in Invitations : w # v => Listing(w)' = Listing(w)
          /\ Listing(v)' = Listing(v) \ {d} /\ d \in Listing(v)
      BY <1>0, <2>4, <3>1 DEF Listing
    <3>3. /\ Cardinality(Listing(v)') = Cardinality(Listing(v)) - 1
          /\ IsFiniteSet(Listing(v)')
      BY <3>2, SharersAreFinite, FS_RemoveElement
    <3>4. Cardinality(Listing(v)') \in Nat
      BY <3>3, FS_CardinalityType
    <3>5. Cardinality(WorkersOn(v)) > 0 /\ Exists(v)
      BY <1>0, <1>6, <2>1, SharersAreCounted
    <3>6. RefIsExact(v)'
      BY <1>0, <2>2, <3>1, <3>3, <3>4, <3>5, SharersAreFinite DEF RefsAreExact, RefIsExact
    <3>7. \A w \in Invitations : w # v => RefIsExact(w)'
      BY <1>0, <2>2, <3>1, <3>2, CountFrame
    <3> QED
      BY <1>1, <3>6, <3>7
  <2> QED
    BY <2>3, <2>4
<1>7. CASE UnlistAtSource(c) \/ UnlistAtTarget(c)
  <2>1. PICK v \in Invitations : v = cur[c]
    BY <1>0, <1>7 DEF UnlistAtSource, UnlistAtTarget, WorkIsOnInvitations, Working
  <2>2. source[v] \in Clients /\ target[v] \in Clients
    BY <1>0, <1>7, <2>1, SharersAreCounted
    DEF UnlistAtSource, UnlistAtTarget, PartiesAreKnown, Working
  <2> QED
    BY <1>0, <1>6, <1>7, <2>1, <2>2 DEF UnlistAtSource, UnlistAtTarget, Working
<1>8. CASE Drop(c)
  <2>1. PICK v \in Invitations : v = cur[c]
    BY <1>0, <1>8 DEF Drop, WorkIsOnInvitations, Working
  <2>2. /\ pc[c] \in Working /\ pc'[c] \notin Working /\ cur' = [cur EXCEPT ![c] = NULL]
        /\ pc' = [pc EXCEPT ![c] = pc'[c]]
        /\ numRef' = [numRef EXCEPT ![v] = @ - 1] /\ listed' = listed
        /\ state' = IF numRef[v] = 1 THEN [state EXCEPT ![v] = "freed"] ELSE state
    BY <1>0, <1>8, <2>1 DEF Drop, LastReference, Working
  <2>3. /\ \A w \in Invitations : Listing(w)' = Listing(w)
        /\ \A w \in Invitations : w # v => WorkersOn(w)' = WorkersOn(w)
        /\ WorkersOn(v)' = WorkersOn(v) \ {c} /\ c \in WorkersOn(v)
    BY <1>0, <2>1, <2>2 DEF Listing, WorkersOn
  <2>4. /\ Cardinality(WorkersOn(v)') = Cardinality(WorkersOn(v)) - 1
        /\ IsFiniteSet(WorkersOn(v)')
    BY <2>3, SharersAreFinite, FS_RemoveElement
  <2>5. Cardinality(WorkersOn(v)') \in Nat
    BY <2>4, FS_CardinalityType
  <2>6. Exists(v)
    BY <1>0, <2>1, <2>2, SharersAreCounted
  <2>7. RefIsExact(v)'
    BY <1>0, <2>2, <2>3, <2>4, <2>5, <2>6, SharersAreFinite DEF RefsAreExact, RefIsExact
  <2>8. \A w \in Invitations : w # v => RefIsExact(w)'
    BY <1>0, <2>2, <2>3, CountFrame
  <2> QED
    BY <1>1, <2>7, <2>8
<1>9. CASE Accept(c) \/ Close(c) \/ Resign(c)
  <2>1. PICK v \in Invitations : v = cur[c]
    BY <1>0, <1>9 DEF Accept, Close, Closing, Resign, WorkIsOnInvitations, Working
  <2>2. Exists(v)
    BY <1>0, <1>9, <2>1, SharersAreCounted DEF Accept, Close, Closing, Resign, Working
  <2> QED
    BY <1>0, <1>2, <1>9, <2>1, <2>2 DEF Accept, Close, Closing, Resign, Working
<1>10. ASSUME NEW v \in Invitations, (\E r \in Requests : Find(c, v, r)) \/ CleanupOne(c, v)
       PROVE  RefsAreExact'
  BY <1>0, <1>2, <1>10 DEF Find, CleanupOne, Working
<1>11. CASE \/ Remember(c) \/ Refuse(c) \/ AcceptRefused(c) \/ CloseRefused(c)
            \/ CloseKeepsLock(c) \/ BeginResign(c) \/ ResignKeepsLock(c)
            \/ GetGame(c) \/ ApplyMove(c) \/ CheckOver(c) \/ PostResult(c)
  BY <1>0, <1>2, <1>11
  DEF Remember, Refuse, AcceptRefused, CloseRefused, CloseKeepsLock, BeginResign, Closing,
      ResignKeepsLock, GetGame, ApplyMove, CheckOver, PostResult, Working
<1>12. CASE Hangup(c) \/ BeginCleanup(c) \/ EndService(c)
  BY <1>0, <1>2, <1>12 DEF Hangup, BeginCleanup, EndService, Working
<1> QED
  BY <1>3, <1>4, <1>5, <1>7, <1>8, <1>9, <1>10, <1>11, <1>12 DEF Step, Request, Work

(***************************************************************************)
(* Lists, locks and positions.                                             *)
(***************************************************************************)

\* Whoever has an invitation in hand has one that exists.
LEMMA HeldExists ==
  ASSUME InvitationInv, NEW c \in Clients, pc[c] \in Working \cup {"looking"}
  PROVE  cur[c] \in Invitations /\ Exists(cur[c])
<1>1. cur[c] \in Invitations /\ (pc[c] = "looking" => cur[c] \in listed[c])
  BY DEF InvitationInv, WorkIsOnInvitations
<1>2. RefsAreExact
  BY DEF InvitationInv
<1> QED
  BY <1>1, <1>2, SharersAreCounted

\* What is in a list exists.
LEMMA ListedExists ==
  ASSUME InvitationInv, NEW c \in Clients, NEW v \in Invitations, v \in listed[c]
  PROVE  Exists(v)
BY SharersAreCounted DEF InvitationInv

\* No step changes the parties of an invitation once it is created, and only
\* they list it.
LEMMA PartiesStep ==
  ASSUME InvitationInv, NEW c \in Clients, Step(c)
  PROVE  PartiesAreKnown'
<1> USE DEF ShapeOK, At, Goto, invitationVars, Exists, PartiesAreKnown
<1>0. /\ ShapeOK /\ PartiesAreKnown /\ OfferIsPrivate
      /\ \A d \in Clients : pc[d] \in Working \cup {"looking"} =>
           cur[d] \in Invitations /\ Exists(cur[d])
      /\ \A d \in Clients, v \in Invitations : v \in listed[d] => Exists(v)
  BY HeldExists, ListedExists DEF InvitationInv
<1>1. ASSUME NEW t \in Clients, NEW v \in Invitations, Invite(c, t, v) PROVE PartiesAreKnown'
  BY <1>0, <1>1, DistinctAssumption DEF Invite, Working
<1>2. ASSUME NEW v \in Invitations, NEW r \in Requests, Find(c, v, r) PROVE PartiesAreKnown'
  BY <1>0, <1>2 DEF Find, Working
<1>3. ASSUME NEW v \in Invitations, CleanupOne(c, v) PROVE PartiesAreKnown'
  BY <1>0, <1>3 DEF CleanupOne, Working
<1>4. CASE \/ Offer(c) \/ Remember(c) \/ Take(c)
  BY <1>0, <1>4, DistinctAssumption
  DEF Offer, Remember, Take, Unlocked, ClientUnlocked, Working
<1>5. CASE \/ Refuse(c) \/ Accept(c) \/ AcceptRefused(c)
  BY <1>0, <1>5, DistinctAssumption
  DEF Refuse, Entitled, Accept, MayAccept, Forget, AcceptRefused, Unlocked, ClientUnlocked,
      Working
<1>6. CASE \/ CloseRefused(c) \/ Close(c) \/ CloseKeepsLock(c)
  BY <1>0, <1>6, DistinctAssumption
  DEF CloseRefused, Closing, Close, MayClose, NoGameInProgress, Forget, CloseKeepsLock,
      Unlocked, ClientUnlocked, Working
<1>7. CASE \/ BeginResign(c) \/ Resign(c) \/ ResignKeepsLock(c)
  BY <1>0, <1>7, DistinctAssumption
  DEF BeginResign, Closing, MayClose, Resign, Release, Forget, ResignKeepsLock, Unlocked,
      ClientUnlocked, Working
<1>8. CASE \/ GetGame(c) \/ ApplyMove(c) \/ CheckOver(c)
  BY <1>0, <1>8, DistinctAssumption
  DEF GetGame, ApplyMove, CheckOver, IsOver, Unlocked, ClientUnlocked, Working
<1>9. CASE \/ UnlistAtSource(c) \/ UnlistAtTarget(c) \/ PostResult(c)
  BY <1>0, <1>9, DistinctAssumption
  DEF UnlistAtSource, Unlist, UnlistAtTarget, PostResult, Unlocked, ClientUnlocked, Working
<1>10. CASE \/ Drop(c) \/ BeginCleanup(c) \/ EndService(c)
  BY <1>0, <1>10, DistinctAssumption
  DEF Drop, LastReference, BeginCleanup, EndService, NothingLeft, Unlocked, ClientUnlocked,
      Working
<1>11. CASE Hangup(c)
  BY <1>0, <1>11, DistinctAssumption
  DEF Hangup, Unlocked, ClientUnlocked, Working
<1> QED
  BY <1>1, <1>2, <1>3, <1>4, <1>5, <1>6, <1>7, <1>8, <1>9, <1>10, <1>11 DEF Step, Request, Work

\* No step takes an invitation from under the thread that looks it up.
LEMMA WorkStep ==
  ASSUME InvitationInv, NEW c \in Clients, Step(c)
  PROVE  WorkIsOnInvitations'
<1> USE DEF ShapeOK, At, Goto, invitationVars, Exists, WorkIsOnInvitations
<1>0. /\ ShapeOK /\ WorkIsOnInvitations
      /\ \A d \in Clients : pc[d] \in Working \cup {"looking"} =>
           cur[d] \in Invitations /\ Exists(cur[d])
      /\ \A d \in Clients, v \in Invitations : v \in listed[d] => Exists(v)
  BY HeldExists, ListedExists DEF InvitationInv
<1>1. ASSUME NEW t \in Clients, NEW v \in Invitations, Invite(c, t, v) PROVE WorkIsOnInvitations'
  BY <1>0, <1>1, DistinctAssumption DEF Invite, Working
<1>2. ASSUME NEW v \in Invitations, NEW r \in Requests, Find(c, v, r) PROVE WorkIsOnInvitations'
  BY <1>0, <1>2 DEF Find, Working
<1>3. ASSUME NEW v \in Invitations, CleanupOne(c, v) PROVE WorkIsOnInvitations'
  BY <1>0, <1>3 DEF CleanupOne, Working
<1>4. CASE \/ Offer(c) \/ Remember(c) \/ Take(c) \/ Refuse(c)
  BY <1>0, <1>4, DistinctAssumption
  DEF Offer, Remember, Take, Refuse, Entitled, Unlocked, ClientUnlocked, Working
<1>5. CASE \/ Accept(c) \/ AcceptRefused(c) \/ CloseRefused(c) \/ Close(c)
  BY <1>0, <1>5, DistinctAssumption
  DEF Accept, MayAccept, Forget, Entitled, AcceptRefused, CloseRefused, Closing, Close,
      MayClose, NoGameInProgress, Unlocked, ClientUnlocked, Working
<1>6. CASE \/ CloseKeepsLock(c) \/ BeginResign(c) \/ Resign(c) \/ ResignKeepsLock(c)
  BY <1>0, <1>6, DistinctAssumption
  DEF CloseKeepsLock, Closing, MayClose, BeginResign, Resign, Release, Forget,
      ResignKeepsLock, Unlocked, ClientUnlocked, Working
<1>7. CASE GetGame(c) \/ ApplyMove(c) \/ CheckOver(c) \/ PostResult(c)
  BY <1>0, <1>7
  DEF GetGame, ApplyMove, CheckOver, PostResult, Working
<1>8. CASE UnlistAtSource(c) \/ UnlistAtTarget(c)
  <2>1. /\ cur' = cur /\ pc' = [pc EXCEPT ![c] = pc'[c]]
        /\ pc[c] \in Working /\ pc'[c] # "looking"
    BY <1>0, <1>8 DEF UnlistAtSource, UnlistAtTarget, Unlist, Working
  <2>2. \A d \in Clients, w \in Invitations :
          w \in listed[d] /\ pc[d] = "looking" => w \in listed'[d]
    BY <1>0, <1>8 DEF UnlistAtSource, UnlistAtTarget, Unlist, ClientUnlocked
  <2> QED
    BY <1>0, <2>1, <2>2
<1>9. CASE Drop(c)
  BY <1>0, <1>9 DEF Drop, Working
<1>10. CASE BeginCleanup(c) \/ EndService(c) \/ Hangup(c)
  BY <1>0, <1>10 DEF BeginCleanup, EndService, Hangup, Working
<1> QED
  BY <1>1, <1>2, <1>3, <1>4, <1>5, <1>6, <1>7, <1>8, <1>9, <1>10
  DEF Step, Request, Work

\* No step takes over a mutex that another thread holds.
LEMMA MutexStep ==
  ASSUME InvitationInv, NEW c \in Clients, Step(c)
  PROVE  MutexesAreHeldInClose'
<1> USE DEF ShapeOK, At, Goto, invitationVars, Exists, MutexesAreHeldInClose
<1>0. /\ ShapeOK /\ MutexesAreHeldInClose /\ GameFitsState
      /\ \A d \in Clients : pc[d] \in Working \cup {"looking"} =>
           cur[d] \in Invitations /\ Exists(cur[d])
      /\ \A d \in Clients, v \in Invitations : v \in listed[d] => Exists(v)
  BY HeldExists, ListedExists DEF InvitationInv
<1>1. ASSUME NEW t \in Clients, NEW v \in Invitations, Invite(c, t, v) PROVE MutexesAreHeldInClose'
  BY <1>0, <1>1, DistinctAssumption DEF Invite, Working
<1>2. ASSUME NEW v \in Invitations, NEW r \in Requests, Find(c, v, r) PROVE MutexesAreHeldInClose'
  BY <1>0, <1>2 DEF Find, Working
<1>3. ASSUME NEW v \in Invitations, CleanupOne(c, v) PROVE MutexesAreHeldInClose'
  <2>1. /\ UNCHANGED <<lock, state>> /\ pc[c] = "closing"
        /\ \A d \in Clients \ {c} : pc'[d] = pc[d] /\ cur'[d] = cur[d] /\ op'[d] = op[d]
        /\ pc'[c] \in {"closing", "looking"}
    BY <1>0, <1>3 DEF CleanupOne
  <2> QED
    BY <1>0, <2>1, DistinctAssumption
<1>4. CASE BeginResign(c)
  <2>1. state[cur[c]] = "accepted"
    BY <1>0, <1>4 DEF BeginResign, Closing, MayClose, GameFitsState, Working
  <2> QED
    BY <1>0, <1>4, <2>1, DistinctAssumption DEF BeginResign, Closing, Unlocked, Working
<1>5. CASE \/ Offer(c) \/ Remember(c) \/ Take(c) \/ Refuse(c) \/ Accept(c)
           \/ AcceptRefused(c) \/ CloseRefused(c)
  BY <1>0, <1>5, DistinctAssumption
  DEF Offer, Remember, Take, Refuse, Entitled, Accept, MayAccept, Forget, AcceptRefused,
      CloseRefused, Closing, Unlocked, ClientUnlocked, Working
<1>6. CASE Close(c) \/ CloseKeepsLock(c)
  BY <1>0, <1>6, DistinctAssumption DEF Close, CloseKeepsLock, Closing, Unlocked, Working
<1>7. CASE Resign(c) \/ ResignKeepsLock(c)
  BY <1>0, <1>7, DistinctAssumption DEF Resign, ResignKeepsLock, Release, Working
<1>8. CASE GetGame(c) \/ ApplyMove(c) \/ CheckOver(c)
  BY <1>0, <1>8, DistinctAssumption DEF GetGame, ApplyMove, CheckOver, Working
<1>9. CASE \/ UnlistAtSource(c) \/ UnlistAtTarget(c) \/ PostResult(c) \/ Drop(c)
           \/ BeginCleanup(c) \/ EndService(c) \/ Hangup(c)
  BY <1>0, <1>9, DistinctAssumption
  DEF UnlistAtSource, Unlist, UnlistAtTarget, PostResult, Drop, LastReference, BeginCleanup,
      EndService, NothingLeft, Hangup, Unlocked, ClientUnlocked, Working
<1> QED
  BY <1>1, <1>2, <1>3, <1>4, <1>5, <1>6, <1>7, <1>8, <1>9 DEF Step, Request, Work

\* No step lets anybody find an invitation before it is offered.
LEMMA OfferStep ==
  ASSUME InvitationInv, NEW c \in Clients, Step(c)
  PROVE  OfferIsPrivate'
<1> USE DEF ShapeOK, At, Goto, invitationVars, Exists, OfferIsPrivate, Holds
<1>0. /\ ShapeOK /\ OfferIsPrivate /\ PartiesAreKnown /\ WorkIsOnInvitations
      /\ \A d \in Clients : pc[d] \in Working \cup {"looking"} =>
           cur[d] \in Invitations /\ Exists(cur[d])
      /\ \A d \in Clients, v \in Invitations : v \in listed[d] => Exists(v)
  BY HeldExists, ListedExists DEF InvitationInv
<1>1. ASSUME NEW t \in Clients, NEW v \in Invitations, Invite(c, t, v) PROVE OfferIsPrivate'
  BY <1>0, <1>1, DistinctAssumption DEF Invite, Working
<1>2. ASSUME NEW v \in Invitations, NEW r \in Requests, Find(c, v, r) PROVE OfferIsPrivate'
  <2>1. ASSUME NEW d \in Clients, pc[d] = "offering", cur[d] = v, v \in listed[c]
        PROVE  FALSE
    BY <1>0, <1>2, <2>1 DEF Find, PartiesAreKnown
  <2>2. /\ UNCHANGED <<state, listed, source, target>> /\ pc[c] \in {"serving", "closing"}
        /\ \A d \in Clients : d # c => pc'[d] = pc[d] /\ cur'[d] = cur[d]
        /\ \/ pc'[c] = pc[c] /\ cur'[c] = cur[c]
           \/ pc'[c] = "looking" /\ cur'[c] = v /\ v \in listed[c]
    BY <1>0, <1>2 DEF Find
  <2> QED
    BY <1>0, <2>1, <2>2 DEF Working
<1>3. ASSUME NEW v \in Invitations, CleanupOne(c, v) PROVE OfferIsPrivate'
  <2>1. ASSUME NEW d \in Clients, pc[d] = "offering", cur[d] = v, v \in listed[c]
        PROVE  FALSE
    BY <1>0, <1>3, <2>1 DEF CleanupOne, PartiesAreKnown
  <2>2. /\ UNCHANGED <<state, listed, source, target>> /\ pc[c] \in {"serving", "closing"}
        /\ \A d \in Clients : d # c => pc'[d] = pc[d] /\ cur'[d] = cur[d]
        /\ \/ pc'[c] = pc[c] /\ cur'[c] = cur[c]
           \/ pc'[c] = "looking" /\ cur'[c] = v /\ v \in listed[c]
    BY <1>0, <1>3 DEF CleanupOne
  <2> QED
    BY <1>0, <2>1, <2>2 DEF Working
<1>4. CASE UnlistAtSource(c)
  <2>1. /\ UNCHANGED <<state, source, target, cur>> /\ pc[c] \in {"unlisting", "unlisted"}
        /\ pc' = [pc EXCEPT ![c] = pc'[c]] /\ pc'[c] \in {"unlisted", "posting", "dropping"}
        /\ \A d \in Clients, w \in Invitations : w \in listed'[d] => w \in listed[d]
    BY <1>0, <1>4 DEF UnlistAtSource, Unlist
  <2> QED
    BY <1>0, <2>1 DEF PartiesAreKnown, Working
<1>5. CASE UnlistAtTarget(c)
  <2>1. /\ UNCHANGED <<state, source, target, cur>> /\ pc[c] \in {"unlisting", "unlisted"}
        /\ pc' = [pc EXCEPT ![c] = pc'[c]] /\ pc'[c] \in {"unlisted", "posting", "dropping"}
        /\ \A d \in Clients, w \in Invitations : w \in listed'[d] => w \in listed[d]
    BY <1>0, <1>5 DEF UnlistAtTarget, Unlist
  <2> QED
    BY <1>0, <2>1 DEF PartiesAreKnown, Working
<1>6. CASE Offer(c)
  BY <1>0, <1>6, DistinctAssumption
  DEF Offer, Unlocked, ClientUnlocked, Working
<1>7. CASE Remember(c)
  BY <1>0, <1>7, DistinctAssumption
  DEF Remember, Unlocked, ClientUnlocked, Working
<1>8. CASE Take(c)
  BY <1>0, <1>8, DistinctAssumption
  DEF Take, Unlocked, ClientUnlocked, Working
<1>9. CASE Refuse(c)
  BY <1>0, <1>9, DistinctAssumption
  DEF Refuse, Entitled, Unlocked, ClientUnlocked, Working
<1>10. CASE Accept(c)
  BY <1>0, <1>10, DistinctAssumption
  DEF Accept, MayAccept, Forget, Entitled, Unlocked, ClientUnlocked, Working
<1>11. CASE AcceptRefused(c)
  BY <1>0, <1>11, DistinctAssumption
  DEF AcceptRefused, Unlocked, ClientUnlocked, Working
<1>12. CASE CloseRefused(c)
  BY <1>0, <1>12, DistinctAssumption
  DEF CloseRefused, Closing, Unlocked, ClientUnlocked, Working
<1>13. CASE Close(c)
  BY <1>0, <1>13, DistinctAssumption
  DEF Close, Closing, MayClose, NoGameInProgress, Forget, Unlocked, ClientUnlocked, Working
<1>14. CASE CloseKeepsLock(c)
  BY <1>0, <1>14, DistinctAssumption
  DEF CloseKeepsLock, Closing, MayClose, Unlocked, ClientUnlocked, Working
<1>15. CASE BeginResign(c)
  BY <1>0, <1>15, DistinctAssumption
  DEF BeginResign, Closing, MayClose, Unlocked, ClientUnlocked, Working
<1>16. CASE Resign(c)
  BY <1>0, <1>16, DistinctAssumption
  DEF Resign, Release, Forget, Unlocked, ClientUnlocked, Working
<1>17. CASE ResignKeepsLock(c)
  BY <1>0, <1>17, DistinctAssumption
  DEF ResignKeepsLock, Unlocked, ClientUnlocked, Working
<1>18. CASE GetGame(c)
  BY <1>0, <1>18, DistinctAssumption
  DEF GetGame, Unlocked, ClientUnlocked, Working
<1>19. CASE ApplyMove(c)
  BY <1>0, <1>19, DistinctAssumption
  DEF ApplyMove, Unlocked, ClientUnlocked, Working
<1>20. CASE CheckOver(c)
  BY <1>0, <1>20, DistinctAssumption
  DEF CheckOver, IsOver, Unlocked, ClientUnlocked, Working
<1>21. CASE PostResult(c)
  BY <1>0, <1>21, DistinctAssumption
  DEF PostResult, Unlocked, ClientUnlocked, Working
<1>22. CASE Drop(c)
  BY <1>0, <1>22, DistinctAssumption
  DEF Drop, LastReference, Unlocked, ClientUnlocked, Working
<1>23. CASE BeginCleanup(c)
  BY <1>0, <1>23, DistinctAssumption
  DEF BeginCleanup, Unlocked, ClientUnlocked, Working
<1>24. CASE EndService(c)
  BY <1>0, <1>24, DistinctAssumption
  DEF EndService, NothingLeft, Unlocked, ClientUnlocked, Working
<1>25. CASE Hangup(c)
  BY <1>0, <1>25, DistinctAssumption
  DEF Hangup, Unlocked, ClientUnlocked, Working
<1> QED
  BY <1>1, <1>2, <1>3, <1>4, <1>5, <1>6, <1>7, <1>8, <1>9, <1>10, <1>11, <1>12, <1>13,
     <1>14, <1>15, <1>16, <1>17, <1>18, <1>19, <1>20, <1>21, <1>22, <1>23, <1>24, <1>25
  DEF Step, Request, Work

\* No step takes an open invitation off a list.
LEMMA OpenStep ==
  ASSUME InvitationInv, NEW c \in Clients, Step(c)
  PROVE  OpenIsListed'
<1> USE DEF ShapeOK, At, Goto, invitationVars, Exists, OpenIsListed
<1>0. /\ ShapeOK /\ OpenIsListed /\ PartiesAreKnown /\ OfferIsPrivate
      /\ OnlyFinishedIsUnlisted /\ GameFitsState
      /\ \A d \in Clients : pc[d] \in Working \cup {"looking"} =>
           cur[d] \in Invitations /\ Exists(cur[d])
      /\ \A d \in Clients, v \in Invitations : v \in listed[d] => Exists(v)
  BY HeldExists, ListedExists DEF InvitationInv
<1>1. ASSUME NEW t \in Clients, NEW v \in Invitations, Invite(c, t, v) PROVE OpenIsListed'
  BY <1>0, <1>1, DistinctAssumption DEF Invite, Working
<1>2. ASSUME NEW v \in Invitations, NEW r \in Requests, Find(c, v, r) PROVE OpenIsListed'
  BY <1>0, <1>2 DEF Find, Working
<1>3. ASSUME NEW v \in Invitations, CleanupOne(c, v) PROVE OpenIsListed'
  <2>1. At(c, "closing") /\ UNCHANGED <<state, listed, source, target>>
    BY <1>3 DEF CleanupOne
  <2>2. \A d \in Clients : pc[d] = "offering" => pc'[d] = "offering" /\ cur'[d] = cur[d]
    BY <1>0, <1>3 DEF CleanupOne
  <2> QED
    BY <1>0, <2>1, <2>2 DEF PartiesAreKnown
<1>4. CASE Offer(c)
  <2>1. PICK v \in Invitations : v = cur[c]
    BY <1>0, <1>4 DEF Offer, Working
  <2>2. source[v] = c /\ target[v] \in Clients /\ state[v] = "open"
    BY <1>0, <1>4, <2>1 DEF Offer, OfferIsPrivate, PartiesAreKnown
  <2>3. /\ UNCHANGED <<state, source, target, cur>> /\ pc' = [pc EXCEPT ![c] = "offered"]
        /\ listed' = [listed EXCEPT ![target[v]] = @ \cup {v}]
    BY <1>4, <2>1 DEF Offer
  <2> QED
    BY <1>0, <2>1, <2>2, <2>3 DEF PartiesAreKnown
<1>5. CASE ApplyMove(c)
  <2>1. /\ At(c, "applying") /\ UNCHANGED <<state, listed, source, target, cur>>
        /\ \A d \in Clients : pc[d] = "offering" => pc'[d] = "offering"
    BY <1>0, <1>5 DEF ApplyMove
  <2> QED
    BY <1>0, <2>1 DEF PartiesAreKnown
<1>6. CASE UnlistAtSource(c)
  <2>1. PICK v \in Invitations : v = cur[c]
    BY <1>0, <1>6 DEF UnlistAtSource, Working
  <2>2. state[v] # "open"
    BY <1>0, <1>6, <2>1 DEF UnlistAtSource, OnlyFinishedIsUnlisted, GameFitsState
  <2>3. /\ UNCHANGED <<state, source, target, cur>>
        /\ \A d \in Clients : pc[d] = "offering" => pc'[d] = "offering"
        /\ \A d \in Clients, w \in Invitations \ {v} : w \in listed[d] => w \in listed'[d]
    BY <1>0, <1>6, <2>1 DEF UnlistAtSource, Unlist
  <2> QED
    BY <1>0, <2>1, <2>2, <2>3 DEF PartiesAreKnown
<1>7. CASE UnlistAtTarget(c)
  <2>1. PICK v \in Invitations : v = cur[c]
    BY <1>0, <1>7 DEF UnlistAtTarget, Working
  <2>2. state[v] # "open"
    BY <1>0, <1>7, <2>1 DEF UnlistAtTarget, OnlyFinishedIsUnlisted, GameFitsState
  <2>3. /\ UNCHANGED <<state, source, target, cur>>
        /\ \A d \in Clients : pc[d] = "offering" => pc'[d] = "offering"
        /\ \A d \in Clients, w \in Invitations \ {v} : w \in listed[d] => w \in listed'[d]
    BY <1>0, <1>7, <2>1 DEF UnlistAtTarget, Unlist
  <2> QED
    BY <1>0, <2>1, <2>2, <2>3 DEF PartiesAreKnown
<1>8. CASE PostResult(c)
  <2>1. /\ At(c, "posting") /\ UNCHANGED <<state, listed, source, target, cur>>
        /\ \A d \in Clients : pc[d] = "offering" => pc'[d] = "offering"
    BY <1>0, <1>8 DEF PostResult
  <2> QED
    BY <1>0, <2>1 DEF PartiesAreKnown
<1>9. CASE \/ Remember(c) \/ Take(c) \/ Refuse(c)
  BY <1>0, <1>9, DistinctAssumption
  DEF Remember, Take, Refuse, Entitled, Unlocked, ClientUnlocked, Working, PartiesAreKnown
<1>10. CASE \/ Accept(c) \/ AcceptRefused(c) \/ CloseRefused(c)
  BY <1>0, <1>10, DistinctAssumption
  DEF Accept, MayAccept, Forget, Entitled, AcceptRefused, CloseRefused, Closing, Unlocked,
      ClientUnlocked, Working, PartiesAreKnown
<1>11. CASE \/ Close(c) \/ CloseKeepsLock(c) \/ BeginResign(c)
  BY <1>0, <1>11, DistinctAssumption
  DEF Close, Closing, MayClose, NoGameInProgress, Forget, CloseKeepsLock, BeginResign,
      Unlocked, ClientUnlocked, Working, PartiesAreKnown
<1>12. CASE \/ Resign(c) \/ ResignKeepsLock(c) \/ GetGame(c)
  BY <1>0, <1>12, DistinctAssumption
  DEF Resign, Release, Forget, ResignKeepsLock, GetGame, Unlocked, ClientUnlocked, Working,
      PartiesAreKnown
<1>13. CASE \/ CheckOver(c) \/ Drop(c) \/ BeginCleanup(c)
  BY <1>0, <1>13, DistinctAssumption
  DEF CheckOver, IsOver, Drop, LastReference, BeginCleanup, Unlocked, ClientUnlocked,
      Working, PartiesAreKnown
<1>14. CASE \/ EndService(c) \/ Hangup(c)
  BY <1>0, <1>14, DistinctAssumption
  DEF EndService, NothingLeft, Hangup, Unlocked, ClientUnlocked, Working, PartiesAreKnown
<1> QED
  BY <1>1, <1>2, <1>3, <1>4, <1>5, <1>6, <1>7, <1>8, <1>9, <1>10, <1>11, <1>12, <1>13, <1>14
  DEF Step, Request, Work

\* No step starts a game in what is being taken off the lists, or lists it
\* again.
LEMMA UnlistStep ==
  ASSUME InvitationInv, NEW c \in Clients, Step(c)
  PROVE  OnlyFinishedIsUnlisted'
<1> USE DEF ShapeOK, At, Goto, invitationVars, Exists, OnlyFinishedIsUnlisted
<1>0. /\ ShapeOK /\ OnlyFinishedIsUnlisted /\ PartiesAreKnown /\ OfferIsPrivate
      /\ GameFitsState /\ MutexesAreHeldInClose
      /\ \A d \in Clients : pc[d] \in Working \cup {"looking"} =>
           cur[d] \in Invitations /\ Exists(cur[d])
      /\ \A d \in Clients, v \in Invitations : v \in listed[d] => Exists(v)
  BY HeldExists, ListedExists DEF InvitationInv
<1>1. ASSUME NEW t \in Clients, NEW v \in Invitations, Invite(c, t, v) PROVE OnlyFinishedIsUnlisted'
  BY <1>0, <1>1, DistinctAssumption DEF Invite, Working
<1>2. ASSUME NEW v \in Invitations, NEW r \in Requests, Find(c, v, r) PROVE OnlyFinishedIsUnlisted'
  BY <1>0, <1>2 DEF Find, Working
<1>3. ASSUME NEW v \in Invitations, CleanupOne(c, v) PROVE OnlyFinishedIsUnlisted'
  BY <1>0, <1>3 DEF CleanupOne, Working
<1>4. CASE Offer(c)
  <2>1. PICK v \in Invitations : v = cur[c]
    BY <1>0, <1>4 DEF Offer, Working
  <2>2. state[v] = "open" /\ game[v] = "none"
    BY <1>0, <1>4, <2>1 DEF Offer, OfferIsPrivate, GameFitsState
  <2>3. /\ UNCHANGED <<state, game, source, target, cur>>
        /\ pc' = [pc EXCEPT ![c] = "offered"]
        /\ \A d \in Clients, w \in Invitations \ {v} : w \in listed'[d] => w \in listed[d]
    BY <1>0, <1>4, <2>1 DEF Offer
  <2>4. \A d \in Clients : pc[d] \in {"unlisting", "unlisted", "posting"} => cur[d] # v
    BY <1>0, <2>2
  <2> QED
    BY <1>0, <2>3, <2>4 DEF PartiesAreKnown, Working
<1>5. CASE Accept(c)
  <2>1. PICK v \in Invitations : v = cur[c]
    BY <1>0, <1>5 DEF Accept, Working
  <2>2. state[v] = "open" /\ game[v] = "none"
    BY <1>0, <1>5, <2>1 DEF Accept, MayAccept, GameFitsState
  <2>3. /\ UNCHANGED <<source, target, cur, listed>> /\ pc' = [pc EXCEPT ![c] = "dropping"]
        /\ \A w \in Invitations \ {v} : state'[w] = state[w] /\ game'[w] = game[w]
    BY <1>0, <1>5, <2>1 DEF Accept
  <2>4. \A d \in Clients : pc[d] \in {"unlisting", "unlisted", "posting"} => cur[d] # v
    BY <1>0, <2>2
  <2> QED
    BY <1>0, <2>3, <2>4 DEF Working
<1>6. CASE UnlistAtSource(c)
  <2>0. PICK v \in Invitations : v = cur[c] /\ source[v] \in Clients /\ target[v] \in Clients
    BY <1>0, <1>6 DEF UnlistAtSource, PartiesAreKnown, Working
  <2>1. /\ UNCHANGED <<state, game, source, target, cur>> /\ pc[c] = "unlisting"
        /\ pc' = [pc EXCEPT ![c] = pc'[c]] /\ pc'[c] \in {"unlisted"}
        /\ \A d \in Clients, w \in Invitations : w \in listed'[d] => w \in listed[d]
        /\ cur[c] \notin listed'[source[cur[c]]]
    BY <1>0, <1>6, <2>0 DEF UnlistAtSource, Unlist
  <2> QED
    BY <1>0, <2>1 DEF PartiesAreKnown, Working
<1>7. CASE UnlistAtTarget(c)
  <2>0. PICK v \in Invitations : v = cur[c] /\ source[v] \in Clients /\ target[v] \in Clients
    BY <1>0, <1>7 DEF UnlistAtTarget, PartiesAreKnown, Working
  <2>1. /\ UNCHANGED <<state, game, source, target, cur>> /\ pc[c] = "unlisted"
        /\ pc' = [pc EXCEPT ![c] = pc'[c]] /\ pc'[c] \in {"posting", "dropping"}
        /\ \A d \in Clients, w \in Invitations : w \in listed'[d] => w \in listed[d]
        /\ cur[c] \notin listed'[target[cur[c]]]
    BY <1>0, <1>7, <2>0 DEF UnlistAtTarget, Unlist
  <2> QED
    BY <1>0, <2>1 DEF PartiesAreKnown, Working
<1>8. CASE Drop(c)
  <2>1. PICK v \in Invitations : v = cur[c]
    BY <1>0, <1>8 DEF Drop, Working
  <2>2. /\ UNCHANGED <<game, source, target, listed>> /\ pc[c] = "dropping"
        /\ pc'[c] \in {"serving", "closing"}
        /\ \A d \in Clients \ {c} : pc'[d] = pc[d] /\ cur'[d] = cur[d]
    BY <1>0, <1>8, <2>1 DEF Drop
  <2>3. \A d \in Clients \ {c} : pc[d] \in Working /\ cur[d] = v => state' = state
    <3>1. numRef[v] = 1 => WorkersOn(v) = {c}
      BY <2>1, <2>2, LastIsAlone DEF InvitationInv, Working
    <3> QED
      BY <1>8, <2>1, <3>1 DEF Drop, LastReference, WorkersOn
  <2>4. \A d \in Clients, w \in Invitations :
          d # c /\ pc[d] \in Working /\ cur[d] = w => state'[w] = state[w]
    BY <1>0, <1>8, <2>1, <2>3 DEF Drop, LastReference
  <2> QED
    BY <1>0, <2>2, <2>4 DEF Working
<1>9. CASE \/ Remember(c) \/ Take(c) \/ Refuse(c) \/ AcceptRefused(c) \/ CloseRefused(c)
           \/ Close(c) \/ CloseKeepsLock(c)
  BY <1>0, <1>9, DistinctAssumption
  DEF Remember, Take, Refuse, Entitled, AcceptRefused, CloseRefused, Closing, Close,
      MayClose, NoGameInProgress, Forget, CloseKeepsLock, Unlocked, ClientUnlocked, Working
<1>10. CASE \/ BeginResign(c) \/ Resign(c) \/ ResignKeepsLock(c) \/ GetGame(c)
            \/ ApplyMove(c) \/ CheckOver(c) \/ PostResult(c)
  BY <1>0, <1>10, DistinctAssumption
  DEF BeginResign, Closing, MayClose, Resign, Release, Forget, ResignKeepsLock, GetGame,
      ApplyMove, CheckOver, IsOver, PostResult, Unlocked, ClientUnlocked, Working
<1>11. CASE \/ BeginCleanup(c) \/ EndService(c) \/ Hangup(c)
  BY <1>0, <1>11, DistinctAssumption
  DEF BeginCleanup, EndService, NothingLeft, Hangup, Unlocked, ClientUnlocked, Working
<1> QED
  BY <1>1, <1>2, <1>3, <1>4, <1>5, <1>6, <1>7, <1>8, <1>9, <1>10, <1>11 DEF Step, Request, Work

\* No step puts the game of an invitation and its state at odds, or takes a game
\* in progress off a list.
LEMMA GameStep ==
  ASSUME InvitationInv, NEW c \in Clients, Step(c)
  PROVE  GameFitsState'
<1> USE DEF ShapeOK, At, Goto, invitationVars, Exists, GameFitsState
<1>0. /\ ShapeOK /\ GameFitsState /\ PartiesAreKnown /\ OnlyFinishedIsUnlisted
      /\ OpenIsListed /\ OfferIsPrivate /\ MutexesAreHeldInClose
      /\ \A d \in Clients : pc[d] \in Working \cup {"looking"} =>
           cur[d] \in Invitations /\ Exists(cur[d])
      /\ \A d \in Clients, v \in Invitations : v \in listed[d] => Exists(v)
  BY HeldExists, ListedExists DEF InvitationInv
<1>1. ASSUME NEW t \in Clients, NEW v \in Invitations, Invite(c, t, v) PROVE GameFitsState'
  BY <1>0, <1>1, DistinctAssumption DEF Invite, Working, PartiesAreKnown, MutexesAreHeldInClose
<1>2. ASSUME NEW v \in Invitations, NEW r \in Requests, Find(c, v, r) PROVE GameFitsState'
  BY <1>0, <1>2, DistinctAssumption DEF Find, Working, PartiesAreKnown, MutexesAreHeldInClose
<1>3. ASSUME NEW v \in Invitations, CleanupOne(c, v) PROVE GameFitsState'
  BY <1>0, <1>3 DEF CleanupOne, Working
<1>4. CASE Accept(c)
  <2>1. PICK v \in Invitations : v = cur[c]
    BY <1>0, <1>4 DEF Accept, Working
  <2>2. state[v] = "open" /\ target[v] = c /\ source[v] # c /\ source[v] \in Clients
    BY <1>0, <1>4, <2>1 DEF Accept, MayAccept, Entitled, PartiesAreKnown
  <2>3. v \in listed[source[v]] /\ v \in listed[target[v]]
    BY <1>0, <1>4, <2>1, <2>2 DEF Accept, OpenIsListed, OfferIsPrivate, Holds, Working
  <2> QED
    BY <1>0, <1>4, <2>1, <2>3 DEF Accept
<1>5. CASE UnlistAtSource(c)
  <2>1. game[cur[c]] # "playing" /\ UNCHANGED <<state, game, source, target>>
    BY <1>0, <1>5 DEF UnlistAtSource, Unlist, OnlyFinishedIsUnlisted
  <2>2. \A d \in Clients, w \in Invitations \ {cur[c]} : w \in listed[d] => w \in listed'[d]
    BY <1>0, <1>5 DEF UnlistAtSource, Unlist
  <2> QED
    BY <1>0, <2>1, <2>2 DEF PartiesAreKnown
<1>6. CASE UnlistAtTarget(c)
  <2>1. game[cur[c]] # "playing" /\ UNCHANGED <<state, game, source, target>>
    BY <1>0, <1>6 DEF UnlistAtTarget, Unlist, OnlyFinishedIsUnlisted
  <2>2. \A d \in Clients, w \in Invitations \ {cur[c]} : w \in listed[d] => w \in listed'[d]
    BY <1>0, <1>6 DEF UnlistAtTarget, Unlist
  <2> QED
    BY <1>0, <2>1, <2>2 DEF PartiesAreKnown
<1>7. CASE Drop(c)
  <2>1. PICK v \in Invitations : v = cur[c]
    BY <1>0, <1>7 DEF Drop, Working
  <2>2. numRef[v] = 1 => game[v] # "playing"
    <3>1. numRef[v] = 1 => Listing(v) = {}
      BY <1>7, <2>1, LastIsAlone DEF InvitationInv, Drop, Working
    <3> QED
      BY <1>0, <3>1 DEF PartiesAreKnown, Listing
  <2> QED
    BY <1>0, <1>7, <2>1, <2>2 DEF Drop, LastReference
<1>8. CASE \/ Offer(c) \/ Remember(c) \/ Take(c) \/ Refuse(c) \/ AcceptRefused(c)
           \/ CloseRefused(c) \/ Close(c)
  BY <1>0, <1>8, DistinctAssumption
  DEF Offer, Remember, Take, Refuse, Entitled, AcceptRefused, CloseRefused, Closing,
      MayClose, Close, NoGameInProgress, Forget, Unlocked, ClientUnlocked, Working,
      PartiesAreKnown
<1>9. CASE \/ CloseKeepsLock(c) \/ BeginResign(c) \/ Resign(c) \/ ResignKeepsLock(c)
           \/ GetGame(c) \/ ApplyMove(c) \/ CheckOver(c)
  BY <1>0, <1>9, DistinctAssumption
  DEF CloseKeepsLock, Closing, MayClose, BeginResign, Resign, Release, Forget,
      ResignKeepsLock, GetGame, ApplyMove, CheckOver, IsOver, Unlocked, ClientUnlocked,
      Working, PartiesAreKnown
<1>10. CASE \/ PostResult(c) \/ BeginCleanup(c) \/ EndService(c) \/ Hangup(c)
  BY <1>0, <1>10, DistinctAssumption
  DEF PostResult, BeginCleanup, EndService, NothingLeft, Hangup, Unlocked, ClientUnlocked,
      Working, PartiesAreKnown
<1> QED
  BY <1>1, <1>2, <1>3, <1>4, <1>5, <1>6, <1>7, <1>8, <1>9, <1>10 DEF Step, Request, Work

\* No step posts the result of a game in progress or of one that a list still has.
LEMMA ResultStep ==
  ASSUME InvitationInv, NEW c \in Clients, Step(c)
  PROVE  ResultsAreFinal'
<1> USE DEF ShapeOK, At, Goto, invitationVars, Exists, ResultsAreFinal, Listing
<1>0. /\ ShapeOK /\ ResultsAreFinal /\ GameFitsState /\ PartiesAreKnown
      /\ OnlyFinishedIsUnlisted /\ OfferIsPrivate
      /\ \A d \in Clients : pc[d] \in Working \cup {"looking"} =>
           cur[d] \in Invitations /\ Exists(cur[d])
      /\ \A d \in Clients, v \in Invitations : v \in listed[d] => Exists(v)
  BY HeldExists, ListedExists DEF InvitationInv
<1>1. ASSUME NEW t \in Clients, NEW v \in Invitations, Invite(c, t, v) PROVE ResultsAreFinal'
  BY <1>0, <1>1, DistinctAssumption DEF Invite, Working, PartiesAreKnown, MutexesAreHeldInClose
<1>2. ASSUME NEW v \in Invitations, NEW r \in Requests, Find(c, v, r) PROVE ResultsAreFinal'
  BY <1>0, <1>2, DistinctAssumption DEF Find, Working, PartiesAreKnown, MutexesAreHeldInClose
<1>3. ASSUME NEW v \in Invitations, CleanupOne(c, v) PROVE ResultsAreFinal'
  BY <1>0, <1>3 DEF CleanupOne, Working
<1>4. CASE Offer(c)
  <2>1. PICK v \in Invitations : v = cur[c]
    BY <1>0, <1>4 DEF Offer, Working
  <2>2. game[v] # "over"
    BY <1>0, <1>4, <2>1 DEF Offer, OfferIsPrivate, GameFitsState
  <2>3. /\ UNCHANGED <<posted, game>>
        /\ \A d \in Clients, w \in Invitations \ {v} : w \in listed'[d] => w \in listed[d]
    BY <1>0, <1>4, <2>1 DEF Offer
  <2> QED
    BY <1>0, <2>2, <2>3
<1>5. CASE UnlistAtSource(c)
  <2>1. /\ UNCHANGED <<posted, game>>
        /\ \A d \in Clients, w \in Invitations : w \in listed'[d] => w \in listed[d]
    BY <1>0, <1>5 DEF UnlistAtSource, Unlist
  <2> QED
    BY <1>0, <2>1
<1>6. CASE UnlistAtTarget(c)
  <2>1. /\ UNCHANGED <<posted, game>>
        /\ \A d \in Clients, w \in Invitations : w \in listed'[d] => w \in listed[d]
    BY <1>0, <1>6 DEF UnlistAtTarget, Unlist
  <2> QED
    BY <1>0, <2>1
<1>7. CASE PostResult(c)
  <2>1. PICK v \in Invitations : v = cur[c]
    BY <1>0, <1>7 DEF PostResult, Working
  <2>2. game[v] # "none" => game[v] = "over" /\ \A d \in Clients : v \notin listed[d]
    <3>1. pc[c] = "posting" /\ game[v] # "playing" /\ game[v] \in {"none", "playing", "over"}
      BY <1>0, <1>7, <2>1 DEF PostResult, OnlyFinishedIsUnlisted
    <3>2. v \notin listed[source[v]] /\ v \notin listed[target[v]]
      BY <1>0, <2>1, <3>1 DEF OnlyFinishedIsUnlisted
    <3>3. \A d \in Clients : v \in listed[d] => d \in {source[v], target[v]}
      BY <1>0 DEF PartiesAreKnown
    <3> HIDE DEF ShapeOK
    <3> QED
      BY <3>1, <3>2, <3>3
  <2> QED
    BY <1>0, <1>7, <2>1, <2>2 DEF PostResult
<1>8. CASE \/ Remember(c) \/ Take(c) \/ Refuse(c) \/ Accept(c) \/ AcceptRefused(c)
           \/ CloseRefused(c) \/ Close(c)
  BY <1>0, <1>8, DistinctAssumption
  DEF Remember, Take, Refuse, Entitled, Accept, MayAccept, Forget, AcceptRefused,
      CloseRefused, Closing, MayClose, Close, NoGameInProgress, Unlocked, ClientUnlocked,
      Working, GameFitsState, PartiesAreKnown
<1>9. CASE \/ CloseKeepsLock(c) \/ BeginResign(c) \/ Resign(c) \/ ResignKeepsLock(c)
           \/ GetGame(c) \/ ApplyMove(c) \/ CheckOver(c)
  BY <1>0, <1>9, DistinctAssumption
  DEF CloseKeepsLock, Closing, MayClose, BeginResign, Resign, Release, Forget,
      ResignKeepsLock, GetGame, ApplyMove, CheckOver, IsOver, Unlocked, ClientUnlocked,
      Working, GameFitsState, PartiesAreKnown
<1>10. CASE \/ Drop(c) \/ BeginCleanup(c) \/ EndService(c) \/ Hangup(c)
  BY <1>0, <1>10, DistinctAssumption
  DEF Drop, LastReference, BeginCleanup, EndService, NothingLeft, Hangup, Unlocked,
      ClientUnlocked, Working, GameFitsState, PartiesAreKnown
<1> QED
  BY <1>1, <1>2, <1>3, <1>4, <1>5, <1>6, <1>7, <1>8, <1>9, <1>10 DEF Step, Request, Work

\* No step makes the source forget what is unfinished.
LEMMA RememberStep ==
  ASSUME InvitationInv, NEW c \in Clients, Step(c)
  PROVE  UnfinishedIsRemembered'
<1> USE DEF ShapeOK, At, Goto, invitationVars, Exists, UnfinishedIsRemembered, Unfinished
<1>0. /\ ShapeOK /\ UnfinishedIsRemembered /\ PartiesAreKnown
      /\ GameFitsState /\ OpenIsListed /\ MutexesAreHeldInClose
      /\ \A d \in Clients : pc[d] \in Working \cup {"looking"} =>
           cur[d] \in Invitations /\ Exists(cur[d])
      /\ \A d \in Clients, v \in Invitations : v \in listed[d] => Exists(v)
  BY HeldExists, ListedExists DEF InvitationInv
<1>1. ASSUME NEW t \in Clients, NEW v \in Invitations, Invite(c, t, v) PROVE UnfinishedIsRemembered'
  BY <1>0, <1>1, DistinctAssumption DEF Invite, Working, PartiesAreKnown, MutexesAreHeldInClose
<1>2. ASSUME NEW v \in Invitations, NEW r \in Requests, Find(c, v, r) PROVE UnfinishedIsRemembered'
  BY <1>0, <1>2, DistinctAssumption DEF Find, Working, PartiesAreKnown, MutexesAreHeldInClose
<1>3. ASSUME NEW v \in Invitations, CleanupOne(c, v) PROVE UnfinishedIsRemembered'
  <2>1. Unfinished(v) => v \in listed[source[v]]
    BY <1>0 DEF OpenIsListed, GameFitsState
  <2>2. CASE v \in listed[c]
    <3>1. /\ UNCHANGED <<state, game, source, lock>> /\ pc[c] = "closing"
          /\ op' = [op EXCEPT ![c] = "cleanup"] /\ cur' = [cur EXCEPT ![c] = v]
          /\ pc' = [pc EXCEPT ![c] = "looking"] /\ made' = [made EXCEPT ![c] = @ \ {v}]
      BY <1>3, <2>2 DEF CleanupOne
    <3>2. \A w \in Invitations : Unfinished(w) => source[w] \in Clients
      BY <1>0 DEF PartiesAreKnown
    <3>3. \A w \in Invitations : Unfinished(w) /\ source[w] = c => w \in made[c]
      BY <1>0, <3>1, DistinctAssumption DEF MutexesAreHeldInClose
    <3> QED
      BY <1>0, <3>1, <3>2, <3>3
  <2>3. CASE v \notin listed[c]
    BY <1>0, <1>3, <2>1, <2>3, DistinctAssumption DEF CleanupOne, MutexesAreHeldInClose
  <2> QED
    BY <2>2, <2>3
<1>4. CASE Accept(c)
  <2>1. PICK v \in Invitations : v = cur[c]
    BY <1>0, <1>4 DEF Accept, Working
  <2>2. source[v] # c /\ op[c] = "accept" /\ pc[c] = "deciding" /\ Unfinished(v)
    BY <1>0, <1>4, <2>1 DEF Accept, MayAccept, Entitled, PartiesAreKnown, GameFitsState
  <2>3. /\ UNCHANGED <<source, op, cur, lock>> /\ pc' = [pc EXCEPT ![c] = "dropping"]
        /\ \A d \in Clients, w \in Invitations : d # c \/ w # v =>
             (w \in made'[d] <=> w \in made[d])
        /\ \A w \in Invitations \ {v} : state'[w] = state[w] /\ game'[w] = game[w]
    BY <1>0, <1>4, <2>1 DEF Accept, Forget
  <2>4. \A w \in Invitations : Unfinished(w)' => Unfinished(w) /\ source[w] \in Clients
    BY <1>0, <2>2, <2>3 DEF PartiesAreKnown
  <2> QED
    BY <1>0, <2>2, <2>3, <2>4, DistinctAssumption DEF MutexesAreHeldInClose
<1>5. CASE \/ Offer(c) \/ Remember(c) \/ Take(c) \/ Refuse(c)
  BY <1>0, <1>5, DistinctAssumption
  DEF Offer, Remember, Take, Refuse, Entitled, Unlocked, ClientUnlocked, Working,
      PartiesAreKnown, MutexesAreHeldInClose
<1>6. CASE \/ AcceptRefused(c) \/ CloseRefused(c) \/ Close(c) \/ CloseKeepsLock(c)
  BY <1>0, <1>6, DistinctAssumption
  DEF AcceptRefused, CloseRefused, Closing, MayClose, Close, NoGameInProgress, Forget,
      CloseKeepsLock, Unlocked, ClientUnlocked, Working, PartiesAreKnown,
      MutexesAreHeldInClose
<1>7. CASE \/ BeginResign(c) \/ Resign(c) \/ ResignKeepsLock(c) \/ GetGame(c)
  BY <1>0, <1>7, DistinctAssumption
  DEF BeginResign, Closing, MayClose, Resign, Release, Forget, ResignKeepsLock, GetGame,
      Unlocked, ClientUnlocked, Working, PartiesAreKnown, MutexesAreHeldInClose
<1>8. CASE \/ ApplyMove(c) \/ CheckOver(c) \/ UnlistAtSource(c) \/ UnlistAtTarget(c)
  BY <1>0, <1>8, DistinctAssumption
  DEF ApplyMove, CheckOver, IsOver, UnlistAtSource, Unlist, UnlistAtTarget, Unlocked,
      ClientUnlocked, Working, PartiesAreKnown, MutexesAreHeldInClose
<1>9. CASE \/ PostResult(c) \/ Drop(c) \/ BeginCleanup(c) \/ EndService(c)
  BY <1>0, <1>9, DistinctAssumption
  DEF PostResult, Drop, LastReference, BeginCleanup, EndService, NothingLeft, Unlocked,
      ClientUnlocked, Working, PartiesAreKnown, MutexesAreHeldInClose
<1>10. CASE Hangup(c)
  BY <1>0, <1>10, DistinctAssumption
  DEF Hangup, Unlocked, ClientUnlocked, Working, PartiesAreKnown, MutexesAreHeldInClose
<1> QED
  BY <1>1, <1>2, <1>3, <1>4, <1>5, <1>6, <1>7, <1>8, <1>9, <1>10 DEF Step, Request, Work

\* No step gives a thread that has ended something to remember.
LEMMA EndedStep ==
  ASSUME InvitationInv, NEW c \in Clients, Step(c)
  PROVE  EndedRememberNothing'
<1> USE DEF ShapeOK, At, Goto, invitationVars, Exists, EndedRememberNothing
<1>0. /\ ShapeOK /\ EndedRememberNothing
      /\ \A d \in Clients : pc[d] \in Working \cup {"looking"} =>
           cur[d] \in Invitations /\ Exists(cur[d])
      /\ \A d \in Clients, v \in Invitations : v \in listed[d] => Exists(v)
  BY HeldExists, ListedExists DEF InvitationInv
<1>1. ASSUME NEW t \in Clients, NEW v \in Invitations, Invite(c, t, v) PROVE EndedRememberNothing'
  BY <1>0, <1>1, DistinctAssumption DEF Invite, Working, PartiesAreKnown, MutexesAreHeldInClose
<1>2. ASSUME NEW v \in Invitations, NEW r \in Requests, Find(c, v, r) PROVE EndedRememberNothing'
  BY <1>0, <1>2, DistinctAssumption DEF Find, Working, PartiesAreKnown, MutexesAreHeldInClose
<1>3. ASSUME NEW v \in Invitations, CleanupOne(c, v) PROVE EndedRememberNothing'
  BY <1>0, <1>3 DEF CleanupOne, Working
<1>4. CASE \/ Offer(c) \/ Remember(c) \/ Take(c) \/ Refuse(c) \/ Accept(c)
           \/ AcceptRefused(c) \/ CloseRefused(c)
  BY <1>0, <1>4, DistinctAssumption
  DEF Offer, Remember, Take, Refuse, Entitled, Accept, MayAccept, Forget, AcceptRefused,
      CloseRefused, Closing, MayClose, Unlocked, ClientUnlocked, Working
<1>5. CASE \/ Close(c) \/ CloseKeepsLock(c) \/ BeginResign(c) \/ Resign(c)
           \/ ResignKeepsLock(c) \/ GetGame(c) \/ ApplyMove(c)
  BY <1>0, <1>5, DistinctAssumption
  DEF Close, Closing, MayClose, NoGameInProgress, Forget, CloseKeepsLock, BeginResign,
      Resign, Release, ResignKeepsLock, GetGame, ApplyMove, Unlocked, ClientUnlocked,
      Working
<1>6. CASE \/ CheckOver(c) \/ UnlistAtSource(c) \/ UnlistAtTarget(c) \/ PostResult(c)
           \/ Drop(c) \/ BeginCleanup(c) \/ EndService(c)
  BY <1>0, <1>6, DistinctAssumption
  DEF CheckOver, IsOver, UnlistAtSource, Unlist, UnlistAtTarget, PostResult, Drop,
      LastReference, BeginCleanup, EndService, NothingLeft, Unlocked, ClientUnlocked,
      Working
<1>7. CASE Hangup(c)
  BY <1>0, <1>7, DistinctAssumption
  DEF Hangup, Unlocked, ClientUnlocked, Working
<1> QED
  BY <1>1, <1>2, <1>3, <1>4, <1>5, <1>6, <1>7 DEF Step, Request, Work

(***************************************************************************)
(* The invariant holds of every behaviour.                                 *)
(***************************************************************************)

\* A step that leaves the invitations and the threads alone keeps the invariant.
LEMMA InvitationStutter ==
  ASSUME InvitationInv, UNCHANGED vars
  PROVE  InvitationInv'
<1> USE DEF vars, invitationVars, threadVars, InvitationInv
<1>1. RefsAreExact'
  BY DEF RefsAreExact, Listing, WorkersOn, Exists
<1>2. ShapeOK' /\ PartiesAreKnown' /\ WorkIsOnInvitations' /\ MutexesAreHeldInClose'
  BY DEF ShapeOK, PartiesAreKnown, WorkIsOnInvitations, MutexesAreHeldInClose
<1>3. OfferIsPrivate' /\ OpenIsListed' /\ OnlyFinishedIsUnlisted' /\ GameFitsState'
  BY DEF OfferIsPrivate, OpenIsListed, OnlyFinishedIsUnlisted, GameFitsState, Holds, At
<1>4. ResultsAreFinal' /\ UnfinishedIsRemembered'
  BY DEF ResultsAreFinal, UnfinishedIsRemembered, Unfinished, Listing
<1>5. EndedRememberNothing'
  BY DEF EndedRememberNothing
<1> QED
  BY <1>1, <1>2, <1>3, <1>4, <1>5

\* Every step of every service thread keeps every part of the invariant.
LEMMA InvitationNext == InvitationInv /\ [Next]_vars => InvitationInv'
<1> SUFFICES ASSUME InvitationInv, [Next]_vars PROVE InvitationInv'
  OBVIOUS
<1>1. ASSUME NEW c \in Clients, Step(c) PROVE InvitationInv'
  <2>1. ShapeOK'
    BY <1>1, ShapeStep DEF InvitationInv
  <2> QED
    BY <1>1, <2>1, CountStep, PartiesStep, WorkStep, MutexStep, OfferStep, OpenStep,
       UnlistStep, GameStep, ResultStep, RememberStep, EndedStep
    DEF InvitationInv
<1> QED
  BY <1>1, InvitationStutter DEF Next, Step

\* The reference counts, lists, mutexes, games and states of all invitations fit
\* each other at every moment, whatever the threads of client.c and invitation.c do.
THEOREM InvitationInvariant == Spec => []InvitationInv
  BY InvitationInit, InvitationNext, PTL DEF Spec

\* However many threads share an invitation, its reference count is the number
\* of lists it is in plus the number of threads at work on it, and it is freed
\* with the last of them (invitation.c:109-160).
THEOREM ReferencesAreExact == Spec => []RefsAreExact
<1>1. InvitationInv => RefsAreExact
  BY DEF InvitationInv
<1> QED
  BY <1>1, InvitationInvariant, PTL

\* Whichever of accept, decline, revoke, resign and the last move comes first, the
\* state of an invitation and its game agree, and both players can reach a game in
\* progress (invitation.c:270-355).
THEOREM GamesFitStates == Spec => []GameFitsState
<1>1. InvitationInv => GameFitsState
  BY DEF InvitationInv
<1> QED
  BY <1>1, InvitationInvariant, PTL

\* A result is posted only of a game that has ended and is off both lists
\* (client_make_move() and client_resign_game()).
THEOREM PostedResultsAreFinal == Spec => []ResultsAreFinal
<1>1. InvitationInv => ResultsAreFinal
  BY DEF InvitationInv
<1> QED
  BY <1>1, InvitationInvariant, PTL

\* When a service thread has ended, cleanup() has left nothing of its client open
\* and no game in progress (server.c:29-38).
THEOREM DepartedLeaveNothingOpen == Spec => []DepartedSourceLeavesNothingOpen
<1>1. InvitationInv => DepartedSourceLeavesNothingOpen
  <2> SUFFICES ASSUME InvitationInv, NEW v \in Invitations, NEW c \in Clients,
                      Exists(v), source[v] = c, pc[c] = "done"
               PROVE  state[v] = "closed" \/ game[v] = "over"
    BY DEF DepartedSourceLeavesNothingOpen
  <2>1. ~Unfinished(v)
    BY DistinctAssumption
    DEF InvitationInv, UnfinishedIsRemembered, EndedRememberNothing, MutexesAreHeldInClose
  <2> QED
    BY <2>1 DEF InvitationInv, ShapeOK, States, Unfinished, Exists
<1> QED
  BY <1>1, InvitationInvariant, PTL

\* A mutex of an invitation is held between two steps only by a thread that is in
\* inv_close() with a reference to it, or that has left it without unlocking
\* (invitation.c:310-355).
THEOREM MutexesStayInClose == Spec => []MutexesAreHeldInClose
<1>1. InvitationInv => MutexesAreHeldInClose
  BY DEF InvitationInv
<1> QED
  BY <1>1, InvitationInvariant, PTL

\* A mutex that inv_close() has kept is never free again: its owner's next call
\* waits for it.
THEOREM LeakedForGood == Spec => [][\A v \in Invitations : Leaked(v) => Leaked(v)']_vars
<1>1. ASSUME InvitationInv, NEW c \in Clients, Step(c), NEW v \in Invitations, Leaked(v)
      PROVE  Leaked(v)'
  <2> USE DistinctAssumption DEF At, Goto, Unlocked, invitationVars, ShapeOK
  <2>0. ShapeOK /\ WorkIsOnInvitations /\ MutexesAreHeldInClose
    BY <1>1 DEF InvitationInv
  <2>1. PICK o \in Clients : lock[v] = o /\ pc[o] = "dropping" /\ cur[o] = v
    BY <1>1, <2>0 DEF Leaked, MutexesAreHeldInClose
  <2> SUFFICES lock'[v] = o /\ pc'[o] = "dropping"
    BY <2>1 DEF Leaked
  <2>2. ASSUME NEW w \in Invitations,
               \/ \E t \in Clients : Invite(c, t, w)
               \/ \E r \in Requests : Find(c, w, r)
               \/ CleanupOne(c, w)
        PROVE  lock'[v] = o /\ pc'[o] = "dropping"
    BY <2>0, <2>1, <2>2 DEF Invite, Find, CleanupOne
  <2>3. CASE Resign(c)
    BY <2>0, <2>1, <2>3 DEF Resign, Release, MutexesAreHeldInClose
  <2>4. CASE CloseKeepsLock(c) \/ BeginResign(c)
    BY <2>0, <2>1, <2>4 DEF CloseKeepsLock, BeginResign, Closing
  <2>5. CASE Drop(c)
    BY <2>0, <2>1, <2>5 DEF Drop
  <2>6. CASE \/ Offer(c) \/ Remember(c) \/ Take(c) \/ Refuse(c) \/ Accept(c)
             \/ AcceptRefused(c) \/ CloseRefused(c) \/ Close(c)
    BY <2>0, <2>1, <2>6
    DEF Offer, Remember, Take, Refuse, Accept, AcceptRefused, CloseRefused, Close, Closing
  <2>7. CASE \/ ResignKeepsLock(c) \/ GetGame(c) \/ ApplyMove(c) \/ CheckOver(c)
             \/ UnlistAtSource(c) \/ UnlistAtTarget(c) \/ PostResult(c)
    BY <2>0, <2>1, <2>7
    DEF ResignKeepsLock, GetGame, ApplyMove, CheckOver, UnlistAtSource, UnlistAtTarget,
        Unlist, PostResult
  <2>8. CASE BeginCleanup(c) \/ EndService(c) \/ Hangup(c)
    BY <2>0, <2>1, <2>8 DEF BeginCleanup, EndService, Hangup
  <2> QED
    BY <1>1, <2>2, <2>3, <2>4, <2>5, <2>6, <2>7, <2>8 DEF Step, Request, Work
<1>2. InvitationInv /\ [Next]_vars
        => [\A v \in Invitations : Leaked(v) => Leaked(v)']_vars
  BY <1>1 DEF Next, Step
<1> QED
  BY <1>2, InvitationInvariant, PTL DEF Spec

(***************************************************************************)
(* Every invitation lives the life that invitation.h promises.             *)
(***************************************************************************)

\* A step of a thread is a step in the life of each invitation, or none.
LEMMA LifeStep ==
  ASSUME InvitationInv, NEW c \in Clients, Step(c), NEW v \in Invitations
  PROVE  Life(v)!Next \/ UNCHANGED Life(v)!lifeVars
<1> USE DEF At, Goto, ShapeOK, States, invitationVars
<1> DEFINE phase == IF state[v] = "freed" THEN "closed" ELSE state[v]
<1>0. /\ ShapeOK /\ PartiesAreKnown /\ GameFitsState /\ MutexesAreHeldInClose
      /\ pc[c] \in Working \cup {"looking"} => cur[c] \in Invitations /\ Exists(cur[c])
  BY HeldExists DEF InvitationInv
<1>1. ASSUME state'[v] = state[v], game'[v] = game[v]
      PROVE  UNCHANGED Life(v)!lifeVars
  BY <1>1 DEF Life!lifeVars
<1>2. ASSUME NEW t \in Clients, NEW w \in Invitations, Invite(c, t, w)
      PROVE  Life(v)!Next \/ UNCHANGED Life(v)!lifeVars
  <2>1. CASE w = v
    BY <1>0, <1>2, <2>1 DEF Invite, Life!Next, Life!Create
  <2>2. CASE w # v
    BY <1>0, <1>1, <1>2, <2>2 DEF Invite
  <2> QED
    BY <2>1, <2>2
<1>3. CASE Accept(c)
  <2>1. CASE cur[c] = v
    BY <1>0, <1>3, <2>1 DEF Accept, MayAccept, Life!Next, Life!Accept
  <2>2. CASE cur[c] # v
    BY <1>0, <1>1, <1>3, <2>2 DEF Accept, Working
  <2> QED
    BY <2>1, <2>2
<1>4. CASE Close(c)
  <2>1. CASE cur[c] = v
    BY <1>0, <1>4, <2>1
    DEF Close, Closing, MayClose, NoGameInProgress, GameFitsState, Life!Next, Life!Withdraw,
        Life!Retire
  <2>2. CASE cur[c] # v
    BY <1>0, <1>1, <1>4, <2>2 DEF Close, Closing, Working
  <2> QED
    BY <2>1, <2>2
<1>5. CASE Resign(c)
  <2>1. CASE cur[c] = v
    BY <1>0, <1>5, <2>1
    DEF Resign, MutexesAreHeldInClose, Life!Next, Life!EndByResignation
  <2>2. CASE cur[c] # v
    BY <1>0, <1>1, <1>5, <2>2 DEF Resign, Working
  <2> QED
    BY <2>1, <2>2
<1>6. CASE ApplyMove(c)
  <2>1. CASE cur[c] = v /\ game'[v] # game[v]
    BY <1>0, <1>6, <2>1 DEF ApplyMove, GameFitsState, Life!Next, Life!EndByMove
  <2>2. CASE cur[c] # v \/ game'[v] = game[v]
    BY <1>0, <1>1, <1>6, <2>2 DEF ApplyMove, Working
  <2> QED
    BY <2>1, <2>2
<1>7. CASE Drop(c)
  <2>1. CASE cur[c] = v /\ numRef[v] = 1
    <3>1. Listing(v) = {}
      BY <1>7, <2>1, LastIsAlone DEF InvitationInv, Drop, Working
    <3>2. game[v] # "playing" /\ state[v] \in {"open", "accepted", "closed"}
      BY <1>0, <1>7, <2>1, <3>1 DEF Drop, GameFitsState, PartiesAreKnown, Listing, Working, Exists
    <3> QED
      BY <1>0, <1>7, <2>1, <3>2
      DEF Drop, LastReference, GameFitsState, Life!Next, Life!Withdraw, Life!Retire, Life!lifeVars
  <2>2. CASE cur[c] # v \/ numRef[v] # 1
    BY <1>0, <1>1, <1>7, <2>2 DEF Drop, LastReference, Working
  <2> QED
    BY <2>1, <2>2
<1>8. ASSUME NEW w \in Invitations, (\E r \in Requests : Find(c, w, r)) \/ CleanupOne(c, w)
      PROVE  UNCHANGED Life(v)!lifeVars
  BY <1>1, <1>8 DEF Find, CleanupOne
<1>9. CASE \/ Offer(c) \/ Remember(c) \/ Take(c) \/ Refuse(c) \/ AcceptRefused(c)
           \/ CloseRefused(c) \/ CloseKeepsLock(c) \/ BeginResign(c) \/ ResignKeepsLock(c)
  BY <1>1, <1>9
  DEF Offer, Remember, Take, Refuse, AcceptRefused, CloseRefused, CloseKeepsLock, BeginResign,
      Closing, ResignKeepsLock
<1>10. CASE \/ GetGame(c) \/ CheckOver(c) \/ UnlistAtSource(c) \/ UnlistAtTarget(c)
            \/ PostResult(c) \/ BeginCleanup(c) \/ EndService(c) \/ Hangup(c)
  BY <1>1, <1>10
  DEF GetGame, CheckOver, UnlistAtSource, UnlistAtTarget, Unlist, PostResult, BeginCleanup,
      EndService, Hangup
<1> QED
  BY <1>2, <1>3, <1>4, <1>5, <1>6, <1>7, <1>8, <1>9, <1>10 DEF Step, Request, Work

\* Whoever else works on it, an invitation is accepted, declined, revoked, played and
\* retired as invitation.h promises.
THEOREM EveryLifeIsAsPromised ==
  ASSUME NEW v \in Invitations
  PROVE  Spec => Life(v)!Spec
<1>1. Init => Life(v)!Init
  BY DEF Init, Life!Init
<1>2. InvitationInv /\ [Next]_vars => [Life(v)!Next]_(Life(v)!lifeVars)
  <2>1. UNCHANGED vars => UNCHANGED Life(v)!lifeVars
    BY DEF vars, invitationVars, Life!lifeVars
  <2> QED
    BY <2>1, LifeStep DEF Next, Step
<1> QED
  BY <1>1, <1>2, InvitationInvariant, PTL DEF Spec, Life!Spec

\* The same for all invitations at once, in the form the run checks.
THEOREM LivesAreAsPromised == Spec => LivesAsPromised
<1>1. Init => \A v \in Invitations : Life(v)!Init
  BY DEF Init, Life!Init
<1>2. InvitationInv /\ [Next]_vars
        => [\A v \in Invitations : Life(v)!Next \/ UNCHANGED Life(v)!lifeVars]_vars
  BY LifeStep DEF Next, Step
<1> QED
  BY <1>1, <1>2, InvitationInvariant, PTL DEF Spec, LivesAsPromised
===============================================================================
