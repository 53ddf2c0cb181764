----------------------- MODULE ClientRegistryProperties -----------------------
(***************************************************************************)
(* What should hold of the client registry and its callers.                *)
(***************************************************************************)
EXTENDS ClientRegistry

\* Every variable of the registry, its callers and their CLIENTs has its type.
TypeOK ==
  /\ lock \in Clients \cup {Main, NULL}
  /\ clients \in [Slots -> Clients \cup {NULL, Garbage}]
  /\ numClients \in 0..MAX_CLIENTS
  /\ sem \in Nat
  /\ finalized \in BOOLEAN
  /\ refs \in [Clients -> Nat]
  /\ user \in [Clients -> Users \cup {NULL}]
  /\ fd \in [Clients -> Fds \cup {-1}]
  /\ sock \in [Clients -> SocketStates]
  /\ pc \in [Clients -> ThreadStates]
  /\ slot \in [Clients -> 0..MAX_CLIENTS]
  /\ want \in [Clients -> Users \cup {NULL}]
  /\ held \in [Clients -> Clients \cup {NULL}]
  /\ term \in [Threads -> TermStates]
  /\ cursor \in [Threads -> 0..MAX_CLIENTS]
  /\ handlers \in [Threads -> 0..2]
  /\ starts \in 0..MaxStarts
  /\ process \in Outcomes
  /\ drained \in BOOLEAN
  /\ awaited \in [Threads -> BOOLEAN]

Unlinking(c) == pc[c] = "unlinking"
Registered(c) == pc[c] \in InRegistry

(***************************************************************************)
(* Invariants.                                                             *)
(***************************************************************************)

\* The first numClients entries are the registered CLIENTs, each once; a hole
\* is where the thread that holds the lock has just cleared its entry, and no
\* CLIENT pointer survives behind the last entry (client_registry.c:116, 150-166).
RegistryIsExact ==
  /\ \A i \in Occupied :
       IF clients[i] \in Clients
       THEN /\ Registered(clients[i])
            /\ \A j \in Occupied : clients[j] = clients[i] => j = i
       ELSE \E c \in Clients : lock = c /\ Unlinking(c) /\ slot[c] = i
  /\ \A c \in Clients : Registered(c) => \E i \in Occupied : clients[i] = c
  /\ \A i \in Slots \ Occupied : clients[i] \notin Clients

\* cr_lock is taken during the critical sections that have steps, by the thread in
\* them: one takes an entry out, or one sweeps, never two, whatever signals strike.
\* Otherwise it is held only by a thread that a handler took away in the middle of a
\* section, and whose terminate() now waits for it (client_registry.c:148-180, 287-292).
CriticalSections ==
  /\ \A c \in Clients : Unlinking(c) => lock = c
  /\ \A t \in Threads : term[t] = "sweeping" => lock = t /\ ~(t \in Clients /\ Unlinking(t))
  /\ \A t \in Threads : lock = t =>
       \/ t \in Clients /\ Unlinking(t)
       \/ term[t] \in {"sweeping", "terminate"}

\* The reference count of a CLIENT is the number of pointers that exist to it:
\* the one the registry took over from creg_register() and one for each INVITE
\* handler that looked it up (client_registry.c:109, 183, 211), next to those that
\* INVITATIONs take and drop for themselves.  So a CLIENT in the registry is never
\* freed.
Inviters(c) == {d \in Clients : pc[d] = "inviting" /\ held[d] = c}
Owned(c) == Registered(c) \/ pc[c] \in {"creating", "unlinking", "dropping"}
RefsAreCounted ==
  \A c \in Clients :
    refs[c] = Cardinality(Inviters(c)) + (IF Owned(c) THEN 1 ELSE 0)

\* No thread is left asleep in creg_wait_for_empty() with the registry empty: the
\* count it saw was not zero, whoever brings it to zero afterwards posts, and each
\* waiter posts for the next (client_registry.c:167-169, 267-270).  A permit is lost
\* only to a signal, and then the thread it struck is awake in terminate().
Awake(t) == term[t] \notin {"none", "semWait"}
NoLostWakeup ==
  (\E t \in Threads : term[t] = "semWait") /\ numClients = 0
    => sem > 0 \/ \E t \in Threads : Awake(t)

\* creg_lookup() returns the CLIENT logged in under the name it was given as
\* long as no connection has ended (client_registry.c:204-211).
LookupIsRightWhileNoneLeaves ==
  (\A c \in Clients : sock[c] # "closed")
    => \A c \in Clients : pc[c] = "inviting" => user[held[c]] = want[c]

(***************************************************************************)
(* What a step may never do.                                               *)
(***************************************************************************)

\* creg_shutdown_all() leaves no registered connection open when it unlocks
\* (client_registry.c:288-292), so every thread then registered will see EOF.
SweepReachesAll ==
  [][\A t \in Threads : term[t] = "sweeping" /\ term'[t] = "waiting"
       => \A c \in Clients : Registered(c) => sock[c] # "open"]_vars

(***************************************************************************)
(* What must happen.                                                       *)
(***************************************************************************)

\* A handler took its thread away inside of a critical section, and now waits for
\* a lock that its own thread holds.
HandlerBlocked == \E t \in Threads : lock = t /\ term[t] = "terminate"

\* The thread of a connection was taken away by a signal: it will not unregister.
TakenAway(c) == term[c] # "none"

\* A service thread whose connection has ended unregisters and finishes
\* (server.c:149-155), unless the process ends first, a signal was delivered to
\* this very thread, or a handler has blocked the registry.
EndedConnectionsAreCleanedUp ==
  \A c \in Clients :
    sock[c] = "eof" ~> pc[c] = "done" \/ ~Running \/ TakenAway(c) \/ HandlerBlocked

\* A thread that waits for the registry to become empty gets to the end of
\* terminate() (main.c:173-188), unless it waits for a connection that registered
\* after the sweep of creg_shutdown_all() and stays open, for one that accept() gave
\* no descriptor, or for one whose service thread itself runs terminate(), which
\* may be the one that waits.
ShutdownWaitsForLateOrTakenAway ==
  (\E t \in Threads : term[t] = "semWait") ~>
    \/ ~Running
    \/ \E c \in Clients : Registered(c) /\ (sock[c] \in {"open", "invalid"} \/ TakenAway(c))
    \/ HandlerBlocked

(***************************************************************************)
(* The registry as its callers see it.                                     *)
(***************************************************************************)

\* Who is in the registry, as creg_lookup() and creg_wait_for_empty() can tell.
Membership ==
  [c \in Clients |-> IF \E i \in Occupied : clients[i] = c THEN "in"
                    ELSE IF pc[c] \in {"unlinking", "dropping", "done"} THEN "left"
                    ELSE "out"]

Waiter ==
  [t \in Threads |-> IF Waiting(t) THEN IF awaited[t] THEN "released" ELSE "waiting"
                    ELSE IF term[t] \in {"fini", "destroy", "exit"} THEN "returned"
                    ELSE "idle"]

Contract ==
  INSTANCE RegistryContract WITH
    Waiters <- Threads, Capacity <- MAX_CLIENTS, status <- Membership, waiter <- Waiter

\* The one departure from the contract: the permit that was posted when the registry
\* became empty is never taken back, so that a later wait returns at once although
\* clients have registered since.
StalePermit(t) ==
  /\ drained
  /\ Waiter[t] = "waiting"
  /\ Waiter' = [Waiter EXCEPT ![t] = "returned"]
  /\ UNCHANGED Membership

\* The registry implements the contract of its header (client_registry.h:50-118):
\* capacity, one join and one leave per client, and a wait by any thread that returns
\* only if the registry has become empty since the call, or takes a stale permit.
ImplementsContract ==
  /\ Contract!Init
  /\ [][Contract!Next \/ \E t \in Threads : StalePermit(t)]_(Contract!contractVars)

===============================================================================
