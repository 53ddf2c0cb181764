---------------------------- MODULE ClientRegistry ----------------------------
(***************************************************************************)
(* The client registry of the Jeux server (client_registry.c), called by   *)
(* one detached service thread per connection (server.c) and by terminate()*)
(* (main.c), which the handler of SIGHUP and SIGINT runs on whatever thread  *)
(* the signal is delivered to: no thread blocks them.                      *)
(*                                                                         *)
(* A connection, the service thread that serves it and the CLIENT object    *)
(* that the thread creates have one name: a member of Clients.  A step is   *)
(* as long as no other thread can tell it from several: what is done under  *)
(* cr_lock is split where code that does not take the lock looks inside,    *)
(* and a handler, which never returns, may strike in between.              *)
(***************************************************************************)
EXTENDS Integers, FiniteSets

CONSTANTS
  Clients,       \* connections / service threads / CLIENT objects
  MAX_CLIENTS,   \* slots of the clients array
  Users,         \* user names sent in LOGIN and INVITE packets
  MaxStarts,     \* calls of terminate(), from the handler or from main()
  AcceptMayFail, \* TRUE iff accept() may return -1
  Main,          \* the main thread, as the owner of cr_lock
  NULL,          \* no pointer, no user, no owner of the lock
  Garbage        \* non-NULL bytes that are not a CLIENT pointer

ASSUME ClientsAssumption == IsFiniteSet(Clients)
ASSUME MaxClientsAssumption == MAX_CLIENTS \in Nat \ {0}
ASSUME MaxStartsAssumption == MaxStarts \in Nat
ASSUME AcceptAssumption == AcceptMayFail \in BOOLEAN
ASSUME DistinctAssumption ==
  /\ NULL \notin Clients \cup Users \cup {Main, Garbage}
  /\ Main \notin Clients
  /\ Garbage \notin Clients

VARIABLES
  lock,        \* owner of cr_lock
  clients,     \* the array of registered CLIENTs
  numClients,  \* the number of them, also read without the lock
  sem,         \* value of the semaphore creg_wait_for_empty() waits for
  finalized,   \* creg_fini() has freed the registry
  refs,        \* reference count of each CLIENT, without what INVITATIONs hold
  user,        \* the player each CLIENT is logged in as
  fd,          \* descriptor number of each connection
  sock,        \* state of each connection
  pc,          \* position of each service thread
  slot,        \* the loop index i each service thread keeps
  want,        \* the user name creg_lookup() was called with
  held,        \* the CLIENT pointer the INVITE handler has obtained
  term,        \* position of each thread in terminate()
  cursor,      \* its loop index in creg_shutdown_all()
  handlers,    \* signal handlers on each thread's stack
  starts,      \* calls of terminate() so far
  process,     \* what has become of the process
  drained,     \* history: the registry has been emptied
  awaited      \* history: it has been empty since the thread began to wait

registryVars == <<lock, clients, numClients, sem, finalized>>
objectVars   == <<refs, user, fd, sock>>
threadVars   == <<pc, slot, want, held>>
signalVars   == <<handlers, starts>>
historyVars  == <<drained, awaited>>
termVars     == <<term, cursor, signalVars, historyVars>>
vars == <<registryVars, objectVars, threadVars, termVars, process>>

Threads == Clients \cup {Main}
Slots == 0..(MAX_CLIENTS - 1)
Fds == 1..Cardinality(Clients)      \* enough for every connection at once

\* Positions of a service thread whose CLIENT sits in the array.
InRegistry == {"serving", "looking", "reading", "inviting", "closing"}
ThreadStates == {"absent", "accepted", "creating", "refused", "unlinking",
                 "dropping", "stuck", "done"} \cup InRegistry
TermStates == {"none", "terminate", "sweeping", "waiting", "semWait",
               "semPost", "fini", "destroy", "exit"}
SocketStates == {"none", "open", "eof", "closed", "invalid"}
Outcomes == {"running", "exited", "aborted", "nullDereference", "overrun",
             "useAfterFree"}

Running == process = "running"

\* A service thread goes on only while no handler has taken it away.
At(c, position) == pc[c] = position /\ term[c] = "none"

\* cr->clients[i]; one past the end lie the bytes of numClients itself.
ClientAt(i) == IF i \in Slots THEN clients[i]
               ELSE IF numClients = 0 THEN NULL ELSE Garbage

Occupied == 0..(numClients - 1)

\* The index at which the search of creg_unregister() stops.
IndexOf(c) ==
  IF \E i \in Occupied : ClientAt(i) = c
  THEN CHOOSE i \in Occupied : /\ ClientAt(i) = c
                               /\ \A j \in 0..(i - 1) : ClientAt(j) # c
  ELSE numClients

\* Variant: the loop stops one entry early.
ShiftedShort(i) ==
  [j \in Slots |-> IF j \in i..(numClients - 2) THEN ClientAt(j + 1)
                                               ELSE clients[j]]

\* Every entry from i on moves one place down; the last copies what follows it.
ShiftedFrom(i) ==
  [j \in Slots |-> IF j \in i..(numClients - 1) THEN ClientAt(j + 1)
                                               ELSE clients[j]]

Holds(f, c) == fd[c] = f /\ sock[c] \in {"open", "eof"}
FreeFds == {f \in Fds : \A c \in Clients : ~Holds(f, c)}

\* The mutex cr_lock.  Variants: no mutual exclusion; a path that keeps the lock.
AlwaysUnlocked == TRUE
CanLock == lock = NULL

LockKept == lock' = lock
Unlock == lock' = NULL

\* client_ref() and client_unref().  Variants: forgotten; done twice.
RefForgotten(c) == UNCHANGED refs
Ref(c) == refs' = [refs EXCEPT ![c] = @ + 1]

UnrefTwice(c) == refs' = [refs EXCEPT ![c] = @ - 2]
Unref(c) == refs' = [refs EXCEPT ![c] = @ - 1]

\* Variant: the semaphore starts with a permit.
OnePermit == 1
InitialPermits == 0

Init ==
  /\ lock = NULL
  /\ clients = [i \in Slots |-> NULL]
  /\ numClients = 0
  /\ sem = InitialPermits
  /\ finalized = FALSE
  /\ refs = [c \in Clients |-> 0]
  /\ user = [c \in Clients |-> NULL]
  /\ fd = [c \in Clients |-> -1]
  /\ sock = [c \in Clients |-> "none"]
  /\ pc = [c \in Clients |-> "absent"]
  /\ slot = [c \in Clients |-> 0]
  /\ want = [c \in Clients |-> NULL]
  /\ held = [c \in Clients |-> NULL]
  /\ term = [t \in Threads |-> "none"]
  /\ cursor = [t \in Threads |-> 0]
  /\ handlers = [t \in Threads |-> 0]
  /\ starts = 0
  /\ process = "running"
  /\ drained = FALSE
  /\ awaited = [t \in Threads |-> FALSE]

\* Undefined behaviour and abort() end what the model follows.
Fault(kind) ==
  /\ process' = kind
  /\ UNCHANGED <<registryVars, objectVars, threadVars, termVars>>

\* terminate() starts on t, on top of what t was doing: what the thread knew of an
\* earlier call is gone.
StartTerminate(t) ==
  /\ starts < MaxStarts
  /\ starts' = starts + 1
  /\ term' = [term EXCEPT ![t] = "terminate"]
  /\ cursor' = [cursor EXCEPT ![t] = 0]

\* sigHandler() strikes t.  Each of the two signals is masked in the thread that
\* handles it, and only there.
Interrupt(t) ==
  /\ handlers[t] < 2
  /\ handlers' = [handlers EXCEPT ![t] = @ + 1]
  /\ StartTerminate(t)

\* The end of a critical section of a service thread, unless a signal comes first.
LeaveSection(c) ==
  \/ Unlock /\ UNCHANGED <<term, cursor, signalVars>>
  \/ lock' = c /\ Interrupt(c)

(***************************************************************************)
(* Connections.                                                            *)
(***************************************************************************)

\* The accept loop of main() starts a service thread for each connection; a
\* descriptor is the lowest number that is not open.
Accept(c) ==
  /\ term[Main] = "none"
  /\ pc[c] = "absent"
  /\ pc' = [pc EXCEPT ![c] = "accepted"]
  /\ \/ /\ \E f \in FreeFds :
             /\ \A g \in FreeFds : f <= g
             /\ fd' = [fd EXCEPT ![c] = f]
        /\ sock' = [sock EXCEPT ![c] = "open"]
     \/ /\ AcceptMayFail
        /\ sock' = [sock EXCEPT ![c] = "invalid"]
        /\ UNCHANGED fd
  /\ UNCHANGED <<registryVars, refs, user, slot, want, held, termVars, process>>

\* The peer ends the connection, or the network does.
PeerCloses(c) ==
  /\ sock[c] = "open"
  /\ sock' = [sock EXCEPT ![c] = "eof"]
  /\ UNCHANGED <<registryVars, refs, user, fd, threadVars, termVars, process>>

(***************************************************************************)
(* creg_register(): the capacity is tested before the lock is taken.       *)
(***************************************************************************)

RegisterCheck(c) ==
  /\ ~finalized
  /\ At(c, "accepted")
  /\ IF numClients = MAX_CLIENTS
     THEN /\ pc' = [pc EXCEPT ![c] = "refused"]
          /\ UNCHANGED refs
     ELSE /\ pc' = [pc EXCEPT ![c] = "creating"]
          /\ refs' = [refs EXCEPT ![c] = 1]
  /\ UNCHANGED <<registryVars, user, fd, sock, slot, want, held, termVars,
                 process>>

RegisterAppend(c) ==
  /\ ~finalized
  /\ At(c, "creating")
  /\ CanLock
  /\ numClients \in Slots
  /\ clients' = [clients EXCEPT ![numClients] = c]
  /\ numClients' = numClients + 1
  /\ pc' = [pc EXCEPT ![c] = "serving"]
  /\ LeaveSection(c)
  /\ UNCHANGED <<sem, finalized, objectVars, slot, want, held, historyVars, process>>

\* The array filled up after the test: the pointer is written over numClients.
RegisterOverrun(c) ==
  /\ ~finalized
  /\ At(c, "creating")
  /\ CanLock
  /\ numClients \notin Slots
  /\ Fault("overrun")

\* The service loop was given the NULL that creg_register() returned: a packet
\* or the end of the connection makes it dereference the pointer.
ServeRefused(c) ==
  /\ At(c, "refused")
  /\ sock[c] # "invalid"
  /\ Fault("nullDereference")

(***************************************************************************)
(* The service loop, as far as it uses the registry.                       *)
(***************************************************************************)

\* LOGIN: the player is recorded in the CLIENT.  Whether a name in use by
\* another connection is refused is up to client_login().
Login(c, u) ==
  /\ At(c, "serving")
  /\ sock[c] \in {"open", "eof"}
  /\ user[c] = NULL
  /\ user' = [user EXCEPT ![c] = u]
  /\ UNCHANGED <<registryVars, refs, fd, sock, threadVars, termVars, process>>

\* Variant: whoever is logged in matches.
LoggedInAtAll(i, u) == ClientAt(i) # NULL /\ user[clients[i]] # NULL

LoggedInAs(i, u) == ClientAt(i) # NULL /\ user[clients[i]] = u

\* INVITE, creg_lookup() up to the unlock: only the index is kept.
LookupSearch(c, u) ==
  /\ ~finalized
  /\ At(c, "serving")
  /\ sock[c] \in {"open", "eof"}
  /\ user[c] # NULL
  /\ CanLock
  /\ \E i \in Occupied :
       /\ LoggedInAs(i, u)
       /\ \A j \in 0..(i - 1) : ~LoggedInAs(j, u)
       /\ slot' = [slot EXCEPT ![c] = i]
  /\ want' = [want EXCEPT ![c] = u]
  /\ pc' = [pc EXCEPT ![c] = "looking"]
  /\ UNCHANGED <<registryVars, objectVars, held, termVars, process>>

\* cr->clients[i] is read again, now without the lock.
LookupRead(c) ==
  /\ ~finalized
  /\ At(c, "looking")
  /\ clients[slot[c]] \in Clients
  /\ held' = [held EXCEPT ![c] = clients[slot[c]]]
  /\ pc' = [pc EXCEPT ![c] = "reading"]
  /\ UNCHANGED <<registryVars, objectVars, slot, want, termVars, process>>

LookupReadFault(c) ==
  /\ ~finalized
  /\ At(c, "looking")
  /\ clients[slot[c]] \notin Clients
  /\ Fault("nullDereference")

\* client_ref() on what was read.
LookupRef(c) ==
  /\ At(c, "reading")
  /\ refs[held[c]] > 0
  /\ Ref(held[c])
  /\ pc' = [pc EXCEPT ![c] = "inviting"]
  /\ UNCHANGED <<registryVars, user, fd, sock, slot, want, held, termVars,
                 process>>

LookupRefFault(c) ==
  /\ At(c, "reading")
  /\ refs[held[c]] = 0
  /\ Fault("useAfterFree")

\* The INVITE handler drops the target when it has made the invitation.
ReleaseTarget(c) ==
  /\ At(c, "inviting")
  /\ Unref(held[c])
  /\ held' = [held EXCEPT ![c] = NULL]
  /\ want' = [want EXCEPT ![c] = NULL]
  /\ slot' = [slot EXCEPT ![c] = 0]
  /\ pc' = [pc EXCEPT ![c] = "serving"]
  /\ UNCHANGED <<registryVars, user, fd, sock, termVars, process>>

\* End of the connection: cleanup() closes the descriptor first.
Cleanup(c) ==
  /\ At(c, "serving")
  /\ sock[c] = "eof"
  /\ sock' = [sock EXCEPT ![c] = "closed"]
  /\ pc' = [pc EXCEPT ![c] = "closing"]
  /\ UNCHANGED <<registryVars, refs, user, fd, slot, want, held, termVars,
                 process>>

(***************************************************************************)
(* creg_unregister(), under the lock up to the last reference.             *)
(***************************************************************************)

\* A thread is inside of creg_wait_for_empty().
Waiting(t) == term[t] \in {"waiting", "semWait", "semPost"}

\* A CLIENT that is not found makes it return with the lock held, unless the
\* entry after the last one happens to be NULL.
UnregisterFind(c) ==
  /\ ~finalized
  /\ At(c, "closing")
  /\ CanLock
  /\ lock' = c
  /\ slot' = [slot EXCEPT ![c] = IndexOf(c)]
  /\ IF IndexOf(c) \in Occupied
     THEN /\ clients' = [clients EXCEPT ![IndexOf(c)] = NULL]
          /\ pc' = [pc EXCEPT ![c] = "unlinking"]
     ELSE /\ pc' = [pc EXCEPT ![c] = IF ClientAt(numClients) # NULL
                                     THEN "stuck" ELSE "unlinking"]
          /\ UNCHANGED clients
  /\ IF IndexOf(c) \in Occupied /\ numClients = 1
     THEN /\ drained' = TRUE
          /\ awaited' = [t \in Threads |-> awaited[t] \/ Waiting(t)]
     ELSE UNCHANGED historyVars
  /\ UNCHANGED <<numClients, sem, finalized, objectVars, want, held, term, cursor,
                 signalVars, process>>

\* Variant: the count is tested before it is decremented.
WasEmpty == numClients = 0
LeavesEmpty == numClients = 1

\* The entries after it move down, the count drops, and the thread that
\* empties the registry posts the semaphore, if no signal strikes just there.
UnregisterShift(c) ==
  /\ At(c, "unlinking")
  /\ clients' = ShiftedFrom(slot[c])
  /\ numClients' = numClients - 1
  /\ LeaveSection(c)
  /\ IF LeavesEmpty
     THEN sem' = sem + 1 \/ (lock' # NULL /\ sem' = sem)
     ELSE UNCHANGED sem
  /\ slot' = [slot EXCEPT ![c] = 0]
  /\ pc' = [pc EXCEPT ![c] = "dropping"]
  /\ UNCHANGED <<finalized, objectVars, want, held, historyVars, process>>

UnregisterUnref(c) ==
  /\ At(c, "dropping")
  /\ Unref(c)
  /\ pc' = [pc EXCEPT ![c] = "done"]
  /\ UNCHANGED <<registryVars, user, fd, sock, slot, want, held, termVars,
                 process>>

(***************************************************************************)
(* The signal handler, terminate() and what it calls, on any thread.       *)
(***************************************************************************)

\* What t does next, or may do next, takes cr_lock: creg_register(), a lookup or
\* a listing for a player that is logged in, creg_unregister(), or terminate().
Locking(t) ==
  \/ term[t] \in {"terminate", "fini"}
  \/ /\ t \in Clients
     /\ \/ At(t, "creating")
        \/ At(t, "closing")
        \/ At(t, "serving") /\ user[t] # NULL

\* A signal strikes any thread anywhere, terminate() included, also between
\* pthread_mutex_lock() and what the thread wanted the lock for.
Signal(t) ==
  /\ t # Main => pc[t] \notin {"absent", "done"}
  /\ Interrupt(t)
  /\ \/ UNCHANGED lock
     \/ Locking(t) /\ ~finalized /\ CanLock /\ lock' = t
  /\ UNCHANGED <<clients, numClients, sem, finalized, objectVars, threadVars, historyVars,
                 process>>

\* pthread_create() fails in the accept loop.
SpawnFails ==
  /\ term[Main] = "none"
  /\ StartTerminate(Main)
  /\ UNCHANGED <<registryVars, objectVars, threadVars, handlers, historyVars, process>>

\* A thread that has something left to do with cr after creg_fini() freed it.
UseOfFreedRegistry(t) ==
  /\ finalized
  /\ \/ term[t] \in {"terminate", "waiting", "semWait", "semPost", "fini", "destroy"}
     \/ t \in Clients /\ \E p \in {"accepted", "creating", "looking", "closing"} : At(t, p)
  /\ Fault("useAfterFree")

Goes(t, from, to) ==
  /\ ~finalized
  /\ term[t] = from
  /\ term' = [term EXCEPT ![t] = to]
  /\ UNCHANGED <<objectVars, threadVars, signalVars>>

ShutdownAllLock(t) ==
  /\ Goes(t, "terminate", "sweeping")
  /\ CanLock
  /\ lock' = t
  /\ UNCHANGED <<clients, numClients, sem, finalized, cursor, historyVars, process>>

\* Variant: the loop leaves out the last client.
SweptButOne(t) == cursor[t] >= numClients - 1
SweepDone(t) == cursor[t] >= numClients

\* shutdown(2) acts on the descriptor number: on the connection that has it.
ShutdownAllStep(t) ==
  /\ term[t] = "sweeping"
  /\ ~SweepDone(t)
  /\ sock' = [c \in Clients |-> IF Holds(fd[clients[cursor[t]]], c) THEN "eof"
                                                                   ELSE sock[c]]
  /\ cursor' = [cursor EXCEPT ![t] = @ + 1]
  /\ UNCHANGED <<registryVars, refs, user, fd, threadVars, term, signalVars,
                 historyVars, process>>

ShutdownAllUnlock(t) ==
  /\ Goes(t, "sweeping", "waiting")
  /\ SweepDone(t)
  /\ Unlock
  /\ cursor' = [cursor EXCEPT ![t] = 0]
  /\ awaited' = [awaited EXCEPT ![t] = (numClients = 0)]
  /\ UNCHANGED <<clients, numClients, sem, finalized, drained, process>>

\* creg_wait_for_empty(): the count is read without the lock.
WaitTest(t) ==
  /\ Goes(t, "waiting", IF numClients = 0 THEN "fini" ELSE "semWait")
  /\ UNCHANGED <<registryVars, cursor, historyVars, process>>

WaitSem(t) ==
  /\ Goes(t, "semWait", "semPost")
  /\ sem > 0
  /\ sem' = sem - 1
  /\ UNCHANGED <<lock, clients, numClients, finalized, cursor, historyVars, process>>

WaitPost(t) ==
  /\ Goes(t, "semPost", "fini")
  /\ sem' = sem + 1
  /\ UNCHANGED <<lock, clients, numClients, finalized, cursor, historyVars, process>>

\* creg_fini(): abort() unless the first entry is NULL ...
FiniCheck(t) ==
  /\ term[t] = "fini"
  /\ ~finalized
  /\ CanLock
  /\ IF clients[0] = NULL
     THEN /\ term' = [term EXCEPT ![t] = "destroy"]
          /\ UNCHANGED <<registryVars, objectVars, threadVars, cursor, signalVars,
                         historyVars, process>>
     ELSE Fault("aborted")

\* ... and the registry is freed unless its mutex has been locked meanwhile.
FiniDestroy(t) ==
  /\ Goes(t, "destroy", "exit")
  /\ finalized' = (lock = NULL)
  /\ UNCHANGED <<lock, clients, numClients, sem, cursor, historyVars, process>>

Exit(t) ==
  /\ term[t] = "exit"
  /\ process' = "exited"
  /\ UNCHANGED <<registryVars, objectVars, threadVars, termVars>>

(***************************************************************************)
(* The specification.                                                      *)
(***************************************************************************)

ServiceThread(c) ==
  \/ RegisterCheck(c) \/ RegisterAppend(c) \/ RegisterOverrun(c) \/ ServeRefused(c)
  \/ LookupRead(c) \/ LookupReadFault(c) \/ LookupRef(c) \/ LookupRefFault(c)
  \/ ReleaseTarget(c) \/ Cleanup(c)
  \/ UnregisterFind(c) \/ UnregisterShift(c) \/ UnregisterUnref(c)

Terminate(t) ==
  \/ ShutdownAllLock(t) \/ ShutdownAllStep(t) \/ ShutdownAllUnlock(t)
  \/ WaitTest(t) \/ WaitSem(t) \/ WaitPost(t)
  \/ FiniCheck(t) \/ FiniDestroy(t) \/ Exit(t)

Work(t) ==
  \/ t \in Clients /\ ServiceThread(t)
  \/ Terminate(t)
  \/ UseOfFreedRegistry(t)

\* What peers and operators may or may not do.
Request(c) == \E u \in Users : Login(c, u) \/ LookupSearch(c, u)
Environment(c) == Accept(c) \/ PeerCloses(c) \/ Request(c)

\* A process that is gone does nothing more.
Ended == ~Running /\ UNCHANGED vars

Next ==
  \/ Running /\ \/ \E c \in Clients : Environment(c)
                \/ \E t \in Threads : Work(t) \/ Signal(t)
                \/ SpawnFails
  \/ Ended

Spec == Init /\ [][Next]_vars

\* Every thread that can run does.  A service thread notices the end of its
\* connection however often requests buffered before it are served first:
\* the buffer is finite.  Peers, signals and pthread_create() owe nothing.
Fairness ==
  /\ \A t \in Threads : WF_vars(Running /\ Work(t))
  /\ \A c \in Clients : SF_vars(Running /\ Cleanup(c))

FairSpec == Spec /\ Fairness
===============================================================================
