------------------------- MODULE ClientRegistryProofs -------------------------
(***************************************************************************)
(* Proofs about the client registry, for any set of connections and any    *)
(* capacity.                                                               *)
(***************************************************************************)
EXTENDS ClientRegistryProperties, FiniteSetTheorems, TLAPS

(***************************************************************************)
(* The inductive invariant of the array and its lock.                      *)
(***************************************************************************)

\* The part of TypeOK that does not need the reference counts to be right.
ShapeOK ==
  /\ lock \in Clients \cup {Main, NULL}
  /\ clients \in [Slots -> Clients \cup {NULL, Garbage}]
  /\ numClients \in 0..MAX_CLIENTS
  /\ sem \in Nat
  /\ pc \in [Clients -> ThreadStates]
  /\ slot \in [Clients -> 0..MAX_CLIENTS]
  /\ term \in [Threads -> TermStates]

\* While a thread takes its entry out, the hole it made is where it thinks.
HoleIsKnown ==
  \A c \in Clients : Unlinking(c) => slot[c] \in Occupied /\ clients[slot[c]] = NULL

ArrayInv == ShapeOK /\ RegistryIsExact /\ CriticalSections /\ HoleIsKnown

\* creg_init() starts with an empty array that no thread has locked.
LEMMA ArrayInit == Init => ArrayInv
  BY MaxClientsAssumption, DistinctAssumption
     DEF Init, InitialPermits, ArrayInv, ShapeOK, RegistryIsExact, CriticalSections, HoleIsKnown,
         Unlinking, Registered, InRegistry, Occupied, Slots, ThreadStates,
         Threads, TermStates

\* The search of creg_unregister() finds a registered client at its one place.
LEMMA IndexFound ==
  ASSUME ArrayInv, NEW c \in Clients, Registered(c)
  PROVE  IndexOf(c) \in Occupied /\ clients[IndexOf(c)] = c
<1> USE MaxClientsAssumption
    DEF ArrayInv, ShapeOK, RegistryIsExact, Occupied, Slots, ClientAt
<1>1. PICK i \in Occupied : clients[i] = c
  OBVIOUS
<1>2. ClientAt(i) = c /\ \A j \in 0..(i - 1) : ClientAt(j) # c
  BY <1>1
<1>3. \A j \in Occupied : ClientAt(j) = clients[j]
  OBVIOUS
<1> QED
  BY <1>1, <1>2, <1>3 DEF IndexOf

\* A step that leaves the array and every thread's standing in the registry alone
\* preserves the invariant, if it keeps to the lock.
LEMMA ArrayFrame ==
  ASSUME ArrayInv, ShapeOK', CriticalSections',
         UNCHANGED <<clients, numClients>>,
         \A c \in Clients : /\ Registered(c)' = Registered(c)
                            /\ Unlinking(c)' = Unlinking(c)
                            /\ Unlinking(c) => slot'[c] = slot[c]
  PROVE  ArrayInv'
<1> USE DEF ArrayInv, ShapeOK, Occupied, Slots
<1>1. RegistryIsExact'
  BY DEF RegistryIsExact, CriticalSections
<1>2. HoleIsKnown'
  BY DEF HoleIsKnown
<1> QED
  BY <1>1, <1>2

\* A signal leaves everything alone but the thread it strikes, and perhaps the lock.
LEMMA SignalFrame ==
  ASSUME NEW t \in Threads, Signal(t) \/ (SpawnFails /\ t = Main), term \in [Threads -> TermStates]
  PROVE  /\ UNCHANGED <<clients, numClients, sem, finalized, objectVars, threadVars,
                        historyVars, process>>
         /\ term'[t] = "terminate" /\ term' \in [Threads -> TermStates]
         /\ \A u \in Threads \ {t} : term'[u] = term[u]
         /\ lock' = lock \/ (lock = NULL /\ lock' = t)
<1>1. StartTerminate(t)
  BY DEF Signal, SpawnFails, Interrupt
<1>2. /\ UNCHANGED <<clients, numClients, sem, finalized, objectVars, threadVars,
                     historyVars, process>>
      /\ lock' = lock \/ (lock = NULL /\ lock' = t)
  <2>1. CASE Signal(t)
    BY <2>1 DEF Signal, CanLock
  <2>2. CASE SpawnFails /\ t = Main
    BY <2>2 DEF SpawnFails, registryVars
  <2> QED
    BY <2>1, <2>2
<1>3. /\ term'[t] = "terminate" /\ term' \in [Threads -> TermStates]
      /\ \A u \in Threads \ {t} : term'[u] = term[u]
  BY <1>1 DEF StartTerminate, TermStates
<1> QED
  BY <1>2, <1>3

\* terminate() does nothing to the clients and their threads but shut sockets down.
LEMMA TerminateFrame ==
  ASSUME NEW t \in Threads, Terminate(t), term \in [Threads -> TermStates]
  PROVE  /\ UNCHANGED <<clients, numClients, refs, user, fd, threadVars, signalVars, drained>>
         /\ \A u \in Threads \ {t} : term'[u] = term[u]
         /\ term' \in [Threads -> TermStates]
         /\ term'[t] # "none" \/ term' = term
<1> USE DEF registryVars, objectVars, threadVars, signalVars, historyVars, termVars, Goes,
            TermStates
<1>1. CASE FiniCheck(t)
  BY <1>1 DEF FiniCheck, Fault
<1> QED
  BY <1>1 DEF Terminate, ShutdownAllLock, ShutdownAllStep, ShutdownAllUnlock, WaitTest,
    WaitSem, WaitPost, FiniDestroy, Exit

\* Every step keeps the array exact: those of client_registry.c under the lock
\* (lines 109-121 and 141-165), all others because they leave the array alone.
LEMMA ArrayStep == ArrayInv /\ [Next]_vars => ArrayInv'
<1> SUFFICES ASSUME ArrayInv, [Next]_vars PROVE ArrayInv'
  OBVIOUS
<1> USE MaxClientsAssumption, DistinctAssumption
    DEF vars, registryVars, objectVars, threadVars, termVars, signalVars, historyVars,
        CanLock, Unlock, Ref, Unref, LeavesEmpty, SweepDone, At
<1> DEFINE Frame == /\ ShapeOK' /\ CriticalSections'
                    /\ UNCHANGED <<clients, numClients>>
                    /\ \A c \in Clients : /\ Registered(c)' = Registered(c)
                                          /\ Unlinking(c)' = Unlinking(c)
                                          /\ Unlinking(c) => slot'[c] = slot[c]
<1>0. ASSUME Frame PROVE ArrayInv'
  BY <1>0, ArrayFrame
<1>1. CASE UNCHANGED vars
  BY <1>0, <1>1 DEF ArrayInv, ShapeOK, CriticalSections, Registered, Unlinking
<1>2. ASSUME NEW kind, Fault(kind) PROVE ArrayInv'
  BY <1>0, <1>2 DEF Fault, ArrayInv, ShapeOK, CriticalSections, Registered, Unlinking
<1>3. ASSUME NEW c \in Clients, RegisterCheck(c) PROVE ArrayInv'
  BY <1>0, <1>3
  DEF RegisterCheck, ArrayInv, ShapeOK, CriticalSections, Unlinking, Registered,
      InRegistry, ThreadStates
<1>4. ASSUME NEW c \in Clients, RegisterAppend(c) PROVE ArrayInv'
  <2> USE DEF ArrayInv, ShapeOK, Occupied, Slots, Registered, Unlinking,
              InRegistry, ThreadStates
  <2>1. /\ lock = NULL /\ pc[c] = "creating"
        /\ numClients \in Slots /\ numClients' = numClients + 1
        /\ clients' = [clients EXCEPT ![numClients] = c]
        /\ pc' = [pc EXCEPT ![c] = "serving"]
        /\ UNCHANGED <<slot, sem>>
    BY <1>4 DEF RegisterAppend
  <2>5. \/ lock' = NULL /\ term' = term
        \/ lock' = c /\ term' = [term EXCEPT ![c] = "terminate"]
    BY <1>4 DEF RegisterAppend, LeaveSection, Interrupt, StartTerminate
  <2>6. term' \in [Threads -> TermStates] /\ lock' \in Clients \cup {Main, NULL}
    BY <2>5 DEF TermStates
  <2>7. CriticalSections'
    BY <2>1, <2>5 DEF CriticalSections, Threads
  <2>2. ShapeOK' /\ HoleIsKnown'
    BY <2>1, <2>6 DEF CriticalSections, HoleIsKnown
  <2>3. \A i \in Occupied : clients[i] \in Clients /\ clients[i] # c
    BY <2>1 DEF CriticalSections, RegistryIsExact
  <2>4. RegistryIsExact'
    BY <2>1, <2>3 DEF RegistryIsExact
  <2> QED
    BY <2>2, <2>4, <2>7
<1>5. ASSUME NEW c \in Clients, UnregisterFind(c) PROVE ArrayInv'
  <2> USE DEF ArrayInv, ShapeOK, CriticalSections, Registered, Unlinking,
              InRegistry, ThreadStates, Occupied, Slots, RegistryIsExact,
              HoleIsKnown
  <2> DEFINE i == IndexOf(c)
  <2>1. i \in Occupied /\ clients[i] = c
    BY <1>5, IndexFound DEF UnregisterFind
  <2>2. /\ lock = NULL /\ lock' = c
        /\ slot' = [slot EXCEPT ![c] = i]
        /\ clients' = [clients EXCEPT ![i] = NULL]
        /\ pc[c] = "closing" /\ pc' = [pc EXCEPT ![c] = "unlinking"]
        /\ UNCHANGED <<numClients, sem, term>>
    BY <1>5, <2>1 DEF UnregisterFind
  <2> HIDE DEF i
  <2>3. ShapeOK'
    BY <2>1, <2>2
  <2>4. RegistryIsExact'
    <3>1. \A j \in Occupied : j # i => clients[j] \in Clients /\ clients[j] # c
      BY <2>1, <2>2
    <3>2. \A j \in Occupied' :
            IF j = i THEN clients'[j] = NULL ELSE clients'[j] = clients[j]
      BY <2>1, <2>2
    <3>3. \A d \in Clients : Registered(d)' => Registered(d) /\ d # c
      BY <2>2
    <3>4. \A d \in Clients : d # c => Registered(d)' = Registered(d)
      BY <2>2
    <3> HIDE DEF InRegistry
    <3> QED
      BY <2>1, <2>2, <3>1, <3>2, <3>3, <3>4, SMTT(30)
  <2>5. CriticalSections' /\ HoleIsKnown'
    BY <2>1, <2>2 DEF Threads
  <2> QED
    BY <2>3, <2>4, <2>5
<1>6. ASSUME NEW c \in Clients, UnregisterShift(c) PROVE ArrayInv'
  <2> USE DEF ArrayInv, ShapeOK, CriticalSections, Registered, Unlinking,
              InRegistry, ThreadStates, Occupied, Slots, RegistryIsExact,
              HoleIsKnown
  <2> DEFINE i == slot[c]
  <2>1. i \in Occupied /\ clients[i] = NULL /\ lock = c /\ numClients > 0
    BY <1>6 DEF UnregisterShift
  <2>2. \A j \in Occupied : j # i => clients[j] \in Clients
    BY <2>1
  <2>3. \A j \in Occupied' : clients'[j] = IF j < i THEN clients[j] ELSE clients[j + 1]
    BY <1>6, <2>1 DEF UnregisterShift, ShiftedFrom, ClientAt
  <2>4. \A j \in Slots \ Occupied' : clients'[j] \in {NULL, Garbage}
    BY <1>6, <2>1 DEF UnregisterShift, ShiftedFrom, ClientAt
  <2>5. /\ numClients' = numClients - 1
        /\ slot' = [slot EXCEPT ![c] = 0]
        /\ pc[c] = "unlinking" /\ pc' = [pc EXCEPT ![c] = "dropping"]
    BY <1>6 DEF UnregisterShift
  <2>18. \/ lock' = NULL /\ term' = term
         \/ lock' = c /\ term' = [term EXCEPT ![c] = "terminate"]
    BY <1>6 DEF UnregisterShift, LeaveSection, Interrupt, StartTerminate
  <2>19. term[c] = "none"
    BY <1>6 DEF UnregisterShift
  <2>6. ShapeOK'
    <3>1. clients' \in [Slots -> Clients \cup {NULL, Garbage}]
      BY <1>6, <2>1 DEF UnregisterShift, ShiftedFrom, ClientAt
    <3>2. sem' \in Nat
      BY <1>6 DEF UnregisterShift
    <3>3. term' \in [Threads -> TermStates] /\ lock' \in Clients \cup {Main, NULL}
      BY <2>18 DEF TermStates
    <3> QED
      BY <2>1, <2>5, <3>1, <3>2, <3>3
  <2>10. CriticalSections' /\ HoleIsKnown'
    BY <2>1, <2>5, <2>18, <2>19 DEF Threads
  <2> DEFINE Old(j) == IF j < i THEN j ELSE j + 1
             New(j) == IF j < i THEN j ELSE j - 1
  <2>11. /\ numClients \in Nat /\ numClients - 1 \in Nat /\ i \in 0 .. numClients - 1
         /\ Occupied = 0 .. numClients - 1 /\ Occupied' = 0 .. numClients - 2
    BY <2>1, <2>5
  <2>12. \A j \in Occupied :
           /\ j # i => clients[j] \in Clients /\ pc[clients[j]] \in InRegistry
           /\ j # i => clients[j] # c
           /\ \A k \in Occupied : clients[k] = clients[j] => k = j
    BY <2>1, <2>2, <2>5
  <2>13. \A d \in Clients : pc'[d] \in InRegistry =>
                              \E j \in Occupied : j # i /\ clients[j] = d
    BY <2>1, <2>5
  <2>14. \A d \in Clients : d # c => pc'[d] = pc[d]
    BY <2>5
  <2> HIDE DEF i, ArrayInv, ShapeOK, CriticalSections, Registered, Unlinking,
               InRegistry, ThreadStates, Occupied, Slots, RegistryIsExact, HoleIsKnown
  <2>15. \A j \in Occupied' : /\ Old(j) \in Occupied /\ Old(j) # i
                              /\ clients'[j] = clients[Old(j)]
    BY <2>3, <2>11
  <2>16. \A j \in Occupied : j # i => New(j) \in Occupied' /\ Old(New(j)) = j
    BY <2>11
  <2>17. \A j, k \in Occupied' : Old(j) = Old(k) => j = k
    BY <2>11
  <2> HIDE DEF Old, New
  <2>7. \A j \in Occupied' :
          /\ clients'[j] \in Clients
          /\ pc'[clients'[j]] \in InRegistry
          /\ \A k \in Occupied' : clients'[k] = clients'[j] => k = j
    BY <2>12, <2>14, <2>15, <2>17
  <2>8. \A d \in Clients : pc'[d] \in InRegistry => \E j \in Occupied' : clients'[j] = d
    BY <2>13, <2>15, <2>16
  <2> USE DEF ArrayInv, CriticalSections, RegistryIsExact, HoleIsKnown,
              Registered, Unlinking
  <2>9. RegistryIsExact'
    BY <2>4, <2>7, <2>8 DEF Slots
  <2> HIDE DEF CriticalSections, RegistryIsExact, HoleIsKnown
  <2> QED
    BY <2>6, <2>9, <2>10
<1>7. ASSUME NEW c \in Clients, ServiceThread(c) PROVE ArrayInv'
  <2> USE DEF ArrayInv, ShapeOK, CriticalSections, Unlinking, Registered,
              InRegistry, ThreadStates
  <2>1. CASE UnregisterUnref(c)
    BY <1>0, <2>1 DEF UnregisterUnref
  <2>2. CASE LookupRead(c)
    BY <1>0, <2>2 DEF LookupRead
  <2>3. CASE LookupRef(c)
    BY <1>0, <2>3 DEF LookupRef
  <2>4. CASE ReleaseTarget(c)
    BY <1>0, <2>4 DEF ReleaseTarget
  <2>5. CASE Cleanup(c)
    BY <1>0, <2>5 DEF Cleanup
  <2>6. CASE \E kind : Fault(kind)
    BY <1>2, <2>6
  <2> QED
    BY <1>3, <1>4, <1>5, <1>6, <1>7, <2>1, <2>2, <2>3, <2>4, <2>5, <2>6
    DEF ServiceThread, RegisterOverrun, ServeRefused, LookupReadFault, LookupRefFault
<1>8. ASSUME NEW c \in Clients, Environment(c) PROVE ArrayInv'
  <2> USE DEF ArrayInv, ShapeOK, CriticalSections, Unlinking, Registered,
              InRegistry, ThreadStates, Occupied, Slots
  <2>1. CASE Accept(c)
    BY <1>0, <2>1 DEF Accept
  <2>2. CASE PeerCloses(c)
    BY <1>0, <2>2 DEF PeerCloses
  <2>3. ASSUME NEW u \in Users, Login(c, u) PROVE ArrayInv'
    BY <1>0, <2>3 DEF Login
  <2>4. ASSUME NEW u \in Users, LookupSearch(c, u) PROVE ArrayInv'
    BY <1>0, <2>4 DEF LookupSearch
  <2> QED
    BY <1>8, <2>1, <2>2, <2>3, <2>4 DEF Environment, Request
<1>9. ASSUME NEW t \in Threads, Signal(t) \/ (SpawnFails /\ t = Main) PROVE ArrayInv'
  <2>1. /\ UNCHANGED <<clients, numClients, sem, pc, slot>>
        /\ term'[t] = "terminate" /\ term' \in [Threads -> TermStates]
        /\ \A u \in Threads \ {t} : term'[u] = term[u]
        /\ lock' = lock \/ (lock = NULL /\ lock' = t)
    BY <1>9, SignalFrame DEF ArrayInv, ShapeOK
  <2>2. lock' \in Clients \cup {Main, NULL}
    BY <2>1 DEF ArrayInv, ShapeOK, Threads
  <2>3. CriticalSections'
    BY <2>1 DEF ArrayInv, ShapeOK, CriticalSections, Unlinking, Threads
  <2> QED
    BY <1>0, <2>1, <2>2, <2>3 DEF ArrayInv, ShapeOK, Unlinking, Registered
<1>10. ASSUME NEW t \in Threads, Terminate(t) PROVE ArrayInv'
  <2> USE DEF ArrayInv, ShapeOK, Goes, Threads
  <2>1. UNCHANGED <<clients, numClients, pc, slot>> /\ term' \in [Threads -> TermStates]
    BY <1>10, TerminateFrame
  <2>2. \A u \in Threads \ {t} : term'[u] = term[u]
    BY <1>10, TerminateFrame
  <2>3. sem' \in Nat /\ lock' \in Clients \cup {Main, NULL} /\ CriticalSections'
    <3>1. CASE ShutdownAllLock(t)
      BY <2>1, <3>1 DEF ShutdownAllLock, CriticalSections, Unlinking, TermStates
    <3>2. CASE ShutdownAllUnlock(t)
      <4>1. lock = t /\ lock' = NULL /\ sem' = sem
        BY <3>2 DEF ShutdownAllUnlock, CriticalSections
      <4>2. term[t] = "sweeping" /\ term'[t] = "waiting"
        BY <3>2 DEF ShutdownAllUnlock
      <4>3. \A c \in Clients : ~Unlinking(c)
        <5> SUFFICES ASSUME NEW c \in Clients, Unlinking(c) PROVE FALSE
          OBVIOUS
        <5>1. lock = c
          BY DEF CriticalSections
        <5> QED
          BY <4>1, <4>2, <5>1 DEF CriticalSections
      <4> QED
        BY <2>1, <2>2, <4>1, <4>2, <4>3 DEF CriticalSections, Unlinking
    <3>3. CASE WaitSem(t) \/ WaitPost(t) \/ WaitTest(t)
      <4>1. sem' \in Nat /\ lock' = lock
        BY <3>3 DEF WaitSem, WaitPost, WaitTest
      <4>2. term[t] \notin {"sweeping", "terminate"} /\ term'[t] \notin {"sweeping", "terminate"}
        BY <3>3 DEF WaitSem, WaitPost, WaitTest
      <4> QED
        BY <2>1, <2>2, <4>1, <4>2 DEF CriticalSections, Unlinking
    <3>4. CASE FiniCheck(t) \/ FiniDestroy(t) \/ Exit(t) \/ ShutdownAllStep(t)
      <4>1. sem' = sem /\ lock' = lock
        BY <3>4 DEF FiniCheck, FiniDestroy, Exit, ShutdownAllStep, Fault
      <4>2. \/ term' = term
            \/ term[t] \notin {"sweeping", "terminate"} /\ term'[t] \notin {"sweeping", "terminate"}
        BY <3>4 DEF FiniCheck, FiniDestroy, Exit, ShutdownAllStep, Fault
      <4> QED
        BY <2>1, <2>2, <4>1, <4>2 DEF CriticalSections, Unlinking
    <3> QED
      BY <1>10, <3>1, <3>2, <3>3, <3>4 DEF Terminate
  <2> QED
    BY <1>0, <2>1, <2>3 DEF Unlinking, Registered
<1> QED
  BY <1>1, <1>2, <1>7, <1>8, <1>9, <1>10
  DEF Next, Ended, Work, UseOfFreedRegistry, Threads

(***************************************************************************)
(* Reference counts.                                                       *)
(***************************************************************************)

\* A pointer obtained from the array belongs to a CLIENT that has been there.
HeldWereRegistered ==
  /\ \A c \in Clients : pc[c] = "looking" => slot[c] \in Slots
  /\ \A c \in Clients : pc[c] \in {"reading", "inviting"} => held[c] \in Clients
  /\ \A c \in Clients : held[c] \in Clients =>
       pc[held[c]] \in InRegistry \cup {"unlinking", "dropping", "stuck", "done"}

RefInv ==
  /\ refs \in [Clients -> Nat]
  /\ held \in [Clients -> Clients \cup {NULL}]
  /\ HeldWereRegistered
  /\ RefsAreCounted

\* There are no CLIENT objects before the first connection, hence no references.
LEMMA RefInit == Init => RefInv
<1> SUFFICES ASSUME Init PROVE RefInv
  OBVIOUS
<1>1. \A c \in Clients : Inviters(c) = {} /\ ~Owned(c) /\ refs[c] = 0
  BY DEF Init, Inviters, Owned, Registered, InRegistry
<1>2. RefsAreCounted
  BY <1>1, FS_EmptySet DEF RefsAreCounted
<1> QED
  BY <1>2, DistinctAssumption DEF Init, RefInv, HeldWereRegistered

\* A step that changes neither a count nor who holds what keeps the counts.
LEMMA RefFrame ==
  ASSUME RefInv, ArrayInv,
         UNCHANGED <<refs, held>>,
         HeldWereRegistered',
         \A c \in Clients : /\ Owned(c)' = Owned(c)
                            /\ (pc'[c] = "inviting") = (pc[c] = "inviting")
  PROVE  RefInv'
<1>1. \A c \in Clients : Inviters(c)' = Inviters(c)
  BY DEF Inviters
<1> QED
  BY <1>1 DEF RefInv, RefsAreCounted

\* Every step that adds or drops a holder of a CLIENT calls client_ref() or
\* client_unref() for it, and a lookup finds only clients that are registered.
LEMMA RefStep == RefInv /\ ArrayInv /\ [Next]_vars => RefInv'
<1> SUFFICES ASSUME RefInv, ArrayInv, [Next]_vars PROVE RefInv'
  OBVIOUS
<1> USE DEF vars, registryVars, objectVars, threadVars, termVars, CanLock, Unlock,
        Ref, Unref, LeavesEmpty, SweepDone, At
<1> DEFINE Frame == /\ UNCHANGED <<refs, held>>
                    /\ HeldWereRegistered'
                    /\ \A c \in Clients :
                         /\ Owned(c)' = Owned(c)
                         /\ (pc'[c] = "inviting") = (pc[c] = "inviting")
<1>0. ASSUME Frame PROVE RefInv'
  BY <1>0, RefFrame
<1>1. CASE UNCHANGED <<refs, held, pc, slot>>
  BY <1>0, <1>1 DEF RefInv, HeldWereRegistered, Owned, Registered, Slots
<1>2. ASSUME NEW kind, Fault(kind) PROVE RefInv'
  BY <1>1, <1>2 DEF Fault
<1>3. ASSUME NEW c \in Clients, ServiceThread(c) PROVE RefInv'
  <2> USE DEF ArrayInv, ShapeOK, RefInv, HeldWereRegistered, Owned, Registered,
              InRegistry, ThreadStates, Slots
  <2>1. CASE RegisterCheck(c)
    <3>1. \A d \in Clients : held[d] # c
      BY <2>1 DEF RegisterCheck
    <3>2. CASE pc' = [pc EXCEPT ![c] = "refused"]
      BY <1>0, <2>1, <3>2 DEF RegisterCheck
    <3>3. CASE pc' = [pc EXCEPT ![c] = "creating"] /\ refs' = [refs EXCEPT ![c] = 1]
      <4>1. \A d \in Clients : Inviters(d)' = Inviters(d)
        BY <2>1, <3>3 DEF RegisterCheck, Inviters
      <4>2. Cardinality(Inviters(c)) = 0
        <5>1. Inviters(c) = {}
          BY <3>1 DEF Inviters
        <5> QED
          BY <5>1, FS_EmptySet
      <4>3. RefsAreCounted'
        BY <2>1, <3>3, <4>1, <4>2 DEF RefsAreCounted, RegisterCheck
      <4> QED
        BY <2>1, <3>3, <4>3 DEF RegisterCheck
    <3> QED
      BY <2>1, <3>2, <3>3 DEF RegisterCheck
  <2>2. CASE RegisterAppend(c)
    BY <1>0, <2>2 DEF RegisterAppend
  <2>3. CASE LookupRead(c)
    <3>1. /\ clients[slot[c]] \in Clients /\ slot[c] \in Slots
          /\ pc[c] = "looking" /\ pc' = [pc EXCEPT ![c] = "reading"]
          /\ held' = [held EXCEPT ![c] = clients[slot[c]]]
          /\ UNCHANGED <<refs, slot>>
      BY <2>3 DEF LookupRead
    <3>2. Registered(clients[slot[c]])
      BY <3>1 DEF RegistryIsExact
    <3>3. \A d \in Clients : Inviters(d)' = Inviters(d) /\ Owned(d)' = Owned(d)
      BY <3>1 DEF Inviters
    <3>4. RefsAreCounted'
      BY <3>1, <3>3 DEF RefsAreCounted
    <3>5. HeldWereRegistered'
      BY <3>1, <3>2
    <3> QED
      BY <3>1, <3>4, <3>5
  <2>4. CASE LookupRef(c)
    <3>0. PICK t \in Clients : t = held[c]
      BY <2>4 DEF LookupRef
    <3>1. /\ held[c] = t /\ pc[c] = "reading"
          /\ pc' = [pc EXCEPT ![c] = "inviting"]
          /\ refs' = [refs EXCEPT ![t] = refs[t] + 1]
          /\ UNCHANGED <<held, slot>>
      BY <2>4, <3>0 DEF LookupRef
    <3>2. Inviters(t)' = Inviters(t) \cup {c} /\ c \notin Inviters(t)
      BY <3>1 DEF Inviters
    <3>3. IsFiniteSet(Inviters(t))
      BY ClientsAssumption, FS_Subset DEF Inviters
    <3>4. Cardinality(Inviters(t)') = Cardinality(Inviters(t)) + 1
      BY <3>2, <3>3, FS_AddElement
    <3>5. \A d \in Clients : /\ d # t => Inviters(d)' = Inviters(d)
                             /\ Owned(d)' = Owned(d)
      BY <3>1 DEF Inviters
    <3>6. Cardinality(Inviters(t)) \in Nat
      BY <3>3, FS_CardinalityType
    <3>7. RefsAreCounted'
      <4>1. ASSUME NEW d \in Clients \ {t}
            PROVE  refs'[d] = refs[d] /\ Inviters(d)' = Inviters(d) /\ Owned(d)' = Owned(d)
        BY <3>1, <3>5
      <4>2. refs'[t] = refs[t] + 1 /\ Owned(t)' = Owned(t)
        BY <3>1, <3>5
      <4>3. refs[t] = Cardinality(Inviters(t)) + (IF Owned(t) THEN 1 ELSE 0)
        BY DEF RefsAreCounted
      <4> HIDE DEF Owned
      <4>4. refs'[t] = Cardinality(Inviters(t)') + (IF Owned(t)' THEN 1 ELSE 0)
        BY <3>4, <3>6, <4>2, <4>3
      <4> QED
        BY <4>1, <4>4 DEF RefsAreCounted
    <3> QED
      BY <3>1, <3>7
  <2>5. CASE ReleaseTarget(c)
    <3>0. PICK t \in Clients : t = held[c]
      BY <2>5 DEF ReleaseTarget
    <3>1. /\ held[c] = t /\ pc[c] = "inviting"
          /\ pc' = [pc EXCEPT ![c] = "serving"]
          /\ refs' = [refs EXCEPT ![t] = refs[t] - 1]
          /\ held' = [held EXCEPT ![c] = NULL]
          /\ slot' = [slot EXCEPT ![c] = 0]
      BY <2>5, <3>0 DEF ReleaseTarget
    <3>2. Inviters(t)' = Inviters(t) \ {c} /\ c \in Inviters(t)
      BY <3>1, DistinctAssumption DEF Inviters
    <3>3. IsFiniteSet(Inviters(t))
      BY ClientsAssumption, FS_Subset DEF Inviters
    <3>4. Cardinality(Inviters(t)') = Cardinality(Inviters(t)) - 1
      BY <3>2, <3>3, FS_RemoveElement
    <3>5. \A d \in Clients : /\ d # t => Inviters(d)' = Inviters(d)
                             /\ Owned(d)' = Owned(d)
      BY <3>1 DEF Inviters
    <3>6. Cardinality(Inviters(t)) \in Nat /\ Cardinality(Inviters(t)') \in Nat
      <4>1. IsFiniteSet(Inviters(t)')
        BY <3>2, <3>3, FS_RemoveElement
      <4> QED
        BY <3>3, <4>1, FS_CardinalityType
    <3>7. RefsAreCounted'
      <4>1. ASSUME NEW d \in Clients \ {t}
            PROVE  refs'[d] = refs[d] /\ Inviters(d)' = Inviters(d) /\ Owned(d)' = Owned(d)
        BY <3>1, <3>5
      <4>2. refs'[t] = refs[t] - 1 /\ Owned(t)' = Owned(t)
        BY <3>1, <3>5
      <4>3. refs[t] = Cardinality(Inviters(t)) + (IF Owned(t) THEN 1 ELSE 0)
        BY DEF RefsAreCounted
      <4> HIDE DEF Owned
      <4>4. refs'[t] = Cardinality(Inviters(t)') + (IF Owned(t)' THEN 1 ELSE 0)
        BY <3>4, <3>6, <4>2, <4>3
      <4> QED
        BY <4>1, <4>4 DEF RefsAreCounted
    <3>9. refs' \in [Clients -> Nat]
      <4>1. refs[t] - 1 \in Nat
        <5>1. refs[t] \in Nat /\ refs[t] >= Cardinality(Inviters(t))
          BY <3>6 DEF RefsAreCounted
        <5> QED
          BY <3>4, <3>6, <5>1
      <4> QED
        BY <3>1, <4>1
    <3>8. HeldWereRegistered' /\ held' \in [Clients -> Clients \cup {NULL}]
      BY <3>1, DistinctAssumption
    <3> QED
      BY <3>1, <3>7, <3>8, <3>9
  <2>6. CASE Cleanup(c)
    BY <1>0, <2>6 DEF Cleanup
  <2>7. CASE UnregisterFind(c)
    <3>1. pc[c] = "closing" /\ pc' = [pc EXCEPT ![c] = "unlinking"]
          /\ UNCHANGED <<refs, held>> /\ slot' = [slot EXCEPT ![c] = IndexOf(c)]
      BY <2>7, IndexFound DEF UnregisterFind
    <3> QED
      BY <1>0, <3>1
  <2>8. CASE UnregisterShift(c)
    BY <1>0, <2>8 DEF UnregisterShift
  <2>9. CASE UnregisterUnref(c)
    <3>1. /\ pc[c] = "dropping" /\ pc' = [pc EXCEPT ![c] = "done"]
          /\ refs' = [refs EXCEPT ![c] = refs[c] - 1]
          /\ UNCHANGED <<held, slot>>
      BY <2>9 DEF UnregisterUnref
    <3>2. \A d \in Clients : Inviters(d)' = Inviters(d)
      BY <3>1 DEF Inviters
    <3>3. Cardinality(Inviters(c)) \in Nat
      BY ClientsAssumption, FS_Subset, FS_CardinalityType DEF Inviters
    <3>4. RefsAreCounted' /\ refs' \in [Clients -> Nat]
      BY <3>1, <3>2, <3>3 DEF RefsAreCounted
    <3> QED
      BY <3>1, <3>4
  <2>10. CASE \E kind : Fault(kind)
    BY <1>2, <2>10
  <2> QED
    BY <1>3, <2>1, <2>2, <2>3, <2>4, <2>5, <2>6, <2>7, <2>8, <2>9, <2>10
    DEF ServiceThread, RegisterOverrun, ServeRefused, LookupReadFault, LookupRefFault
<1>4. ASSUME NEW c \in Clients, Environment(c) PROVE RefInv'
  <2> USE DEF ArrayInv, ShapeOK, RefInv, HeldWereRegistered, Owned, Registered,
              InRegistry, ThreadStates, Occupied, Slots
  <2>1. CASE Accept(c)
    BY <1>0, <2>1 DEF Accept
  <2>2. CASE PeerCloses(c)
    BY <1>1, <2>2 DEF PeerCloses
  <2>3. ASSUME NEW u \in Users, Login(c, u) PROVE RefInv'
    BY <1>1, <2>3 DEF Login
  <2>4. ASSUME NEW u \in Users, LookupSearch(c, u) PROVE RefInv'
    <3>0. Occupied \subseteq Slots
      BY MaxClientsAssumption
    <3>1. PICK i \in Occupied : slot' = [slot EXCEPT ![c] = i]
      BY <2>4 DEF LookupSearch
    <3>2. /\ pc[c] = "serving" /\ pc' = [pc EXCEPT ![c] = "looking"]
          /\ UNCHANGED <<refs, held>>
      BY <2>4 DEF LookupSearch
    <3> QED
      BY <1>0, <3>0, <3>1, <3>2
  <2> QED
    BY <1>4, <2>1, <2>2, <2>3, <2>4 DEF Environment, Request
<1>5. ASSUME NEW t \in Threads, Signal(t) \/ (SpawnFails /\ t = Main) \/ Terminate(t)
      PROVE  RefInv'
  BY <1>1, <1>5, SignalFrame, TerminateFrame DEF ArrayInv, ShapeOK
<1> QED
  BY <1>1, <1>2, <1>3, <1>4, <1>5 DEF Next, Ended, Work, UseOfFreedRegistry, Threads

(***************************************************************************)
(* The remaining types, the sleepers, the sweep and the history.           *)
(***************************************************************************)

\* creg_shutdown_all() starts with the first entry; those below its cursor have been
\* shut down.
SweptAreShut ==
  \A t \in Threads :
    /\ term[t] = "terminate" => cursor[t] = 0
    /\ term[t] = "sweeping" =>
         /\ cursor[t] <= numClients
         /\ \A i \in Occupied : i < cursor[t] => sock[clients[i]] # "open"

\* Only an accepted connection is open.
SocketsOfThreads == \A c \in Clients : pc[c] = "absent" => sock[c] = "none"

\* Nobody is in the registry, though the gap may not be closed yet.
Vacant == numClients = 0 \/ (numClients = 1 /\ clients[0] = NULL)

\* A permit is there only if the registry has been emptied, and whoever waits while
\* it is vacant has been told so or is about to be.
HistoryInv ==
  /\ sem > 0 \/ (\E t \in Threads : term[t] = "semPost") \/ (numClients = 1 /\ clients[0] = NULL)
       => drained
  /\ \A t \in Threads : Waiting(t) /\ Vacant => awaited[t]

MainInv == TypeOK /\ NoLostWakeup /\ SweptAreShut /\ SocketsOfThreads /\ HistoryInv

IInv == ArrayInv /\ RefInv /\ MainInv

\* Before the first connection nobody waits and nothing is swept.
LEMMA MainInit == Init => MainInv
<1> SUFFICES ASSUME Init PROVE MainInv
  OBVIOUS
<1>1. TypeOK
  <2> USE DEF Init, InitialPermits, TypeOK
  <2>1. /\ 0 \in 0..MAX_CLIENTS /\ 0 \in 0..MaxStarts
    BY MaxClientsAssumption, MaxStartsAssumption
  <2>2. fd \in [Clients -> Fds \cup {-1}]
    OBVIOUS
  <2>3. /\ sock \in [Clients -> SocketStates] /\ pc \in [Clients -> ThreadStates]
        /\ term \in [Threads -> TermStates] /\ process \in Outcomes
    BY DEF SocketStates, ThreadStates, TermStates, Outcomes
  <2>4. /\ cursor \in [Threads -> 0..MAX_CLIENTS] /\ handlers \in [Threads -> 0..2]
        /\ awaited \in [Threads -> BOOLEAN] /\ starts \in 0..MaxStarts
    BY <2>1
  <2>5. slot \in [Clients -> 0..MAX_CLIENTS] /\ numClients \in 0..MAX_CLIENTS
    BY <2>1
  <2> QED
    BY <2>2, <2>3, <2>4, <2>5
<1> QED
  BY <1>1 DEF Init, InitialPermits, MainInv, NoLostWakeup, SweptAreShut, SocketsOfThreads,
    HistoryInv, Waiting

\* While a thread sweeps, nothing is taken out, so every entry is a CLIENT.
LEMMA SweepersSeeClients ==
  ASSUME ArrayInv, NEW t \in Threads, term[t] = "sweeping"
  PROVE  lock = t /\ lock # NULL /\ \A i \in Occupied : clients[i] \in Clients
BY DistinctAssumption DEF ArrayInv, RegistryIsExact, CriticalSections, Threads

\* Steps of one service thread.
LEMMA MainServiceStep ==
  ASSUME MainInv, ArrayInv, RefInv, ArrayInv', RefInv',
         NEW c \in Clients, ServiceThread(c)
  PROVE  MainInv'
<1> USE DEF registryVars, objectVars, threadVars, termVars, historyVars, signalVars, CanLock,
            Ref, Unref, LeavesEmpty, SweepDone, MainInv, ArrayInv, ShapeOK, RefInv, At
<1> DEFINE Others ==
      \/ RegisterCheck(c) \/ LookupRead(c) \/ LookupRef(c) \/ ReleaseTarget(c)
      \/ Cleanup(c) \/ UnregisterUnref(c) \/ \E kind \in Outcomes : Fault(kind)
<1> USE DEF Threads
<1>1. RegisterAppend(c) \/ UnregisterFind(c) \/ UnregisterShift(c) \/ Others
  BY DEF ServiceThread, RegisterOverrun, ServeRefused, LookupReadFault, LookupRefFault, Outcomes
<1>2. ASSUME Others
      PROVE  UNCHANGED <<clients, numClients, sem, finalized, user, fd, termVars>>
  BY <1>2 DEF RegisterCheck, LookupRead, LookupRef, ReleaseTarget, Cleanup, UnregisterUnref, Fault
<1>3. ASSUME RegisterAppend(c) \/ UnregisterShift(c)
      PROVE  /\ \/ /\ lock' = NULL /\ UNCHANGED <<term, cursor, handlers, starts>>
                \/ /\ lock' = c
                   /\ starts < MaxStarts /\ starts' = starts + 1
                   /\ handlers[c] < 2 /\ handlers' = [handlers EXCEPT ![c] = @ + 1]
                   /\ term' = [term EXCEPT ![c] = "terminate"]
                   /\ cursor' = [cursor EXCEPT ![c] = 0]
             /\ lock = NULL \/ lock = c
             /\ term[c] = "none"
             /\ UNCHANGED <<finalized, user, fd, sock, want, process, drained, awaited>>
  BY <1>3 DEF RegisterAppend, UnregisterShift, LeaveSection, Interrupt, StartTerminate, Unlock,
    CriticalSections, Unlinking
<1>4. TypeOK'
  <2>1. sock' \in [Clients -> SocketStates] /\ want' \in [Clients -> Users \cup {NULL}]
        /\ process' \in Outcomes
    BY <1>1, <1>3 DEF RegisterCheck, LookupRead, LookupRef, ReleaseTarget, Cleanup,
      UnregisterFind, UnregisterUnref, Fault, TypeOK, SocketStates, Outcomes
  <2>2. UNCHANGED <<finalized, user, fd>>
    BY <1>1, <1>2, <1>3 DEF UnregisterFind
  <2>3. /\ cursor' \in [Threads -> 0..MAX_CLIENTS] /\ handlers' \in [Threads -> 0..2]
        /\ starts' \in 0..MaxStarts
    <3>1. CASE RegisterAppend(c) \/ UnregisterShift(c)
      BY <1>3, <3>1, MaxClientsAssumption, MaxStartsAssumption DEF TypeOK
    <3>2. CASE UnregisterFind(c) \/ Others
      BY <1>2, <3>2 DEF UnregisterFind, TypeOK
    <3> QED
      BY <1>1, <3>1, <3>2
  <2>4. drained' \in BOOLEAN /\ awaited' \in [Threads -> BOOLEAN]
    <3>1. CASE UnregisterFind(c)
      <4>1. \/ drained' = TRUE /\ awaited' = [t \in Threads |-> awaited[t] \/ Waiting(t)]
            \/ drained' = drained /\ awaited' = awaited
        BY <3>1 DEF UnregisterFind
      <4>2. \A t \in Threads : awaited[t] \/ Waiting(t) \in BOOLEAN
        BY DEF TypeOK, Waiting
      <4> QED
        BY <4>1, <4>2 DEF TypeOK
    <3> QED
      BY <1>1, <1>2, <1>3, <3>1 DEF TypeOK
  <2> QED
    BY <2>1, <2>2, <2>3, <2>4 DEF TypeOK, Slots, Fds
<1>5. NoLostWakeup'
  <2>1. CASE RegisterAppend(c)
    BY <2>1 DEF RegisterAppend, NoLostWakeup
  <2>2. CASE UnregisterShift(c)
    <3>1. CASE lock' = NULL
      BY <1>3, <2>2, <3>1, DistinctAssumption DEF UnregisterShift, NoLostWakeup
    <3>2. CASE lock' = c
      BY <1>3, <2>2, <3>2, DistinctAssumption DEF NoLostWakeup, Awake
    <3> QED
      BY <1>3, <2>2, <3>1, <3>2
  <2>3. CASE UnregisterFind(c)
    BY <2>3 DEF NoLostWakeup, Awake, UnregisterFind
  <2> QED
    BY <1>1, <1>2, <2>1, <2>2, <2>3 DEF NoLostWakeup, Awake
<1>6. /\ \A d \in Clients : sock'[d] = "open" => sock[d] = "open"
      /\ \A d \in Clients : pc'[d] = "absent" => pc[d] = "absent" /\ sock'[d] = sock[d]
  BY <1>1 DEF RegisterCheck, LookupRead, LookupRef, ReleaseTarget, Cleanup, RegisterAppend,
    UnregisterFind, UnregisterShift, UnregisterUnref, Fault, TypeOK
<1>7. SocketsOfThreads'
  BY <1>6 DEF SocketsOfThreads
<1>8. SweptAreShut'
  <2>0. ASSUME NEW t \in Threads, term'[t] = "terminate" PROVE cursor'[t] = 0
    BY <1>1, <1>2, <1>3, <2>0 DEF UnregisterFind, SweptAreShut, TypeOK
  <2> SUFFICES ASSUME NEW t \in Threads, term'[t] = "sweeping"
               PROVE  /\ cursor'[t] <= numClients'
                      /\ \A i \in Occupied' : i < cursor'[t] => sock'[clients'[i]] # "open"
    BY <2>0 DEF SweptAreShut
  <2>1. term[t] = "sweeping" /\ cursor'[t] = cursor[t]
    BY <1>1, <1>2, <1>3 DEF UnregisterFind, TypeOK
  <2>2. lock = t /\ lock # NULL /\ ~Unlinking(c) /\ \A i \in Occupied : clients[i] \in Clients
    BY <2>1, SweepersSeeClients DEF CriticalSections
  <2>3. UNCHANGED <<clients, numClients>>
    BY <1>1, <1>2, <2>2 DEF RegisterAppend, UnregisterFind, UnregisterShift, Unlinking
  <2> QED
    BY <1>6, <2>1, <2>2, <2>3 DEF SweptAreShut, Occupied
<1>9. HistoryInv'
  <2>1. CASE RegisterAppend(c)
    <3>1. numClients' > 0 /\ clients'[0] # NULL /\ UNCHANGED <<sem, drained>>
      <4>1. numClients = 0 \/ (numClients > 0 /\ clients[0] # NULL)
        BY <2>1, DistinctAssumption DEF RegisterAppend, RegistryIsExact, CriticalSections, Occupied
      <4> QED
        BY <2>1, <4>1, DistinctAssumption DEF RegisterAppend, Slots
    <3>2. \A t \in Threads : term'[t] = "semPost" => term[t] = "semPost"
      BY <1>3, <2>1
    <3> QED
      BY <3>1, <3>2 DEF HistoryInv, Vacant
  <2>2. CASE UnregisterFind(c)
    <3>1. IndexOf(c) \in Occupied /\ clients[IndexOf(c)] = c
      BY <2>2, IndexFound DEF UnregisterFind, Registered, InRegistry
    <3>2. UNCHANGED <<numClients, sem, term>> /\ clients' = [clients EXCEPT ![IndexOf(c)] = NULL]
      BY <2>2, <3>1 DEF UnregisterFind
    <3>3. CASE numClients = 1
      BY <2>2, <3>1, <3>2, <3>3 DEF UnregisterFind, HistoryInv, Waiting
    <3>4. CASE numClients # 1
      BY <2>2, <3>1, <3>2, <3>4 DEF UnregisterFind, HistoryInv, Vacant, Waiting, Occupied
    <3> QED
      BY <3>3, <3>4
  <2>3. CASE UnregisterShift(c)
    <3>1. numClients' = numClients - 1 /\ slot[c] \in Occupied /\ clients[slot[c]] = NULL
      BY <2>3 DEF UnregisterShift, HoleIsKnown, Unlinking
    <3>2. numClients = 1 => clients[0] = NULL
      BY <3>1 DEF Occupied
    <3>3. numClients' = 1 => clients'[0] # NULL
      <4>1. \A d \in Clients : ~Unlinking(d)'
        <5>1. \A d \in Clients : d # c => ~Unlinking(d) /\ pc'[d] = pc[d]
          BY <2>3 DEF UnregisterShift, CriticalSections, Unlinking
        <5> QED
          BY <2>3, <5>1 DEF UnregisterShift, Unlinking
      <4> QED
        BY <4>1, DistinctAssumption DEF RegistryIsExact, Occupied
    <3>4. sem' = sem \/ (numClients = 1 /\ sem' = sem + 1)
      BY <2>3 DEF UnregisterShift
    <3>5. \A t \in Threads : /\ term'[t] = "semPost" => term[t] = "semPost"
                             /\ Waiting(t)' => Waiting(t)
      BY <1>3, <2>3 DEF Waiting
    <3>6. UNCHANGED <<drained, awaited>>
      BY <1>3, <2>3
    <3> QED
      BY <3>1, <3>2, <3>3, <3>4, <3>5, <3>6 DEF HistoryInv, Vacant
  <2>4. CASE Others
    BY <1>2, <2>4 DEF HistoryInv, Vacant, Waiting
  <2> QED
    BY <1>1, <2>1, <2>2, <2>3, <2>4
<1> QED
  BY <1>4, <1>5, <1>7, <1>8, <1>9

\* A step that leaves the array, the permits, the waiting and the sweeping alone, and
\* shuts sockets at most.
LEMMA MainFrame ==
  ASSUME MainInv, ArrayInv, TypeOK', SocketsOfThreads',
         UNCHANGED <<clients, numClients, sem, drained, awaited>>,
         \A t \in Threads : \/ term'[t] = term[t] /\ cursor'[t] = cursor[t]
                            \/ term'[t] = "terminate" /\ cursor'[t] = 0
                            \/ term'[t] \in {"destroy", "exit"},
         \A d \in Clients : sock'[d] = "open" => sock[d] = "open" \/ pc[d] = "absent"
  PROVE  MainInv'
<1>1. NoLostWakeup'
  BY DEF MainInv, NoLostWakeup, Awake
<1>2. SweptAreShut'
  <2>0. ASSUME NEW t \in Threads, term'[t] = "terminate" PROVE cursor'[t] = 0
    BY <2>0 DEF MainInv, SweptAreShut
  <2> SUFFICES ASSUME NEW t \in Threads, term'[t] = "sweeping"
               PROVE  /\ cursor'[t] <= numClients'
                      /\ \A i \in Occupied' : i < cursor'[t] => sock'[clients'[i]] # "open"
    BY <2>0 DEF SweptAreShut
  <2>1. term[t] = "sweeping" /\ cursor'[t] = cursor[t]
    OBVIOUS
  <2>2. \A i \in Occupied : clients[i] \in Clients /\ pc[clients[i]] # "absent"
    BY <2>1, SweepersSeeClients DEF ArrayInv, RegistryIsExact, Registered, InRegistry
  <2> QED
    BY <2>1, <2>2 DEF MainInv, SweptAreShut, Occupied
<1>3. HistoryInv'
  BY DEF MainInv, HistoryInv, Vacant, Waiting
<1> QED
  BY <1>1, <1>2, <1>3 DEF MainInv

\* Steps of peers, and faults.
LEMMA MainOutsideStep ==
  ASSUME MainInv, ArrayInv, RefInv, ArrayInv', RefInv',
         \/ \E kind \in Outcomes : Fault(kind)
         \/ \E c \in Clients : Environment(c)
  PROVE  MainInv'
<1> USE DEF registryVars, objectVars, threadVars, termVars, historyVars, signalVars
<1>1. ASSUME NEW kind \in Outcomes, Fault(kind) PROVE MainInv'
  BY <1>1, MainFrame DEF Fault, MainInv, TypeOK, SocketsOfThreads, Slots, Fds
<1>2. ASSUME NEW c \in Clients, Accept(c) PROVE MainInv'
  <2>1. fd' \in [Clients -> Fds \cup {-1}]
    BY <1>2 DEF Accept, MainInv, TypeOK, FreeFds
  <2>2. sock' \in [Clients -> SocketStates]
    BY <1>2 DEF Accept, MainInv, TypeOK, SocketStates
  <2>3. /\ UNCHANGED <<lock, clients, numClients, sem, finalized, refs, user, slot, want,
                       held, termVars, process>>
        /\ pc[c] = "absent" /\ pc' = [pc EXCEPT ![c] = "accepted"]
        /\ \A d \in Clients : d # c => sock'[d] = sock[d]
    BY <1>2 DEF Accept, MainInv, TypeOK
  <2>4. TypeOK'
    BY <2>1, <2>2, <2>3 DEF MainInv, ArrayInv, ShapeOK, TypeOK, Slots, Fds
  <2>5. SocketsOfThreads'
    BY <2>3 DEF MainInv, SocketsOfThreads, TypeOK
  <2> QED
    BY <2>3, <2>4, <2>5, MainFrame
<1>3. ASSUME NEW c \in Clients, PeerCloses(c) PROVE MainInv'
  <2>1. /\ sock[c] = "open" /\ sock' = [sock EXCEPT ![c] = "eof"]
        /\ UNCHANGED <<registryVars, refs, user, fd, threadVars, termVars, process>>
    BY <1>3 DEF PeerCloses
  <2>2. TypeOK' /\ SocketsOfThreads'
    BY <2>1 DEF MainInv, TypeOK, SocketsOfThreads, SocketStates, Slots, Fds
  <2> QED
    BY <2>1, <2>2, MainFrame DEF MainInv, TypeOK
<1>4. ASSUME NEW c \in Clients, NEW u \in Users, Login(c, u) PROVE MainInv'
  BY <1>4, MainFrame DEF Login, MainInv, TypeOK, SocketsOfThreads, Slots, Fds
<1>5. ASSUME NEW c \in Clients, NEW u \in Users, LookupSearch(c, u) PROVE MainInv'
  <2>1. UNCHANGED <<registryVars, objectVars, termVars, process, held>>
    BY <1>5 DEF LookupSearch
  <2>2. want' = [want EXCEPT ![c] = u] /\ pc' = [pc EXCEPT ![c] = "looking"]
    BY <1>5 DEF LookupSearch
  <2>3. TypeOK' /\ SocketsOfThreads'
    BY <2>1, <2>2 DEF MainInv, ArrayInv, ShapeOK, TypeOK, SocketsOfThreads, Slots, Fds
  <2> QED
    BY <2>1, <2>3, MainFrame
<1> QED
  BY <1>1, <1>2, <1>3, <1>4, <1>5 DEF Environment, Request

\* Signals, failures to start a thread, and terminate().
LEMMA MainTerminateStep ==
  ASSUME MainInv, ArrayInv, RefInv, ArrayInv', RefInv', NEW t \in Threads,
         Signal(t) \/ (SpawnFails /\ t = Main) \/ Terminate(t)
  PROVE  MainInv'
<1> USE DEF registryVars, objectVars, threadVars, termVars, historyVars, signalVars, Goes,
            SweepDone, Unlock, CanLock
<1>0. TypeOK /\ ShapeOK /\ ShapeOK' /\ SocketsOfThreads /\ HistoryInv /\ SweptAreShut
  BY DEF MainInv, ArrayInv
<1>1. CASE Signal(t) \/ (SpawnFails /\ t = Main)
  <2>1. /\ UNCHANGED <<clients, numClients, sem, finalized, objectVars, threadVars,
                       historyVars, process>>
        /\ term'[t] = "terminate" /\ \A u \in Threads \ {t} : term'[u] = term[u]
    BY <1>0, <1>1, SignalFrame DEF ShapeOK
  <2>2. /\ starts < MaxStarts /\ starts' = starts + 1
        /\ cursor' = [cursor EXCEPT ![t] = 0]
        /\ handlers' = handlers
             \/ (handlers[t] < 2 /\ handlers' = [handlers EXCEPT ![t] = handlers[t] + 1])
    BY <1>1 DEF Signal, SpawnFails, Interrupt, StartTerminate
  <2>3. /\ starts' \in 0..MaxStarts /\ cursor' \in [Threads -> 0..MAX_CLIENTS]
        /\ handlers' \in [Threads -> 0..2]
    BY <1>0, <2>2, MaxStartsAssumption, MaxClientsAssumption DEF TypeOK
  <2>4. TypeOK'
    BY <1>0, <2>1, <2>3 DEF TypeOK, ShapeOK, Slots, Fds
  <2>5. SocketsOfThreads'
    BY <1>0, <2>1 DEF SocketsOfThreads
  <2>6. cursor'[t] = 0 /\ \A u \in Threads \ {t} : cursor'[u] = cursor[u]
    BY <1>0, <2>2 DEF TypeOK
  <2> QED
    BY <2>1, <2>4, <2>5, <2>6, MainFrame
<1>2. CASE Terminate(t)
  <2>0. /\ UNCHANGED <<clients, numClients, refs, user, fd, threadVars, signalVars, drained>>
        /\ \A u \in Threads \ {t} : term'[u] = term[u]
    BY <1>0, <1>2, TerminateFrame DEF ShapeOK
  <2> DEFINE Rest == /\ sock' \in [Clients -> SocketStates] /\ finalized' \in BOOLEAN
                     /\ cursor' \in [Threads -> 0..MAX_CLIENTS]
                     /\ process' \in Outcomes /\ awaited' \in [Threads -> BOOLEAN]
  <2>1. ASSUME Rest PROVE TypeOK'
    BY <1>0, <2>0, <2>1 DEF TypeOK, ShapeOK, Slots, Fds
  <2>2. CASE ShutdownAllStep(t)
    <3> DEFINE x == clients[cursor[t]]
    <3>1. /\ term[t] = "sweeping" /\ term' = term /\ cursor' = [cursor EXCEPT ![t] = @ + 1]
          /\ sock' = [c \in Clients |-> IF Holds(fd[x], c) THEN "eof" ELSE sock[c]]
          /\ UNCHANGED <<sem, finalized, process, awaited>>
      BY <2>2 DEF ShutdownAllStep
    <3>2. cursor[t] < numClients /\ cursor[t] \in Nat /\ numClients \in 0..MAX_CLIENTS
      BY <1>0, <2>2, MaxClientsAssumption DEF ShutdownAllStep, TypeOK
    <3>3. \A i \in Occupied : clients[i] \in Clients
      BY <3>1, SweepersSeeClients
    <3>4. x \in Clients
      BY <3>2, <3>3 DEF Occupied
    <3>5. sock'[x] # "open" /\ \A d \in Clients : sock'[d] = "open" => sock[d] = "open"
      BY <3>1, <3>4 DEF Holds
    <3>6. TypeOK'
      BY <1>0, <2>1, <3>1, <3>2, MaxClientsAssumption DEF TypeOK, SocketStates
    <3>7. SocketsOfThreads'
      <4>1. \A c \in Clients : sock[c] = "none" => sock'[c] = "none"
        BY <3>1 DEF Holds
      <4> QED
        BY <1>0, <2>0, <4>1 DEF SocketsOfThreads
    <3>8. SweptAreShut'
      <4>0. ASSUME NEW u \in Threads, term'[u] = "terminate" PROVE cursor'[u] = 0
        BY <1>0, <3>1, <4>0 DEF SweptAreShut, TypeOK
      <4> SUFFICES ASSUME NEW u \in Threads, term'[u] = "sweeping"
                   PROVE  /\ cursor'[u] <= numClients'
                          /\ \A i \in Occupied' : i < cursor'[u] => sock'[clients'[i]] # "open"
        BY <4>0 DEF SweptAreShut
      <4>1. u = t
        BY <3>1, SweepersSeeClients
      <4>2. cursor'[u] = cursor[t] + 1
        BY <1>0, <3>1, <4>1 DEF TypeOK
      <4>3. \A i \in Occupied : i < cursor[t] => sock[clients[i]] # "open"
        BY <1>0, <3>1 DEF SweptAreShut
      <4>4. \A i \in Occupied : i < cursor[t] + 1 => i < cursor[t] \/ i = cursor[t]
        BY <3>2 DEF Occupied
      <4> QED
        BY <2>0, <3>2, <3>3, <3>5, <4>2, <4>3, <4>4 DEF Occupied
    <3>9. NoLostWakeup' /\ HistoryInv'
      BY <1>0, <2>0, <3>1 DEF MainInv, NoLostWakeup, Awake, HistoryInv, Vacant, Waiting
    <3> QED
      BY <3>6, <3>7, <3>8, <3>9 DEF MainInv
  <2> DEFINE Goal == NoLostWakeup' /\ SweptAreShut' /\ HistoryInv'
  <2>3. ASSUME Rest, sock' = sock, Goal PROVE MainInv'
    BY <1>0, <2>0, <2>1, <2>3 DEF MainInv, SocketsOfThreads
  <2>4. CASE ShutdownAllLock(t)
    <3>1. /\ lock = NULL /\ term[t] = "terminate" /\ term'[t] = "sweeping"
          /\ UNCHANGED <<sem, sock, finalized, awaited, process, cursor>>
      BY <1>0, <2>4 DEF ShutdownAllLock, ShapeOK
    <3>2. \A u \in Threads : term[u] # "sweeping"
      BY <3>1, SweepersSeeClients, DistinctAssumption DEF Threads
    <3>3. SweptAreShut'
      BY <1>0, <2>0, <3>1, <3>2, MaxClientsAssumption DEF SweptAreShut, ShapeOK, Occupied
    <3>4. NoLostWakeup' /\ HistoryInv'
      BY <1>0, <2>0, <3>1 DEF MainInv, NoLostWakeup, Awake, HistoryInv, Vacant, Waiting
    <3>5. Rest
      BY <1>0, <3>1 DEF TypeOK
    <3> QED
      BY <2>3, <3>1, <3>3, <3>4, <3>5
  <2>5. CASE ShutdownAllUnlock(t)
    <3>1. /\ lock = t /\ term[t] = "sweeping" /\ term'[t] = "waiting"
          /\ cursor' = [cursor EXCEPT ![t] = 0]
          /\ awaited' = [awaited EXCEPT ![t] = (numClients = 0)]
          /\ UNCHANGED <<sem, sock, finalized, process>>
      BY <1>0, <2>5, SweepersSeeClients DEF ShutdownAllUnlock, ShapeOK
    <3>2. Rest
      BY <1>0, <3>1, MaxClientsAssumption DEF TypeOK
    <3>3. \A u \in Threads \ {t} : cursor'[u] = cursor[u] /\ awaited'[u] = awaited[u]
      BY <1>0, <3>1 DEF TypeOK
    <3>4. SweptAreShut'
      BY <1>0, <2>0, <3>1, <3>3 DEF SweptAreShut, Occupied
    <3>5. NoLostWakeup'
      BY <2>0, <3>1 DEF NoLostWakeup, Awake
    <3>6. Vacant => numClients = 0
      BY <3>1, SweepersSeeClients, DistinctAssumption DEF Vacant, Occupied
    <3>7. awaited'[t] = (numClients = 0)
      BY <1>0, <3>1 DEF TypeOK
    <3>8. HistoryInv'
      BY <1>0, <2>0, <3>1, <3>3, <3>6, <3>7 DEF HistoryInv, Vacant, Waiting
    <3> QED
      BY <2>3, <3>1, <3>2, <3>4, <3>5, <3>8
  <2>6. CASE WaitTest(t)
    <3>1. /\ term[t] = "waiting"
          /\ term'[t] = IF numClients = 0 THEN "fini" ELSE "semWait"
          /\ UNCHANGED <<lock, sem, sock, finalized, process, cursor, awaited>>
      BY <1>0, <2>6 DEF WaitTest, ShapeOK
    <3>2. Rest
      BY <1>0, <3>1 DEF TypeOK
    <3>3. SweptAreShut'
      BY <1>0, <2>0, <3>1 DEF SweptAreShut, Occupied
    <3>4. NoLostWakeup'
      <4>1. CASE numClients = 0
        BY <2>0, <3>1, <4>1 DEF NoLostWakeup, Awake
      <4>2. CASE numClients # 0
        BY <2>0, <4>2 DEF NoLostWakeup
      <4> QED
        BY <4>1, <4>2
    <3>5. HistoryInv'
      BY <1>0, <2>0, <3>1 DEF HistoryInv, Vacant, Waiting
    <3> QED
      BY <2>3, <3>1, <3>2, <3>3, <3>4, <3>5
  <2>7. CASE WaitSem(t)
    <3>1. /\ term[t] = "semWait" /\ term'[t] = "semPost" /\ sem > 0 /\ sem' = sem - 1
          /\ UNCHANGED <<lock, sock, finalized, process, cursor, awaited>>
      BY <1>0, <2>7 DEF WaitSem, ShapeOK
    <3>2. Rest
      BY <1>0, <3>1 DEF TypeOK
    <3>3. SweptAreShut'
      BY <1>0, <2>0, <3>1 DEF SweptAreShut, Occupied
    <3>4. NoLostWakeup'
      BY <2>0, <3>1 DEF NoLostWakeup, Awake
    <3>5. HistoryInv'
      BY <1>0, <2>0, <3>1 DEF HistoryInv, Vacant, Waiting
    <3> QED
      BY <2>3, <3>1, <3>2, <3>3, <3>4, <3>5
  <2>8. CASE WaitPost(t)
    <3>1. /\ term[t] = "semPost" /\ term'[t] = "fini" /\ sem' = sem + 1
          /\ UNCHANGED <<lock, sock, finalized, process, cursor, awaited>>
      BY <1>0, <2>8 DEF WaitPost, ShapeOK
    <3>2. Rest
      BY <1>0, <3>1 DEF TypeOK
    <3>3. SweptAreShut'
      BY <1>0, <2>0, <3>1 DEF SweptAreShut, Occupied
    <3>4. NoLostWakeup'
      BY <2>0, <3>1 DEF NoLostWakeup, Awake
    <3>5. HistoryInv'
      BY <1>0, <2>0, <3>1 DEF HistoryInv, Vacant, Waiting
    <3> QED
      BY <2>3, <3>1, <3>2, <3>3, <3>4, <3>5
  <2>9. CASE FiniCheck(t) \/ FiniDestroy(t) \/ Exit(t)
    <3>1. /\ UNCHANGED <<sem, sock, cursor, awaited>>
          /\ finalized' \in BOOLEAN /\ process' \in Outcomes
          /\ term'[t] = term[t] \/ term'[t] \in {"destroy", "exit"}
      BY <1>0, <2>9 DEF FiniCheck, FiniDestroy, Exit, Fault, TypeOK, Outcomes
    <3>2. TypeOK'
      BY <1>0, <2>1, <3>1 DEF TypeOK
    <3>3. SocketsOfThreads'
      BY <1>0, <2>0, <3>1 DEF SocketsOfThreads
    <3> QED
      BY <2>0, <3>1, <3>2, <3>3, MainFrame
  <2> QED
    BY <1>2, <2>2, <2>4, <2>5, <2>6, <2>7, <2>8, <2>9 DEF Terminate
<1> QED
  BY <1>1, <1>2

\* The invariant holds throughout.
LEMMA Inductive == Spec => []IInv
<1>1. Init => IInv
  BY ArrayInit, RefInit, MainInit DEF IInv
<1>2. IInv /\ [Next]_vars => IInv'
  <2> SUFFICES ASSUME IInv, [Next]_vars PROVE IInv'
    OBVIOUS
  <2>1. ArrayInv' /\ RefInv'
    BY ArrayStep, RefStep DEF IInv
  <2>2. ArrayInv /\ RefInv /\ MainInv
    BY DEF IInv
  <2>3. CASE UNCHANGED vars
    <3>1. UNCHANGED <<lock, clients, numClients, sem, finalized, refs, user, fd, sock, pc,
                      slot, want, held, term, cursor, handlers, starts, process, drained,
                      awaited>>
      BY <2>3 DEF vars, registryVars, objectVars, threadVars, termVars, signalVars, historyVars
    <3>2. TypeOK' /\ SocketsOfThreads'
      BY <2>2, <3>1 DEF MainInv, TypeOK, SocketsOfThreads, Slots, Fds
    <3> QED
      BY <2>1, <2>2, <3>1, <3>2, MainFrame DEF IInv
  <2>4. ASSUME NEW t \in Threads, Work(t) PROVE MainInv'
    <3>1. CASE t \in Clients /\ ServiceThread(t)
      BY <2>1, <2>2, <3>1, MainServiceStep
    <3>2. CASE Terminate(t)
      BY <2>1, <2>2, <3>2, MainTerminateStep
    <3>3. CASE UseOfFreedRegistry(t)
      <4>1. Fault("useAfterFree") /\ "useAfterFree" \in Outcomes
        BY <3>3 DEF UseOfFreedRegistry, Outcomes
      <4> QED
        BY <2>1, <2>2, <4>1, MainOutsideStep
    <3> QED
      BY <2>4, <3>1, <3>2, <3>3 DEF Work
  <2>5. ASSUME NEW c \in Clients, Environment(c) PROVE MainInv'
    BY <2>1, <2>2, <2>5, MainOutsideStep
  <2>6. ASSUME NEW t \in Threads, Signal(t) PROVE MainInv'
    BY <2>1, <2>2, <2>6, MainTerminateStep
  <2>7. CASE SpawnFails
    <3>1. Main \in Threads /\ SpawnFails /\ Main = Main
      BY <2>7 DEF Threads
    <3> QED
      BY <2>1, <2>2, <3>1, MainTerminateStep DEF IInv
  <2> QED
    BY <2>1, <2>3, <2>4, <2>5, <2>6, <2>7 DEF Next, Ended, IInv
<1> QED
  BY <1>1, <1>2, PTL DEF Spec

(***************************************************************************)
(* The theorems.                                                           *)
(***************************************************************************)

\* Every variable has its type; above all, a reference count never goes
\* negative and numClients stays within the array (client_registry.c).
THEOREM TypeCorrect == Spec => []TypeOK
<1>1. IInv => TypeOK
  BY DEF IInv, MainInv
<1> QED
  BY <1>1, Inductive, PTL

\* Whatever the threads do, the array holds exactly the registered CLIENTs
\* (client_registry.c:103-185).
THEOREM RegistryStaysExact == Spec => []RegistryIsExact
<1>1. IInv => RegistryIsExact
  BY DEF IInv, ArrayInv
<1> QED
  BY <1>1, Inductive, PTL

\* The critical sections of cr_lock exclude each other.
THEOREM CriticalSectionsExclude == Spec => []CriticalSections
<1>1. IInv => CriticalSections
  BY DEF IInv, ArrayInv
<1> QED
  BY <1>1, Inductive, PTL

\* Reference counts are exact, so no registered CLIENT is ever freed.
THEOREM RefCountsAreExact == Spec => []RefsAreCounted
<1>1. IInv => RefsAreCounted
  BY DEF IInv, RefInv
<1> QED
  BY <1>1, Inductive, PTL

\* No thread is ever left asleep in creg_wait_for_empty() with the registry empty,
\* however many signals make threads wait (client_registry.c:260-271).
THEOREM WakeupIsNotLost == Spec => []NoLostWakeup
<1>1. IInv => NoLostWakeup
  BY DEF IInv, MainInv
<1> QED
  BY <1>1, Inductive, PTL

\* creg_shutdown_all() reaches every client that is registered when it unlocks, on
\* whatever thread it runs (client_registry.c:281-294).
THEOREM SweepIsComplete == Spec => SweepReachesAll
<1> DEFINE Swept == \A t \in Threads : term[t] = "sweeping" /\ term'[t] = "waiting"
                      => \A c \in Clients : Registered(c) => sock[c] # "open"
<1>1. IInv /\ [Next]_vars => [Swept]_vars
  <2> SUFFICES ASSUME IInv, Next, NEW t \in Threads, term[t] = "sweeping", term'[t] = "waiting",
                      NEW c \in Clients, Registered(c)
               PROVE  sock[c] # "open"
    OBVIOUS
  <2>0. TypeOK /\ ShapeOK
    BY DEF IInv, ArrayInv, MainInv
  <2>1. ShutdownAllUnlock(t)
    <3>1. ASSUME NEW u \in Threads, Signal(u) \/ (SpawnFails /\ u = Main) PROVE FALSE
      BY <2>0, <3>1, SignalFrame DEF ShapeOK
    <3>2. ASSUME NEW u \in Threads, Terminate(u) PROVE u = t
      BY <2>0, <3>2, TerminateFrame DEF ShapeOK
    <3>3. ASSUME NEW d \in Clients, ServiceThread(d) \/ Environment(d) PROVE term'[t] # "waiting"
      BY <2>0, <3>3 DEF ServiceThread, Environment, Request, Accept, PeerCloses, Login,
        LookupSearch, RegisterCheck, RegisterAppend, RegisterOverrun, ServeRefused, LookupRead,
        LookupReadFault, LookupRef, LookupRefFault, ReleaseTarget, Cleanup, UnregisterFind,
        UnregisterShift, UnregisterUnref, Fault, LeaveSection, Interrupt, StartTerminate,
        termVars, ShapeOK
    <3>4. Terminate(t)
      BY <3>1, <3>2, <3>3
      DEF Next, Ended, Work, UseOfFreedRegistry, Fault, vars, termVars, Threads
    <3> QED
      BY <2>0, <3>4 DEF Terminate, Goes, ShutdownAllLock, ShutdownAllStep, WaitTest, WaitSem,
        WaitPost, FiniCheck, FiniDestroy, Exit, ShapeOK
  <2>2. PICK i \in Occupied : clients[i] = c
    BY DEF IInv, ArrayInv, RegistryIsExact
  <2>3. i < cursor[t]
    BY <2>0, <2>1 DEF ShutdownAllUnlock, SweepDone, TypeOK, Occupied
  <2> QED
    BY <2>2, <2>3 DEF IInv, MainInv, SweptAreShut
<1> QED
  BY <1>1, Inductive, PTL DEF Spec, SweepReachesAll

(***************************************************************************)
(* Lookups.                                                                *)
(***************************************************************************)

\* A thread that has ended its connection is on its way out of the registry.
Leaving == {"closing", "unlinking", "dropping", "stuck", "done"}
ClosedAreLeaving == \A c \in Clients : sock[c] = "closed" <=> pc[c] \in Leaving

NoneLeft == \A c \in Clients : sock[c] # "closed"

\* What a lookup has found so far, the index or the CLIENT, is what it was asked for,
\* as long as no entry has moved.
LookupOnTrack ==
  NoneLeft =>
    \A c \in Clients :
      /\ pc[c] = "looking" => /\ slot[c] \in Occupied /\ clients[slot[c]] \in Clients
                             /\ user[clients[slot[c]]] = want[c]
      /\ pc[c] \in {"reading", "inviting"} => held[c] \in Clients /\ user[held[c]] = want[c]
      /\ pc[c] \in {"looking", "reading", "inviting"} => want[c] \in Users

LookupInv == ClosedAreLeaving /\ LookupOnTrack

\* Before the first connection there is nothing to look up.
LEMMA LookupInit == Init => LookupInv
BY DEF Init, LookupInv, ClosedAreLeaving, LookupOnTrack, Leaving

\* A step of the environment, of the main thread or of a fault: none of these ends a
\* connection, or moves a thread or an entry.
LEMMA LookupFrame ==
  ASSUME LookupInv, TypeOK, UNCHANGED <<clients, numClients, held, want, slot>>,
         \A c \in Clients : pc'[c] = pc[c] \/ {pc[c], pc'[c]} \subseteq
                              {"absent", "accepted", "creating", "refused"},
         \A c \in Clients : sock'[c] = "closed" <=> sock[c] = "closed",
         \A c \in Clients : user'[c] = user[c] \/ user[c] = NULL
  PROVE  LookupInv'
<1>1. ClosedAreLeaving'
  BY DEF LookupInv, ClosedAreLeaving, Leaving
<1>2. LookupOnTrack'
  BY DistinctAssumption DEF LookupInv, LookupOnTrack, NoneLeft, Occupied
<1> QED
  BY <1>1, <1>2 DEF LookupInv

\* Whatever a thread does, a lookup stays on its track until a connection ends.
LEMMA LookupStep == IInv /\ LookupInv /\ [Next]_vars => LookupInv'
<1> SUFFICES ASSUME IInv, LookupInv, [Next]_vars PROVE LookupInv'
  OBVIOUS
<1> USE DEF registryVars, objectVars, threadVars, termVars, At
<1>0. TypeOK /\ ArrayInv /\ ShapeOK /\ HeldWereRegistered /\ SocketsOfThreads
  BY DEF IInv, MainInv, ArrayInv, RefInv
<1>1. CASE UNCHANGED vars
  BY <1>0, <1>1, LookupFrame DEF vars
<1>11. ASSUME NEW kind, Fault(kind) PROVE LookupInv'
  BY <1>0, <1>11, LookupFrame DEF Fault
<1>2. ASSUME NEW t \in Threads, Signal(t) \/ (SpawnFails /\ t = Main) PROVE LookupInv'
  <2>1. UNCHANGED <<clients, numClients, objectVars, threadVars>>
    BY <1>0, <1>2, SignalFrame DEF ShapeOK
  <2> QED
    BY <1>0, <2>1, LookupFrame
<1>12. ASSUME NEW t \in Threads, Terminate(t) PROVE LookupInv'
  <2>1. UNCHANGED <<clients, numClients, user, threadVars>>
    BY <1>0, <1>12, TerminateFrame DEF ShapeOK
  <2>2. \A c \in Clients : sock'[c] = "closed" <=> sock[c] = "closed"
    BY <1>0, <1>12
    DEF Terminate, Goes, ShutdownAllLock, ShutdownAllStep, ShutdownAllUnlock, WaitTest, WaitSem,
        WaitPost, FiniCheck, FiniDestroy, Exit, Fault, TypeOK, Holds
  <2> QED
    BY <1>0, <2>1, <2>2, LookupFrame
<1>3. ASSUME NEW c \in Clients, Accept(c) \/ PeerCloses(c) \/ \E u \in Users : Login(c, u)
      PROVE  LookupInv'
  BY <1>0, <1>3, LookupFrame DEF Accept, PeerCloses, Login, TypeOK, SocketsOfThreads
<1>4. ASSUME NEW c \in Clients, RegisterCheck(c) PROVE LookupInv'
  BY <1>0, <1>4, LookupFrame DEF RegisterCheck, TypeOK
<1>5. ASSUME NEW c \in Clients, RegisterAppend(c) PROVE LookupInv'
  <2>1. /\ UNCHANGED <<sock, user, slot, want, held>> /\ numClients \in Slots
        /\ pc[c] = "creating" /\ pc' = [pc EXCEPT ![c] = "serving"]
        /\ numClients' = numClients + 1 /\ clients' = [clients EXCEPT ![numClients] = c]
    BY <1>5 DEF RegisterAppend
  <2>2. \A i \in Occupied : i \in Occupied' /\ clients'[i] = clients[i]
    BY <1>0, <2>1 DEF TypeOK, Occupied, Slots
  <2> QED
    BY <1>0, <2>1, <2>2 DEF LookupInv, ClosedAreLeaving, LookupOnTrack, NoneLeft, Leaving, TypeOK
<1>6. ASSUME NEW c \in Clients, NEW u \in Users, LookupSearch(c, u) PROVE LookupInv'
  <2>1. PICK i \in Occupied :
          /\ LoggedInAs(i, u) /\ slot' = [slot EXCEPT ![c] = i]
          /\ want' = [want EXCEPT ![c] = u] /\ pc' = [pc EXCEPT ![c] = "looking"]
          /\ UNCHANGED <<clients, numClients, sock, user, held>>
          /\ lock = NULL /\ pc[c] = "serving"
    BY <1>6 DEF LookupSearch, CanLock
  <2>2. clients[i] \in Clients
    BY <1>0, <2>1, DistinctAssumption DEF ArrayInv, RegistryIsExact
  <2>3. user[clients[i]] = u
    BY <2>1 DEF LoggedInAs
  <2> QED
    BY <1>0, <2>1, <2>2, <2>3
    DEF LookupInv, ClosedAreLeaving, LookupOnTrack, NoneLeft, Leaving, TypeOK, Occupied
<1>7. ASSUME NEW c \in Clients, LookupRead(c) PROVE LookupInv'
  BY <1>0, <1>7
  DEF LookupRead, LookupInv, ClosedAreLeaving, LookupOnTrack, NoneLeft, Leaving, TypeOK, Occupied
<1>8. ASSUME NEW c \in Clients, LookupRef(c) \/ ReleaseTarget(c) PROVE LookupInv'
  BY <1>0, <1>8
  DEF LookupRef, ReleaseTarget, LookupInv, ClosedAreLeaving, LookupOnTrack, NoneLeft, Leaving,
      TypeOK, Occupied
<1>9. ASSUME NEW c \in Clients, Cleanup(c) PROVE LookupInv'
  BY <1>0, <1>9 DEF Cleanup, LookupInv, ClosedAreLeaving, LookupOnTrack, NoneLeft, Leaving, TypeOK
<1>10. ASSUME NEW c \in Clients,
              UnregisterFind(c) \/ UnregisterShift(c) \/ UnregisterUnref(c)
       PROVE  LookupInv'
  <2>1. /\ sock' = sock /\ pc[c] \in Leaving /\ pc'[c] \in Leaving
        /\ \A d \in Clients \ {c} : pc'[d] = pc[d]
    BY <1>0, <1>10 DEF UnregisterFind, UnregisterShift, UnregisterUnref, Leaving, TypeOK
  <2>2. sock'[c] = "closed"
    BY <2>1 DEF LookupInv, ClosedAreLeaving
  <2> QED
    BY <2>1, <2>2 DEF LookupInv, ClosedAreLeaving, LookupOnTrack, NoneLeft
<1> QED
  BY <1>1, <1>2, <1>3, <1>4, <1>5, <1>6, <1>7, <1>8, <1>9, <1>10, <1>11, <1>12
  DEF Next, Ended, Work, Threads, ServiceThread, Environment, Request, UseOfFreedRegistry, RegisterOverrun,
      ServeRefused, LookupReadFault, LookupRefFault

\* Until a connection ends, creg_lookup() returns the CLIENT that is logged in under the
\* name it was given (client_registry.c:204-211): it reads the array once more without
\* the lock, but entries only move when one is taken out.
THEOREM LookupsAreRight == Spec => []LookupIsRightWhileNoneLeaves
<1>1. LookupInv => LookupIsRightWhileNoneLeaves
  BY DEF LookupInv, LookupOnTrack, NoneLeft, LookupIsRightWhileNoneLeaves
<1> QED
  BY <1>1, LookupInit, LookupStep, Inductive, PTL DEF Spec

(***************************************************************************)
(* The registry implements its contract.                                   *)
(***************************************************************************)

\* A client is a member from the step that stores its pointer to the step that clears it.
StatusOf(c) == IF Registered(c) THEN "in"
               ELSE IF pc[c] \in {"unlinking", "dropping", "done"} THEN "left"
               ELSE "out"

\* In an exact array, who is a member can be read off where each thread stands.
LEMMA MembershipByPosition ==
  /\ RegistryIsExact => Membership = [c \in Clients |-> StatusOf(c)]
  /\ RegistryIsExact' => Membership' = [c \in Clients |-> StatusOf(c)']
<1>1. ASSUME RegistryIsExact, NEW c \in Clients
      PROVE  Registered(c) <=> \E i \in Occupied : clients[i] = c
  BY <1>1 DEF RegistryIsExact
<1>2. ASSUME RegistryIsExact', NEW c \in Clients
      PROVE  Registered(c)' <=> \E i \in Occupied' : clients'[i] = c
  BY <1>2 DEF RegistryIsExact, Registered
<1>3. RegistryIsExact => Membership = [c \in Clients |-> StatusOf(c)]
  BY <1>1 DEF Membership, StatusOf
<1>4. RegistryIsExact' => Membership' = [c \in Clients |-> StatusOf(c)']
  BY <1>2 DEF Membership, StatusOf
<1> QED
  BY <1>3, <1>4

\* There are no more members than entries.
LEMMA MembersFitTheArray ==
  ASSUME ArrayInv
  PROVE  /\ Contract!Members = {c \in Clients : Registered(c)}
         /\ Cardinality(Contract!Members) <= numClients
<1>1. Contract!Members = {c \in Clients : Registered(c)}
  BY MembershipByPosition DEF ArrayInv, Contract!Members, StatusOf
<1> DEFINE M == {c \in Clients : Registered(c)}
           place == [c \in M |-> CHOOSE i \in Occupied : clients[i] = c]
<1>2. \A c \in M : place[c] \in Occupied /\ clients[place[c]] = c
  BY DEF ArrayInv, RegistryIsExact
<1>3. place \in Injection(M, Occupied)
  BY <1>2 DEF Injection, IsInjective
<1>4. IsFiniteSet(Occupied) /\ Cardinality(Occupied) = numClients
  <2>1. PICK n \in Nat : n = numClients
    BY MaxClientsAssumption DEF ArrayInv, ShapeOK
  <2>2. IsFiniteSet(0..(n - 1)) /\ Cardinality(0..(n - 1)) = n
    BY FS_Interval
  <2> QED
    BY <2>1, <2>2 DEF Occupied
<1>5. Cardinality(M) <= numClients
  <2> HIDE DEF M, place
  <2> QED
    BY <1>3, <1>4, FS_Injection
<1> QED
  BY <1>1, <1>5

\* Nobody joins or leaves as long as nobody's standing changes.
LEMMA ContractStutters ==
  ASSUME ArrayInv, ArrayInv', \A c \in Clients : StatusOf(c)' = StatusOf(c)
  PROVE  Membership' = Membership
BY MembershipByPosition DEF ArrayInv

\* Steps of the program that a signal may end: the thread it strikes waits no more.
LEMMA StruckThread ==
  ASSUME IInv, IInv', NEW c \in Clients, RegisterAppend(c) \/ UnregisterShift(c)
  PROVE  Waiter' = Waiter
<1>1. awaited' = awaited /\ (term' = term \/ term' = [term EXCEPT ![c] = "terminate"])
  BY DEF RegisterAppend, UnregisterShift, LeaveSection, Interrupt, StartTerminate, signalVars,
    historyVars
<1>2. term[c] = "none" /\ ShapeOK
  BY DEF RegisterAppend, UnregisterShift, At, IInv, ArrayInv
<1> QED
  BY <1>1, <1>2 DEF Waiter, Waiting, ShapeOK

\* Every step of the program is a step of the contract, takes a stale permit, or
\* neither changes who is a client nor who waits.
LEMMA ContractStep ==
  ASSUME IInv, IInv', [Next]_vars
  PROVE  [Contract!Next \/ \E t \in Threads : StalePermit(t)]_(Contract!contractVars)
<1> USE MaxClientsAssumption, DistinctAssumption
    DEF registryVars, objectVars, threadVars, termVars, signalVars, historyVars, Unlock, At
<1>0. /\ TypeOK /\ ArrayInv /\ ArrayInv' /\ ShapeOK /\ ShapeOK' /\ RegistryIsExact
      /\ RegistryIsExact' /\ CriticalSections /\ CriticalSections' /\ HoleIsKnown /\ HistoryInv
  BY DEF IInv, ArrayInv, MainInv
<1> DEFINE Goal == [Contract!Next \/ \E t \in Threads : StalePermit(t)]_(Contract!contractVars)
<1>1. ASSUME \A c \in Clients : StatusOf(c)' = StatusOf(c), Waiter' = Waiter
      PROVE  Goal
  BY <1>0, <1>1, ContractStutters DEF Contract!contractVars
<1>2. ASSUME UNCHANGED <<term, awaited>>, \A c \in Clients : StatusOf(c)' = StatusOf(c)
      PROVE  Goal
  BY <1>1, <1>2 DEF Waiter, Waiting
<1>3. CASE UNCHANGED vars
  BY <1>2, <1>3 DEF vars, StatusOf, Registered
<1>4. ASSUME NEW kind, Fault(kind) PROVE Goal
  BY <1>2, <1>4 DEF Fault, StatusOf, Registered
<1>5. ASSUME NEW c \in Clients,
             \/ RegisterCheck(c) \/ LookupRead(c) \/ LookupRef(c) \/ ReleaseTarget(c)
             \/ Cleanup(c) \/ UnregisterUnref(c) \/ Environment(c)
      PROVE  Goal
  <2>1. /\ UNCHANGED <<term, awaited>>
        /\ \A d \in Clients \ {c} : pc'[d] = pc[d]
    BY <1>0, <1>5 DEF RegisterCheck, LookupRead, LookupRef, ReleaseTarget, Cleanup,
      UnregisterUnref, Environment, Request, Accept, PeerCloses, Login, LookupSearch, ShapeOK
  <2>2. \/ pc[c] \in InRegistry /\ pc'[c] \in InRegistry
        \/ {pc[c], pc'[c]} \subseteq {"unlinking", "dropping", "done"}
        \/ {pc[c], pc'[c]} \subseteq {"absent", "accepted", "creating", "refused"}
        \/ pc'[c] = pc[c]
    BY <1>0, <1>5 DEF RegisterCheck, LookupRead, LookupRef, ReleaseTarget, Cleanup, InRegistry,
      UnregisterUnref, Environment, Request, Accept, PeerCloses, Login, LookupSearch, ShapeOK
  <2>3. \A d \in Clients : StatusOf(d)' = StatusOf(d)
    BY <2>1, <2>2 DEF StatusOf, Registered, InRegistry
  <2> QED
    BY <1>2, <2>1, <2>3
<1>6. ASSUME NEW c \in Clients, RegisterAppend(c) PROVE Goal
  <2>1. /\ pc[c] = "creating" /\ pc' = [pc EXCEPT ![c] = "serving"] /\ lock = NULL
        /\ numClients < MAX_CLIENTS
    BY <1>0, <1>6 DEF RegisterAppend, CanLock, Slots, ShapeOK
  <2>2. Membership[c] = "out" /\ Membership' = [Membership EXCEPT ![c] = "in"]
    <3>1. StatusOf(c) = "out" /\ StatusOf(c)' = "in"
      BY <1>0, <2>1 DEF StatusOf, Registered, InRegistry, ShapeOK
    <3>2. \A d \in Clients \ {c} : StatusOf(d)' = StatusOf(d)
      BY <1>0, <2>1 DEF StatusOf, Registered, ShapeOK
    <3> QED
      BY <1>0, <3>1, <3>2, MembershipByPosition
  <2>3. Waiter' = Waiter
    BY <1>6, StruckThread
  <2>4. Cardinality(Contract!Members) < MAX_CLIENTS
    <3>1. Cardinality(Contract!Members) \in Nat
      <4>1. Contract!Members \subseteq Clients
        BY DEF Contract!Members
      <4> QED
        BY <4>1, ClientsAssumption, FS_Subset, FS_CardinalityType
    <3> QED
      BY <1>0, <2>1, <3>1, MembersFitTheArray DEF ShapeOK
  <2>5. Contract!Join(c)
    <3>1. Contract!Cardinality(Contract!Members) = Cardinality(Contract!Members)
      BY DEF Contract!Cardinality, Cardinality
    <3> QED
      BY <2>2, <2>3, <2>4, <3>1 DEF Contract!Join
  <2> QED
    BY <2>5 DEF Contract!Next
<1>7. ASSUME NEW c \in Clients, UnregisterFind(c) PROVE Goal
  <2> DEFINE i == IndexOf(c)
  <2>1. i \in Occupied /\ clients[i] = c
    BY <1>0, <1>7, IndexFound DEF UnregisterFind, Registered, InRegistry
  <2>2. /\ pc[c] = "closing" /\ pc' = [pc EXCEPT ![c] = "unlinking"] /\ lock = NULL
        /\ clients' = [clients EXCEPT ![i] = NULL] /\ UNCHANGED <<numClients, term>>
        /\ IF numClients = 1 THEN awaited' = [t \in Threads |-> awaited[t] \/ Waiting(t)]
                             ELSE awaited' = awaited
    BY <1>7, <2>1 DEF UnregisterFind, CanLock
  <2> HIDE DEF i
  <2>3. Membership[c] = "in" /\ Membership' = [Membership EXCEPT ![c] = "left"]
    <3>1. StatusOf(c) = "in" /\ StatusOf(c)' = "left"
      BY <1>0, <2>2 DEF StatusOf, Registered, InRegistry, ShapeOK
    <3>2. \A d \in Clients \ {c} : StatusOf(d)' = StatusOf(d)
      BY <1>0, <2>2 DEF StatusOf, Registered, ShapeOK
    <3> QED
      BY <1>0, <3>1, <3>2, MembershipByPosition
  <2>4. numClients = 1 <=> Contract!Members = {c}
    <3>1. \A j \in Occupied : clients[j] \in Clients /\ Registered(clients[j])
      BY <1>0, <2>2 DEF RegistryIsExact
    <3>2. \A d \in Clients : Registered(d) => \E j \in Occupied : clients[j] = d
      BY <1>0 DEF RegistryIsExact
    <3>3. \A j \in Occupied : clients[j] = c => j = i
      BY <1>0, <2>1 DEF RegistryIsExact
    <3>4. Contract!Members = {d \in Clients : Registered(d)}
      BY <1>0, MembersFitTheArray
    <3>5. numClients = 1 => Contract!Members = {c}
      BY <1>0, <2>1, <2>2, <3>1, <3>2, <3>4 DEF Occupied, ShapeOK, Slots
    <3>6. ASSUME Contract!Members = {c} PROVE numClients = 1
      <4>1. \A j \in Occupied : j = i
        BY <3>1, <3>3, <3>4, <3>6
      <4> QED
        BY <1>0, <2>1, <4>1 DEF Occupied, ShapeOK
    <3> QED
      BY <3>5, <3>6
  <2>5. Waiter' = [t \in Threads |-> IF Contract!Members = {c} /\ Waiter[t] = "waiting"
                                     THEN "released" ELSE Waiter[t]]
    BY <1>0, <2>2, <2>4 DEF Waiter, Waiting
  <2> QED
    BY <2>3, <2>5 DEF Contract!Next, Contract!Leave
<1>8. ASSUME NEW c \in Clients, UnregisterShift(c) PROVE Goal
  <2>1. pc[c] = "unlinking" /\ pc' = [pc EXCEPT ![c] = "dropping"]
    BY <1>8 DEF UnregisterShift
  <2>2. \A d \in Clients : StatusOf(d)' = StatusOf(d)
    BY <1>0, <2>1 DEF StatusOf, Registered, InRegistry, ShapeOK
  <2> QED
    BY <1>1, <1>8, <2>2, StruckThread
<1>9. ASSUME NEW t \in Threads, Signal(t) \/ (SpawnFails /\ t = Main) PROVE Goal
  <2>1. /\ UNCHANGED <<pc, awaited>> /\ term'[t] = "terminate"
        /\ \A u \in Threads \ {t} : term'[u] = term[u]
    BY <1>0, <1>9, SignalFrame DEF ShapeOK
  <2>2. Membership' = Membership
    BY <1>0, <2>1, ContractStutters DEF StatusOf, Registered
  <2>3. Waiter' = [Waiter EXCEPT ![t] = "idle"]
    BY <2>1 DEF Waiter, Waiting
  <2>4. CASE Waiter[t] = "idle"
    BY <2>2, <2>3, <2>4 DEF Waiter, Contract!contractVars
  <2>5. CASE Waiter[t] # "idle"
    BY <2>2, <2>3, <2>5 DEF Contract!Next, Contract!Abandon
  <2> QED
    BY <2>4, <2>5
<1>10. ASSUME NEW t \in Threads, Terminate(t) PROVE Goal
  <2> USE DEF Goes
  <2>1. Membership' = Membership /\ \A u \in Threads \ {t} : term'[u] = term[u]
    <3>1. pc' = pc
      BY <1>0, <1>10, TerminateFrame DEF ShapeOK
    <3> QED
      BY <1>0, <1>10, <3>1, ContractStutters, TerminateFrame DEF StatusOf, Registered, ShapeOK
  <2>2. CASE \/ ShutdownAllLock(t) \/ ShutdownAllStep(t) \/ FiniCheck(t) \/ FiniDestroy(t)
             \/ Exit(t) \/ WaitSem(t) \/ (WaitTest(t) /\ numClients # 0)
    <3>1. awaited' = awaited
      BY <2>2 DEF ShutdownAllLock, ShutdownAllStep, FiniDestroy, Exit, FiniCheck, Fault, WaitSem,
        WaitTest
    <3>2. \/ term'[t] = term[t]
          \/ {term[t], term'[t]} \subseteq {"none", "terminate", "sweeping"}
          \/ {term[t], term'[t]} \subseteq {"waiting", "semWait", "semPost"}
          \/ {term[t], term'[t]} \subseteq {"fini", "destroy", "exit"}
      BY <1>0, <2>2 DEF ShutdownAllLock, ShutdownAllStep, FiniDestroy, Exit, FiniCheck, Fault,
        WaitSem, WaitTest, ShapeOK
    <3>3. Waiter' = Waiter
      BY <2>1, <3>1, <3>2 DEF Waiter, Waiting
    <3> QED
      BY <2>1, <3>3 DEF Contract!contractVars
  <2>3. CASE ShutdownAllUnlock(t)
    <3>1. /\ term[t] = "sweeping" /\ term'[t] = "waiting"
          /\ awaited' = [awaited EXCEPT ![t] = (numClients = 0)]
      BY <1>0, <2>3 DEF ShutdownAllUnlock, ShapeOK
    <3>2. numClients = 0 <=> Contract!Members = {}
      <4>1. \A i \in Occupied : clients[i] \in Clients /\ Registered(clients[i])
        BY <1>0, <3>1, SweepersSeeClients DEF RegistryIsExact
      <4>2. Contract!Members = {d \in Clients : Registered(d)}
        BY <1>0, MembersFitTheArray
      <4>3. numClients # 0 => 0 \in Occupied
        BY <1>0 DEF ShapeOK, Occupied
      <4>4. numClients = 0 => \A d \in Clients : ~Registered(d)
        BY <1>0 DEF RegistryIsExact, Occupied
      <4> QED
        BY <4>1, <4>2, <4>3, <4>4
    <3>3. awaited'[t] = (numClients = 0) /\ \A u \in Threads \ {t} : awaited'[u] = awaited[u]
      BY <1>0, <3>1 DEF TypeOK
    <3>4. Waiter[t] = "idle"
      BY <3>1 DEF Waiter, Waiting
    <3>5. Waiter' = [Waiter EXCEPT ![t] = IF Contract!Members = {} THEN "released" ELSE "waiting"]
      BY <2>1, <3>1, <3>2, <3>3 DEF Waiter, Waiting
    <3> QED
      BY <2>1, <3>4, <3>5 DEF Contract!Next, Contract!Wait
  <2>4. CASE (WaitTest(t) /\ numClients = 0) \/ WaitPost(t)
    <3>1. /\ term[t] \in {"waiting", "semPost"} /\ term'[t] = "fini" /\ awaited' = awaited
      BY <1>0, <2>4 DEF WaitTest, WaitPost, ShapeOK
    <3>2. Waiter' = [Waiter EXCEPT ![t] = "returned"]
      BY <2>1, <3>1 DEF Waiter, Waiting
    <3>3. CASE awaited[t]
      <4>1. Waiter[t] = "released"
        BY <3>1, <3>3 DEF Waiter, Waiting
      <4> QED
        BY <2>1, <3>2, <4>1 DEF Contract!Next, Contract!Return
    <3>4. CASE ~awaited[t]
      <4>1. Waiter[t] = "waiting"
        BY <3>1, <3>4 DEF Waiter, Waiting
      <4>2. drained
        BY <1>0, <2>4, <3>1, <3>4 DEF HistoryInv, Waiting, Vacant, WaitTest, WaitPost
      <4> QED
        BY <2>1, <3>2, <4>1, <4>2 DEF StalePermit
    <3> QED
      BY <3>3, <3>4
  <2> QED
    BY <1>10, <2>2, <2>3, <2>4 DEF Terminate
<1> QED
  BY <1>3, <1>4, <1>5, <1>6, <1>7, <1>8, <1>9, <1>10
  DEF Next, Ended, Work, Threads, ServiceThread, UseOfFreedRegistry, RegisterOverrun,
      ServeRefused, LookupReadFault, LookupRefFault

\* The array, its lock and the semaphore implement what client_registry.h:50-120 promises
\* of a set of clients and of waits that return only when it has become empty, but for
\* waits that take a stale permit; for any capacity, any number of waiters.
THEOREM RegistryImplementsContract == Spec => ImplementsContract
<1>1. Init => Contract!Init
  <2> SUFFICES ASSUME Init PROVE Contract!Init
    OBVIOUS
  <2>1. Membership = [c \in Clients |-> "out"]
    BY DEF Init, Membership, Occupied
  <2>2. Waiter = [t \in Threads |-> "idle"]
    BY DEF Init, Waiter, Waiting
  <2> QED
    BY <2>1, <2>2 DEF Contract!Init
<1>2. IInv /\ IInv' /\ [Next]_vars
        => [Contract!Next \/ \E t \in Threads : StalePermit(t)]_(Contract!contractVars)
  BY ContractStep
<1> QED
  BY <1>1, <1>2, Inductive, PTL DEF Spec, ImplementsContract
===============================================================================
