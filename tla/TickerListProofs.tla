--------------------------- MODULE TickerListProofs ---------------------------
(***************************************************************************)
(* Proofs about the ticker's list of watchers: that it is sound whenever   *)
(* nobody is at work on it, that every child is on the books, and that     *)
(* quit and SIGINT tell all of them, for any WATCHERs, children, commands  *)
(* and number of lines typed.                                              *)
(*                                                                         *)
(* The list is read through what its writers have begun.  A WATCHER that   *)
(* is being put in is not in it before the last write of newWatcher(), and *)
(* one that cleanWatcher() takes out has left it with the first; what next *)
(* and prev are to be while a writer stands between two writes are Succ    *)
(* and Pred.  In these terms every write but two leaves the list as it is, *)
(* and those two insert and remove one element of a list in order.         *)
(***************************************************************************)
EXTENDS TickerProofs, FiniteSetTheorems, WellFoundedInduction

(***************************************************************************)
(* Lists in order.                                                         *)
(***************************************************************************)

\* The list head comes first, then the cells by their ids.
Less(m, a, b) == b # ListHead /\ (a = ListHead \/ m[a].wid < m[b].wid)

\* nx leads through the elements of S in their order, and pv back.
InOrder(S, nx, pv, m) ==
  /\ ListHead \in S
  /\ \A a \in S : \/ nx[a] = NULL
                  \/ nx[a] \in S /\ Less(m, a, nx[a]) /\ pv[nx[a]] = a
  /\ \A b \in S \ {ListHead} : pv[b] \in S /\ nx[pv[b]] = b
  /\ \A a, b \in S : Less(m, a, b) => nx[a] # NULL /\ ~Less(m, b, nx[a])

\* No two have the same place.
Apart(S, T, m) == \A a \in S, b \in T : a # b => Less(m, a, b) \/ Less(m, b, a)

\* Ids are numbers.
Numbered(S, m) == S \subseteq Cells /\ \A a \in S : m[a].wid \in Nat

\* The order is one.
LEMMA LessIsOrder ==
  ASSUME NEW S, NEW m, Numbered(S, m), NEW a \in S, NEW b \in S, NEW c \in S
  PROVE  /\ ~Less(m, a, a)
         /\ Less(m, a, b) => ~Less(m, b, a)
         /\ Less(m, a, b) /\ Less(m, b, c) => Less(m, a, c)
<1>1. m[a].wid \in Nat /\ m[b].wid \in Nat /\ m[c].wid \in Nat
  BY DEF Numbered
<1> QED
  BY <1>1 DEF Less

\* A list that is the same at all its elements is in the same order.
LEMMA SameOrder ==
  ASSUME NEW S, NEW nx, NEW pv, NEW m, NEW nx2, NEW pv2, NEW m2, InOrder(S, nx, pv, m),
         \A a \in S : nx2[a] = nx[a] /\ m2[a].wid = m[a].wid,
         \A b \in S \ {ListHead} : pv2[b] = pv[b]
  PROVE  InOrder(S, nx2, pv2, m2)
<1>1. \A a, b \in S : Less(m2, a, b) <=> Less(m, a, b)
  BY DEF Less
<1>2. \A a \in S : \/ nx[a] = NULL
                   \/ nx[a] \in S \ {ListHead} /\ Less(m, a, nx[a]) /\ pv[nx[a]] = a
  BY DEF InOrder, Less
<1>3. ListHead \in S /\ \A b \in S \ {ListHead} : pv[b] \in S /\ nx[pv[b]] = b
  BY DEF InOrder
<1>4. \A a, b \in S : Less(m, a, b) => nx[a] # NULL /\ ~Less(m, b, nx[a])
  BY DEF InOrder
<1>5. \A a, b \in S : Less(m2, a, b) => nx2[a] # NULL /\ ~Less(m2, b, nx2[a])
  BY <1>1, <1>2, <1>4
<1>6. \A a \in S : \/ nx2[a] = NULL
                   \/ nx2[a] \in S /\ Less(m2, a, nx2[a]) /\ pv2[nx2[a]] = a
  BY <1>1, <1>2
<1> QED
  BY <1>3, <1>5, <1>6 DEF InOrder

\* One element is taken out.
LEMMA RemoveFromOrder ==
  ASSUME NEW S, NEW nx, NEW pv, NEW m, NEW nx2, NEW pv2, NEW m2,
         InOrder(S, nx, pv, m), Apart(S, S, m), Numbered(S, m),
         NEW w \in S, w # ListHead,
         \A a \in S \ {w} : /\ nx2[a] = IF a = pv[w] THEN nx[w] ELSE nx[a]
                            /\ m2[a].wid = m[a].wid,
         \A b \in S \ {w, ListHead} : pv2[b] = IF b = nx[w] THEN pv[w] ELSE pv[b]
  PROVE  InOrder(S \ {w}, nx2, pv2, m2)
<1>1. /\ ListHead \in S \ {w} /\ NULL \notin S
      /\ \A a \in S : \/ nx[a] = NULL
                      \/ nx[a] \in S \ {ListHead} /\ Less(m, a, nx[a]) /\ pv[nx[a]] = a
      /\ \A b \in S \ {ListHead} : pv[b] \in S /\ nx[pv[b]] = b
      /\ \A a, b \in S : Less(m, a, b) => nx[a] # NULL /\ ~Less(m, b, nx[a])
  BY DistinctAssumption DEF InOrder, Less, Numbered, Cells
<1>2. PICK p \in S : p = pv[w] /\ nx[p] = w
  BY <1>1
<1>3. Less(m, p, w) /\ p \in S \ {w}
  <2>1. Less(m, p, w) /\ ~Less(m, w, w)
    BY <1>1, <1>2, LessIsOrder, DistinctAssumption
  <2> QED
    BY <1>2, <2>1
<1>4. \A a, b \in S \ {w} : Less(m2, a, b) <=> Less(m, a, b)
  BY DEF Less
<1>5. ASSUME NEW a \in S \ {w}
      PROVE  \/ nx2[a] = NULL
             \/ nx2[a] \in S \ {w} /\ Less(m2, a, nx2[a]) /\ pv2[nx2[a]] = a
  <2>1. CASE a = p
    <3>1. nx2[a] = nx[w]
      BY <1>2, <2>1
    <3>2. ASSUME nx[w] # NULL
          PROVE  nx[w] \in S \ {w, ListHead} /\ Less(m, p, nx[w])
      <4>1. nx[w] \in S \ {ListHead} /\ Less(m, w, nx[w])
        BY <1>1, <3>2
      <4> QED
        BY <1>3, <4>1, LessIsOrder
    <3> QED
      BY <1>2, <1>4, <2>1, <3>1, <3>2
  <2>2. CASE a # p
    <3>1. nx2[a] = nx[a]
      BY <1>2, <2>2
    <3>2. ASSUME nx[a] # NULL
          PROVE  nx[a] \in S \ {w, ListHead} /\ nx[a] # nx[w]
      BY <1>1, <1>2, <2>2, <3>2
    <3> QED
      BY <1>1, <1>4, <3>1, <3>2
  <2> QED
    BY <2>1, <2>2
<1>6. ASSUME NEW b \in S \ {w, ListHead}
      PROVE  pv2[b] \in S \ {w} /\ nx2[pv2[b]] = b
  <2>1. CASE b = nx[w]
    BY <1>2, <1>3, <2>1
  <2>2. CASE b # nx[w]
    <3>1. pv2[b] = pv[b] /\ pv[b] \in S \ {w} /\ pv[b] # p /\ nx[pv[b]] = b
      BY <1>1, <1>2, <2>2
    <3> QED
      BY <1>2, <3>1
  <2> QED
    BY <2>1, <2>2
<1>7. ASSUME NEW a \in S \ {w}, NEW b \in S \ {w}, Less(m2, a, b)
      PROVE  nx2[a] # NULL /\ ~Less(m2, b, nx2[a])
  <2>1. Less(m, a, b)
    BY <1>4, <1>7
  <2>2. CASE a = p
    <3>1. Less(m, w, b)
      BY <1>1, <1>2, <2>1, <2>2 DEF Apart
    <3>2. nx[w] # NULL /\ ~Less(m, b, nx[w]) /\ nx2[a] = nx[w]
      BY <1>1, <1>2, <2>2, <3>1
    <3> QED
      BY <1>4, <1>5, <3>2
  <2>3. CASE a # p
    <3>1. nx[a] # NULL /\ ~Less(m, b, nx[a]) /\ nx2[a] = nx[a]
      BY <1>1, <1>2, <2>1, <2>3
    <3> QED
      BY <1>4, <1>5, <3>1
  <2> QED
    BY <2>2, <2>3
<1> QED
  BY <1>1, <1>5, <1>6, <1>7 DEF InOrder

\* One element is put in, behind p.
LEMMA InsertIntoOrder ==
  ASSUME NEW S, NEW nx, NEW pv, NEW m, NEW nx2, NEW pv2, NEW m2,
         InOrder(S, nx, pv, m), Apart(S, S, m), Numbered(S, m),
         NEW p \in S, NEW n \in Cells \ S, m2[n].wid \in Nat,
         nx2[n] = nx[p], pv2[n] = p,
         \A a \in S : /\ nx2[a] = IF a = p THEN n ELSE nx[a]
                      /\ m2[a].wid = m[a].wid,
         \A b \in S \ {ListHead} : pv2[b] = IF b = nx[p] THEN n ELSE pv[b],
         Less(m2, p, n), \A b \in S : Less(m, p, b) => Less(m2, n, b)
  PROVE  InOrder(S \cup {n}, nx2, pv2, m2)
<1> DEFINE T == S \cup {n}
<1>1. /\ ListHead \in S /\ NULL \notin T
      /\ \A a \in S : \/ nx[a] = NULL
                      \/ nx[a] \in S \ {ListHead} /\ Less(m, a, nx[a]) /\ pv[nx[a]] = a
      /\ \A b \in S \ {ListHead} : pv[b] \in S /\ nx[pv[b]] = b
      /\ \A a, b \in S : Less(m, a, b) => nx[a] # NULL /\ ~Less(m, b, nx[a])
  BY DistinctAssumption DEF InOrder, Less, Numbered, Cells
<1>2. Numbered(T, m2)
  BY DEF Numbered
<1>3. \A a, b \in S : Less(m2, a, b) <=> Less(m, a, b)
  BY DEF Less
<1>4. n \in T /\ p \in T /\ n # p /\ n # ListHead /\ S \subseteq T
  BY <1>1
<1> HIDE DEF T
<1>5. ASSUME NEW a \in T
      PROVE  \/ nx2[a] = NULL
             \/ nx2[a] \in T /\ Less(m2, a, nx2[a]) /\ pv2[nx2[a]] = a
  <2>1. CASE a = p
    BY <1>4, <2>1
  <2>2. CASE a = n
    <3>1. ASSUME nx[p] # NULL
          PROVE  nx[p] \in S \ {ListHead} /\ Less(m2, n, nx[p]) /\ pv2[nx[p]] = n
      BY <1>1, <3>1
    <3> QED
      BY <1>4, <2>2, <3>1
  <2>3. CASE a \in S \ {p}
    <3>1. nx2[a] = nx[a]
      BY <2>3
    <3>2. ASSUME nx[a] # NULL
          PROVE  nx[a] \in S \ {ListHead} /\ nx[a] # nx[p] /\ Less(m2, a, nx[a])
      BY <1>1, <1>3, <2>3, <3>2
    <3> QED
      BY <1>1, <1>4, <2>3, <3>1, <3>2
  <2> QED
    BY <2>1, <2>2, <2>3 DEF T
<1>6. ASSUME NEW b \in T \ {ListHead}
      PROVE  pv2[b] \in T /\ nx2[pv2[b]] = b
  <2>1. CASE b = n
    BY <1>4, <2>1
  <2>2. CASE b \in S /\ b = nx[p]
    BY <1>4, <2>2
  <2>3. CASE b \in S /\ b # nx[p]
    <3>1. pv2[b] = pv[b] /\ pv[b] \in S \ {p} /\ nx[pv[b]] = b
      BY <1>1, <2>3
    <3> QED
      BY <1>4, <3>1
  <2> QED
    BY <2>1, <2>2, <2>3 DEF T
<1>7. ASSUME NEW a \in T, NEW b \in T, Less(m2, a, b)
      PROVE  nx2[a] # NULL /\ ~Less(m2, b, nx2[a])
  <2>1. CASE a = p
    <3>1. nx2[a] = n /\ n # NULL
      BY <1>1, <1>4, <2>1
    <3>2. b = n \/ Less(m2, n, b)
      BY <1>3, <1>7, <2>1 DEF T
    <3> QED
      BY <1>2, <1>4, <3>1, <3>2, LessIsOrder
  <2>2. CASE a = n
    <3>1. b \in S /\ Less(m, p, b)
      <4>1. b # n
        BY <1>2, <1>7, <2>2, LessIsOrder
      <4>2. Less(m2, p, b)
        BY <1>2, <1>4, <1>7, <2>2, LessIsOrder
      <4> QED
        BY <1>3, <4>1, <4>2 DEF T
    <3>2. nx[p] # NULL /\ ~Less(m, b, nx[p]) /\ nx[p] \in S /\ nx2[a] = nx[p]
      BY <1>1, <2>2, <3>1
    <3> QED
      BY <1>3, <3>1, <3>2
  <2>3. CASE a \in S \ {p} /\ b \in S
    <3>1. nx[a] # NULL /\ ~Less(m, b, nx[a]) /\ nx[a] \in S /\ nx2[a] = nx[a]
      BY <1>1, <1>3, <1>7, <2>3
    <3> QED
      BY <1>3, <2>3, <3>1
  <2>4. CASE a \in S \ {p} /\ b = n
    <3>1. ~Less(m, p, a)
      BY <1>2, <1>4, <1>7, <2>4, LessIsOrder
    <3>2. Less(m, a, p)
      BY <2>4, <3>1 DEF Apart
    <3>3. nx[a] # NULL /\ ~Less(m, p, nx[a]) /\ nx[a] \in S /\ nx2[a] = nx[a]
      BY <1>1, <2>4, <3>2
    <3>4. ~Less(m2, n, nx[a])
      <4>1. ~Less(m2, p, nx[a])
        BY <1>3, <3>3
      <4> QED
        BY <1>2, <1>4, <3>3, <4>1, LessIsOrder
    <3> QED
      BY <2>4, <3>3, <3>4
  <2> QED
    BY <2>1, <2>2, <2>3, <2>4 DEF T
<1> QED
  BY <1>1, <1>4, <1>5, <1>6, <1>7 DEF InOrder, T

(***************************************************************************)
(* The list of watchers, while it is at rest and while it is written.      *)
(***************************************************************************)

\* newWatcher() before it has linked the WATCHER, cleanWatcher() after its first
\* write, and removeAllWatchers() on its way to exit().
Making == {"scan", "insert", "backlink", "link"}
Loose == {"unlinkNext", "free"}
Ending == {"interrupt", "remove"}

\* The frame keeps the cell out of the list; the cells that no frame of s keeps out.
Hides(f, a) == \/ f.at \in Making /\ f.new = a
               \/ f.at \in Loose /\ f.wp = a
On(l, s) == {a \in l : \A i \in 1..Len(s) : ~Hides(s[i], a)}

\* The frames between the last two writes of an insertion, and those of a removal.
Linkers(s) == {i \in 1..Len(s) : s[i].at = "link"}
Cutters(s) == {i \in 1..Len(s) : s[i].at = "unlinkNext"}
TheOne(S) == CHOOSE i \in S : TRUE

\* What next is but for the WATCHER that is about to be linked, what prev is when the
\* removal is done, and when the insertion is not.
Succ(m, s) == [a \in Cells |->
  IF \E i \in Linkers(s) : s[i].prev = a
  THEN m[s[TheOne(Linkers(s))].new].next ELSE m[a].next]
Back(m, s) == [b \in Cells |->
  IF \E i \in Cutters(s) : m[s[i].wp].next = b
  THEN m[s[TheOne(Cutters(s))].wp].prev ELSE m[b].prev]
Pred(m, s) == [b \in Cells |->
  IF \E i \in Linkers(s) : s[i].new = Back(m, s)[b]
  THEN s[TheOne(Linkers(s))].prev ELSE Back(m, s)[b]]

\* The cells that next still leads to: a linker's prev leads past the new WATCHER to the
\* one that was removed meanwhile.
Trail(l, s) == On(l, s) \cup
  {w \in l : \E i, j \in 1..Len(s) : /\ i < j /\ s[i].at = "link"
                                     /\ s[j].at \in Loose /\ s[j].wp = w}

\* Since the frame i was interrupted x has been removed, b has been allocated, or the
\* end has begun.
Gone(l, s, x, i) == x \notin l \/ \E j \in 1..Len(s) : i < j /\ s[j].at \in Loose /\ s[j].wp = x
BeingMade(s, b, i) == \E j \in 1..Len(s) : i < j /\ s[j].at \in Making /\ s[j].new = b
Buried(s, i) == \E j \in 1..Len(s) : i < j /\ s[j].at \in Ending

(***************************************************************************)
(* The inductive invariant of the list.                                    *)
(***************************************************************************)

\* The list head stays, and the CLI WATCHER is the first until it is removed.
EndsOK ==
  /\ ListHead \in live /\ mem[ListHead].pid = Unset /\ mem[Cli].pid = Unset
  /\ \A a \in Cells : mem[a].next = Cli => a = ListHead
  /\ Cli \in live => mem[ListHead].next = Cli /\ mem[Cli].prev = ListHead /\ mem[Cli].wid = 0
  /\ \A w \in On(live, stack) \cap Watchers : mem[w].wid > 0

\* next goes on to the nearest cell, unless that has been freed.
ApartOK == Apart(Trail(live, stack), On(live, stack), mem)
ChainAt(a) ==
  LET b == mem[a].next IN
  /\ b \in live => /\ b \in Trail(live, stack) /\ Less(mem, a, b)
                   /\ \A w \in On(live, stack) : Less(mem, a, w) => ~Less(mem, w, b)
  /\ b = NULL => \A w \in On(live, stack) : ~Less(mem, a, w)
ChainOK == \A a \in Trail(live, stack) : ChainAt(a)

\* The list is in order, or nobody will write it again: the end came over a removal, or
\* the SIGCHLD handler is about to read through a pointer to freed memory.
EndedOver == Cli \notin live /\ \E i \in 1..Len(stack) : stack[i].at \in Dropping /\ Buried(stack, i)
Astray == \E i, j \in 1..Len(stack) : /\ i < j /\ stack[i].at = "link"
                                      /\ stack[j].at = "unlinkNext"
                                      /\ mem[stack[j].wp].next \in Cells \ live
Sorted == InOrder(On(live, stack), Succ(mem, stack), Pred(mem, stack), mem)
LinkAt(i) ==
  LET f == stack[i] IN f.prev \in On(live, stack) =>
    /\ mem[f.new].prev = f.prev
    /\ mem[f.prev].next \in (Cells \ On(live, stack)) \cup {mem[f.new].next}
    /\ mem[f.new].next # NULL => Back(mem, stack)[mem[f.new].next] = f.new
LinkOK == \A i \in Linkers(stack) : LinkAt(i)
OrderOK == EndedOver \/ Astray \/ (Sorted /\ LinkOK)

\* newWatcher() and fork(): nothing is started once the end has begun, and what is being
\* made is not removed.
MakerOK(i) ==
  LET f == stack[i] IN
  /\ f.at \in {"start"} \cup Creating /\ Cli \notin live => Buried(stack, i)
  /\ f.at = "start" => f.cur = Cli
  /\ f.at \in Creating => mem[f.new].pid = Unset
  /\ f.at \in {"fork", "setpid"} => f.new \in On(live, stack) \/ Gone(live, stack, f.new, i)
  /\ f.at \in Making =>
       /\ f.new \in live /\ \A j \in 1..Len(stack) : stack[j].at \in Loose => stack[j].wp # f.new
       /\ f.prev \in On(live, stack) \/ Gone(live, stack, f.prev, i)
  /\ f.at \in Making \ {"scan"} => f.prev # ListHead

\* The place for the new WATCHER: behind a, and wid is not in use.
Gap(a, wid) == mem[a].wid < wid /\ \A b \in On(live, stack) : Less(mem, a, b) => wid < mem[b].wid
PlaceOK(i) ==
  LET f == stack[i] IN
  /\ f.at = "scan" =>
       /\ f.prev = ListHead => f.wid = 0 /\ f.cur = Cli
       /\ f.cur = NULL \/ f.cur \in On(live, stack) \/ Gone(live, stack, f.cur, i)
       /\ f.prev \in On(live, stack) \ {ListHead} =>
            /\ mem[f.prev].wid + 1 = f.wid
            /\ (f.cur = NULL \/ ~Gone(live, stack, f.cur, i)) => f.cur = mem[f.prev].next
  /\ f.at \in Making \ {"scan"} /\ f.prev \in On(live, stack) => Gap(f.prev, f.wid)
  /\ f.at = "backlink" /\ f.prev \in On(live, stack) =>
        mem[f.new].prev = f.prev /\ mem[f.new].next = mem[f.prev].next

\* The SIGCHLD handler stands in the list, or before a WATCHER allocated meanwhile, and
\* drops what has no child any more.
ReaperOK(i) ==
  LET f == stack[i] IN
  /\ f.at \in Reaping => f.wp # Cli
  /\ f.at = "reaping" => (f.wp \in live => f.wp \in On(live, stack) \/ BeingMade(stack, f.wp, i))
  /\ f.at = "unlink" => f.wp \in On(live, stack)
  /\ f.at \in Dropping => mem[f.wp].pid = Unset \/ child[mem[f.wp].pid] = "reaped"
  /\ f.at = "unlinkNext" => mem[f.wp].next \in On(live, stack) \cup {NULL} \/ Astray
  /\ f.at \in Loose \cup {"freed"} => LET b == mem[f.wp].next IN
       b \in live => b \in On(live, stack) \/ BeingMade(stack, b, i) \/ BeingMade(stack, f.wp, i)

\* Every child is on the books; who has not been told to end is still to be passed.
Booked == \A c \in Children : child[c] \in {"running", "zombie"} =>
  BeingStarted(c) \/ \E w \in On(live, stack) : mem[w].pid = c
Untold(c) == child[c] = "running" /\ c \notin told /\ ~BeingStarted(c)
Ahead(c, i) ==
  LET wp == stack[i].wp IN
  \E w \in On(live, stack) :
    /\ mem[w].pid = c /\ wp \in Cells
    /\ Gone(live, stack, wp, i) \/ (wp \in Trail(live, stack) /\ ~Less(mem, w, wp))
WalkOK(i) ==
  status = "running" /\ stack[i].at = "remove" =>
    /\ Cli \in live => stack[i].wp = Cli
    /\ Cli \notin live => \A c \in Children : Untold(c) => Ahead(c, i)
ExitOK == status = "exited" => \A c \in Children : ~Untold(c)

\* What holds of the frame i.
FrameFits(i) == MakerOK(i) /\ (Cli \in live => PlaceOK(i)) /\ ReaperOK(i) /\ WalkOK(i)
FramesFit == \A i \in 1..Len(stack) : FrameFits(i)

\* One frame at a time obeys commands: the SIGIO handler never comes over one that does.
Commanding == {"read", "recv", "start", "find", "walk", "obey", "subscribe"} \cup Creating
Idle == Waiting \cup {"parse"}
ParsersOK ==
  /\ \A i \in 1..Len(stack) : /\ stack[i].at \in Commanding \cup {"parse"} =>
                                   stack[i].kind \in {"main", "IO"}
                              /\ stack[i].kind = "IO" => stack[1].at \in Idle
  /\ stack[1].at \notin Idle =>
       "IO" \in mask /\ \A i \in 1..Len(stack) : i > 1 => "IO" \in stack[i].saved

ListInv == EndsOK /\ ApartOK /\ ChainOK /\ OrderOK /\ FramesFit /\ Booked /\ ExitOK
WatchersInv == TickerInv /\ ParsersOK /\ (torn \/ ListInv)

(***************************************************************************)
(* Who is at work.                                                         *)
(***************************************************************************)

OneMaker == \A i, j \in 1..Len(stack) :
  stack[i].at \in Commanding /\ stack[j].at \in Commanding => i = j
OneReaper == \A i, j \in 1..Len(stack) :
  stack[i].at \in Reaping /\ stack[j].at \in Reaping => i = j

\* There is one frame that obeys commands, and one SIGCHLD handler.
LEMMA OneOfEach ==
  ASSUME TickerInv, ParsersOK
  PROVE  OneMaker /\ OneReaper
<1> DEFINE n == Len(stack)
<1>1. n \in Nat \ {0}
  BY TopOfStack DEF TickerInv
<1>2. /\ \A i \in 1..n : stack[i].kind = "main" <=> i = 1
      /\ \A i, j \in 1..n : i < j => stack[i].kind # stack[j].kind
      /\ \A i \in 1..n : stack[i].at \in Reaping => stack[i].kind = "CHLD"
  BY DEF TickerInv, HandlersNest, FramesOK, FrameOK
<1>3. /\ \A i \in 1..n : stack[i].at \in Commanding => stack[i].kind \in {"main", "IO"}
      /\ \A i \in 1..n : stack[i].kind = "IO" => stack[1].at \notin Commanding
  BY DEF ParsersOK, Commanding, Idle, Waiting, Creating
<1> HIDE DEF n
<1>4. ASSUME NEW i \in 1..n, NEW j \in 1..n, i < j,
             stack[i].at \in Commanding, stack[j].at \in Commanding
      PROVE  FALSE
  <2>1. stack[j].kind = "IO"
    BY <1>1, <1>2, <1>3, <1>4
  <2>2. stack[i].kind = "main" /\ i = 1
    BY <1>2, <1>3, <1>4, <2>1
  <2> QED
    BY <1>3, <1>4, <2>1, <2>2
<1>5. ASSUME NEW i \in 1..n, NEW j \in 1..n, i < j,
             stack[i].at \in Reaping, stack[j].at \in Reaping
      PROVE  FALSE
  BY <1>2, <1>5
<1>6. \A i, j \in 1..n : i < j \/ j < i \/ i = j
  BY <1>1
<1> QED
  BY <1>4, <1>5, <1>6 DEF OneMaker, OneReaper, n

\* Succ, Back and Pred are those of the only writers there are.
LEMMA SuccIs ==
  ASSUME NEW m, NEW s, \A i, j \in Linkers(s) : i = j
  PROVE  /\ \A i \in Linkers(s) : s[i].prev \in Cells => Succ(m, s)[s[i].prev] = m[s[i].new].next
         /\ \A a \in Cells :
              (\A i \in Linkers(s) : s[i].prev # a) => Succ(m, s)[a] = m[a].next
<1>1. \A i \in Linkers(s) : TheOne(Linkers(s)) = i
  BY DEF TheOne
<1> QED
  BY <1>1 DEF Succ

LEMMA BackIs ==
  ASSUME NEW m, NEW s, \A i, j \in Cutters(s) : i = j
  PROVE  \A b \in Cells :
           /\ \A i \in Cutters(s) : m[s[i].wp].next = b => Back(m, s)[b] = m[s[i].wp].prev
           /\ (\A i \in Cutters(s) : m[s[i].wp].next # b) => Back(m, s)[b] = m[b].prev
<1>1. \A i \in Cutters(s) : TheOne(Cutters(s)) = i
  BY DEF TheOne
<1> QED
  BY <1>1 DEF Back

LEMMA PredIs ==
  ASSUME NEW m, NEW s, \A i, j \in Linkers(s) : i = j
  PROVE  \A b \in Cells :
           /\ \A i \in Linkers(s) : s[i].new = Back(m, s)[b] => Pred(m, s)[b] = s[i].prev
           /\ (\A i \in Linkers(s) : s[i].new # Back(m, s)[b]) => Pred(m, s)[b] = Back(m, s)[b]
<1>1. \A i \in Linkers(s) : TheOne(Linkers(s)) = i
  BY DEF TheOne
<1> QED
  BY <1>1 DEF Pred

\* A step of the running frame leaves the others alone, whatever it becomes.
LEMMA TopBecomes ==
  ASSUME ShapeOK, NEW f, Becomes(f)
  PROVE  /\ Len(stack') = Len(stack) /\ stack'[Len(stack)] = f
         /\ \A i \in 1..Len(stack) - 1 : stack'[i] = stack[i]
<1>1. PICK S : S = FrameShape \cup {f}
  OBVIOUS
<1>2. /\ Len(stack) \in Nat \ {0} /\ Below \in Seq(FrameShape)
      /\ Len(Below) = Len(stack) - 1
      /\ \A i \in 1..Len(stack) - 1 : Below[i] = stack[i]
  BY TopOfStack
<1>3. Below \in Seq(S)
  BY <1>1, <1>2, SeqMonotonic
<1>4. f \in S /\ stack' = Append(Below, f)
  BY <1>1 DEF Becomes
<1> QED
  BY <1>2, <1>3, <1>4

\* The frames, the running one on top, and what they hold.
LEMMA Shapes ==
  ASSUME TickerInv
  PROVE  /\ Len(stack) \in Nat \ {0} /\ Top = stack[Len(stack)]
         /\ \A i \in 1..Len(stack) : stack[i] \in FrameShape /\ FrameOK(stack[i])
         /\ mem \in [Cells -> CellShape] /\ live \subseteq Cells
         /\ child \in [Children -> {"unborn", "running", "zombie", "reaped"}]
BY TopOfStack DEF TickerInv, ShapeOK, FramesOK

\* What frames hide are WATCHERs: the ends of the list are never hidden.
LEMMA EndsAreOn ==
  ASSUME TickerInv, ListInv
  PROVE  /\ ListHead \in On(live, stack)
         /\ Cli \in live => Cli \in On(live, stack)
         /\ Numbered(Trail(live, stack), mem) /\ On(live, stack) \subseteq Trail(live, stack)
         /\ Apart(On(live, stack), On(live, stack), mem)
<1>1. ASSUME NEW i \in 1..Len(stack), NEW a \in {Cli, ListHead} PROVE ~Hides(stack[i], a)
  <2>1. stack[i] \in FrameShape /\ FrameOK(stack[i]) /\ ReaperOK(i)
    BY Shapes DEF ListInv, FramesFit, FrameFits
  <2>2. stack[i].at \in Making => stack[i].new \in Watchers
    BY <2>1 DEF FrameOK, Making, Creating
  <2>3. stack[i].at \in Loose => stack[i].wp \in Successors \ {Cli}
    BY <2>1 DEF ReaperOK, Loose, Reaping, Dropping, FrameShape
  <2> QED
    BY <2>2, <2>3, DistinctAssumption DEF Hides, Successors
<1>2. ListHead \in live
  BY DEF ListInv, EndsOK
<1>3. \A a \in Cells : mem[a].wid \in Nat
  BY Shapes DEF CellShape
<1>4. Trail(live, stack) \subseteq Cells
  BY Shapes DEF Trail, On
<1>5. On(live, stack) \subseteq Trail(live, stack)
  BY DEF Trail
<1> QED
  BY <1>1, <1>2, <1>3, <1>4, <1>5 DEF On, Numbered, ListInv, ApartOK, Apart

\* While newWatcher() is at work on top it is alone, and the list is in order.
LEMMA MakerOnTop ==
  ASSUME WatchersInv, ~torn, Top.at \in {"start"} \cup Creating
  PROVE  /\ Cli \in live /\ Sorted /\ LinkOK
         /\ \A i \in 1..Len(stack) - 1 : stack[i].at \notin Commanding
         /\ Trail(live, stack) = On(live, stack)
<1> DEFINE n == Len(stack)
<1>1. n \in Nat \ {0} /\ Top = stack[n] /\ TickerInv /\ ListInv /\ OneMaker
  BY Shapes, OneOfEach DEF WatchersInv
<1>2. \A i \in 1..n - 1 : stack[i].at \notin Commanding
  BY <1>1 DEF OneMaker, Commanding, Creating
<1>3. ~Buried(stack, n)
  BY <1>1 DEF Buried
<1>4. MakerOK(n)
  BY <1>1 DEF ListInv, FramesFit, FrameFits
<1>5. Cli \in live
  BY <1>1, <1>3, <1>4 DEF MakerOK
<1>6. ASSUME NEW i \in 1..n, NEW j \in 1..n, i < j PROVE stack[i].at # "link"
  BY <1>1, <1>2, <1>6 DEF Commanding, Creating
<1>7. ~EndedOver /\ ~Astray
  BY <1>5, <1>6 DEF EndedOver, Astray
<1>8. Sorted /\ LinkOK
  BY <1>1, <1>7 DEF ListInv, OrderOK
<1>9. Trail(live, stack) = On(live, stack)
  BY <1>6 DEF Trail
<1> QED
  BY <1>2, <1>5, <1>8, <1>9

\* While the SIGCHLD handler is at work on top it is alone, and the list is in order.
LEMMA ReaperOnTop ==
  ASSUME WatchersInv, ~torn, Top.at \in Dropping \cup {"freed"}, Touches(Top) \subseteq live
  PROVE  /\ Sorted /\ LinkOK
         /\ \A i \in 1..Len(stack) - 1 : stack[i].at \notin Reaping
<1> DEFINE n == Len(stack)
<1>1. n \in Nat \ {0} /\ Top = stack[n] /\ TickerInv /\ ListInv /\ OneReaper
  BY Shapes, OneOfEach DEF WatchersInv
<1>2. \A i \in 1..n - 1 : stack[i].at \notin Reaping
  BY <1>1 DEF OneReaper, Reaping
<1>3. ~EndedOver
  <2>1. SUFFICES ASSUME NEW i \in 1..n, stack[i].at \in Dropping, Buried(stack, i) PROVE FALSE
    BY DEF EndedOver
  <2>2. i = n
    BY <1>1, <1>2, <2>1 DEF Reaping
  <2> QED
    BY <1>1, <2>1, <2>2 DEF Buried
<1>4. ~Astray
  <2>1. SUFFICES ASSUME NEW j \in 1..n, stack[j].at = "unlinkNext",
                        mem[stack[j].wp].next \in Cells \ live
                 PROVE  FALSE
    BY DEF Astray
  <2>2. j = n
    BY <1>1, <1>2, <2>1 DEF Reaping, Dropping
  <2>3. mem[stack[j].wp].next \in Touches(Top)
    BY <1>1, <2>1, <2>2 DEF Touches
  <2> QED
    BY <2>1, <2>3
<1> QED
  BY <1>1, <1>2, <1>3, <1>4 DEF ListInv, OrderOK

(***************************************************************************)
(* Steps that leave the list alone.                                        *)
(***************************************************************************)

Working == Making \cup Loose

\* The frames that write the list are the same in s and t.
SameWork(s, t) ==
  /\ \A i \in 1..Len(s) : s[i].at \in Working => i \in 1..Len(t) /\ t[i] = s[i]
  /\ \A i \in 1..Len(t) : t[i].at \in Working => i \in 1..Len(s) /\ t[i] = s[i]

\* Then so is the list.
LEMMA SameWorkSameList ==
  ASSUME NEW s, NEW t, SameWork(s, t), NEW m, NEW l
  PROVE  /\ On(l, t) = On(l, s) /\ Trail(l, t) = Trail(l, s)
         /\ Linkers(t) = Linkers(s) /\ \A i \in Linkers(s) : t[i] = s[i]
         /\ Succ(m, t) = Succ(m, s) /\ Back(m, t) = Back(m, s) /\ Pred(m, t) = Pred(m, s)
         /\ \A i \in Int : \A x :
              /\ Gone(l, t, x, i) <=> Gone(l, s, x, i)
              /\ BeingMade(t, x, i) <=> BeingMade(s, x, i)
<1>1. /\ \A i \in 1..Len(s) : s[i].at \in Making \cup Loose => i \in 1..Len(t) /\ t[i] = s[i]
      /\ \A i \in 1..Len(t) : t[i].at \in Making \cup Loose => i \in 1..Len(s) /\ t[i] = s[i]
  BY DEF SameWork, Working
<1>2. On(l, t) = On(l, s)
  BY <1>1 DEF On, Hides
<1>3. Linkers(t) = Linkers(s) /\ \A i \in Linkers(s) : t[i] = s[i]
  BY <1>1 DEF Linkers, Making
<1>4. Cutters(t) = Cutters(s) /\ \A i \in Cutters(s) : t[i] = s[i]
  BY <1>1 DEF Cutters, Loose
<1>5. Trail(l, t) = Trail(l, s)
  <2>1. ASSUME NEW w
        PROVE  (\E i, j \in 1..Len(t) : /\ i < j /\ t[i].at = "link"
                                        /\ t[j].at \in Loose /\ t[j].wp = w)
               <=> (\E i, j \in 1..Len(s) : /\ i < j /\ s[i].at = "link"
                                           /\ s[j].at \in Loose /\ s[j].wp = w)
    BY <1>1 DEF Making
  <2> QED
    BY <1>2, <2>1 DEF Trail
<1>6. TheOne(Linkers(t)) \in Linkers(s) \/ Linkers(s) = {}
  BY <1>3 DEF TheOne
<1>7. TheOne(Cutters(t)) \in Cutters(s) \/ Cutters(s) = {}
  BY <1>4 DEF TheOne
<1>8. Succ(m, t) = Succ(m, s)
  <2>1. ASSUME NEW a \in Cells PROVE Succ(m, t)[a] = Succ(m, s)[a]
    BY <1>3, <1>6 DEF Succ
  <2> QED
    BY <2>1 DEF Succ
<1>9. Back(m, t) = Back(m, s)
  <2>1. ASSUME NEW b \in Cells PROVE Back(m, t)[b] = Back(m, s)[b]
    BY <1>4, <1>7 DEF Back
  <2> QED
    BY <2>1 DEF Back
<1>10. Pred(m, t) = Pred(m, s)
  <2>1. ASSUME NEW b \in Cells PROVE Pred(m, t)[b] = Pred(m, s)[b]
    BY <1>3, <1>6, <1>9 DEF Pred
  <2> QED
    BY <2>1 DEF Pred
<1>11. ASSUME NEW i \in Int, NEW x
       PROVE  /\ Gone(l, t, x, i) <=> Gone(l, s, x, i)
              /\ BeingMade(t, x, i) <=> BeingMade(s, x, i)
  BY <1>1 DEF Gone, BeingMade
<1> QED
  BY <1>2, <1>3, <1>5, <1>8, <1>9, <1>10, <1>11

\* A step that writes no list, in which the end that has begun goes on, no child is
\* brought back and none is forgotten.
Quiet ==
  /\ SameWork(stack, stack') /\ UNCHANGED <<mem, live>>
  /\ \A i \in 1..Len(stack) : Buried(stack, i) => i \in 1..Len(stack') /\ stack'[i] = stack[i]
  /\ \A i \in 1..Len(stack) : stack[i].at \in Ending =>
       i \in 1..Len(stack') /\ stack'[i].at \in Ending
  /\ status' = "running" => status = "running"
  /\ status' = "exited" => status = "exited" \/ \A c \in Children : ~Untold(c)
  /\ \A c \in Children :
       /\ child'[c] \in {"running", "zombie"} =>
            child[c] \in {"running", "zombie"} \/ BeingStarted(c)'
       /\ BeingStarted(c) => BeingStarted(c)'
       /\ Untold(c)' => Untold(c)
       /\ child[c] = "reaped" => child'[c] = "reaped"

\* Such a step keeps what holds of the list, when the frames that moved on fit.
LEMMA QuietKeeps ==
  ASSUME WatchersInv, ~torn, Quiet,
         \A i \in 1..Len(stack') : \/ i \in 1..Len(stack) /\ stack'[i] = stack[i]
                                   \/ FrameFits(i)'
  PROVE  ListInv'
<1>1. /\ SameWork(stack, stack') /\ mem' = mem /\ live' = live
      /\ EndsOK /\ ApartOK /\ ChainOK /\ OrderOK /\ FramesFit /\ Booked /\ ExitOK
  BY DEF WatchersInv, ListInv, Quiet
<1>2. /\ On(live, stack') = On(live, stack) /\ Trail(live, stack') = Trail(live, stack)
      /\ Linkers(stack') = Linkers(stack) /\ \A i \in Linkers(stack) : stack'[i] = stack[i]
      /\ Succ(mem, stack') = Succ(mem, stack) /\ Pred(mem, stack') = Pred(mem, stack)
      /\ Back(mem, stack') = Back(mem, stack)
      /\ \A i \in Int : \A x :
              /\ Gone(live, stack', x, i) <=> Gone(live, stack, x, i)
              /\ BeingMade(stack', x, i) <=> BeingMade(stack, x, i)
  BY <1>1, SameWorkSameList
<1>3. EndsOK'
  BY <1>1, <1>2 DEF EndsOK
<1>4. ApartOK'
  BY <1>1, <1>2 DEF ApartOK
<1>5. ChainOK'
  BY <1>1, <1>2 DEF ChainOK, ChainAt
<1>6. \A i \in 1..Len(stack) : Buried(stack, i) /\ i \in 1..Len(stack') => Buried(stack', i)
  BY DEF Quiet, Buried
<1>7. Astray => Astray'
  <2>1. ASSUME Astray PROVE Astray'
    <3>1. PICK i \in 1..Len(stack), j \in 1..Len(stack) :
            /\ i < j /\ stack[i].at = "link" /\ stack[j].at = "unlinkNext"
            /\ mem[stack[j].wp].next \in Cells \ live
      BY <2>1 DEF Astray
    <3>2. /\ i \in 1..Len(stack') /\ j \in 1..Len(stack')
          /\ stack'[i] = stack[i] /\ stack'[j] = stack[j]
      BY <1>1, <3>1 DEF SameWork, Working, Making, Loose
    <3> QED
      BY <1>1, <3>1, <3>2 DEF Astray
  <2> QED
    BY <2>1
<1>8. EndedOver => EndedOver'
  <2>1. ASSUME EndedOver PROVE EndedOver'
    <3>1. PICK i \in 1..Len(stack) : stack[i].at \in Dropping /\ Buried(stack, i)
      BY <2>1 DEF EndedOver
    <3>2. i \in 1..Len(stack') /\ stack'[i] = stack[i]
      BY <3>1 DEF Quiet
    <3> QED
      BY <1>1, <1>6, <2>1, <3>1, <3>2 DEF EndedOver
  <2> QED
    BY <2>1
<1>9. OrderOK'
  <2>1. Sorted => Sorted'
    BY <1>1, <1>2 DEF Sorted
  <2>2. LinkOK => LinkOK'
    BY <1>1, <1>2 DEF LinkOK, LinkAt
  <2> QED
    BY <1>1, <1>7, <1>8, <2>1, <2>2 DEF OrderOK
<1>10. FramesFit'
  <2> SUFFICES ASSUME NEW i \in 1..Len(stack'), i \in 1..Len(stack), stack'[i] = stack[i]
               PROVE  FrameFits(i)'
    BY DEF FramesFit
  <2>1. MakerOK(i) /\ (Cli \in live => PlaceOK(i)) /\ ReaperOK(i) /\ WalkOK(i)
    BY <1>1 DEF FramesFit, FrameFits
  <2>6. \A x : /\ Gone(live, stack', x, i) <=> Gone(live, stack, x, i)
               /\ BeingMade(stack', x, i) <=> BeingMade(stack, x, i)
    BY <1>2
  <2>2. MakerOK(i)'
    <3>1. \A j \in 1..Len(stack') : stack'[j].at \in Loose =>
            j \in 1..Len(stack) /\ stack'[j] = stack[j]
      BY <1>1 DEF SameWork, Working
    <3> QED
      BY <1>1, <1>2, <1>6, <2>1, <2>6, <3>1 DEF MakerOK
  <2>3. (Cli \in live => PlaceOK(i))'
    BY <1>1, <1>2, <2>1, <2>6 DEF PlaceOK, Gap
  <2>4. ReaperOK(i)'
    <3>1. stack[i].at \in Dropping =>
            mem[stack[i].wp].pid = Unset \/ child'[mem[stack[i].wp].pid] = "reaped"
      <4>1. ASSUME stack[i].at \in Dropping PROVE mem[stack[i].wp].pid \in Children \cup {Unset}
        <5>1. stack[i] \in FrameShape /\ FrameOK(stack[i]) /\ mem \in [Cells -> CellShape]
          BY Shapes DEF WatchersInv
        <5>2. stack[i].wp \in Cells
          BY <4>1, <5>1 DEF FrameOK, FrameShape, Successors, Cells
        <5> QED
          BY <5>1, <5>2 DEF CellShape
      <4> QED
        BY <2>1, <4>1 DEF ReaperOK, Quiet
    <3> QED
      BY <1>1, <1>2, <1>7, <2>1, <3>1 DEF ReaperOK
  <2>5. WalkOK(i)'
    <3>1. status' = "running" => status = "running"
      BY DEF Quiet
    <3>2. \A c \in Children : Untold(c)' => Untold(c)
      BY DEF Quiet
    <3>3. \A c \in Children : Ahead(c, i) => Ahead(c, i)'
      BY <1>1, <1>2, <2>6 DEF Ahead
    <3> QED
      BY <1>1, <2>1, <3>1, <3>2, <3>3 DEF WalkOK
  <2> QED
    BY <2>2, <2>3, <2>4, <2>5 DEF FrameFits
<1>11. Booked'
  BY <1>1, <1>2 DEF Booked, Quiet
<1>12. ExitOK'
  BY <1>1 DEF ExitOK, Quiet
<1> QED
  BY <1>3, <1>4, <1>5, <1>9, <1>10, <1>11, <1>12 DEF ListInv

\* The frame that forked c is one of the stack.
LEMMA StartedBy ==
  ASSUME ShapeOK, NEW c
  PROVE  BeingStarted(c) <=>
           \E i \in 1..Len(stack) : stack[i].at = "setpid" /\ stack[i].pid = c
<1>1. DOMAIN stack = 1..Len(stack)
  BY DEF ShapeOK
<1> QED
  BY <1>1 DEF BeingStarted

\* c is forked in this step, or is what it was.
Forked(f, c) == f.at = "setpid" /\ f.pid = c
Advances(f) ==
  \A c \in Children :
    /\ child'[c] \in {"running", "zombie"} => child[c] \in {"running", "zombie"} \/ Forked(f, c)
    /\ child'[c] = "running" /\ c \notin told' =>
         (child[c] = "running" /\ c \notin told) \/ Forked(f, c)
    /\ child[c] = "reaped" => child'[c] = "reaped"

\* A child that is being started still is, when another frame moves on.
LEMMA StartsGoOn ==
  ASSUME ShapeOK, ShapeOK', NEW f, Becomes(f), Top.at # "setpid"
  PROVE  \A c : BeingStarted(c) => BeingStarted(c)'
<1> SUFFICES ASSUME NEW c, BeingStarted(c) PROVE BeingStarted(c)'
  OBVIOUS
<1>1. PICK i \in 1..Len(stack) : stack[i].at = "setpid" /\ stack[i].pid = c
  BY StartedBy
<1>2. i \in DOMAIN stack' /\ stack'[i] = stack[i]
  <2>1. i # Len(stack) /\ Len(stack) \in Nat
    BY <1>1, TopOfStack
  <2>2. i \in 1..Len(stack) - 1
    BY <1>1, <2>1
  <2>3. DOMAIN stack' = 1..Len(stack') /\ Len(stack') = Len(stack)
    BY TopBecomes DEF ShapeOK
  <2> QED
    BY <1>1, <2>2, <2>3, TopBecomes
<1> QED
  BY <1>1, <1>2 DEF BeingStarted

\* A running frame that writes no list before nor after its step is quiet.
LEMMA QuietMove ==
  ASSUME WatchersInv, TickerInv', ~torn, NEW f, Becomes(f),
         Top.at \notin Working \cup {"setpid"}, f.at \notin Working,
         Top.at \in Ending => f.at \in Ending,
         UNCHANGED <<mem, live>>, Advances(f), status' \in {status, "killed"},
         NEW k \in Nat, k = Len(stack), FrameFits(k)'
  PROVE  ListInv'
<1> DEFINE n == Len(stack)
<1>1. /\ n \in Nat \ {0} /\ Top = stack[n] /\ ShapeOK /\ ShapeOK'
      /\ Len(stack') = n /\ stack'[n] = f /\ \A i \in 1..n - 1 : stack'[i] = stack[i]
  BY Shapes, TopBecomes DEF WatchersInv, TickerInv
<1> HIDE DEF n
<1>2. \A i \in 1..n : i = n \/ (i \in 1..n - 1 /\ stack'[i] = stack[i])
  BY <1>1
<1>3. SameWork(stack, stack')
  BY <1>1, <1>2 DEF SameWork, n
<1>4. \A i \in 1..n : Buried(stack, i) => i \in 1..n - 1
  BY <1>1 DEF Buried, n
<1>5. \A c : BeingStarted(c) => BeingStarted(c)'
  BY <1>1, StartsGoOn
<1>6. \A c : Forked(f, c) => BeingStarted(c)'
  <2>1. n \in DOMAIN stack'
    BY <1>1 DEF ShapeOK
  <2> QED
    BY <1>1, <2>1 DEF BeingStarted, Forked
<1>7. Quiet
  <2>1. \A i \in 1..n : stack[i].at \in Ending => i \in 1..n /\ stack'[i].at \in Ending
    BY <1>1, <1>2
  <2>2. \A i \in 1..n : Buried(stack, i) => i \in 1..n /\ stack'[i] = stack[i]
    BY <1>2, <1>4
  <2>3. ASSUME NEW c \in Children
        PROVE  /\ child'[c] \in {"running", "zombie"} =>
                    child[c] \in {"running", "zombie"} \/ BeingStarted(c)'
               /\ BeingStarted(c) => BeingStarted(c)'
               /\ Untold(c)' => Untold(c)
               /\ child[c] = "reaped" => child'[c] = "reaped"
    BY <1>5, <1>6 DEF Advances, Untold
  <2> QED
    BY <1>1, <1>3, <2>1, <2>2, <2>3 DEF Quiet, n
<1> QED
  BY <1>1, <1>2, <1>7, QuietKeeps DEF n

\* A frame that is neither at work on the list nor on its way through it fits.
LEMMA PlainFits ==
  ASSUME NEW i, stack'[i].at \notin {"start", "remove"} \cup Creating \cup Reaping
  PROVE  FrameFits(i)'
BY DEF FrameFits, MakerOK, PlaceOK, ReaperOK, WalkOK, Creating, Making, Loose, Reaping, Dropping

\* The loop of main(), parseInput(), and the commands that change no WATCHER.
LEMMA LoopIsQuiet ==
  ASSUME WatchersInv, TickerInv', ~torn,
         \/ MainPrompt \/ MainClear \/ MainSuspend \/ ParseStart \/ NothingToRead \/ ReadOutput
         \/ Recv \/ StartWithoutRoom \/ Walk \/ Find \/ Obey
         \/ StartSubscribe /\ Becomes([Top EXCEPT !.at = "recv"])
         \/ ParseEnd /\ Top.kind = "main"
  PROVE  ListInv'
<1>1. Top \in FrameShape /\ ShapeOK /\ Len(stack) \in Nat
  BY TopIsOK, TopOfStack DEF WatchersInv
<1>2. PICK f : /\ Becomes(f)
               /\ f.at \in {"clear", "parse", "sleeping", "read", "recv", "walk", "find", "obey",
                            "suspend"}
  <2>1. CASE MainPrompt \/ MainClear \/ MainSuspend \/ (ParseEnd /\ Top.kind = "main")
    <3>1. PICK f : /\ Becomes(f)
                   /\ \/ f = [Top EXCEPT !.at = IF reprint THEN "clear" ELSE "parse"]
                      \/ f = [Top EXCEPT !.at = "parse"]
                      \/ f = [Top EXCEPT !.at = "sleeping", !.saved = mask]
                      \/ f = [Top EXCEPT !.at = "suspend"]
      BY <2>1 DEF MainPrompt, MainClear, MainSuspend, ParseEnd
    <3> QED
      BY <1>1, <3>1, ZenonT(30) DEF FrameShape
  <2>2. CASE \/ ParseStart \/ ReadOutput \/ StartWithoutRoom \/ Obey
             \/ StartSubscribe /\ Becomes([Top EXCEPT !.at = "recv"])
    <3>1. PICK f : /\ Becomes(f)
                   /\ \/ f = [Top EXCEPT !.at = "recv"]
                      \/ f = [Top EXCEPT !.wp = mem[ListHead].next, !.at = "read"]
      BY <2>2 DEF ParseStart, ReadOutput, StartWithoutRoom, Obey
    <3> QED
      BY <1>1, <3>1, ZenonT(30) DEF FrameShape
  <2>3. CASE NothingToRead \/ Recv
    BY <1>1, <2>3 DEF NothingToRead, Recv, PassOver, NextWatcher, Frame
  <2>4. CASE Walk \/ Find
    <3>1. PICK f : /\ Becomes(f)
                   /\ \/ f = [Top EXCEPT !.at = "recv"]
                      \/ f = [Top EXCEPT !.at = "obey"]
                      \/ f = [Top EXCEPT !.cur = mem[Top.cur].next]
      BY <2>4 DEF Walk, Find
    <3>2. Top.at \in {"walk", "find"}
      BY <2>4 DEF Walk, Find, At
    <3> QED
      BY <1>1, <3>1, <3>2 DEF FrameShape
  <2> QED
    BY <2>1, <2>2, <2>3, <2>4
<1>3. /\ Top.at \in {"prompt", "clear", "suspend", "parse", "read", "recv", "start", "walk", "find",
                     "obey", "subscribe"}
      /\ UNCHANGED <<mem, live, child>> /\ status' \in {status, "killed"}
      /\ told \subseteq told'
  <2>1. CASE \/ MainPrompt \/ MainClear \/ MainSuspend \/ ParseStart \/ NothingToRead \/ ReadOutput
             \/ Recv \/ StartWithoutRoom \/ Walk \/ Find
             \/ ParseEnd /\ Top.kind = "main"
    BY <2>1
    DEF MainPrompt, MainClear, MainSuspend, ParseStart, NothingToRead, ReadOutput, Recv,
        StartWithoutRoom, Walk, Find, ParseEnd, At, list, world
  <2>2. CASE Obey \/ StartSubscribe
    BY <2>2 DEF Obey, StartSubscribe, At, list, world
  <2> QED
    BY <2>1, <2>2
<1>4. Advances(f)
  BY <1>2, <1>3 DEF Advances
<1>5. stack'[Len(stack)] = f
  BY <1>1, <1>2, TopBecomes
<1>6. PICK k \in Nat : k = Len(stack)
  BY <1>1
<1>7. FrameFits(k)'
  BY <1>2, <1>5, <1>6, PlainFits DEF Creating, Making, Reaping, Dropping
<1> QED
  BY <1>2, <1>3, <1>4, <1>6, <1>7, QuietMove DEF Working, Making, Loose, Ending

\* The list is the same before and after such a move.
LEMMA SameListAfterMove ==
  ASSUME ShapeOK, NEW f, Becomes(f), Top.at \notin Working, f.at \notin Working
  PROVE  /\ On(live, stack') = On(live, stack) /\ Trail(live, stack') = Trail(live, stack)
         /\ Len(stack') = Len(stack) /\ stack'[Len(stack)] = f
<1> DEFINE n == Len(stack)
<1>1. /\ n \in Nat \ {0} /\ Top = stack[n]
      /\ Len(stack') = n /\ stack'[n] = f /\ \A i \in 1..n - 1 : stack'[i] = stack[i]
  BY TopOfStack, TopBecomes
<1> HIDE DEF n
<1>2. SameWork(stack, stack')
  BY <1>1 DEF SameWork, n
<1> QED
  BY <1>1, <1>2, SameWorkSameList DEF n

\* A frame that goes through the list to tell every child fits when all are ahead of it.
LEMMA WalkerFits ==
  ASSUME WatchersInv, ~torn, NEW f, Becomes(f), Top.at \notin Working, f.at = "remove",
         UNCHANGED <<mem, live>>, Cli \in live => f.wp = Cli,
         Cli \notin live => \A c \in Children : Untold(c)' =>
           \E w \in On(live, stack) :
             /\ mem[w].pid = c /\ f.wp \in Cells
             /\ f.wp \in live => f.wp \in Trail(live, stack) /\ ~Less(mem, w, f.wp),
         NEW k \in Nat, k = Len(stack)
  PROVE  FrameFits(k)'
<1>1. /\ On(live, stack') = On(live, stack) /\ Trail(live, stack') = Trail(live, stack)
      /\ stack'[k] = f /\ mem' = mem /\ live' = live
  BY SameListAfterMove DEF WatchersInv, TickerInv, Working, Making, Loose
<1>2. WalkOK(k)'
  <2>1. ASSUME NEW c \in Children, Cli \notin live, Untold(c)' PROVE Ahead(c, k)'
    BY <1>1, <2>1 DEF Ahead, Gone
  <2> QED
    BY <1>1, <2>1 DEF WalkOK
<1>3. (MakerOK(k) /\ PlaceOK(k) /\ ReaperOK(k))'
  BY <1>1 DEF MakerOK, PlaceOK, ReaperOK, Creating, Making, Loose, Reaping, Dropping
<1> QED
  BY <1>2, <1>3 DEF FrameFits

\* Who has not been told has a WATCHER of its own.
LEMMA UntoldIsBooked ==
  ASSUME ListInv, NEW c \in Children, Untold(c)
  PROVE  \E w \in On(live, stack) : mem[w].pid = c /\ w \notin {Cli, ListHead}
<1>1. PICK w \in On(live, stack) : mem[w].pid = c
  BY DEF ListInv, Booked, Untold
<1>2. w \notin {Cli, ListHead}
  BY <1>1, DistinctAssumption DEF ListInv, EndsOK
<1> QED
  BY <1>1, <1>2

\* quit and SIGINT start at the first WATCHER, and removeAllWatchers() goes on to the next
\* when it has told a child.
LEMMA WalkIsQuiet ==
  ASSUME WatchersInv, TickerInv', ~torn, InterruptStart \/ RemoveWatcher
  PROVE  ListInv'
<1> DEFINE n == Len(stack)
<1>1. /\ Top \in FrameShape /\ ShapeOK /\ n \in Nat \ {0} /\ Top = stack[n]
      /\ ListInv /\ TickerInv /\ mem \in [Cells -> CellShape]
  BY TopIsOK, TopOfStack DEF WatchersInv, ShapeOK
<1>2. PICK f : /\ Becomes(f) /\ f.at = "remove"
               /\ InterruptStart => f.wp = mem[ListHead].next
               /\ RemoveWatcher => f.wp = mem[Top.wp].next
  <2>1. CASE InterruptStart
    <3>1. PICK f : Becomes(f) /\ f = [Top EXCEPT !.at = "remove", !.wp = mem[ListHead].next]
      BY <2>1 DEF InterruptStart
    <3> QED
      BY <1>1, <2>1, <3>1 DEF FrameShape, InterruptStart, RemoveWatcher, At
  <2>2. CASE RemoveWatcher
    <3>1. PICK f : Becomes(f) /\ f = [Top EXCEPT !.wp = mem[Top.wp].next]
      BY <2>2 DEF RemoveWatcher
    <3> QED
      BY <1>1, <2>2, <3>1 DEF FrameShape, InterruptStart, RemoveWatcher, At
  <2> QED
    BY <2>1, <2>2
<1>3. /\ UNCHANGED <<mem, live, child>> /\ told \subseteq told'
      /\ status = "running" /\ status' \in {status, "killed"}
  BY DEF InterruptStart, RemoveWatcher, At, list, world
<1>4. Top.at \in Ending
  BY DEF InterruptStart, RemoveWatcher, At, Ending
<1>5. PICK k \in Nat : k = n
  BY <1>1
<1>8. \A c : BeingStarted(c) => BeingStarted(c)'
  BY <1>1, <1>2, <1>4, StartsGoOn DEF Ending, TickerInv
<1>6. CASE InterruptStart
  <2>1. Cli \in live => f.wp = Cli
    BY <1>1, <1>2, <1>6 DEF ListInv, EndsOK
  <2>2. ASSUME NEW c \in Children, Untold(c)'
        PROVE  \E w \in On(live, stack) :
                 /\ mem[w].pid = c /\ f.wp \in Cells
                 /\ f.wp \in live => f.wp \in Trail(live, stack) /\ ~Less(mem, w, f.wp)
    <3>1. Untold(c)
      BY <1>3, <1>8, <2>2 DEF Untold
    <3>2. PICK w \in On(live, stack) : mem[w].pid = c /\ w \notin {Cli, ListHead}
      BY <1>1, <3>1, UntoldIsBooked
    <3>3. ListHead \in Trail(live, stack) /\ Less(mem, ListHead, w)
      BY <1>1, <3>2, EndsAreOn DEF Less
    <3>4. ChainAt(ListHead)
      BY <1>1, <3>3 DEF ListInv, ChainOK
    <3>5. f.wp # NULL /\ f.wp \in Cells
      <4>1. f.wp # NULL
        BY <1>2, <1>6, <3>3, <3>4 DEF ChainAt
      <4>2. f.wp \in Successors
        BY <1>1, <1>2, <1>6 DEF CellShape, Cells
      <4> QED
        BY <4>1, <4>2 DEF Successors, Cells
    <3>6. f.wp \in live => f.wp \in Trail(live, stack) /\ ~Less(mem, w, f.wp)
      BY <1>2, <1>6, <3>3, <3>4 DEF ChainAt
    <3> QED
      BY <3>2, <3>5, <3>6
  <2>3. FrameFits(k)'
    BY <1>2, <1>3, <1>4, <1>5, <2>1, <2>2, WalkerFits DEF Ending, Working, Making, Loose
  <2>4. Advances(f)
    BY <1>3 DEF Advances
  <2> QED
    BY <1>2, <1>3, <1>4, <1>5, <2>3, <2>4, QuietMove DEF Ending, Working, Making, Loose
<1>7. CASE RemoveWatcher
  <2>1. Top.wp \notin {Cli, NULL} /\ Top.wp \in Cells /\ Top.wp \in live
    <3>1. Top.wp \notin {Cli, NULL} /\ Touches(Top) \subseteq live /\ Top.at = "remove"
      BY <1>7 DEF RemoveWatcher, At
    <3>2. Top.wp \in Cells
      BY <1>1, <3>1 DEF FrameShape, Successors, Cells
    <3>3. Top.wp \in Touches(Top)
      BY <3>1, <3>2 DEF Touches
    <3> QED
      BY <3>1, <3>2, <3>3
  <2>2. WalkOK(n) /\ Top.at = "remove"
    BY <1>1, <1>7 DEF ListInv, FramesFit, FrameFits, RemoveWatcher, At
  <2>3. Cli \notin live
    BY <1>1, <1>3, <2>1, <2>2 DEF WalkOK
  <2>4. Advances(f)
    BY <1>3 DEF Advances
  <2>5. ASSUME NEW c \in Children, Untold(c)'
        PROVE  \E w \in On(live, stack) :
                 /\ mem[w].pid = c /\ f.wp \in Cells
                 /\ f.wp \in live => f.wp \in Trail(live, stack) /\ ~Less(mem, w, f.wp)
    <3>1. Untold(c)
      BY <1>3, <1>8, <2>5 DEF Untold
    <3>2. Ahead(c, n)
      BY <1>1, <1>3, <2>2, <2>3, <3>1 DEF WalkOK
    <3>3. PICK w \in On(live, stack) :
            /\ mem[w].pid = c
            /\ Gone(live, stack, Top.wp, n) \/ (Top.wp \in Trail(live, stack) /\ ~Less(mem, w, Top.wp))
      BY <1>1, <3>2 DEF Ahead
    <3>4. Top.wp \in Trail(live, stack) /\ ~Less(mem, w, Top.wp)
      BY <1>1, <2>1, <3>3 DEF Gone
    <3>5. w # Top.wp
      <4>1. mem[Top.wp].pid = c => c \in told'
        BY <1>7, DistinctAssumption DEF RemoveWatcher, Signalled
      <4> QED
        BY <2>5, <3>3, <4>1 DEF Untold
    <3>6. Less(mem, Top.wp, w)
      BY <1>1, <3>4, <3>5 DEF ListInv, ApartOK, Apart
    <3>7. ChainAt(Top.wp)
      BY <1>1, <3>4 DEF ListInv, ChainOK
    <3>8. f.wp # NULL /\ f.wp \in Cells
      <4>1. f.wp # NULL
        BY <1>2, <1>7, <3>6, <3>7 DEF ChainAt
      <4>2. f.wp \in Successors
        BY <1>1, <1>2, <1>7, <2>1 DEF CellShape
      <4> QED
        BY <4>1, <4>2 DEF Successors, Cells
    <3>9. f.wp \in live => f.wp \in Trail(live, stack) /\ ~Less(mem, w, f.wp)
      BY <1>2, <1>7, <3>6, <3>7 DEF ChainAt
    <3> QED
      BY <3>3, <3>8, <3>9
  <2>6. FrameFits(k)'
    BY <1>2, <1>3, <1>4, <1>5, <2>3, <2>5, WalkerFits DEF Ending, Working, Making, Loose
  <2> QED
    BY <1>2, <1>3, <1>4, <1>5, <2>4, <2>6, QuietMove DEF Ending, Working, Making, Loose
<1> QED
  BY <1>6, <1>7

\* "quit" starts at the CLI WATCHER, and so does the search for a free wid.
LEMMA CommandIsQuiet ==
  ASSUME WatchersInv, TickerInv', ~torn, ReadCommands
  PROVE  ListInv'
<1>1. /\ Top \in FrameShape /\ ShapeOK /\ Len(stack) \in Nat /\ ListInv
      /\ Top.at = "read" /\ UNCHANGED <<mem, live, child, told, status>>
  BY TopIsOK, TopOfStack DEF WatchersInv, ReadCommands, At, list
<1>2. Cli \in live
  <2>1. Cli \in Touches(Top)
    BY <1>1 DEF ReadCommands, Touches, Cells
  <2> QED
    BY <2>1 DEF ReadCommands, At
<1>3. mem[ListHead].next = Cli
  BY <1>1, <1>2 DEF ListInv, EndsOK
<1>4. PICK cmd : cmd = stdin[1] /\ cmd.op \in Ops
  <2>1. stdin[1] \in Commands
    BY <1>1 DEF ShapeOK, ReadCommands
  <2> QED
    BY <2>1, CommandsAssumption
<1>5. PICK at : at = Branch[cmd.op] /\ at \in {"start", "find", "walk", "remove", "recv"}
                /\ (at = "remove" => cmd.op = "quit")
  BY <1>4 DEF Branch, Ops
<1>6. PICK f : /\ Becomes(f)
               /\ f = [Top EXCEPT !.cmd = cmd, !.at = at, !.cur = Cli,
                                  !.wp = IF cmd.op = "quit" THEN Cli ELSE @]
  BY <1>3, <1>4, <1>5 DEF ReadCommands
<1>7. /\ f.at \in {"start", "find", "walk", "remove", "recv"} /\ f.cur = Cli
      /\ f.at = "remove" => f.wp = Cli
  BY <1>1, <1>5, <1>6 DEF FrameShape
<1>8. Advances(f)
  BY <1>1, <1>7 DEF Advances
<1>9. PICK k \in Nat : k = Len(stack)
  BY <1>1
<1>10. stack'[k] = f
  BY <1>1, <1>6, <1>9, TopBecomes
<1>11. FrameFits(k)'
  <2>1. CASE f.at = "start"
    BY <1>1, <1>2, <1>7, <1>10, <2>1
    DEF FrameFits, MakerOK, PlaceOK, ReaperOK, WalkOK, Creating, Making, Loose, Reaping, Dropping
  <2>2. CASE f.at = "remove"
    BY <1>1, <1>2, <1>6, <1>7, <1>9, <2>2, WalkerFits DEF Working, Making, Loose
  <2>3. CASE f.at \in {"find", "walk", "recv"}
    BY <1>10, <2>3, PlainFits DEF Creating, Reaping, Dropping
  <2> QED
    BY <1>7, <2>1, <2>2, <2>3
<1> QED
  BY <1>1, <1>6, <1>7, <1>8, <1>9, <1>11, QuietMove DEF Working, Making, Loose, Ending

\* While the SIGCHLD handler is on top and is not dropping a WATCHER, none is loose.
LEMMA NoneIsLoose ==
  ASSUME TickerInv, ParsersOK, Top.at \in Reaping \ Loose
  PROVE  Trail(live, stack) = On(live, stack)
<1>1. Len(stack) \in Nat \ {0} /\ Top = stack[Len(stack)] /\ OneReaper
  BY Shapes, OneOfEach
<1>2. \A j \in 1..Len(stack) : stack[j].at \notin Loose
  BY <1>1 DEF OneReaper, Loose, Reaping, Dropping
<1> QED
  BY <1>2 DEF Trail

\* What follows a cell of the list is in the list, and is not the CLI WATCHER unless the
\* cell is the list head.
LEMMA NextIsOn ==
  ASSUME WatchersInv, ~torn, Trail(live, stack) = On(live, stack),
         NEW a \in On(live, stack)
  PROVE  /\ mem[a].next \in live => mem[a].next \in On(live, stack)
         /\ a # ListHead => mem[a].next # Cli
<1>1. ListInv /\ a \in Cells
  BY Shapes DEF WatchersInv, On
<1>2. ChainAt(a)
  BY <1>1 DEF ListInv, ChainOK
<1> QED
  BY <1>1, <1>2 DEF ChainAt, ListInv, EndsOK

\* The running SIGCHLD handler stands in the list.
LEMMA ReaperIsOn ==
  ASSUME WatchersInv, ~torn, At("reaping"), Top.wp # NULL
  PROVE  Top.wp \in On(live, stack) /\ Top.wp \notin {ListHead, Cli} /\ Top.wp \in Cells
<1>1. Len(stack) \in Nat \ {0} /\ Top = stack[Len(stack)] /\ Top \in FrameShape
  BY TopIsOK, Shapes DEF WatchersInv
<1>2. ReaperOK(Len(stack)) /\ Top.at = "reaping" /\ Top.wp \in live
  BY <1>1, ReapsTheLiving, TopIsOK DEF WatchersInv, ListInv, FramesFit, FrameFits, At
<1>3. ~BeingMade(stack, Top.wp, Len(stack))
  BY <1>1 DEF BeingMade
<1>4. Top.wp \in Successors
  BY <1>1 DEF FrameShape
<1> QED
  BY <1>1, <1>2, <1>3, <1>4, DistinctAssumption DEF ReaperOK, Reaping, Successors, Cells

\* The SIGCHLD handler on its way through the list.
LEMMA ReaperFits ==
  ASSUME WatchersInv, ~torn, NEW f, Becomes(f), Top.at \notin Working,
         f.at \in {"reaping", "unlink"}, UNCHANGED <<mem, live>>,
         f.wp # Cli, f.wp \in live => f.wp \in On(live, stack),
         f.at = "unlink" => /\ f.wp \in On(live, stack)
                            /\ mem[f.wp].pid = Unset \/ child'[mem[f.wp].pid] = "reaped",
         NEW k \in Nat, k = Len(stack)
  PROVE  FrameFits(k)'
<1>1. On(live, stack') = On(live, stack) /\ stack'[k] = f /\ mem' = mem /\ live' = live
  BY SameListAfterMove DEF WatchersInv, TickerInv, Working, Making, Loose
<1> QED
  BY <1>1
  DEF FrameFits, MakerOK, PlaceOK, ReaperOK, WalkOK, Creating, Making, Loose, Reaping, Dropping

\* waitpid() says whether the child has ended.
LEMMA ReapsTheDead ==
  ASSUME TickerInv, ReapOne, Top.wp \in Cells
  PROVE  mem[Top.wp].pid = Unset \/ child'[mem[Top.wp].pid] = "reaped"
<1>1. SUFFICES ASSUME mem[Top.wp].pid # Unset PROVE child'[mem[Top.wp].pid] = "reaped"
  OBVIOUS
<1>2. PICK p \in Children : p = mem[Top.wp].pid
  BY <1>1, Shapes DEF CellShape
<1>3. child[p] \in {"running", "zombie", "reaped"}
  BY <1>2, Shapes DEF TickerInv, PidsAreOfChildren
<1>4. Waited(p) = IF child[p] = "zombie" THEN {p} ELSE {}
  BY <1>1, <1>2 DEF Waited, Zombies
<1>5. CASE Waited(p) = {}
  BY <1>2, <1>3, <1>4, <1>5 DEF ReapOne, StillRuns
<1>6. CASE Waited(p) # {}
  BY <1>2, <1>4, <1>6, Shapes DEF ReapOne
<1> QED
  BY <1>2, <1>5, <1>6

\* The SIGCHLD handler moves on to the next WATCHER, or reaps.
LEMMA ReapIsQuiet ==
  ASSUME WatchersInv, TickerInv', ~torn, ReapStart \/ ReapNone \/ ReapOne
  PROVE  ListInv'
<1>1. /\ Top \in FrameShape /\ ShapeOK /\ Len(stack) \in Nat /\ ListInv /\ TickerInv
      /\ UNCHANGED <<mem, live, told, status>> /\ Top.at \in {"reap", "reaping"}
      /\ ParsersOK
  BY TopIsOK, TopOfStack DEF WatchersInv, ReapStart, ReapNone, ReapOne, At, list
<1>2. Trail(live, stack) = On(live, stack)
  BY <1>1, NoneIsLoose DEF Reaping, Loose, Dropping
<1>3. \A c \in Children : child'[c] # child[c] => child[c] = "zombie" /\ child'[c] = "reaped"
  BY <1>1 DEF ReapStart, ReapNone, ReapOne, world, Waited, Zombies, ShapeOK
<1>4. PICK k \in Nat : k = Len(stack)
  BY <1>1
<1>5. PICK f : /\ Becomes(f) /\ f.at \in {"reaping", "unlink"}
               /\ f.wp # Cli /\ (f.wp \in live => f.wp \in On(live, stack))
               /\ f.at = "unlink" => /\ f.wp \in On(live, stack)
                                     /\ mem[f.wp].pid = Unset \/ child'[mem[f.wp].pid] = "reaped"
  <2>1. CASE ReapStart
    <3>1. PICK f : Becomes(f) /\ f = [Top EXCEPT !.wp = FirstChild, !.at = "reaping"]
      BY <2>1 DEF ReapStart
    <3>2. PICK a : a = mem[ListHead].next
      OBVIOUS
    <3>3. a \in Watchers \cup {Cli} /\ a \in Cells /\ a # ListHead
      BY <1>1, <2>1, <3>2, DistinctAssumption DEF ReapStart, ShapeOK, CellShape, Successors, Cells
    <3>4. a \in live
      <4>1. a \in Touches(Top)
        BY <2>1, <3>2, <3>3 DEF ReapStart, At, Touches
      <4> QED
        BY <2>1, <4>1 DEF ReapStart, At
    <3>5. a \in On(live, stack)
      BY <1>1, <1>2, <3>2, <3>4, EndsAreOn, NextIsOn
    <3>6. /\ mem[a].next # Cli
          /\ mem[a].next \in live => mem[a].next \in On(live, stack)
      BY <1>2, <3>3, <3>5, NextIsOn
    <3>7. f.wp = mem[a].next /\ f.at = "reaping"
      BY <1>1, <3>1, <3>2 DEF FirstChild, FrameShape
    <3> QED
      BY <3>1, <3>6, <3>7
  <2>2. CASE ReapNone
    <3>1. PICK f : Becomes(f) /\ f = [Top EXCEPT !.wp = mem[Top.wp].next]
      BY <2>2 DEF ReapNone
    <3>2. Top.wp \in On(live, stack) /\ Top.wp # ListHead
      BY <2>2, ReaperIsOn DEF ReapNone
    <3>3. Top.at = "reaping"
      BY <2>2 DEF ReapNone, At
    <3> QED
      BY <1>1, <1>2, <3>1, <3>2, <3>3, NextIsOn DEF FrameShape
  <2>3. CASE ReapOne
    <3>1. PICK f : Becomes(f) /\ f = [Top EXCEPT !.at = "unlink"]
      BY <2>3 DEF ReapOne
    <3>2. Top.wp \in On(live, stack) /\ Top.wp # Cli /\ Top.wp \in Cells
      BY <2>3, ReaperIsOn DEF ReapOne
    <3> QED
      BY <1>1, <2>3, <3>1, <3>2, ReapsTheDead DEF FrameShape
  <2> QED
    BY <2>1, <2>2, <2>3
<1>6. FrameFits(k)'
  BY <1>1, <1>4, <1>5, ReaperFits DEF Working, Making, Loose
<1>7. Advances(f)
  BY <1>1, <1>3 DEF Advances
<1> QED
  BY <1>1, <1>4, <1>5, <1>6, <1>7, QuietMove DEF Working, Making, Loose, Ending

\* fork() puts a child on the books of the frame that called it.
LEMMA ForkIsQuiet ==
  ASSUME WatchersInv, TickerInv', ~torn, StartFork
  PROVE  ListInv'
<1>1. /\ Top \in FrameShape /\ ShapeOK /\ Len(stack) \in Nat \ {0} /\ Top = stack[Len(stack)]
      /\ UNCHANGED <<mem, live, told, status>> /\ Top.at = "fork" /\ ListInv
  BY TopIsOK, TopOfStack DEF WatchersInv, StartFork, At, list
<1>2. PICK c \in Children : /\ child[c] = "unborn" /\ child' = [child EXCEPT ![c] = "running"]
                            /\ Becomes([Top EXCEPT !.at = "setpid", !.pid = c])
  BY DEF StartFork
<1>3. PICK f : f = [Top EXCEPT !.at = "setpid", !.pid = c]
  OBVIOUS
<1>4. /\ Becomes(f) /\ f.at = "setpid" /\ f.pid = c /\ f.new = Top.new
  BY <1>1, <1>2, <1>3 DEF FrameShape
<1>5. Advances(f)
  BY <1>1, <1>2, <1>4 DEF Advances, Forked, ShapeOK
<1>6. PICK k \in Nat : k = Len(stack)
  BY <1>1
<1>7. Cli \in live
  BY <1>1, MakerOnTop DEF Creating
<1>8. mem[Top.new].pid = Unset /\ Top.new \in On(live, stack)
  <2>1. MakerOK(Len(stack))
    BY <1>1 DEF ListInv, FramesFit, FrameFits
  <2>2. ~\E j \in 1..Len(stack) : Len(stack) < j
    BY <1>1
  <2>3. Top.new \in Watchers
    BY <1>1, TopIsOK DEF WatchersInv, FrameOK, Creating
  <2>4. Top.new \in live
    <3>1. Top.new \in Touches(Top)
      BY <1>1, <2>3 DEF Touches, Cells
    <3> QED
      BY <3>1 DEF StartFork, At
  <2> QED
    BY <1>1, <2>1, <2>2, <2>4 DEF MakerOK, Creating, Gone
<1>9. FrameFits(k)'
  <2>1. On(live, stack') = On(live, stack) /\ stack'[k] = f /\ mem' = mem /\ live' = live
    BY <1>1, <1>4, <1>6, SameListAfterMove DEF Working, Making, Loose
  <2> QED
    BY <1>4, <1>7, <1>8, <2>1
    DEF FrameFits, MakerOK, PlaceOK, ReaperOK, WalkOK, Creating, Making, Loose, Reaping, Dropping
<1> QED
  BY <1>1, <1>4, <1>5, <1>6, <1>9, QuietMove DEF Working, Making, Loose, Ending

\* A handler returns to what it interrupted.
LEMMA ReturnIsQuiet ==
  ASSUME WatchersInv, TickerInv', ~torn, (ParseEnd /\ Top.kind # "main") \/ ReapEnd
  PROVE  ListInv'
<1> DEFINE n == Len(stack)
<1>1. /\ Top \in FrameShape /\ ShapeOK /\ ShapeOK' /\ n \in Nat \ {0} /\ Top = stack[n]
      /\ n = 1 => Top.kind = "main"
      /\ Len(Below) = n - 1 /\ \A i \in 1..n - 1 : Below[i] = stack[i]
  BY TopIsOK, TopOfStack DEF WatchersInv, TickerInv
<1>2. /\ UNCHANGED <<mem, live, child, told, status>> /\ Top.at \in {"read", "reaping"}
      /\ Return
  BY DEF ParseEnd, ReapEnd, At, list, world
<1>3. n > 1
  <2>1. ReapEnd => Top.kind # "main"
    BY TopIsOK DEF WatchersInv, ReapEnd, At, FrameOK, Reaping
  <2> QED
    BY <1>1, <2>1
<1> HIDE DEF n
<1>4. \A i \in 1..n : i = n \/ i \in 1..n - 1
  BY <1>1
<1>5. CASE stack' = Below
  <2>1. Len(stack') = n - 1 /\ \A i \in 1..n - 1 : stack'[i] = stack[i] /\ i \in 1..n
    BY <1>1, <1>5
  <2>2. SameWork(stack, stack')
    BY <1>1, <1>2, <1>4, <2>1 DEF SameWork, Working, Making, Loose, n
  <2>3. \A i \in 1..n : Buried(stack, i) => i \in 1..n - 1
    BY <1>1, <1>4 DEF Buried, n
  <2>4. \A i \in 1..n : stack[i].at \in Ending => i \in 1..n - 1
    BY <1>1, <1>2, <1>4 DEF Ending
  <2>5. \A c : BeingStarted(c) => BeingStarted(c)'
    <3> SUFFICES ASSUME NEW c, BeingStarted(c) PROVE BeingStarted(c)'
      OBVIOUS
    <3>1. PICK i \in 1..n : stack[i].at = "setpid" /\ stack[i].pid = c
      BY <1>1, StartedBy DEF n
    <3>2. i \in 1..n - 1
      BY <1>1, <1>2, <1>4, <3>1
    <3>3. i \in DOMAIN stack'
      BY <1>1, <2>1, <3>2 DEF ShapeOK
    <3> QED
      BY <2>1, <3>1, <3>2, <3>3 DEF BeingStarted
  <2>6. Quiet
    BY <1>2, <2>1, <2>2, <2>3, <2>4, <2>5 DEF Quiet, Untold, n
  <2> QED
    BY <2>1, <2>6, QuietKeeps DEF n
<1>6. CASE stack[1].at = "sleeping" /\ n = 2 /\ stack' = <<[stack[1] EXCEPT !.at = "prompt"]>>
  <2>1. PICK f : f = [stack[1] EXCEPT !.at = "prompt"]
    OBVIOUS
  <2>2. f.at = "prompt" /\ Len(stack') = 1 /\ stack'[1] = f /\ 1..Len(stack') = {1}
    <3>1. stack[1] \in FrameShape
      BY <1>1, <1>6 DEF ShapeOK, n
    <3> QED
      BY <1>6, <2>1, <3>1 DEF FrameShape
  <2>3. \A i \in 1..n : stack[i].at \notin Working \cup Ending \cup {"setpid"}
    <3>1. 1..n = {1, 2}
      BY <1>6
    <3> QED
      BY <1>1, <1>2, <1>6, <3>1 DEF Working, Making, Loose, Ending
  <2>4. SameWork(stack, stack')
    BY <2>2, <2>3 DEF SameWork, Working, Making, Loose, n
  <2>5. \A i \in 1..n : ~Buried(stack, i)
    BY <2>3 DEF Buried, n
  <2>6. \A c : ~BeingStarted(c)
    BY <1>1, <2>3, StartedBy DEF n
  <2>7. Quiet
    BY <1>2, <2>3, <2>4, <2>5, <2>6 DEF Quiet, Untold, n
  <2>8. FrameFits(1)'
    BY <2>2, PlainFits DEF Creating, Reaping, Dropping
  <2> QED
    BY <2>2, <2>7, <2>8, QuietKeeps
<1> QED
  BY <1>1, <1>2, <1>3, <1>5, <1>6, ReturnUncovers DEF n

\* A signal's handler has not looked at the list yet.
LEMMA DeliverIsQuiet ==
  ASSUME WatchersInv, TickerInv', ~torn, NEW sig \in Signals, Deliver(sig)
  PROVE  ListInv'
<1> DEFINE n == Len(stack)
<1>1. ShapeOK /\ ShapeOK' /\ n \in Nat \ {0}
  BY TopOfStack DEF WatchersInv, TickerInv
<1>2. PICK f : f = Frame(sig, Handler[sig], mask)
  OBVIOUS
<1>3. /\ stack' = Append(stack, f) /\ UNCHANGED <<mem, live, child, told, status>>
      /\ f.wp = NULL /\ f.at \in {"parse", "reap", "interrupt"}
  BY <1>2 DEF Deliver, list, world, Frame, Handler, Signals
<1>4. /\ Len(stack') = n + 1 /\ stack'[n + 1] = f
      /\ \A i \in 1..n : stack'[i] = stack[i] /\ i \in 1..n + 1
  <2>1. PICK S : S = FrameShape \cup {f}
    OBVIOUS
  <2>2. stack \in Seq(S) /\ f \in S
    BY <1>1, <2>1, SeqMonotonic DEF ShapeOK
  <2> QED
    BY <1>1, <1>3, <2>2
<1> HIDE DEF n
<1>5. \A i \in 1..n + 1 : i = n + 1 \/ i \in 1..n
  BY <1>1
<1>6. SameWork(stack, stack')
  BY <1>3, <1>4, <1>5 DEF SameWork, Working, Making, Loose, n
<1>7. \A c : BeingStarted(c) => BeingStarted(c)'
  <2> SUFFICES ASSUME NEW c, BeingStarted(c) PROVE BeingStarted(c)'
    OBVIOUS
  <2>1. PICK i \in 1..n : stack[i].at = "setpid" /\ stack[i].pid = c
    BY <1>1, StartedBy DEF n
  <2>2. i \in DOMAIN stack'
    BY <1>1, <1>4, <2>1 DEF ShapeOK
  <2> QED
    BY <1>4, <2>1, <2>2 DEF BeingStarted
<1>8. Quiet
  BY <1>3, <1>4, <1>6, <1>7 DEF Quiet, Untold, n
<1>9. PICK k \in Nat : k = n + 1
  BY <1>1
<1>10. FrameFits(k)'
  BY <1>3, <1>4, <1>9, DistinctAssumption
  DEF FrameFits, MakerOK, PlaceOK, ReaperOK, WalkOK, Creating, Making, Loose, Reaping, Dropping
<1> QED
  BY <1>4, <1>5, <1>8, <1>9, <1>10, QuietKeeps DEF n

\* The user and the children leave the list alone.
LEMMA EnvironmentIsQuiet ==
  ASSUME WatchersInv, TickerInv', ~torn, Environment
  PROVE  ListInv'
<1>1. UNCHANGED <<stack, mem, live, told, status>> /\ ShapeOK
  BY DEF Environment, Type, ChildWrites, ChildEnds, Interrupt, list, world, WatchersInv, TickerInv
<1>2. \A c \in Children : child'[c] # child[c] => child[c] = "running" /\ child'[c] = "zombie"
  BY <1>1 DEF Environment, Type, ChildWrites, ChildEnds, Interrupt, list, world, ShapeOK
<1>3. \A c : BeingStarted(c) <=> BeingStarted(c)'
  BY <1>1 DEF BeingStarted
<1>4. SameWork(stack, stack')
  BY <1>1 DEF SameWork
<1>5. Quiet
  BY <1>1, <1>2, <1>3, <1>4 DEF Quiet, Untold
<1> QED
  BY <1>1, <1>5, QuietKeeps

\* When removeAllWatchers() has come to the end of the list everyone has been told.
LEMMA EveryoneIsTold ==
  ASSUME WatchersInv, ~torn, RemoveEnd
  PROVE  \A c \in Children : ~Untold(c)
<1>1. Len(stack) \in Nat \ {0} /\ Top = stack[Len(stack)]
  BY Shapes DEF WatchersInv
<1>2. Top.at = "remove" /\ Top.wp = NULL /\ status = "running"
  BY DEF RemoveEnd, At
<1>3. WalkOK(Len(stack))
  BY <1>1 DEF WatchersInv, ListInv, FramesFit, FrameFits
<1>4. Cli # NULL /\ NULL \notin Cells
  BY DistinctAssumption DEF Cells
<1> QED
  BY <1>1, <1>2, <1>3, <1>4 DEF WalkOK, Ahead

\* The steps that end the process leave the list as it is.
LEMMA EndsAreQuiet ==
  ASSUME WatchersInv, TickerInv', ~torn,
         \/ Faults \/ RemoveEnd \/ UNCHANGED vars
         \/ StartSubscribe /\ UNCHANGED stack
  PROVE  ListInv'
<1>1. UNCHANGED <<stack, mem, live, child, told>>
  BY DEF Faults, RemoveEnd, StartSubscribe, vars, list, world
<1>2. \/ status' \in {status, "faulted", "killed"}
      \/ status' = "exited" /\ \A c \in Children : ~Untold(c)
  BY EveryoneIsTold DEF Faults, RemoveEnd, StartSubscribe, vars
<1>3. \A c : BeingStarted(c) <=> BeingStarted(c)'
  BY <1>1 DEF BeingStarted
<1>4. SameWork(stack, stack')
  BY <1>1 DEF SameWork
<1>5. Quiet
  BY <1>1, <1>2, <1>3, <1>4 DEF Quiet, Untold
<1> QED
  BY <1>1, <1>5, QuietKeeps

(***************************************************************************)
(* The steps of newWatcher().                                              *)
(***************************************************************************)

\* A list in order is a chain, while nothing is loose and nothing is about to be linked.
LEMMA SortedIsChain ==
  ASSUME NEW l, NEW s, NEW m, l \subseteq Cells, On(l, s) = Trail(l, s),
         InOrder(On(l, s), Succ(m, s), Pred(m, s), m),
         \A a \in Cells : Succ(m, s)[a] = m[a].next, NEW a \in On(l, s)
  PROVE  LET b == m[a].next IN
           /\ b = NULL \/ (b \in On(l, s) /\ Less(m, a, b))
           /\ \A w \in On(l, s) : Less(m, a, w) => b # NULL /\ ~Less(m, w, b)
<1>1. a \in Cells
  BY DEF On
<1> QED
  BY <1>1 DEF InOrder

\* Who writes the list is unique.
LEMMA OneWriterEach ==
  ASSUME TickerInv, ParsersOK
  PROVE  /\ \A i, j \in Linkers(stack) : i = j
         /\ \A i, j \in Cutters(stack) : i = j
BY OneOfEach DEF Linkers, Cutters, OneMaker, OneReaper, Commanding, Creating, Reaping, Dropping

\* While newWatcher() is on top and not about to link, next and prev are what they say,
\* but for what the interrupted SIGCHLD handler is about to write.
LEMMA NothingToLink ==
  ASSUME NEW s, Linkers(s) = {}, NEW m
  PROVE  /\ \A a \in Cells : Succ(m, s)[a] = m[a].next
         /\ \A b \in Cells : Pred(m, s)[b] = Back(m, s)[b]
BY SuccIs, PredIs

\* The stack before and after a step of newWatcher() that leaves its WATCHER hidden.
LEMMA MakerMoves ==
  ASSUME WatchersInv, ~torn, NEW f, Becomes(f), Top.at \in {"start"} \cup Creating
  PROVE  LET n == Len(stack) IN
           /\ n \in Nat \ {0} /\ Top = stack[n] /\ Len(stack') = n /\ stack'[n] = f
           /\ \A i \in 1..n : i = n \/ (i \in 1..n - 1 /\ stack'[i] = stack[i])
           /\ \A i \in 1..n - 1 : stack[i].at \notin Commanding
           /\ Linkers(stack) \subseteq {n} /\ Linkers(stack') \subseteq {n}
           /\ n \in Linkers(stack) <=> Top.at = "link"
           /\ n \in Linkers(stack') <=> f.at = "link"
           /\ f.at # "unlinkNext" => Cutters(stack') = Cutters(stack)
           /\ \A i \in Cutters(stack) : i \in 1..n - 1 /\ stack'[i] = stack[i]
<1> DEFINE n == Len(stack)
<1>1. /\ n \in Nat \ {0} /\ Top = stack[n]
      /\ Len(stack') = n /\ stack'[n] = f /\ \A i \in 1..n - 1 : stack'[i] = stack[i]
  BY Shapes, TopBecomes DEF WatchersInv, TickerInv
<1>2. \A i \in 1..n - 1 : stack[i].at \notin Commanding
  BY MakerOnTop
<1> HIDE DEF n
<1>3. \A i \in 1..n : i = n \/ i \in 1..n - 1
  BY <1>1
<1>4. \A i \in 1..n - 1 : stack[i].at # "link" /\ stack'[i].at # "link"
  BY <1>1, <1>2 DEF Commanding, Creating
<1>5. Linkers(stack) \subseteq {n} /\ Linkers(stack') \subseteq {n}
  BY <1>1, <1>3, <1>4 DEF Linkers, n
<1>6. /\ n \in Linkers(stack) <=> Top.at = "link"
      /\ n \in Linkers(stack') <=> f.at = "link"
  BY <1>1 DEF Linkers, n
<1>7. Top.at # "unlinkNext"
  BY DEF Creating
<1>8. \A i \in Cutters(stack) : i \in 1..n - 1
  BY <1>1, <1>3, <1>7 DEF Cutters, n
<1>9. f.at # "unlinkNext" => Cutters(stack') = Cutters(stack)
  BY <1>1, <1>3, <1>7 DEF Cutters, n
<1> QED
  BY <1>1, <1>2, <1>3, <1>5, <1>6, <1>8, <1>9 DEF n

\* The frames below the one that obeys commands wait, reap or end.
LEMMA BelowAMaker ==
  ASSUME NEW i, Cli \in live, Cli \in live', WalkOK(i), stack'[i] = stack[i],
         status = "running", stack[i].at \notin Commanding, ReaperOK(i)'
  PROVE  FrameFits(i)'
BY DEF FrameFits, MakerOK, PlaceOK, WalkOK, Commanding, Creating, Making

\* What such steps have in common: the new WATCHER is out of the list before and after.
LEMMA MakingKeeps ==
  ASSUME WatchersInv, TickerInv', ~torn, UNCHANGED <<status, child, told>>, status = "running",
         NEW f, Becomes(f), Top.at \in {"start", "scan", "insert", "backlink"}, f.at \in Making,
         live' = live \cup {f.new}, f.new \in Watchers \ On(live, stack),
         Top.at \in Making => f.new = Top.new,
         \A i \in 1..Len(stack) : stack[i].at \in Loose => stack[i].wp # f.new,
         \A a \in Cells \ {f.new} : /\ mem'[a].next = mem[a].next
                                    /\ mem'[a].wid = mem[a].wid /\ mem'[a].pid = mem[a].pid,
         mem'[f.new].next # Cli, mem'[f.new].pid = Unset, mem'[Cli].prev = mem[Cli].prev,
         Sorted', LinkOK', NEW k \in Nat, k = Len(stack), MakerOK(k)', PlaceOK(k)'
  PROVE  ListInv'
<1> DEFINE n == Len(stack)
<1>1. /\ n \in Nat \ {0} /\ Top = stack[n] /\ Len(stack') = n /\ stack'[n] = f
      /\ \A i \in 1..n : i = n \/ (i \in 1..n - 1 /\ stack'[i] = stack[i])
      /\ \A i \in 1..n - 1 : stack[i].at \notin Commanding
  BY MakerMoves DEF Creating
<1>2. /\ Cli \in live /\ Sorted /\ Trail(live, stack) = On(live, stack) /\ ListInv /\ TickerInv
  BY MakerOnTop DEF WatchersInv, Creating
<1>3. /\ Linkers(stack) = {} /\ \A a \in Cells : Succ(mem, stack)[a] = mem[a].next
  <2>1. Linkers(stack) = {}
    BY MakerMoves DEF Creating
  <2> QED
    BY <2>1, NothingToLink
<1>4. f.new \in Cells /\ f.new \notin {Cli, ListHead} /\ live' \subseteq Cells
  BY <1>2, Shapes, DistinctAssumption DEF Cells
<1> HIDE DEF n
<1>5. \A i \in 1..n - 1 : stack[i].at \notin Making /\ stack'[i] = stack[i] /\ i \in 1..n /\ i < n
  BY <1>1 DEF Commanding, Creating, Making
<1>6. On(live', stack') = On(live, stack)
  <2>1. ASSUME NEW a \in live, a # f.new, NEW i \in 1..n
        PROVE  Hides(stack[i], a) <=> Hides(stack'[i], a)
    <3>1. CASE i = n
      BY <1>1, <2>1, <3>1 DEF Hides, Making, Loose
    <3>2. CASE i # n
      BY <1>1, <3>2
    <3> QED
      BY <3>1, <3>2
  <2>2. Hides(stack'[n], f.new) /\ n \in 1..n
    BY <1>1 DEF Hides
  <2>3. \A a \in On(live', stack') : a # f.new
    BY <1>1, <2>2 DEF On, n
  <2> QED
    BY <1>1, <2>1, <2>3 DEF On, n
<1>7. Trail(live', stack') = On(live', stack')
  <2>1. \A i, j \in 1..n : i < j => stack'[i].at # "link"
    <3>1. \A i, j \in 1..n : i < j => i \in 1..n - 1
      BY <1>1
    <3> QED
      BY <1>5, <3>1 DEF Making
  <2> QED
    BY <1>1, <2>1 DEF Trail, n
<1>8. EndsOK'
  BY <1>2, <1>4, <1>6 DEF ListInv, EndsOK, On, Cells
<1>9. \A a, b \in On(live, stack) : Less(mem', a, b) <=> Less(mem, a, b)
  <2>1. \A a \in On(live, stack) : a \in Cells \ {f.new}
    BY <1>2, Shapes DEF On
  <2> QED
    BY <2>1 DEF Less
<1>10. ApartOK'
  BY <1>2, <1>6, <1>7, <1>9 DEF ListInv, ApartOK, Apart
<1>11. ChainOK'
  <2> SUFFICES ASSUME NEW a \in On(live, stack) PROVE ChainAt(a)'
    BY <1>6, <1>7 DEF ChainOK
  <2>1. a \in Cells \ {f.new} /\ live \subseteq Cells
    BY <1>2, Shapes DEF On
  <2>2. PICK b : b = mem[a].next /\ b = mem'[a].next
    BY <2>1
  <2>3. /\ b = NULL \/ (b \in On(live, stack) /\ Less(mem, a, b))
        /\ \A w \in On(live, stack) : Less(mem, a, w) => b # NULL /\ ~Less(mem, w, b)
    BY <1>2, <1>3, <2>1, <2>2, SortedIsChain DEF Sorted
  <2>4. NULL \notin live'
    BY <1>4, DistinctAssumption DEF Cells
  <2> QED
    BY <1>6, <1>7, <1>9, <2>2, <2>3, <2>4, ZenonT(30) DEF ChainAt
<1>12. OrderOK'
  BY DEF OrderOK
<1>13. FramesFit'
  <2>1. FrameFits(n)'
    BY <1>1 DEF FrameFits, ReaperOK, WalkOK, Making, Loose, Reaping, Dropping, n
  <2>2. ASSUME NEW i \in 1..n - 1 PROVE FrameFits(i)'
    <3>1. /\ ReaperOK(i) /\ WalkOK(i) /\ FrameOK(stack[i]) /\ stack[i] \in FrameShape
          /\ stack'[i] = stack[i] /\ stack[i].at \notin Commanding /\ i < n
      BY <1>1, <1>2, <1>5, Shapes DEF ListInv, FramesFit, FrameFits, n
    <3>2. \A x : BeingMade(stack, x, i) => x = f.new
      BY <1>1, <1>5 DEF BeingMade, Making, n
    <3>3. BeingMade(stack', f.new, i)
      BY <1>1, <3>1 DEF BeingMade, n
    <3>4. ~Astray
      BY <1>3 DEF Astray, Linkers
    <3>5. ReaperOK(i)'
      <4>1. stack[i].at \in Reaping => stack[i].wp # Cli
        BY <3>1 DEF ReaperOK
      <4>2. stack[i].at = "reaping" =>
              (stack[i].wp \in live' => stack[i].wp \in On(live, stack) \/ BeingMade(stack', stack[i].wp, i))
        BY <3>1, <3>2, <3>3 DEF ReaperOK
      <4>3. stack[i].at = "unlink" => stack[i].wp \in On(live, stack)
        BY <3>1 DEF ReaperOK
      <4>4. stack[i].at \in Dropping \cup {"freed"} => stack[i].wp \in Cells
        BY <3>1 DEF FrameOK, FrameShape, Successors, Cells
      <4>5. stack[i].at \in Dropping => stack[i].wp # f.new
        BY <1>5, <4>3 DEF Dropping, Loose, n
      <4>6. stack[i].at \in Dropping =>
              mem'[stack[i].wp].pid = Unset \/ child'[mem'[stack[i].wp].pid] = "reaped"
        BY <3>1, <4>4, <4>5 DEF ReaperOK
      <4>7. stack[i].at = "unlinkNext" => mem'[stack[i].wp].next \in On(live, stack) \cup {NULL}
        BY <3>1, <3>4, <4>4, <4>5 DEF ReaperOK, Dropping
      <4>8. ASSUME stack[i].at \in Loose \cup {"freed"}, mem'[stack[i].wp].next \in live'
            PROVE  \/ mem'[stack[i].wp].next \in On(live, stack)
                   \/ BeingMade(stack', mem'[stack[i].wp].next, i)
                   \/ BeingMade(stack', stack[i].wp, i)
        <5>1. CASE stack[i].wp = f.new
          BY <3>3, <5>1
        <5>2. CASE stack[i].wp # f.new
          <6>1. mem'[stack[i].wp].next = mem[stack[i].wp].next
            BY <4>4, <4>8, <5>2 DEF Loose, Dropping
          <6> QED
            BY <3>1, <3>2, <3>3, <4>8, <5>2, <6>1 DEF ReaperOK
        <5> QED
          BY <5>1, <5>2
      <4> QED
        BY <1>6, <3>1, <4>1, <4>2, <4>3, <4>6, <4>7, <4>8 DEF ReaperOK
    <3> QED
      BY <1>2, <3>1, <3>5, BelowAMaker
  <2> QED
    BY <1>1, <2>1, <2>2 DEF FramesFit, n
<1>14. Booked'
  <2>1. \A c : BeingStarted(c) => BeingStarted(c)'
    BY <1>2, StartsGoOn DEF TickerInv
  <2>2. \A w \in On(live, stack) : mem'[w].pid = mem[w].pid
    BY <1>2, Shapes DEF On
  <2> QED
    BY <1>2, <1>6, <2>1, <2>2 DEF ListInv, Booked
<1>15. ExitOK'
  BY DEF ExitOK
<1> QED
  BY <1>8, <1>10, <1>11, <1>12, <1>13, <1>14, <1>15 DEF ListInv

\* What a removal is about to write stays what it was, when its WATCHER does.
LEMMA SameBack ==
  ASSUME NEW s, NEW t, NEW m, NEW m2, Cutters(t) = Cutters(s),
         \A i \in Cutters(s) : /\ t[i].wp = s[i].wp /\ m2[s[i].wp].next = m[s[i].wp].next
                               /\ m2[s[i].wp].prev = m[s[i].wp].prev
  PROVE  \A b \in Cells :
           m2[b].prev = m[b].prev \/ (\E i \in Cutters(s) : m[s[i].wp].next = b) =>
             Back(m2, t)[b] = Back(m, s)[b]
<1>1. TheOne(Cutters(t)) = TheOne(Cutters(s))
  OBVIOUS
<1>2. Cutters(s) # {} => TheOne(Cutters(s)) \in Cutters(s)
  BY DEF TheOne
<1> QED
  BY <1>1, <1>2 DEF Back

\* What is being dropped is a WATCHER that is still there.
LEMMA DroppedAreLive ==
  ASSUME WatchersInv, ~torn
  PROVE  \A i \in 1..Len(stack) : stack[i].at \in Dropping =>
           /\ stack[i].wp \in live \cap Watchers
           /\ stack[i].at \in Loose => stack[i].wp \notin On(live, stack)
<1> SUFFICES ASSUME NEW i \in 1..Len(stack), stack[i].at \in Dropping
             PROVE  /\ stack[i].wp \in live \cap Watchers
                    /\ stack[i].at \in Loose => stack[i].wp \notin On(live, stack)
  OBVIOUS
<1>1. ReaperOK(i) /\ stack[i] \in FrameShape /\ DroppedAreDead /\ live \subseteq Cells
  BY Shapes DEF WatchersInv, ListInv, FramesFit, FrameFits, TickerInv
<1>2. stack[i].wp # Cli /\ stack[i].wp \in Successors
  BY <1>1 DEF ReaperOK, Reaping, FrameShape
<1>3. stack[i].wp \in live
  BY <1>1, <1>2 DEF DroppedAreDead
<1>4. stack[i].wp # NULL
  BY <1>1, <1>3, DistinctAssumption DEF Cells
<1> QED
  BY <1>2, <1>3, <1>4 DEF Successors, On, Hides

\* The first write of newWatcher().
LEMMA CreateKeepsList ==
  ASSUME WatchersInv, TickerInv', ~torn, StartCreate
  PROVE  ListInv'
<1> DEFINE n == Len(stack)
<1>1. /\ Top \in FrameShape /\ ListInv /\ TickerInv /\ UNCHANGED <<status, child, told>>
      /\ Top.at = "start" /\ status = "running"
      /\ mem \in [Cells -> CellShape] /\ live \subseteq Cells
  BY TopIsOK, Shapes DEF WatchersInv, StartCreate, At, world
<1>2. PICK a \in Watchers \ live :
        /\ mem' = [mem EXCEPT ![a] = Blank] /\ live' = live \cup {a}
        /\ Becomes([Top EXCEPT !.at = "scan", !.new = a, !.prev = ListHead, !.wid = 0])
  BY DEF StartCreate
<1>3. PICK f : f = [Top EXCEPT !.at = "scan", !.new = a, !.prev = ListHead, !.wid = 0]
  OBVIOUS
<1>4. /\ Becomes(f) /\ f.at = "scan" /\ f.new = a /\ f.prev = ListHead /\ f.wid = 0
      /\ f.cur = Top.cur
  BY <1>1, <1>2, <1>3 DEF FrameShape
<1>5. /\ n \in Nat \ {0} /\ Top = stack[n] /\ Len(stack') = n /\ stack'[n] = f
      /\ \A i \in 1..n : i = n \/ (i \in 1..n - 1 /\ stack'[i] = stack[i])
      /\ Linkers(stack) = {} /\ Linkers(stack') = {} /\ Cutters(stack') = Cutters(stack)
      /\ \A i \in Cutters(stack) : i \in 1..n - 1 /\ stack'[i] = stack[i]
  BY <1>1, <1>4, MakerMoves
<1>6. /\ Cli \in live /\ Sorted /\ On(live, stack) \subseteq live /\ a \in Cells
      /\ a \notin On(live, stack)
  BY <1>1, <1>2, MakerOnTop DEF On, Cells
<1>7. f.cur = Cli
  BY <1>1, <1>4, <1>5 DEF ListInv, FramesFit, FrameFits, MakerOK
<1>8. /\ mem'[a] = Blank /\ Blank.next = NULL /\ Blank.pid = Unset
      /\ \A b \in Cells : b # a => mem'[b] = mem[b]
  BY <1>1, <1>2, <1>6 DEF Blank, Cell
<1>9. \A i \in 1..n : stack[i].at \in Loose => stack[i].wp # a
  BY <1>2, DroppedAreLive DEF Loose, Dropping
<1>10. On(live', stack') = On(live, stack)
  <2>1. \A b \in live, i \in 1..n : b # a => (Hides(stack[i], b) <=> Hides(stack'[i], b))
    BY <1>1, <1>4, <1>5 DEF Hides, Making, Loose
  <2>2. Hides(stack'[n], a)
    BY <1>4, <1>5 DEF Hides, Making
  <2> QED
    BY <1>2, <1>5, <2>1, <2>2 DEF On
<1>11. Sorted'
  <2>1. ASSUME NEW i \in Cutters(stack)
        PROVE  /\ stack'[i].wp = stack[i].wp /\ mem'[stack[i].wp] = mem[stack[i].wp]
    <3>1. stack[i].wp \in Cells /\ stack[i].wp # a
      BY <1>2, DroppedAreLive DEF Cutters, Dropping, Cells
    <3> QED
      BY <1>5, <1>8, <3>1
  <2>2. \A b \in On(live, stack) : b \in Cells /\ mem'[b] = mem[b]
    BY <1>1, <1>6, <1>8
  <2>5. \A b \in Cells : mem'[b].prev = mem[b].prev =>
          Back(mem', stack')[b] = Back(mem, stack)[b]
    <3>1. \A i \in Cutters(stack) : /\ stack'[i].wp = stack[i].wp
                                    /\ mem'[stack[i].wp].next = mem[stack[i].wp].next
                                    /\ mem'[stack[i].wp].prev = mem[stack[i].wp].prev
      BY <2>1
    <3> QED
      BY <1>5, <3>1, SameBack
  <2>3. \A b \in On(live, stack) : Back(mem', stack')[b] = Back(mem, stack)[b]
    BY <2>2, <2>5
  <2>6. \A b \in Cells : /\ Succ(mem, stack)[b] = mem[b].next
                         /\ Succ(mem', stack')[b] = mem'[b].next
                         /\ Pred(mem, stack)[b] = Back(mem, stack)[b]
                         /\ Pred(mem', stack')[b] = Back(mem', stack')[b]
    BY <1>5, NothingToLink
  <2>4. \A b \in On(live, stack) : /\ Succ(mem', stack')[b] = Succ(mem, stack)[b]
                                   /\ Pred(mem', stack')[b] = Pred(mem, stack)[b]
    BY <2>2, <2>3, <2>6
  <2> QED
    BY <1>6, <1>10, <2>2, <2>4, SameOrder DEF Sorted
<1>12. LinkOK'
  BY <1>5 DEF LinkOK
<1>13. PICK k \in Nat : k = n
  BY <1>5
<1>14. MakerOK(k)'
  <2>1. \A j \in 1..Len(stack') : stack'[j].at \in Loose => stack'[j].wp # a
    BY <1>4, <1>5, <1>9 DEF Loose
  <2>2. ListHead \in On(live, stack)
    BY <1>1, EndsAreOn
  <2> QED
    BY <1>2, <1>4, <1>5, <1>6, <1>8, <1>10, <1>13, <2>1, <2>2 DEF MakerOK, Creating, Making
<1>15. PlaceOK(k)'
  <2>1. Cli \in On(live, stack)
    BY <1>1, <1>6, EndsAreOn
  <2> QED
    BY <1>4, <1>5, <1>7, <1>10, <1>13, <2>1 DEF PlaceOK, Making
<1> QED
  <2>1. mem'[f.new].next # Cli /\ mem'[f.new].pid = Unset
    BY <1>4, <1>8, DistinctAssumption
  <2>2. mem'[Cli].prev = mem[Cli].prev
    BY <1>2, <1>6, <1>8 DEF Cells
  <2>3. /\ f.at \in Making /\ Top.at \notin Making /\ live' = live \cup {f.new}
        /\ f.new \in Watchers \ On(live, stack)
        /\ \A b \in Cells \ {f.new} : mem'[b] = mem[b]
    BY <1>1, <1>2, <1>4, <1>6, <1>8 DEF Making
  <2> QED
    BY <1>1, <1>4, <1>9, <1>11, <1>12, <1>13, <1>14, <1>15, <2>1, <2>2, <2>3, MakingKeeps

\* Where newWatcher() is and what it holds, between its first write and its last.
LEMMA MakerHolds ==
  ASSUME WatchersInv, ~torn, Top.at \in Making, Touches(Top) \subseteq live
  PROVE  /\ Top.new \in live \cap Watchers /\ Top.new \notin On(live, stack)
         /\ \A i \in 1..Len(stack) : stack[i].at \in Loose => stack[i].wp # Top.new
         /\ mem[Top.new].pid = Unset /\ Cli \in live
         /\ Top.prev \in Cells
         /\ Top.at # "scan" => Top.prev \in On(live, stack) \ {ListHead} /\ Gap(Top.prev, Top.wid)
         /\ Top.at = "backlink" => mem[Top.new].prev = Top.prev /\ mem[Top.new].next = mem[Top.prev].next
<1>1. /\ Len(stack) \in Nat \ {0} /\ Top = stack[Len(stack)] /\ ListInv /\ Cli \in live
      /\ FrameOK(Top) /\ Top.at \in Creating
  BY TopIsOK, Shapes, MakerOnTop DEF WatchersInv, Making, Creating
<1>2. MakerOK(Len(stack)) /\ PlaceOK(Len(stack))
  BY <1>1 DEF ListInv, FramesFit, FrameFits
<1>3. Top.new \in Watchers /\ Top.prev \in Cells
  BY <1>1 DEF FrameOK
<1>4. Top.new \notin On(live, stack)
  BY <1>1 DEF On, Hides
<1>5. Top.at # "scan" => Top.prev \in live
  BY <1>3 DEF Touches, Making
<1>6. \A x : Gone(live, stack, x, Len(stack)) => x \notin live
  BY <1>1 DEF Gone
<1> QED
  BY <1>1, <1>2, <1>3, <1>4, <1>5, <1>6 DEF MakerOK, PlaceOK, Making

\* newWatcher() looks for the first id not in use.
LEMMA ScanKeepsList ==
  ASSUME WatchersInv, TickerInv', ~torn, StartScan
  PROVE  ListInv'
<1> DEFINE n == Len(stack)
<1>1. /\ Top \in FrameShape /\ ListInv /\ TickerInv /\ UNCHANGED <<status, child, told, mem, live>>
      /\ Top.at = "scan" /\ status = "running" /\ Touches(Top) \subseteq live
      /\ mem \in [Cells -> CellShape] /\ live \subseteq Cells
  BY TopIsOK, Shapes DEF WatchersInv, StartScan, At, world, list
<1>2. PICK f : /\ Becomes(f) /\ f.new = Top.new
               /\ \/ /\ Top.cur = NULL \/ mem[Top.cur].wid # Top.wid
                     /\ f.at = "insert" /\ f.prev = Top.prev /\ f.wid = Top.wid
                  \/ /\ Top.cur # NULL /\ mem[Top.cur].wid = Top.wid
                     /\ f.at = "scan" /\ f.prev = Top.cur /\ f.cur = mem[Top.cur].next
                     /\ f.wid = Top.wid + 1
  <2>1. PICK f : /\ Becomes(f)
                 /\ \/ /\ Top.cur = NULL \/ mem[Top.cur].wid # Top.wid
                       /\ f = [Top EXCEPT !.at = "insert"]
                    \/ /\ Top.cur # NULL /\ mem[Top.cur].wid = Top.wid
                       /\ f = [Top EXCEPT !.prev = Top.cur, !.cur = mem[Top.cur].next, !.wid = @ + 1]
    BY DEF StartScan
  <2>2. CASE f = [Top EXCEPT !.at = "insert"] /\ (Top.cur = NULL \/ mem[Top.cur].wid # Top.wid)
    BY <1>1, <2>1, <2>2 DEF FrameShape
  <2>3. CASE /\ f = [Top EXCEPT !.prev = Top.cur, !.cur = mem[Top.cur].next, !.wid = @ + 1]
             /\ Top.cur # NULL /\ mem[Top.cur].wid = Top.wid
    <3>1. PICK b : b = mem[Top.cur].next
      OBVIOUS
    <3>2. f = [Top EXCEPT !.prev = Top.cur, !.cur = b, !.wid = @ + 1]
      BY <2>3, <3>1
    <3>3. /\ f.at = Top.at /\ f.new = Top.new /\ f.prev = Top.cur /\ f.cur = b
          /\ f.wid = Top.wid + 1
      BY <1>1, <3>2 DEF FrameShape
    <3> QED
      BY <1>1, <2>1, <2>3, <3>1, <3>3
  <2> QED
    BY <2>1, <2>2, <2>3
<1>3. f.at \in {"scan", "insert"}
  BY <1>2
<1>4. /\ n \in Nat \ {0} /\ Top = stack[n] /\ Len(stack') = n /\ stack'[n] = f
      /\ \A i \in 1..n : i = n \/ (i \in 1..n - 1 /\ stack'[i] = stack[i])
      /\ Linkers(stack) = {} /\ Linkers(stack') = {} /\ Cutters(stack') = Cutters(stack)
      /\ \A i \in Cutters(stack) : i \in 1..n - 1 /\ stack'[i] = stack[i]
  BY <1>1, <1>2, <1>3, MakerMoves DEF Creating
<1>5. /\ Top.new \in live \cap Watchers /\ Top.new \notin On(live, stack)
      /\ \A i \in 1..Len(stack) : stack[i].at \in Loose => stack[i].wp # Top.new
      /\ mem[Top.new].pid = Unset /\ Cli \in live /\ Sorted
  BY <1>1, MakerHolds, MakerOnTop DEF Making, Creating
<1>6. On(live', stack') = On(live, stack)
  <2>1. \A b \in live, i \in 1..n : Hides(stack[i], b) <=> Hides(stack'[i], b)
    BY <1>1, <1>2, <1>3, <1>4 DEF Hides, Making, Loose
  <2> QED
    BY <1>1, <1>4, <2>1 DEF On
<1>7. \A b \in Cells : /\ Succ(mem, stack)[b] = mem[b].next
                       /\ Succ(mem', stack')[b] = Succ(mem, stack)[b]
                       /\ Pred(mem', stack')[b] = Pred(mem, stack)[b]
  <2>1. \A b \in Cells : Back(mem', stack')[b] = Back(mem, stack)[b]
    BY <1>1, <1>4, SameBack
  <2> QED
    BY <1>1, <1>4, <2>1, NothingToLink
<1>8. Sorted'
  <2>1. On(live, stack) \subseteq Cells
    BY <1>1 DEF On
  <2> QED
    BY <1>1, <1>5, <1>6, <1>7, <2>1, SameOrder DEF Sorted
<1>9. LinkOK'
  BY <1>4 DEF LinkOK
<1>10. PICK k \in Nat : k = n
  BY <1>4
<1>11. PlaceOK(n) /\ MakerOK(n)
  BY <1>1, <1>4, <1>5 DEF ListInv, FramesFit, FrameFits
<1>12. /\ Top.prev = ListHead => Top.wid = 0 /\ Top.cur = Cli
       /\ Top.cur = NULL \/ Top.cur \in On(live, stack)
       /\ Top.prev \in On(live, stack) \ {ListHead} =>
            mem[Top.prev].wid + 1 = Top.wid /\ Top.cur = mem[Top.prev].next
       /\ Top.prev \in On(live, stack) \/ Gone(live, stack, Top.prev, n)
       /\ Top.cur # ListHead
  <2>1. Top.cur \in Successors
    BY <1>1 DEF FrameShape
  <2>2. Top.cur # NULL => Top.cur \in live
    BY <1>1, <2>1 DEF Touches, Successors, Cells
  <2>3. \A x : Gone(live, stack, x, n) => x \notin live
    BY <1>4 DEF Gone
  <2> QED
    BY <1>1, <1>4, <1>11, <2>1, <2>2, <2>3, DistinctAssumption
    DEF PlaceOK, MakerOK, Creating, Making, Successors
<1>13. \A x : Gone(live, stack, x, n) => Gone(live', stack', x, n)
  BY <1>1, <1>4 DEF Gone
<1>14. MakerOK(k)'
  <2>1. \A j \in 1..Len(stack') : stack'[j].at \in Loose => stack'[j].wp # Top.new
    BY <1>3, <1>4, <1>5 DEF Loose
  <2>2. f.prev \in On(live, stack) \/ Gone(live', stack', f.prev, n)
    BY <1>2, <1>12, <1>13
  <2>3. f.at = "insert" => f.prev # ListHead
    BY <1>1, <1>2, <1>5, <1>12, DistinctAssumption DEF ListInv, EndsOK
  <2> QED
    BY <1>1, <1>2, <1>3, <1>4, <1>5, <1>6, <1>10, <2>1, <2>2, <2>3 DEF MakerOK, Creating, Making
<1>15. PlaceOK(k)'
  <2>1. CASE f.at = "insert"
    <3>5. f.prev = Top.prev /\ f.wid = Top.wid /\ stack'[k] = f
      BY <1>2, <1>4, <1>10, <2>1
    <3>1. SUFFICES ASSUME Top.prev \in On(live, stack)
                   PROVE  /\ mem[Top.prev].wid < Top.wid
                          /\ \A b \in On(live, stack) : Less(mem, Top.prev, b) => Top.wid < mem[b].wid
      BY <1>1, <1>6, <2>1, <3>5 DEF PlaceOK, Making, Gap
    <3>2. Top.prev # ListHead /\ (Top.cur = NULL \/ mem[Top.cur].wid # Top.wid)
      BY <1>1, <1>2, <1>5, <1>12, <2>1, DistinctAssumption DEF ListInv, EndsOK
    <3>3. mem[Top.prev].wid \in Nat /\ Top.wid = mem[Top.prev].wid + 1 /\ Top.cur = mem[Top.prev].next
      BY <1>1, <1>12, <3>1, <3>2 DEF CellShape, On
    <3>4. ASSUME NEW b \in On(live, stack), Less(mem, Top.prev, b) PROVE Top.wid < mem[b].wid
      <4>1. Top.cur # NULL /\ ~Less(mem, b, Top.cur) /\ Less(mem, Top.prev, Top.cur)
        BY <1>1, <1>5, <1>7, <3>1, <3>3, <3>4 DEF Sorted, InOrder, On
      <4>2. b # ListHead /\ mem[b].wid \in Nat /\ mem[Top.cur].wid \in Nat
        BY <1>1, <1>12, <3>4, <4>1 DEF Less, CellShape, On
      <4> QED
        BY <1>12, <3>2, <3>3, <4>1, <4>2 DEF Less
    <3> QED
      BY <3>3, <3>4
  <2>2. CASE f.at = "scan"
    <3>1. Top.cur \in On(live, stack) /\ f.prev = Top.cur /\ f.cur = mem[Top.cur].next
      BY <1>2, <1>12, <2>2
    <3>2. f.cur = NULL \/ f.cur \in On(live, stack)
      BY <1>1, <1>5, <1>7, <3>1 DEF Sorted, InOrder, On
    <3>3. f.wid = mem[f.prev].wid + 1
      BY <1>2, <2>2
    <3> QED
      BY <1>1, <1>4, <1>6, <1>10, <1>12, <2>2, <3>1, <3>2, <3>3 DEF PlaceOK, Making
  <2> QED
    BY <1>3, <2>1, <2>2
<1> QED
  <2>1. mem'[f.new].next # Cli /\ mem'[f.new].pid = Unset /\ mem'[Cli].prev = mem[Cli].prev
    BY <1>1, <1>2, <1>5, Shapes, DistinctAssumption DEF ListInv, EndsOK, Cells
  <2>2. /\ f.at \in Making /\ f.new = Top.new /\ live' = live \cup {f.new}
        /\ f.new \in Watchers \ On(live, stack)
    BY <1>1, <1>2, <1>3, <1>5 DEF Making
  <2> QED
    BY <1>1, <1>2, <1>5, <1>8, <1>9, <1>10, <1>14, <1>15, <2>1, <2>2, MakingKeeps

\* The frame, the stack and the list around a step of newWatcher() that keeps its
\* WATCHER hidden.
LEMMA MakerGoesOn ==
  ASSUME WatchersInv, ~torn, Top.at \in Making, NEW f, Becomes(f), f.at \in Making,
         f.new = Top.new, live' = live, Touches(Top) \subseteq live
  PROVE  /\ On(live', stack') = On(live, stack)
         /\ \A x : Gone(live, stack, x, Len(stack)) => Gone(live', stack', x, Len(stack))
         /\ \A j \in 1..Len(stack') : stack'[j].at \in Loose => stack'[j].wp # Top.new
<1> DEFINE n == Len(stack)
<1>1. /\ n \in Nat \ {0} /\ Top = stack[n] /\ Len(stack') = n /\ stack'[n] = f
      /\ \A i \in 1..n : i = n \/ (i \in 1..n - 1 /\ stack'[i] = stack[i])
  BY MakerMoves DEF Making, Creating
<1>2. \A b \in live, i \in 1..n : Hides(stack[i], b) <=> Hides(stack'[i], b)
  BY <1>1 DEF Hides, Making, Loose
<1>3. On(live', stack') = On(live, stack)
  BY <1>1, <1>2 DEF On
<1>4. \A x : Gone(live, stack, x, n) => Gone(live', stack', x, n)
  BY <1>1 DEF Gone
<1>5. \A i \in 1..Len(stack) : stack[i].at \in Loose => stack[i].wp # Top.new
  BY MakerHolds
<1>6. f.at \notin Loose
  BY DEF Making, Loose
<1>7. \A j \in 1..n : stack'[j].at \in Loose => stack'[j].wp # Top.new
  BY <1>1, <1>5, <1>6
<1> QED
  BY <1>1, <1>3, <1>4, <1>7

\* The new WATCHER points into the list.
LEMMA InsertKeepsList ==
  ASSUME WatchersInv, TickerInv', ~torn, StartInsert
  PROVE  ListInv'
<1> DEFINE n == Len(stack)
<1>1. /\ Top \in FrameShape /\ ListInv /\ TickerInv /\ UNCHANGED <<status, child, told, live>>
      /\ Top.at = "insert" /\ status = "running" /\ Touches(Top) \subseteq live
      /\ mem \in [Cells -> CellShape] /\ live \subseteq Cells
  BY TopIsOK, Shapes DEF WatchersInv, StartInsert, At, world
<1>2. PICK f : /\ Becomes(f) /\ f.new = Top.new /\ f.at = "backlink" /\ f.prev = Top.prev
               /\ f.wid = Top.wid /\ f.cur = Top.cur
  <2>1. PICK f : Becomes(f) /\ f = [Top EXCEPT !.at = "backlink"]
    BY DEF StartInsert
  <2> QED
    BY <1>1, <2>1 DEF FrameShape
<1>3. /\ n \in Nat \ {0} /\ Top = stack[n] /\ Len(stack') = n /\ stack'[n] = f
      /\ \A i \in 1..n : i = n \/ (i \in 1..n - 1 /\ stack'[i] = stack[i])
      /\ Linkers(stack) = {} /\ Linkers(stack') = {} /\ Cutters(stack') = Cutters(stack)
      /\ \A i \in Cutters(stack) : i \in 1..n - 1 /\ stack'[i] = stack[i]
  BY <1>1, <1>2, MakerMoves DEF Creating
<1>4. /\ Top.new \in live \cap Watchers /\ Top.new \notin On(live, stack)
      /\ \A i \in 1..n : stack[i].at \in Loose => stack[i].wp # Top.new
      /\ mem[Top.new].pid = Unset /\ Cli \in live /\ Sorted
      /\ Top.prev \in On(live, stack) \ {ListHead} /\ Gap(Top.prev, Top.wid)
      /\ Top.prev \in Cells /\ Top.prev # Top.new
  BY <1>1, MakerHolds, MakerOnTop DEF Making, Creating
<1>5. /\ mem'[Top.new].prev = Top.prev /\ mem'[Top.new].next = mem[Top.prev].next
      /\ mem'[Top.new].pid = mem[Top.new].pid
      /\ \A b \in Cells : b # Top.new => mem'[b] = mem[b]
  <2>1. mem' = [mem EXCEPT ![Top.new].prev = Top.prev, ![Top.new].next = mem[Top.prev].next]
    BY DEF StartInsert
  <2>2. mem[Top.new] \in CellShape /\ Top.new \in Cells
    BY <1>1, <1>4
  <2> QED
    BY <1>1, <2>1, <2>2 DEF CellShape
<1>6. On(live', stack') = On(live, stack)
  BY <1>1, <1>2, MakerGoesOn DEF Making
<1>7. \A b \in On(live, stack) : b \in Cells /\ mem'[b] = mem[b]
  BY <1>1, <1>4, <1>5 DEF On
<1>8. Sorted'
  <2>1. \A i \in Cutters(stack) : /\ stack'[i].wp = stack[i].wp
                                  /\ mem'[stack[i].wp].next = mem[stack[i].wp].next
                                  /\ mem'[stack[i].wp].prev = mem[stack[i].wp].prev
    <3>1. \A i \in Cutters(stack) : i \in 1..n /\ stack[i].wp \in Cells /\ stack[i].wp # Top.new
      BY <1>1, <1>4, DroppedAreLive DEF Cutters, Dropping, Loose
    <3> QED
      BY <1>3, <1>5, <3>1
  <2>2. \A b \in Cells : mem'[b].prev = mem[b].prev =>
          Back(mem', stack')[b] = Back(mem, stack)[b]
    BY <1>3, <2>1, SameBack, SMTT(30)
  <2>3. \A b \in Cells : /\ Succ(mem, stack)[b] = mem[b].next
                         /\ Succ(mem', stack')[b] = mem'[b].next
                         /\ Pred(mem, stack)[b] = Back(mem, stack)[b]
                         /\ Pred(mem', stack')[b] = Back(mem', stack')[b]
    BY <1>3, NothingToLink
  <2>4. \A b \in On(live, stack) : /\ Succ(mem', stack')[b] = Succ(mem, stack)[b]
                                   /\ Pred(mem', stack')[b] = Pred(mem, stack)[b]
    BY <1>7, <2>2, <2>3
  <2> QED
    BY <1>4, <1>6, <1>7, <2>4, SameOrder DEF Sorted
<1>9. LinkOK'
  BY <1>3 DEF LinkOK
<1>10. PICK k \in Nat : k = n
  BY <1>3
<1>11. MakerOK(k)'
  <2>1. \A j \in 1..Len(stack') : stack'[j].at \in Loose => stack'[j].wp # Top.new
    BY <1>1, <1>2, MakerGoesOn DEF Making
  <2> QED
    BY <1>1, <1>2, <1>3, <1>4, <1>5, <1>6, <1>10, <2>1 DEF MakerOK, Creating, Making
<1>12. PlaceOK(k)'
  <2>1. /\ mem'[Top.prev].wid < Top.wid
        /\ \A b \in On(live', stack') : Less(mem', Top.prev, b) => Top.wid < mem'[b].wid
    BY <1>4, <1>6, <1>7 DEF Gap, Less
  <2> QED
    BY <1>2, <1>3, <1>4, <1>5, <1>7, <1>10, <2>1 DEF PlaceOK, Making, Gap
<1> QED
  <2>1. mem'[f.new].next # Cli /\ mem'[f.new].pid = Unset /\ mem'[Cli].prev = mem[Cli].prev
    <3>1. mem[Top.prev].next # Cli
      BY <1>1, <1>4 DEF ListInv, EndsOK
    <3>2. Cli # Top.new /\ Cli \in Cells
      BY <1>4, DistinctAssumption DEF Cells
    <3> QED
      BY <1>2, <1>4, <1>5, <3>1, <3>2
  <2>2. /\ f.at \in Making /\ f.new = Top.new /\ live' = live \cup {f.new}
        /\ f.new \in Watchers \ On(live, stack)
        /\ \A b \in Cells \ {f.new} : mem'[b] = mem[b]
    BY <1>1, <1>2, <1>4, <1>5 DEF Making
  <2> QED
    BY <1>1, <1>2, <1>4, <1>8, <1>9, <1>10, <1>11, <1>12, <2>1, <2>2, MakingKeeps

\* Its successor points back to it; the SIGCHLD handler that was interrupted is not about
\* to write there.
LEMMA BacklinkKeepsList ==
  ASSUME WatchersInv, TickerInv', ~torn', StartBacklink
  PROVE  ListInv'
<1> DEFINE n == Len(stack)
<1> DEFINE N == Top.new
<1> DEFINE P == Top.prev
<1> DEFINE s == mem[P].next
<1>1. /\ Top \in FrameShape /\ ListInv /\ TickerInv /\ UNCHANGED <<status, child, told, live>>
      /\ Top.at = "backlink" /\ status = "running" /\ Touches(Top) \subseteq live
      /\ mem \in [Cells -> CellShape] /\ live \subseteq Cells /\ ~torn
  BY TopIsOK, Shapes DEF WatchersInv, StartBacklink, At, world
<1>2. PICK f : /\ Becomes(f) /\ f.new = N /\ f.at = "link" /\ f.prev = P
               /\ f.wid = Top.wid /\ f.cur = Top.cur
  <2>1. PICK f : Becomes(f) /\ f = [Top EXCEPT !.at = "link"]
    BY DEF StartBacklink
  <2> QED
    BY <1>1, <2>1 DEF FrameShape
<1>3. /\ n \in Nat \ {0} /\ Top = stack[n] /\ Len(stack') = n /\ stack'[n] = f
      /\ \A i \in 1..n : i = n \/ (i \in 1..n - 1 /\ stack'[i] = stack[i])
      /\ Linkers(stack) = {} /\ Linkers(stack') = {n} /\ Cutters(stack') = Cutters(stack)
      /\ \A i \in Cutters(stack) : i \in 1..n - 1 /\ stack'[i] = stack[i]
  BY <1>1, <1>2, MakerMoves DEF Creating
<1>4. /\ N \in live \cap Watchers /\ N \notin On(live, stack)
      /\ \A i \in 1..n : stack[i].at \in Loose => stack[i].wp # N
      /\ mem[N].pid = Unset /\ Cli \in live /\ Sorted
      /\ P \in On(live, stack) \ {ListHead} /\ Gap(P, Top.wid)
      /\ P \in Cells /\ P # N /\ mem[N].prev = P /\ mem[N].next = s
  BY <1>1, MakerHolds, MakerOnTop DEF Making, Creating
<1>5. /\ \A b \in Cells : Succ(mem, stack)[b] = mem[b].next
      /\ \A b \in Cells : Pred(mem, stack)[b] = Back(mem, stack)[b]
  <2>1. Linkers(stack) = {}
    BY <1>3
  <2> QED
    BY <2>1, NothingToLink
<1>6. /\ s = NULL \/ s \in On(live, stack) \ {ListHead}
      /\ s # NULL => Pred(mem, stack)[s] = P
      /\ s # N /\ s # Cli
  <2>1. Succ(mem, stack)[P] = s
    BY <1>4, <1>5
  <2>2. N # NULL
    BY <1>4, DistinctAssumption
  <2> QED
    BY <1>1, <1>4, <2>1, <2>2 DEF Sorted, InOrder, Less, ListInv, EndsOK
<1>7. /\ \A b \in Cells : /\ mem'[b].next = mem[b].next /\ mem'[b].wid = mem[b].wid
                          /\ mem'[b].pid = mem[b].pid
                          /\ mem'[b].prev = IF b = s THEN N ELSE mem[b].prev
  <2>1. mem' = IF s = NULL THEN mem ELSE [mem EXCEPT ![s].prev = N]
    BY DEF StartBacklink, Backlinked
  <2>2. NULL \notin Cells
    BY DistinctAssumption DEF Cells
  <2>3. \A b \in Cells : mem[b] \in CellShape
    BY <1>1
  <2> QED
    BY <1>1, <2>1, <2>2, <2>3 DEF CellShape
<1>8. \A i \in Cutters(stack) : /\ stack'[i].wp = stack[i].wp
                                /\ mem[stack[i].wp].next # s \/ s = NULL
                                /\ mem'[stack[i].wp].next = mem[stack[i].wp].next
                                /\ mem'[stack[i].wp].prev = mem[stack[i].wp].prev
  <2> SUFFICES ASSUME NEW i \in Cutters(stack)
               PROVE  /\ stack'[i].wp = stack[i].wp
                      /\ mem[stack[i].wp].next # s \/ s = NULL
                      /\ mem'[stack[i].wp].next = mem[stack[i].wp].next
                      /\ mem'[stack[i].wp].prev = mem[stack[i].wp].prev
    OBVIOUS
  <2>1. /\ i \in 1..n /\ i \in 1..n - 1 /\ stack[i].at = "unlinkNext"
    BY <1>3 DEF Cutters
  <2>2. stack[i].wp \in Cells /\ stack[i].wp # s
    BY <1>1, <1>6, <2>1, DroppedAreLive, DistinctAssumption DEF Dropping, Loose, Cells
  <2>3. mem[stack[i].wp].next # s \/ s = NULL
    <3>1. i \in DOMAIN Below /\ Below[i] = stack[i]
      BY <1>1, <2>1, TopOfStack, TopIsOK
    <3> QED
      BY <2>1, <3>1 DEF StartBacklink
  <2> QED
    BY <1>3, <1>7, <2>2, <2>3
<1>9. \A b \in Cells : Back(mem', stack')[b] = IF b = s THEN N ELSE Back(mem, stack)[b]
  <2>1. \A b \in Cells : b # s => Back(mem', stack')[b] = Back(mem, stack)[b]
    <3>1. \A b \in Cells : mem'[b].prev = mem[b].prev =>
            Back(mem', stack')[b] = Back(mem, stack)[b]
      BY <1>3, <1>8, SameBack
    <3> QED
      BY <1>7, <3>1
  <2>2. s \in Cells => Back(mem', stack')[s] = N
    <3>1. \A i, j \in Cutters(stack') : i = j
      BY <1>1, <1>3, OneWriterEach DEF WatchersInv
    <3>2. s \in Cells => s # NULL
      BY DistinctAssumption DEF Cells
    <3>3. s \in Cells => \A i \in Cutters(stack') : mem'[stack'[i].wp].next # s
      BY <1>3, <1>8, <3>2
    <3> QED
      BY <1>7, <3>1, <3>3, BackIs
  <2> QED
    BY <2>1, <2>2
<1>10. /\ \A a \in Cells : Succ(mem', stack')[a] = mem[a].next
       /\ \A b \in Cells : Pred(mem', stack')[b] =
            IF Back(mem', stack')[b] = N THEN P ELSE Back(mem', stack')[b]
  <2>1. \A i, j \in Linkers(stack') : i = j
    BY <1>3
  <2>2. \A i \in Linkers(stack') : stack'[i].prev = P /\ stack'[i].new = N
    BY <1>2, <1>3
  <2>3. /\ Succ(mem', stack')[P] = mem'[N].next
        /\ \A a \in Cells : a # P => Succ(mem', stack')[a] = mem'[a].next
    BY <1>3, <1>4, <2>1, <2>2, SuccIs
  <2>4. \A b \in Cells :
           /\ N = Back(mem', stack')[b] => Pred(mem', stack')[b] = P
           /\ N # Back(mem', stack')[b] => Pred(mem', stack')[b] = Back(mem', stack')[b]
    BY <1>3, <2>1, <2>2, PredIs
  <2>5. N \in Cells
    BY <1>1, <1>4
  <2> QED
    BY <1>4, <1>7, <2>3, <2>4, <2>5
<1> HIDE DEF s, N, P, n
<1>11. On(live', stack') = On(live, stack)
  BY <1>1, <1>2, MakerGoesOn DEF Making, N
<1>12. \A b \in On(live, stack) : b \in Cells
  BY <1>1 DEF On
<1>13. Sorted'
  <2>1. \A b \in On(live, stack) \ {ListHead} : Pred(mem', stack')[b] = Pred(mem, stack)[b]
    <3> SUFFICES ASSUME NEW b \in On(live, stack) \ {ListHead}
                 PROVE  Pred(mem', stack')[b] = Pred(mem, stack)[b]
      OBVIOUS
    <3>1. CASE b = s
      <4>1. b \in Cells /\ s # NULL
        BY <1>12, <3>1, DistinctAssumption DEF Cells
      <4> QED
        BY <1>6, <1>9, <1>10, <3>1, <4>1
    <3>2. CASE b # s
      <4>1. Pred(mem, stack)[b] = Back(mem, stack)[b] /\ Pred(mem, stack)[b] \in On(live, stack)
        BY <1>4, <1>5, <1>12 DEF Sorted, InOrder
      <4> QED
        BY <1>4, <1>9, <1>10, <1>12, <3>2, <4>1
    <3> QED
      BY <3>1, <3>2
  <2>2. \A a \in On(live, stack) : Succ(mem', stack')[a] = Succ(mem, stack)[a]
    BY <1>5, <1>10, <1>12
  <2> QED
    BY <1>4, <1>7, <1>11, <1>12, <2>1, <2>2, SameOrder DEF Sorted
<1>14. LinkOK'
  <2>1. /\ stack'[n].prev = P /\ stack'[n].new = N /\ N \in Cells
        /\ mem'[N].prev = P /\ mem'[N].next = s /\ mem'[P].next = s
    BY <1>1, <1>2, <1>3, <1>4, <1>6, <1>7 DEF s
  <2>2. s # NULL => s \in Cells
    BY <1>6, <1>12
  <2>3. s # NULL => Back(mem', stack')[s] = N
    BY <1>9, <2>2
  <2> QED
    BY <1>3, <2>1, <2>3 DEF LinkOK, LinkAt
<1>15. PICK k \in Nat : k = n
  BY <1>3
<1>16. MakerOK(k)'
  <2>1. \A j \in 1..Len(stack') : stack'[j].at \in Loose => stack'[j].wp # N
    BY <1>1, <1>2, MakerGoesOn DEF Making, N
  <2>2. mem'[N].pid = Unset
    BY <1>1, <1>4, <1>7
  <2> QED
    BY <1>1, <1>2, <1>3, <1>4, <1>11, <1>15, <2>1, <2>2 DEF MakerOK, Creating, Making
<1>17. PlaceOK(k)'
  <2>1. /\ mem'[P].wid < Top.wid
        /\ \A b \in On(live', stack') : Less(mem', P, b) => Top.wid < mem'[b].wid
    BY <1>4, <1>7, <1>11, <1>12 DEF Gap, Less
  <2> QED
    BY <1>2, <1>3, <1>15, <2>1 DEF PlaceOK, Making, Gap
<1> QED
  <2>1. mem'[N].next # Cli /\ mem'[N].pid = Unset /\ mem'[Cli].prev = mem[Cli].prev
    BY <1>1, <1>4, <1>6, <1>7
  <2>2. /\ f.at \in Making /\ f.new = Top.new /\ live' = live \cup {f.new} /\ f.new = N
        /\ f.new \in Watchers \ On(live, stack) /\ k = Len(stack)
        /\ \A i \in 1..Len(stack) : stack[i].at \in Loose => stack[i].wp # f.new
    BY <1>1, <1>2, <1>4, <1>15 DEF Making, N, n
  <2> QED
    BY <1>1, <1>2, <1>7, <1>13, <1>14, <1>15, <1>16, <1>17, <2>1, <2>2, MakingKeeps

\* The last write of newWatcher() puts its WATCHER into the list.
LEMMA LinkKeepsList ==
  ASSUME WatchersInv, TickerInv', ~torn, StartLink
  PROVE  ListInv'
<1> DEFINE n == Len(stack)
<1> DEFINE N == Top.new
<1> DEFINE P == Top.prev
<1> DEFINE s == mem[N].next
<1>1. /\ Top \in FrameShape /\ ListInv /\ TickerInv /\ UNCHANGED <<status, child, told, live>>
      /\ Top.at = "link" /\ status = "running" /\ Touches(Top) \subseteq live
      /\ mem \in [Cells -> CellShape] /\ live \subseteq Cells
  BY TopIsOK, Shapes DEF WatchersInv, StartLink, At, world
<1>2. PICK f : Becomes(f) /\ f.new = N /\ f.at = "fork"
  <2>1. PICK f : Becomes(f) /\ f = [Top EXCEPT !.at = "fork"]
    BY DEF StartLink
  <2> QED
    BY <1>1, <2>1 DEF FrameShape
<1>3. /\ n \in Nat \ {0} /\ Top = stack[n] /\ Len(stack') = n /\ stack'[n] = f
      /\ \A i \in 1..n : i = n \/ (i \in 1..n - 1 /\ stack'[i] = stack[i])
      /\ \A i \in 1..n - 1 : stack[i].at \notin Commanding
      /\ Linkers(stack) = {n} /\ Linkers(stack') = {} /\ Cutters(stack') = Cutters(stack)
      /\ \A i \in Cutters(stack) : i \in 1..n - 1 /\ stack'[i] = stack[i]
  BY <1>1, <1>2, MakerMoves DEF Creating
<1>4. /\ N \in live \cap Watchers /\ N \notin On(live, stack) /\ N \in Cells
      /\ \A i \in 1..n : stack[i].at \in Loose => stack[i].wp # N
      /\ mem[N].pid = Unset /\ Cli \in live /\ Sorted /\ LinkOK
      /\ P \in On(live, stack) \ {ListHead} /\ Gap(P, Top.wid)
      /\ P \in Cells /\ P # N /\ Trail(live, stack) = On(live, stack)
  BY <1>1, MakerHolds, MakerOnTop DEF Making, Creating
<1>5. /\ mem[N].prev = P /\ (s # NULL => Back(mem, stack)[s] = N)
  <2>1. LinkAt(n) /\ stack[n].prev \in On(live, stack)
    BY <1>3, <1>4 DEF LinkOK
  <2> QED
    BY <1>3, <2>1 DEF LinkAt
<1>6. /\ \A i \in Linkers(stack) : stack[i].prev = P /\ stack[i].new = N
      /\ \A i, j \in Linkers(stack) : i = j
      /\ Linkers(stack) # {}
  BY <1>3
<1>7. /\ Succ(mem, stack)[P] = s
      /\ \A a \in Cells : a # P => Succ(mem, stack)[a] = mem[a].next
      /\ \A b \in Cells : Pred(mem, stack)[b] =
            IF Back(mem, stack)[b] = N THEN P ELSE Back(mem, stack)[b]
  <2>1. /\ Succ(mem, stack)[P] = s
        /\ \A a \in Cells : a # P => Succ(mem, stack)[a] = mem[a].next
    BY <1>4, <1>6, SuccIs
  <2>2. \A b \in Cells :
           /\ N = Back(mem, stack)[b] => Pred(mem, stack)[b] = P
           /\ N # Back(mem, stack)[b] => Pred(mem, stack)[b] = Back(mem, stack)[b]
    BY <1>6, PredIs
  <2> QED
    BY <2>1, <2>2
<1>8. /\ mem'[P].next = N /\ mem'[N].wid = Top.wid
      /\ \A b \in Cells : /\ b # P => mem'[b].next = mem[b].next
                          /\ b # N => mem'[b].wid = mem[b].wid
                          /\ mem'[b].pid = mem[b].pid /\ mem'[b].prev = mem[b].prev
  <2>1. mem' = [mem EXCEPT ![P].next = N, ![N].wid = Top.wid]
    BY DEF StartLink
  <2>2. \A b \in Cells : mem[b] \in CellShape
    BY <1>1
  <2> QED
    BY <1>1, <1>4, <2>1, <2>2 DEF CellShape
<1> HIDE DEF s, N, P, n
<1>9. s = NULL \/ s \in On(live, stack) \ {ListHead}
  BY <1>4, <1>7 DEF Sorted, InOrder, Less
<1>10. \A b \in On(live, stack) : b \in Cells /\ b # N
  BY <1>1, <1>4 DEF On
<1>11. /\ On(live', stack') = On(live, stack) \cup {N}
       /\ Trail(live', stack') = On(live', stack')
  <2>1. ASSUME NEW b \in live, NEW i \in 1..n
        PROVE  /\ b # N => (Hides(stack[i], b) <=> Hides(stack'[i], b))
               /\ ~Hides(stack'[i], N)
    <3>1. CASE i = n
      BY <1>1, <1>2, <1>3, <3>1 DEF Hides, Making, Loose, N
    <3>2. CASE i # n
      <4>1. stack'[i] = stack[i] /\ stack[i].at \notin Making
        BY <1>3, <3>2 DEF Commanding, Creating, Making
      <4> QED
        BY <1>4, <4>1 DEF Hides
    <3> QED
      BY <3>1, <3>2
  <2>2. On(live', stack') = On(live, stack) \cup {N}
    BY <1>1, <1>3, <1>4, <2>1 DEF On, n
  <2>3. \A i \in 1..n : stack'[i].at # "link"
    BY <1>3 DEF Linkers
  <2> QED
    BY <1>3, <2>2, <2>3 DEF Trail
<1>12. /\ \A i \in Cutters(stack) : /\ stack'[i].wp = stack[i].wp
                                    /\ mem'[stack[i].wp].next = mem[stack[i].wp].next
                                    /\ mem'[stack[i].wp].prev = mem[stack[i].wp].prev
                                    /\ mem[stack[i].wp].next # N
  <2> SUFFICES ASSUME NEW i \in Cutters(stack)
               PROVE  /\ stack'[i].wp = stack[i].wp
                      /\ mem'[stack[i].wp].next = mem[stack[i].wp].next
                      /\ mem'[stack[i].wp].prev = mem[stack[i].wp].prev
                      /\ mem[stack[i].wp].next # N
    OBVIOUS
  <2>1. i \in 1..Len(stack) /\ stack[i].at = "unlinkNext" /\ i < n
    BY <1>3 DEF Cutters, n
  <2>2. stack[i].wp \in Cells /\ stack[i].wp # P
    BY <1>1, <1>4, <2>1, DroppedAreLive DEF Dropping, Loose, Cells
  <2>3. ~Astray
    <3>1. \A j \in 1..Len(stack) : stack[j].at = "link" => j = n
      BY <1>3 DEF Linkers
    <3>2. n \in Nat /\ \A j \in 1..Len(stack) : ~(n < j)
      BY <1>3 DEF n
    <3> QED
      BY <3>1, <3>2 DEF Astray
  <2>4. mem[stack[i].wp].next \in On(live, stack) \cup {NULL}
    BY <1>1, <2>1, <2>3 DEF ListInv, FramesFit, FrameFits, ReaperOK
  <2>5. N # NULL
    BY <1>4, DistinctAssumption DEF Cells
  <2> QED
    BY <1>3, <1>4, <1>8, <2>2, <2>4, <2>5
<1>13. /\ \A a \in Cells : Succ(mem', stack')[a] = mem'[a].next
       /\ \A b \in Cells : Pred(mem', stack')[b] = Back(mem, stack)[b]
       /\ Pred(mem', stack')[N] = P
  <2>1. /\ \A a \in Cells : Succ(mem', stack')[a] = mem'[a].next
        /\ \A b \in Cells : Pred(mem', stack')[b] = Back(mem', stack')[b]
    <3>1. Linkers(stack') = {}
      BY <1>3
    <3> QED
      BY <3>1, NothingToLink
  <2>2. \A b \in Cells : Back(mem', stack')[b] = Back(mem, stack)[b]
    BY <1>3, <1>8, <1>12, SameBack
  <2>3. Back(mem, stack)[N] = P
    <3>1. \A i, j \in Cutters(stack) : i = j
      BY <1>1, OneWriterEach DEF WatchersInv
    <3> QED
      BY <1>4, <1>5, <1>12, <3>1, BackIs
  <2> QED
    BY <1>4, <2>1, <2>2, <2>3
<1>14. /\ mem[P].wid < Top.wid
       /\ \A b \in On(live, stack) : Less(mem, P, b) => Top.wid < mem[b].wid /\ b # ListHead
       /\ N # ListHead /\ Top.wid \in Nat
  BY <1>1, <1>4, DistinctAssumption DEF Gap, Less, FrameShape
<1>15. /\ Less(mem', P, N) /\ \A b \in On(live, stack) : Less(mem, P, b) => Less(mem', N, b)
       /\ \A a, b \in On(live, stack) : Less(mem', a, b) <=> Less(mem, a, b)
  BY <1>4, <1>8, <1>10, <1>14 DEF Less
<1>16. /\ Apart(On(live, stack), On(live, stack), mem) /\ Numbered(On(live, stack), mem)
  BY <1>1, <1>4, EndsAreOn
<1>17. Sorted'
  <2>1. \A b \in On(live, stack) \ {ListHead} :
          Pred(mem', stack')[b] = IF b = s THEN N ELSE Pred(mem, stack)[b]
    <3> SUFFICES ASSUME NEW b \in On(live, stack) \ {ListHead}
                 PROVE  Back(mem, stack)[b] = IF b = s THEN N ELSE Pred(mem, stack)[b]
      BY <1>10, <1>13
    <3>1. CASE b = s
      <4>1. s # NULL
        BY <1>10, <3>1, DistinctAssumption DEF Cells
      <4> QED
        BY <1>5, <3>1, <4>1
    <3>2. CASE b # s
      <4>1. Succ(mem, stack)[Pred(mem, stack)[b]] = b
        BY <1>4 DEF Sorted, InOrder
      <4> QED
        BY <1>7, <1>10, <3>2, <4>1
    <3> QED
      BY <3>1, <3>2
  <2>2. /\ Succ(mem', stack')[N] = s
        /\ \A a \in On(live, stack) : /\ Succ(mem', stack')[a] =
                                           IF a = P THEN N ELSE Succ(mem, stack)[a]
                                      /\ mem'[a].wid = mem[a].wid
    BY <1>4, <1>7, <1>8, <1>10, <1>13 DEF s
  <2>3. mem'[N].wid \in Nat /\ N \in Cells \ On(live, stack) /\ P \in On(live, stack)
    BY <1>4, <1>8, <1>14
  <2>4. InOrder(On(live, stack), Succ(mem, stack), Pred(mem, stack), mem)
    BY <1>4 DEF Sorted
  <2> QED
    BY <1>7, <1>11, <1>13, <1>15, <1>16, <2>1, <2>2, <2>3, <2>4, InsertIntoOrder DEF Sorted
<1>18. EndsOK'
  <2>1. N # Cli /\ N # ListHead
    BY <1>4, DistinctAssumption
  <2>2. mem'[N].wid > 0
    BY <1>1, <1>4, <1>8, <1>14 DEF CellShape
  <2>3. ListHead \in Cells /\ Cli \in Cells
    BY DEF Cells
  <2>4. \A w \in On(live', stack') \cap Watchers : mem'[w].wid > 0
    BY <1>1, <1>8, <1>10, <1>11, <2>2 DEF ListInv, EndsOK
  <2>5. \A a \in Cells : mem'[a].next = Cli => a = ListHead
    BY <1>1, <1>8, <2>1 DEF ListInv, EndsOK
  <2> QED
    BY <1>1, <1>4, <1>8, <2>1, <2>3, <2>4, <2>5 DEF ListInv, EndsOK
<1>19. ApartOK'
  <2>1. ASSUME NEW b \in On(live, stack) PROVE Less(mem', b, N) \/ Less(mem', N, b)
    <3>1. CASE b = P \/ Less(mem, P, b)
      BY <1>15, <3>1
    <3>2. CASE Less(mem, b, P)
      <4>1. mem[b].wid \in Nat /\ mem[P].wid \in Nat
        BY <1>4, <1>16 DEF Numbered
      <4> QED
        BY <1>4, <1>8, <1>10, <1>14, <3>2, <4>1 DEF Less
    <3> QED
      BY <1>4, <1>16, <3>1, <3>2 DEF Apart
  <2> QED
    BY <1>11, <1>15, <1>16, <2>1 DEF ApartOK, Apart
<1>20. ChainOK'
  <2> SUFFICES ASSUME NEW a \in On(live', stack') PROVE ChainAt(a)'
    BY <1>11 DEF ChainOK
  <2>1. a \in Cells
    BY <1>4, <1>10, <1>11
  <2>2. live' \subseteq Cells /\ NULL \notin live'
    BY <1>1, DistinctAssumption DEF Cells
  <2>3. /\ mem'[a].next = NULL \/ (mem'[a].next \in On(live', stack') /\ Less(mem', a, mem'[a].next))
        /\ \A w \in On(live', stack') :
             Less(mem', a, w) => mem'[a].next # NULL /\ ~Less(mem', w, mem'[a].next)
    BY <1>11, <1>13, <1>17, <2>2, SortedIsChain DEF Sorted
  <2> QED
    BY <1>11, <2>2, <2>3 DEF ChainAt
<1>21. OrderOK'
  BY <1>3, <1>17 DEF OrderOK, LinkOK
<1>22. FramesFit'
  <2>3. PICK k \in Nat : k = n
    BY <1>3
  <2>1. FrameFits(k)'
    <3>1. stack'[k] = f /\ mem'[N].pid = Unset /\ Cli \in live' /\ N \in On(live', stack')
      BY <1>1, <1>3, <1>4, <1>8, <1>11, <2>3
    <3>2. MakerOK(k)'
      BY <1>2, <3>1 DEF MakerOK, Creating, Making
    <3> QED
      BY <1>2, <3>1, <3>2
      DEF FrameFits, PlaceOK, ReaperOK, WalkOK, Making, Loose, Reaping, Dropping
  <2>2. ASSUME NEW i \in 1..n - 1 PROVE FrameFits(i)'
    <3>1. /\ ReaperOK(i) /\ WalkOK(i) /\ FrameOK(stack[i]) /\ stack[i] \in FrameShape
          /\ stack'[i] = stack[i] /\ stack[i].at \notin Commanding /\ i < n
          /\ i \in 1..n
      <4>1. i \in 1..n /\ i # n /\ i < n
        BY <1>3
      <4> QED
        BY <1>1, <1>3, <4>1, Shapes DEF ListInv, FramesFit, FrameFits, n
    <3>2. \A x : BeingMade(stack, x, i) => x = N
      BY <1>3 DEF BeingMade, Making, Commanding, Creating, n, N
    <3>3. On(live, stack) \subseteq On(live', stack') /\ N \in On(live', stack')
      BY <1>11
    <3>4. stack[i].at \in Reaping => stack[i].wp # Cli
      BY <3>1 DEF ReaperOK
    <3>5. stack[i].at = "reaping" => (stack[i].wp \in live' => stack[i].wp \in On(live', stack'))
      BY <1>1, <3>1, <3>2, <3>3 DEF ReaperOK
    <3>6. stack[i].at = "unlink" => stack[i].wp \in On(live', stack')
      BY <3>1, <3>3 DEF ReaperOK
    <3>7. stack[i].at \in Dropping \cup {"freed"} => stack[i].wp \in Cells
      BY <3>1 DEF FrameOK, FrameShape, Successors, Cells
    <3>8. stack[i].at \in Dropping =>
            mem'[stack[i].wp].pid = Unset \/ child'[mem'[stack[i].wp].pid] = "reaped"
      BY <1>1, <1>8, <3>1, <3>7 DEF ReaperOK
    <3>9. stack[i].at = "unlinkNext" => mem'[stack[i].wp].next \in On(live', stack') \cup {NULL}
      <4>1. ASSUME stack[i].at = "unlinkNext"
            PROVE  /\ stack[i].wp # P
                   /\ mem[stack[i].wp].next \in On(live, stack) \cup {NULL}
        <5>1. stack[i].wp # P
          BY <1>4, <3>1, <4>1, DroppedAreLive DEF Dropping, Loose, n
        <5>2. ~Astray
          <6>1. \A j \in 1..Len(stack) : stack[j].at = "link" => j = n
            BY <1>3 DEF Linkers
          <6>2. n \in Nat /\ \A j \in 1..Len(stack) : ~(n < j)
            BY <1>3 DEF n
          <6> QED
            BY <6>1, <6>2 DEF Astray
        <5> QED
          BY <3>1, <4>1, <5>1, <5>2 DEF ReaperOK
      <4> QED
        BY <1>8, <3>3, <3>7, <4>1 DEF Dropping
    <3>10. ASSUME stack[i].at \in Loose \cup {"freed"}, mem'[stack[i].wp].next \in live'
           PROVE  mem'[stack[i].wp].next \in On(live', stack')
      <4>1. stack[i].wp \in Cells
        BY <3>7, <3>10 DEF Loose, Dropping
      <4>2. CASE stack[i].wp = P
        BY <1>8, <3>3, <4>2
      <4>3. CASE stack[i].wp = N
        <5>1. mem'[N].next = s /\ s \in live
          BY <1>1, <1>4, <1>8, <3>10, <4>3 DEF s
        <5>2. s \in On(live, stack)
          BY <1>1, <1>9, <5>1, DistinctAssumption DEF Cells
        <5> QED
          BY <3>3, <4>3, <5>1, <5>2
      <4>4. CASE stack[i].wp \notin {P, N}
        <5>1. mem'[stack[i].wp].next = mem[stack[i].wp].next
          BY <1>8, <4>1, <4>4
        <5> QED
          BY <1>1, <3>1, <3>2, <3>3, <3>10, <4>4, <5>1 DEF ReaperOK
      <4> QED
        BY <4>2, <4>3, <4>4
    <3>11. ReaperOK(i)'
      BY <3>1, <3>4, <3>5, <3>6, <3>8, <3>9, <3>10 DEF ReaperOK
    <3> QED
      BY <1>1, <1>4, <3>1, <3>11, BelowAMaker
  <2> QED
    <3>1. \A i \in 1..Len(stack') : i = k \/ i \in 1..n - 1
      BY <1>3, <2>3
    <3> QED
      BY <2>1, <2>2, <3>1 DEF FramesFit
<1>23. Booked'
  <2>1. \A c : BeingStarted(c) => BeingStarted(c)'
    BY <1>1, <1>2, StartsGoOn DEF TickerInv
  <2> QED
    BY <1>1, <1>8, <1>10, <1>11, <2>1 DEF ListInv, Booked
<1>24. ExitOK'
  BY <1>1 DEF ExitOK
<1> QED
  BY <1>18, <1>19, <1>20, <1>21, <1>22, <1>23, <1>24 DEF ListInv

\* The pid is recorded, and the child is on the books of its WATCHER.
LEMMA SetPidKeepsList ==
  ASSUME WatchersInv, TickerInv', ~torn, StartSetPid
  PROVE  ListInv'
<1> DEFINE n == Len(stack)
<1> DEFINE N == Top.new
<1>1. /\ Top \in FrameShape /\ ListInv /\ TickerInv /\ UNCHANGED <<status, child, told, live>>
      /\ Top.at = "setpid" /\ status = "running" /\ Touches(Top) \subseteq live
      /\ mem \in [Cells -> CellShape] /\ live \subseteq Cells /\ FrameOK(Top)
  BY TopIsOK, Shapes DEF WatchersInv, StartSetPid, At, world
<1>2. PICK f : Becomes(f) /\ f.at = "subscribe"
  <2>1. PICK f : Becomes(f) /\ f = [Top EXCEPT !.at = "subscribe"]
    BY DEF StartSetPid
  <2> QED
    BY <1>1, <2>1 DEF FrameShape
<1>3. /\ n \in Nat \ {0} /\ Top = stack[n] /\ Len(stack') = n /\ stack'[n] = f
      /\ \A i \in 1..n : i = n \/ (i \in 1..n - 1 /\ stack'[i] = stack[i])
      /\ \A i \in 1..n - 1 : stack[i].at \notin Commanding
      /\ Linkers(stack) = {} /\ Linkers(stack') = {}
  BY <1>1, <1>2, MakerMoves DEF Creating
<1>4. Cli \in live /\ Sorted
  BY <1>1, MakerOnTop DEF Creating
<1>5. SameWork(stack, stack')
  BY <1>1, <1>2, <1>3 DEF SameWork, Working, Making, Loose
<1>6. /\ On(live, stack') = On(live, stack) /\ Trail(live, stack') = Trail(live, stack)
      /\ \A m : /\ Succ(m, stack') = Succ(m, stack) /\ Back(m, stack') = Back(m, stack)
               /\ Pred(m, stack') = Pred(m, stack)
      /\ \A i \in Int : \A x : BeingMade(stack', x, i) <=> BeingMade(stack, x, i)
  BY <1>5, SameWorkSameList
<1>7. N \in Watchers /\ N \in On(live, stack) /\ N \in Cells /\ mem[N].pid = Unset
  <2>1. N \in Watchers /\ N \in Cells
    BY <1>1 DEF FrameOK, Creating, Cells
  <2>2. N \in live
    BY <1>1, <2>1 DEF Touches
  <2>3. MakerOK(n)
    BY <1>1, <1>3 DEF ListInv, FramesFit, FrameFits
  <2>4. ~\E j \in 1..n : n < j
    BY <1>3
  <2> QED
    BY <1>1, <1>3, <2>1, <2>2, <2>3, <2>4 DEF MakerOK, Gone, Creating
<1>8. /\ mem'[N].pid = Top.pid
      /\ \A b \in Cells : /\ mem'[b].next = mem[b].next /\ mem'[b].prev = mem[b].prev
                          /\ mem'[b].wid = mem[b].wid
                          /\ b # N => mem'[b] = mem[b]
  <2>1. mem' = [mem EXCEPT ![N].pid = Top.pid]
    BY DEF StartSetPid
  <2>2. \A b \in Cells : mem[b] \in CellShape
    BY <1>1
  <2> QED
    BY <1>1, <1>7, <2>1, <2>2 DEF CellShape
<1> HIDE DEF N, n
<1>9. /\ \A i \in 1..Len(stack) : stack[i].at = "link" => FALSE
      /\ \A i \in Cutters(stack) : stack[i].wp \in Cells
  BY <1>1, <1>3, DroppedAreLive DEF Linkers, Cutters, Dropping
<1>10. /\ \A b \in Cells : Succ(mem', stack')[b] = Succ(mem, stack)[b]
       /\ \A b \in Cells : Pred(mem', stack')[b] = Pred(mem, stack)[b]
  <2>1. \A b \in Cells : Back(mem', stack')[b] = Back(mem, stack)[b]
    <3>1. \A b \in Cells : Back(mem', stack)[b] = Back(mem, stack)[b]
      BY <1>8, <1>9, SameBack
    <3> QED
      BY <1>6, <3>1
  <2>2. /\ \A b \in Cells : Succ(mem, stack)[b] = mem[b].next
        /\ \A b \in Cells : Pred(mem, stack)[b] = Back(mem, stack)[b]
    BY <1>3, NothingToLink
  <2>3. /\ \A b \in Cells : Succ(mem', stack')[b] = mem'[b].next
        /\ \A b \in Cells : Pred(mem', stack')[b] = Back(mem', stack')[b]
    <3>1. Linkers(stack') = {}
      BY <1>3
    <3> QED
      BY <3>1, NothingToLink
  <2> QED
    BY <1>8, <2>1, <2>2, <2>3
<1>11. \A b \in Trail(live, stack) : b \in Cells
  BY <1>1 DEF Trail, On
<1>12. \A b \in On(live, stack) : b \in Trail(live, stack)
  BY DEF Trail
<1>13. \A a, b \in Cells : Less(mem', a, b) <=> Less(mem, a, b)
  BY <1>8 DEF Less
<1>14. EndsOK'
  BY <1>1, <1>6, <1>7, <1>8, <1>11, <1>12, DistinctAssumption DEF ListInv, EndsOK, Cells
<1>15. ApartOK'
  BY <1>1, <1>6, <1>11, <1>12, <1>13 DEF ListInv, ApartOK, Apart
<1>16. ChainOK'
  <2> SUFFICES ASSUME NEW a \in Trail(live, stack) PROVE ChainAt(a)'
    BY <1>1, <1>6 DEF ChainOK
  <2>1. ChainAt(a) /\ a \in Cells /\ mem'[a].next = mem[a].next
    BY <1>1, <1>8, <1>11 DEF ListInv, ChainOK
  <2> QED
    BY <1>1, <1>6, <1>11, <1>12, <1>13, <2>1 DEF ChainAt
<1>17. OrderOK'
  <2>1. Sorted'
    BY <1>1, <1>4, <1>6, <1>8, <1>10, <1>11, <1>12, SameOrder DEF Sorted
  <2> QED
    BY <1>3, <2>1 DEF OrderOK, LinkOK
<1>18. FramesFit'
  <2>1. PICK k \in Nat : k = n
    BY <1>3
  <2>2. FrameFits(k)'
    BY <1>2, <1>3, <2>1, PlainFits DEF Creating, Reaping, Dropping
  <2>3. ASSUME NEW i \in 1..n - 1 PROVE FrameFits(i)'
    <3>1. /\ ReaperOK(i) /\ WalkOK(i) /\ FrameOK(stack[i]) /\ stack[i] \in FrameShape
          /\ stack'[i] = stack[i] /\ stack[i].at \notin Commanding /\ i < n
          /\ i \in 1..n
      <4>1. i \in 1..n /\ i # n /\ i < n
        BY <1>3
      <4> QED
        BY <1>1, <1>3, <4>1, Shapes DEF ListInv, FramesFit, FrameFits, n
    <3>2. ~Astray
      BY <1>9 DEF Astray
    <3>3. stack[i].at \in Dropping \cup {"freed"} => stack[i].wp \in Cells
      BY <3>1 DEF FrameOK, FrameShape, Successors, Cells
    <3>4. stack[i].at \in Dropping => stack[i].wp # N
      <4>1. ASSUME stack[i].at \in Dropping PROVE stack[n].new # stack[i].wp
        <5>1. stack[i].wp # Cli
          BY <3>1, <4>1 DEF ReaperOK, Reaping
        <5>2. n \in 1..Len(stack) /\ i \in 1..Len(stack)
          BY <1>3, <3>1 DEF n
        <5> QED
          BY <1>1, <3>1, <4>1, <5>1, <5>2 DEF TickerInv, DroppedAreDead
      <4> QED
        BY <1>3, <4>1 DEF N
    <3>5. ReaperOK(i)'
      <4>1. stack[i].at \in Dropping =>
              mem'[stack[i].wp].pid = Unset \/ child'[mem'[stack[i].wp].pid] = "reaped"
        BY <1>1, <1>8, <3>1, <3>3, <3>4 DEF ReaperOK
      <4> QED
        BY <1>1, <1>6, <1>8, <3>1, <3>2, <3>3, <4>1 DEF ReaperOK, Dropping, Loose
    <3> QED
      BY <1>1, <1>4, <3>1, <3>5, BelowAMaker
  <2> QED
    <3>1. \A i \in 1..Len(stack') : i = k \/ i \in 1..n - 1
      BY <1>3, <2>1
    <3> QED
      BY <2>2, <2>3, <3>1 DEF FramesFit
<1>19. Booked'
  <2> SUFFICES ASSUME NEW c \in Children, child[c] \in {"running", "zombie"}, ~BeingStarted(c)'
               PROVE  \E w \in On(live, stack) : mem'[w].pid = c
    BY <1>1, <1>6 DEF Booked
  <2>1. CASE c = Top.pid
    BY <1>7, <1>8, <2>1
  <2>2. CASE c # Top.pid
    <3>1. ~BeingStarted(c)
      <4>1. \A i \in 1..n : stack[i].at = "setpid" => i = n
        BY <1>3 DEF Commanding, Creating
      <4> QED
        BY <1>1, <1>3, <2>2, <4>1, StartedBy DEF TickerInv, n
    <3>2. PICK w \in On(live, stack) : mem[w].pid = c
      BY <1>1, <3>1 DEF ListInv, Booked
    <3>3. w # N
      BY <1>7, <3>2, DistinctAssumption
    <3> QED
      BY <1>8, <1>11, <1>12, <3>2, <3>3
  <2> QED
    BY <2>1, <2>2
<1>20. ExitOK'
  BY <1>1 DEF ExitOK
<1> QED
  BY <1>14, <1>15, <1>16, <1>17, <1>18, <1>19, <1>20 DEF ListInv

(***************************************************************************)
(* The removal of the CLI WATCHER, by quit and SIGINT.                     *)
(***************************************************************************)

\* While nobody is between the two writes of a removal, prev is what it says.
LEMMA NothingToCut ==
  ASSUME NEW s, Cutters(s) = {}, NEW m
  PROVE  \A b \in Cells : Back(m, s)[b] = m[b].prev
BY BackIs

\* The stack before and after a step of removeAllWatchers().
LEMMA RemoverMoves ==
  ASSUME ShapeOK, NEW f, Becomes(f), Top.at = "remove", f.at = "remove"
  PROVE  LET n == Len(stack) IN
           /\ n \in Nat \ {0} /\ Top = stack[n] /\ Len(stack') = n /\ stack'[n] = f
           /\ \A i \in 1..n : i = n \/ (i \in 1..n - 1 /\ stack'[i] = stack[i])
           /\ SameWork(stack, stack')
           /\ \A i \in 1..n - 1 : Buried(stack', i)
<1> DEFINE n == Len(stack)
<1>1. /\ n \in Nat \ {0} /\ Top = stack[n]
      /\ Len(stack') = n /\ stack'[n] = f /\ \A i \in 1..n - 1 : stack'[i] = stack[i]
  BY TopOfStack, TopBecomes
<1> HIDE DEF n
<1>2. \A i \in 1..n : i = n \/ i \in 1..n - 1
  BY <1>1
<1>3. SameWork(stack, stack')
  BY <1>1, <1>2 DEF SameWork, Working, Making, Loose, n
<1>4. \A i \in 1..n - 1 : Buried(stack', i)
  BY <1>1 DEF Buried, Ending
<1> QED
  BY <1>1, <1>2, <1>3, <1>4 DEF n

\* The list without its first WATCHER, unless the SIGCHLD handler is at work below; then
\* nobody will write the list again.
LEMMA RemoveCliKeepsList ==
  ASSUME WatchersInv, TickerInv', ~torn, RemoveCli
  PROVE  ListInv'
<1> DEFINE n == Len(stack)
<1> DEFINE s == mem[Cli].next
<1>1. /\ Top \in FrameShape /\ ListInv /\ TickerInv /\ UNCHANGED <<status, child, told>>
      /\ Top.at = "remove" /\ status = "running" /\ Touches(Top) \subseteq live /\ Top.wp = Cli
      /\ mem \in [Cells -> CellShape] /\ live \subseteq Cells
      /\ live' = live \ {Cli}
  BY TopIsOK, Shapes DEF WatchersInv, RemoveCli, At, world
<1>2. PICK f : Becomes(f) /\ f.at = "remove" /\ f.wp = s
  <2>1. PICK f : Becomes(f) /\ f = [Top EXCEPT !.wp = mem[Top.wp].next]
    BY DEF RemoveCli
  <2> QED
    BY <1>1, <2>1 DEF FrameShape
<1>3. /\ n \in Nat \ {0} /\ Top = stack[n] /\ Len(stack') = n /\ stack'[n] = f
      /\ \A i \in 1..n : i = n \/ (i \in 1..n - 1 /\ stack'[i] = stack[i])
      /\ SameWork(stack, stack') /\ \A i \in 1..n - 1 : Buried(stack', i)
  BY <1>1, <1>2, RemoverMoves DEF TickerInv
<1>4. /\ Cli \in live /\ ListHead \in live /\ mem[ListHead].next = Cli /\ mem[Cli].prev = ListHead
      /\ mem[Cli].wid = 0 /\ mem[Cli].pid = Unset /\ mem[ListHead].pid = Unset
      /\ \A a \in Cells : mem[a].next = Cli => a = ListHead
      /\ \A w \in On(live, stack) \cap Watchers : mem[w].wid > 0
      /\ Cli # ListHead /\ Cli \in Cells /\ ListHead \in Cells /\ NULL \notin Cells
  <2>1. Cli \in Touches(Top) /\ Cli \in Cells
    BY <1>1 DEF Touches, Cells
  <2> QED
    BY <1>1, <2>1, DistinctAssumption DEF ListInv, EndsOK, Cells
<1>5. s # Cli /\ s # ListHead /\ (s = NULL \/ s \in live)
  <2>1. s \in Successors
    BY <1>1, <1>4 DEF CellShape
  <2>2. s # Cli
    BY <1>4
  <2>3. s # ListHead
    BY <2>1, DistinctAssumption DEF Successors
  <2>4. s \in Cells => s \in Touches(Top)
    BY <1>1 DEF Touches
  <2> QED
    BY <1>1, <2>1, <2>2, <2>3, <2>4 DEF Successors, Cells
<1>6. \A a \in Cells :
        /\ mem'[a].wid = mem[a].wid /\ mem'[a].pid = mem[a].pid
        /\ mem'[a].next = IF a = ListHead THEN s ELSE mem[a].next
        /\ mem'[a].prev = IF a = s THEN ListHead ELSE mem[a].prev
  <2>1. \A a \in Cells : mem'[a] = [mem[a] EXCEPT !.next = IF a = ListHead THEN s ELSE @,
                                                  !.prev = IF a = s THEN ListHead ELSE @]
    BY <1>1, <1>4 DEF RemoveCli, Unlinked
  <2>2. ASSUME NEW a \in Cells
        PROVE  /\ mem'[a].wid = mem[a].wid /\ mem'[a].pid = mem[a].pid
               /\ mem'[a].next = IF a = ListHead THEN s ELSE mem[a].next
               /\ mem'[a].prev = IF a = s THEN ListHead ELSE mem[a].prev
    <3>1. PICK x, y : /\ x = (IF a = ListHead THEN s ELSE mem[a].next)
                      /\ y = (IF a = s THEN ListHead ELSE mem[a].prev)
      OBVIOUS
    <3>2. mem[a] \in CellShape
      BY <1>1
    <3>3. mem'[a] = [mem[a] EXCEPT !.next = x, !.prev = y]
      BY <2>1, <3>1
    <3>4. /\ mem'[a].wid = mem[a].wid /\ mem'[a].pid = mem[a].pid
          /\ mem'[a].next = x /\ mem'[a].prev = y
      BY <3>2, <3>3 DEF CellShape
    <3> QED
      BY <3>1, <3>4
  <2> QED
    BY <2>2
<1>7. /\ On(live, stack') = On(live, stack) /\ Trail(live, stack') = Trail(live, stack)
      /\ Linkers(stack') = Linkers(stack) /\ \A i \in Linkers(stack) : stack'[i] = stack[i]
      /\ \A m : /\ Succ(m, stack') = Succ(m, stack) /\ Back(m, stack') = Back(m, stack)
               /\ Pred(m, stack') = Pred(m, stack)
  BY <1>3, SameWorkSameList
<1>24. ASSUME NEW i \in Int, NEW x
       PROVE  /\ Gone(live, stack, x, i) => Gone(live', stack', x, i)
              /\ BeingMade(stack', x, i) <=> BeingMade(stack, x, i)
  <2>1. /\ \A j \in 1..Len(stack) :
             stack[j].at \in Making \cup Loose => j \in 1..Len(stack') /\ stack'[j] = stack[j]
        /\ \A j \in 1..Len(stack') :
             stack'[j].at \in Making \cup Loose => j \in 1..Len(stack) /\ stack'[j] = stack[j]
    BY <1>3 DEF SameWork, Working
  <2> QED
    BY <1>1, <2>1 DEF Gone, BeingMade
<1>8. /\ On(live', stack') = On(live, stack) \ {Cli}
      /\ Trail(live', stack') = Trail(live, stack) \ {Cli}
  <2>1. On(live', stack') = On(live, stack') \ {Cli}
    BY <1>1 DEF On
  <2>2. Trail(live', stack') = Trail(live, stack') \ {Cli}
    BY <1>1, <2>1 DEF Trail
  <2> QED
    BY <1>7, <2>1, <2>2
<1>9. /\ ListHead \in On(live, stack) /\ Cli \in On(live, stack)
      /\ On(live, stack) \subseteq Trail(live, stack) /\ Trail(live, stack) \subseteq Cells
      /\ Apart(On(live, stack), On(live, stack), mem) /\ Numbered(Trail(live, stack), mem)
  BY <1>1, <1>4, EndsAreOn DEF Numbered
<1> HIDE DEF s, n
<1>10. \A w \in On(live, stack) \ {Cli} : w # ListHead => Less(mem, Cli, w)
  BY <1>4, <1>9 DEF Less, Cells
<1>12. ChainAt(Cli) /\ ListHead # Cli
  BY <1>1, <1>4, <1>9 DEF ListInv, ChainOK
<1>13. EndsOK'
  <2>1. \A a \in Cells : mem'[a].next = Cli => a = ListHead
    BY <1>4, <1>6
  <2>2. \A w \in On(live', stack') \cap Watchers : mem'[w].wid > 0
    BY <1>4, <1>6, <1>8 DEF Cells
  <2> QED
    BY <1>1, <1>4, <1>6, <2>1, <2>2 DEF EndsOK
<1>14. \A a, b \in Cells : Less(mem', a, b) <=> Less(mem, a, b)
  BY <1>6 DEF Less
<1>15. ApartOK'
  BY <1>1, <1>8, <1>9, <1>14 DEF ListInv, ApartOK, Apart
<1>16. ChainOK'
  <2> SUFFICES ASSUME NEW a \in Trail(live, stack) \ {Cli} PROVE ChainAt(a)'
    BY <1>8 DEF ChainOK
  <2>1. a \in Cells
    BY <1>9
  <2>2. CASE a = ListHead
    <3>1. mem'[a].next = s
      BY <1>4, <1>6, <2>2
    <3>2. ASSUME s \in live
          PROVE  /\ s \in Trail(live, stack) \ {Cli} /\ Less(mem', ListHead, s)
                 /\ \A w \in On(live', stack') : Less(mem', ListHead, w) => ~Less(mem', w, s)
      <4>1. s \in Trail(live, stack) /\ \A w \in On(live, stack) : Less(mem, Cli, w) => ~Less(mem, w, s)
        BY <1>12, <3>2 DEF ChainAt, s
      <4>2. Less(mem', ListHead, s)
        BY <1>5 DEF Less
      <4>3. ASSUME NEW w \in On(live', stack'), Less(mem', ListHead, w) PROVE ~Less(mem', w, s)
        <5>1. w \in On(live, stack) \ {Cli} /\ w # ListHead
          BY <1>8, <4>3 DEF Less
        <5> QED
          BY <1>1, <1>9, <1>10, <1>14, <3>2, <4>1, <5>1
      <4> QED
        BY <1>5, <4>1, <4>2, <4>3
    <3>3. ASSUME s = NULL, NEW w \in On(live', stack') PROVE ~Less(mem', ListHead, w)
      <4>1. \A v \in On(live, stack) : ~Less(mem, Cli, v)
        BY <1>12, <3>3 DEF ChainAt, s
      <4> QED
        BY <1>8, <1>10, <4>1 DEF Less
    <3> QED
      BY <1>1, <1>8, <2>2, <3>1, <3>2, <3>3 DEF ChainAt
  <2>3. CASE a # ListHead
    <3>1. mem'[a].next = mem[a].next /\ mem[a].next # Cli /\ ChainAt(a)
      BY <1>1, <1>4, <1>6, <2>1, <2>3 DEF ListInv, ChainOK
    <3> QED
      BY <1>1, <1>8, <1>9, <1>14, <2>1, <3>1 DEF ChainAt
  <2> QED
    BY <2>2, <2>3
<1>17. ~EndedOver /\ Cli \notin live'
  BY <1>1, <1>4 DEF EndedOver
<1>18. ASSUME NEW i \in 1..Len(stack), stack[i].at \in Dropping PROVE EndedOver'
  <2>1. i \in 1..n /\ i # n
    BY <1>1, <1>3, <1>18 DEF Dropping, n
  <2>2. i \in 1..Len(stack') /\ stack'[i].at \in Dropping /\ Buried(stack', i)
    BY <1>3, <1>18, <2>1
  <2> QED
    BY <1>17, <2>2 DEF EndedOver
<1>19. ASSUME \A i \in 1..Len(stack) : stack[i].at \notin Dropping
       PROVE  Sorted' /\ LinkOK'
  <2>1. Cutters(stack) = {} /\ Trail(live, stack) = On(live, stack) /\ ~Astray
    BY <1>19 DEF Cutters, Trail, Astray, Dropping, Loose
  <2>2. Sorted /\ LinkOK
    BY <1>1, <1>17, <2>1 DEF ListInv, OrderOK
  <2>3. /\ \A b \in Cells : Back(mem, stack)[b] = mem[b].prev
        /\ \A b \in Cells : Back(mem', stack')[b] = mem'[b].prev
    BY <1>7, <2>1, NothingToCut
  <2>4. \A i \in Linkers(stack) :
          /\ i \in 1..n /\ stack'[i] = stack[i]
          /\ stack[i].new \in Watchers /\ stack[i].new \in Cells /\ stack[i].new \notin On(live, stack)
          /\ stack[i].prev \in Cells /\ stack[i].prev # ListHead
    <3> SUFFICES ASSUME NEW i \in Linkers(stack)
                 PROVE  /\ i \in 1..n /\ stack'[i] = stack[i]
                        /\ stack[i].new \in Watchers /\ stack[i].new \in Cells
                        /\ stack[i].new \notin On(live, stack)
                        /\ stack[i].prev \in Cells /\ stack[i].prev # ListHead
      OBVIOUS
    <3>1. i \in 1..Len(stack) /\ stack[i].at = "link" /\ stack'[i] = stack[i]
      BY <1>7 DEF Linkers
    <3>2. FrameOK(stack[i]) /\ MakerOK(i)
      BY <1>1, <3>1 DEF TickerInv, FramesOK, ListInv, FramesFit, FrameFits
    <3>3. stack[i].new \notin On(live, stack)
      BY <3>1 DEF On, Hides, Making
    <3> QED
      BY <3>1, <3>2, <3>3 DEF FrameOK, MakerOK, Creating, Making, Cells, n
  <2>5. \A i, j \in Linkers(stack) : i = j
    BY <1>1, OneWriterEach DEF WatchersInv
  <2>6. /\ \A i \in Linkers(stack) : Succ(mem, stack)[stack[i].prev] = mem[stack[i].new].next
        /\ \A a \in Cells :
             (\A i \in Linkers(stack) : stack[i].prev # a) => Succ(mem, stack)[a] = mem[a].next
    BY <2>4, <2>5, SuccIs
  <2>7. /\ \A i \in Linkers(stack) : Succ(mem', stack')[stack[i].prev] = mem'[stack[i].new].next
        /\ \A a \in Cells :
             (\A i \in Linkers(stack) : stack[i].prev # a) => Succ(mem', stack')[a] = mem'[a].next
    <3>1. /\ \A i \in Linkers(stack) : Succ(mem', stack)[stack[i].prev] = mem'[stack[i].new].next
          /\ \A a \in Cells :
              (\A i \in Linkers(stack) : stack[i].prev # a) => Succ(mem', stack)[a] = mem'[a].next
      BY <2>4, <2>5, SuccIs
    <3> QED
      BY <1>7, <3>1
  <2>8. \A b \in Cells :
          /\ \A i \in Linkers(stack) : stack[i].new = mem[b].prev => Pred(mem, stack)[b] = stack[i].prev
          /\ (\A i \in Linkers(stack) : stack[i].new # mem[b].prev) => Pred(mem, stack)[b] = mem[b].prev
    BY <2>3, <2>5, PredIs
  <2>9. \A b \in Cells :
          /\ \A i \in Linkers(stack) : stack[i].new = mem'[b].prev =>
               Pred(mem', stack')[b] = stack[i].prev
          /\ (\A i \in Linkers(stack) : stack[i].new # mem'[b].prev) =>
               Pred(mem', stack')[b] = mem'[b].prev
    <3>1. \A b \in Cells :
          /\ \A i \in Linkers(stack) : stack[i].new = Back(mem', stack)[b] =>
               Pred(mem', stack)[b] = stack[i].prev
          /\ (\A i \in Linkers(stack) : stack[i].new # Back(mem', stack)[b]) =>
               Pred(mem', stack)[b] = Back(mem', stack)[b]
      BY <2>5, PredIs
    <3> QED
      BY <1>7, <2>3, <3>1
  <2>10. Succ(mem, stack)[ListHead] = Cli /\ Pred(mem, stack)[Cli] = ListHead
    <3>1. Succ(mem, stack)[ListHead] = Cli
      BY <1>4, <2>4, <2>6
    <3> QED
      BY <1>4, <1>9, <2>2, <3>1 DEF Sorted, InOrder
  <2>11. Succ(mem, stack)[Cli] = s
    <3>1. ASSUME NEW i \in Linkers(stack), stack[i].prev = Cli
          PROVE  mem[stack[i].new].next = s
      <4>1. LinkAt(i) /\ Cli \in On(live, stack)
        BY <1>9, <2>2, <3>1 DEF LinkOK
      <4>2. s \in (Cells \ On(live, stack)) \cup {mem[stack[i].new].next}
        BY <3>1, <4>1 DEF LinkAt, s
      <4>3. s \in live => s \in On(live, stack)
        BY <1>12, <2>1 DEF ChainAt, s
      <4> QED
        BY <1>4, <1>5, <4>2, <4>3
    <3> QED
      BY <1>4, <2>6, <3>1 DEF s
  <2>12. \A b \in On(live, stack) : b \in Cells
    BY <1>9
  <2>13. ASSUME NEW a \in On(live, stack) \ {Cli}
         PROVE  Succ(mem', stack')[a] = IF a = ListHead THEN s ELSE Succ(mem, stack)[a]
    <3>1. CASE \E i \in Linkers(stack) : stack[i].prev = a
      <4>1. PICK i \in Linkers(stack) : stack[i].prev = a
        BY <3>1
      <4>2. stack[i].new # ListHead /\ a # ListHead
        BY <2>4, <4>1, DistinctAssumption
      <4> QED
        BY <1>6, <2>4, <2>6, <2>7, <4>1, <4>2
    <3>2. CASE \A i \in Linkers(stack) : stack[i].prev # a
      BY <1>6, <2>6, <2>7, <2>12, <3>2
    <3> QED
      BY <3>1, <3>2
  <2>14. ASSUME NEW b \in On(live, stack) \ {Cli, ListHead}
         PROVE  Pred(mem', stack')[b] = IF b = s THEN ListHead ELSE Pred(mem, stack)[b]
    <3>1. CASE b = s
      <4>1. mem'[b].prev = ListHead /\ \A i \in Linkers(stack) : stack[i].new # ListHead
        BY <1>6, <2>4, <2>12, <3>1, DistinctAssumption
      <4> QED
        BY <2>9, <2>12, <3>1, <4>1
    <3>2. CASE b # s
      BY <1>6, <2>8, <2>9, <2>12, <3>2
    <3> QED
      BY <3>1, <3>2
  <2>15. Sorted'
    <3>1. InOrder(On(live, stack), Succ(mem, stack), Pred(mem, stack), mem)
      BY <2>2 DEF Sorted
    <3>2. Numbered(On(live, stack), mem)
      BY <1>9 DEF Numbered
    <3>3. \A a \in On(live, stack) \ {Cli} :
            /\ Succ(mem', stack')[a] = IF a = Pred(mem, stack)[Cli] THEN Succ(mem, stack)[Cli]
                                       ELSE Succ(mem, stack)[a]
            /\ mem'[a].wid = mem[a].wid
      BY <1>6, <2>10, <2>11, <2>12, <2>13
    <3>4. \A b \in On(live, stack) \ {Cli, ListHead} :
            Pred(mem', stack')[b] = IF b = Succ(mem, stack)[Cli] THEN Pred(mem, stack)[Cli]
                                    ELSE Pred(mem, stack)[b]
      BY <2>10, <2>11, <2>14
    <3> QED
      <4>1. PICK S, nx, pv, nx2, pv2, m2 :
              /\ S = On(live, stack) /\ nx = Succ(mem, stack) /\ pv = Pred(mem, stack)
              /\ nx2 = Succ(mem', stack') /\ pv2 = Pred(mem', stack') /\ m2 = mem'
        OBVIOUS
      <4>2. /\ InOrder(S, nx, pv, mem) /\ Apart(S, S, mem) /\ Numbered(S, mem)
            /\ Cli \in S /\ Cli # ListHead
        BY <1>4, <1>9, <1>12, <3>1, <3>2, <4>1
      <4>3. /\ \A a \in S \ {Cli} : /\ nx2[a] = IF a = pv[Cli] THEN nx[Cli] ELSE nx[a]
                                  /\ m2[a].wid = mem[a].wid
            /\ \A b \in S \ {Cli, ListHead} : pv2[b] = IF b = nx[Cli] THEN pv[Cli] ELSE pv[b]
        BY <3>3, <3>4, <4>1
      <4>4. InOrder(S \ {Cli}, nx2, pv2, m2)
        BY <4>2, <4>3, RemoveFromOrder
      <4> QED
        BY <1>8, <4>1, <4>4 DEF Sorted
  <2>16. LinkOK'
    <3> SUFFICES ASSUME NEW i \in Linkers(stack), stack[i].prev \in On(live, stack) \ {Cli}
                 PROVE  /\ mem'[stack[i].new].prev = stack[i].prev
                        /\ mem'[stack[i].prev].next \in
                             (Cells \ On(live', stack')) \cup {mem'[stack[i].new].next}
                        /\ mem'[stack[i].new].next # NULL =>
                             Back(mem', stack')[mem'[stack[i].new].next] = stack[i].new
      BY <1>7, <1>8 DEF LinkOK, LinkAt
    <3>1. LinkAt(i)
      BY <2>2 DEF LinkOK
    <3>2. PICK N, P : N = stack[i].new /\ P = stack[i].prev
      OBVIOUS
    <3>3. /\ N \in Cells /\ N # ListHead /\ N \notin On(live, stack)
          /\ P \in Cells /\ P # ListHead /\ P \in On(live, stack) /\ P # Cli
      BY <2>4, <3>2, DistinctAssumption
    <3>4. /\ mem[N].prev = P /\ mem[P].next \in (Cells \ On(live, stack)) \cup {mem[N].next}
          /\ mem[N].next # NULL => Back(mem, stack)[mem[N].next] = N
      BY <3>1, <3>2 DEF LinkAt
    <3>5. Succ(mem, stack)[P] = mem[N].next
      BY <2>6, <3>2
    <3>6. mem[N].next # s \/ s = NULL
      <4>1. s # NULL => s \in On(live, stack) /\ Pred(mem, stack)[s] = Cli
        BY <1>9, <2>2, <2>11 DEF Sorted, InOrder
      <4>2. mem[N].next # NULL => Pred(mem, stack)[mem[N].next] = P
        BY <2>2, <3>3, <3>5 DEF Sorted, InOrder
      <4> QED
        BY <3>3, <4>1, <4>2
    <3>7. mem[N].next # NULL => mem[N].next \in Cells
      BY <2>2, <2>12, <3>3, <3>5 DEF Sorted, InOrder
    <3>8. N # s
      <4>1. s # NULL => s \in On(live, stack)
        BY <1>9, <2>2, <2>11 DEF Sorted, InOrder
      <4> QED
        BY <1>4, <3>3, <4>1
    <3>9. mem'[N].prev = P /\ mem'[N].next = mem[N].next /\ mem'[P].next = mem[P].next
      BY <1>6, <3>3, <3>4, <3>8
    <3>10. mem[N].next # NULL => Back(mem', stack')[mem[N].next] = N
      BY <1>6, <2>3, <3>4, <3>6, <3>7
    <3> QED
      BY <1>8, <3>2, <3>4, <3>9, <3>10
  <2> QED
    BY <2>15, <2>16
<1>20. OrderOK'
  BY <1>18, <1>19 DEF OrderOK
<1>21. FramesFit'
  <2>1. PICK k \in Nat : k = n
    BY <1>3
  <2>2. FrameFits(k)'
    <3>1. stack'[k] = f /\ status' = "running" /\ f.wp = s /\ f.at = "remove"
      BY <1>1, <1>2, <1>3, <2>1
    <3>2. ASSUME NEW c \in Children, Untold(c)' PROVE Ahead(c, k)'
      <4>1. Untold(c)
        BY <1>1, <1>2, <3>2, StartsGoOn DEF Untold, TickerInv
      <4>2. PICK w \in On(live, stack) : mem[w].pid = c /\ w \notin {Cli, ListHead}
        BY <1>1, <4>1, UntoldIsBooked
      <4>3. Less(mem, Cli, w)
        BY <1>10, <4>2
      <4>4. s # NULL /\ s \in live
        BY <1>5, <1>12, <4>2, <4>3 DEF ChainAt, s
      <4>5. s \in Trail(live, stack) /\ ~Less(mem, w, s)
        BY <1>12, <4>2, <4>3, <4>4 DEF ChainAt, s
      <4>6. /\ w \in On(live', stack') /\ mem'[w].pid = c /\ s \in Cells
            /\ s \in Trail(live', stack') /\ ~Less(mem', w, s)
        BY <1>1, <1>5, <1>6, <1>8, <1>9, <1>14, <4>2, <4>4, <4>5
      <4> QED
        BY <3>1, <4>6 DEF Ahead
    <3> QED
      BY <1>17, <3>1, <3>2
      DEF FrameFits, MakerOK, PlaceOK, ReaperOK, WalkOK, Creating, Making, Loose, Reaping, Dropping
  <2>3. ASSUME NEW i \in 1..n - 1 PROVE FrameFits(i)'
    <3>1. /\ MakerOK(i) /\ ReaperOK(i) /\ WalkOK(i) /\ FrameOK(stack[i]) /\ stack[i] \in FrameShape
          /\ stack'[i] = stack[i] /\ Buried(stack', i) /\ i \in 1..n
      <4>1. i \in 1..n /\ i # n /\ i \in 1..Len(stack)
        BY <1>3 DEF n
      <4> QED
        BY <1>1, <1>3, <4>1, Shapes DEF ListInv, FramesFit, FrameFits
    <3>2. /\ \A x : Gone(live, stack, x, i) => Gone(live', stack', x, i)
          /\ \A x : BeingMade(stack', x, i) <=> BeingMade(stack, x, i)
          /\ \A x \in On(live, stack) : x \in On(live', stack') \/ x = Cli
          /\ Gone(live', stack', Cli, i)
      <4>1. i \in Int
        BY <1>3, <3>1
      <4>2. Gone(live', stack', Cli, i)
        BY <1>17 DEF Gone
      <4> QED
        BY <1>8, <1>24, <4>1, <4>2
    <3>3. MakerOK(i)'
      <4>1. stack[i].at \in Creating => stack[i].new \in Watchers /\ stack[i].new \in Cells
        BY <3>1 DEF FrameOK, Cells
      <4>2. stack[i].at \in Creating => stack[i].new # Cli
        BY <4>1, DistinctAssumption
      <4>3. \A j \in 1..Len(stack') : stack'[j].at \in Loose =>
              j \in 1..Len(stack) /\ stack'[j] = stack[j]
        BY <1>3 DEF SameWork, Working
      <4> QED
        BY <1>1, <1>6, <3>1, <3>2, <4>1, <4>2, <4>3 DEF MakerOK, Creating, Making
    <3>4. ReaperOK(i)'
      <4>1. stack[i].at \in Reaping => stack[i].wp # Cli
        BY <3>1 DEF ReaperOK
      <4>2. stack[i].at \in Dropping \cup {"freed"} => stack[i].wp \in Cells /\ stack[i].wp # ListHead
        BY <3>1, DistinctAssumption DEF FrameOK, FrameShape, Successors, Cells
      <4>3. stack[i].at \in Dropping \cup {"freed"} =>
              mem'[stack[i].wp].next = mem[stack[i].wp].next /\ mem[stack[i].wp].next # Cli
        BY <1>4, <1>6, <4>2
      <4>4. Astray => Astray'
        <5>1. ASSUME Astray PROVE Astray'
          <6>1. PICK i1 \in 1..Len(stack), j1 \in 1..Len(stack) :
                  /\ i1 < j1 /\ stack[i1].at = "link" /\ stack[j1].at = "unlinkNext"
                  /\ mem[stack[j1].wp].next \in Cells \ live
            BY <5>1 DEF Astray
          <6>2. i1 \in 1..Len(stack') /\ j1 \in 1..Len(stack') /\ stack'[i1] = stack[i1]
                /\ stack'[j1] = stack[j1]
            BY <1>3, <6>1 DEF SameWork, Working, Making, Loose
          <6>3. stack[j1].wp \in Cells /\ stack[j1].wp # ListHead
            BY <1>1, <6>1, DroppedAreLive, DistinctAssumption DEF Dropping
          <6> QED
            BY <1>1, <1>6, <6>1, <6>2, <6>3 DEF Astray
        <5> QED
          BY <5>1
      <4>5. stack[i].at \in Dropping => mem'[stack[i].wp].pid = mem[stack[i].wp].pid
        BY <1>6, <4>2
      <4>6. stack[i].at = "unlinkNext" =>
              mem'[stack[i].wp].next \in On(live', stack') \cup {NULL} \/ Astray'
        BY <3>1, <3>2, <4>3, <4>4 DEF ReaperOK, Dropping
      <4>7. stack[i].at \in Loose \cup {"freed"} => LET b == mem'[stack[i].wp].next IN
              b \in live' => \/ b \in On(live', stack') \/ BeingMade(stack', b, i)
                             \/ BeingMade(stack', stack[i].wp, i)
        BY <1>1, <3>1, <3>2, <4>3 DEF ReaperOK, Dropping, Loose
      <4> QED
        BY <1>1, <3>1, <3>2, <4>1, <4>5, <4>6, <4>7 DEF ReaperOK, Reaping, Dropping
    <3>5. WalkOK(i)'
      <4> SUFFICES ASSUME stack[i].at = "remove", NEW c \in Children, Untold(c)'
                   PROVE  Ahead(c, i)'
        BY <1>17, <3>1 DEF WalkOK
      <4>1. Untold(c)
        BY <1>1, <1>2, StartsGoOn DEF Untold, TickerInv
      <4>2. PICK w \in On(live, stack) : mem[w].pid = c /\ w \notin {Cli, ListHead}
        BY <1>1, <4>1, UntoldIsBooked
      <4>3. stack[i].wp = Cli
        BY <1>1, <1>4, <3>1 DEF WalkOK
      <4>4. w \in On(live', stack') /\ mem'[w].pid = c /\ Cli \in Cells
        BY <1>4, <1>6, <1>8, <1>9, <4>2
      <4> QED
        BY <3>1, <3>2, <4>3, <4>4 DEF Ahead
    <3> QED
      BY <1>17, <3>3, <3>4, <3>5 DEF FrameFits
  <2> QED
    <3>1. \A i \in 1..Len(stack') : i = k \/ i \in 1..n - 1
      BY <1>3, <2>1
    <3> QED
      BY <2>2, <2>3, <3>1 DEF FramesFit
<1>22. Booked'
  <2>1. \A c : BeingStarted(c) => BeingStarted(c)'
    BY <1>1, <1>2, StartsGoOn DEF TickerInv
  <2>2. \A w \in On(live, stack) : mem[w].pid \in Children => w \in On(live', stack')
    BY <1>4, <1>8, DistinctAssumption
  <2>3. \A w \in On(live, stack) : mem'[w].pid = mem[w].pid
    BY <1>6, <1>9
  <2>4. Booked /\ child' = child
    BY <1>1 DEF ListInv
  <2> QED
    BY <2>1, <2>2, <2>3, <2>4 DEF Booked
<1>23. ExitOK'
  BY <1>1 DEF ExitOK
<1> QED
  BY <1>13, <1>15, <1>16, <1>20, <1>21, <1>22, <1>23 DEF ListInv

(***************************************************************************)
(* The SIGCHLD handler and cleanWatcher().                                 *)
(***************************************************************************)

\* The stack before and after a step of cleanWatcher().
LEMMA ReaperMoves ==
  ASSUME WatchersInv, ~torn, NEW f, Becomes(f), Top.at \in Dropping \cup {"freed"},
         f.at \in Reaping, Touches(Top) \subseteq live
  PROVE  LET n == Len(stack) IN
           /\ n \in Nat \ {0} /\ Top = stack[n] /\ Len(stack') = n /\ stack'[n] = f
           /\ \A i \in 1..n : i = n \/ (i \in 1..n - 1 /\ stack'[i] = stack[i])
           /\ \A i \in 1..n - 1 : stack[i].at \notin Reaping /\ i \in 1..n /\ i < n
           /\ Linkers(stack') = Linkers(stack)
           /\ \A i \in Linkers(stack) : i \in 1..n - 1 /\ stack'[i] = stack[i]
           /\ Cutters(stack) = IF Top.at = "unlinkNext" THEN {n} ELSE {}
           /\ Cutters(stack') = IF f.at = "unlinkNext" THEN {n} ELSE {}
<1> DEFINE n == Len(stack)
<1>1. /\ n \in Nat \ {0} /\ Top = stack[n]
      /\ Len(stack') = n /\ stack'[n] = f /\ \A i \in 1..n - 1 : stack'[i] = stack[i]
  BY Shapes, TopBecomes DEF WatchersInv, TickerInv
<1>2. \A i \in 1..n - 1 : stack[i].at \notin Reaping
  BY ReaperOnTop
<1> HIDE DEF n
<1>3. /\ \A i \in 1..n : i = n \/ i \in 1..n - 1
      /\ \A i \in 1..n - 1 : i \in 1..n /\ i < n
      /\ n \in 1..n
  BY <1>1
<1>4. /\ stack[n].at # "link" /\ stack'[n].at # "link"
      /\ \A i \in 1..n - 1 : stack[i].at # "unlinkNext"
  BY <1>1, <1>2 DEF Reaping, Dropping
<1>5. /\ Linkers(stack') = Linkers(stack)
      /\ \A i \in Linkers(stack) : i \in 1..n - 1 /\ stack'[i] = stack[i]
  BY <1>1, <1>3, <1>4 DEF Linkers, n
<1>6. /\ Cutters(stack) = IF Top.at = "unlinkNext" THEN {n} ELSE {}
      /\ Cutters(stack') = IF f.at = "unlinkNext" THEN {n} ELSE {}
  BY <1>1, <1>3, <1>4 DEF Cutters, n
<1> QED
  BY <1>1, <1>2, <1>3, <1>5, <1>6 DEF n

\* What steps of cleanWatcher() have in common: they take out one WATCHER at most.
LEMMA ReapingKeeps ==
  ASSUME WatchersInv, TickerInv', ~torn, UNCHANGED <<status, child, told>>, status = "running",
         NEW f, Becomes(f), Top.at \in Dropping \cup {"freed"}, f.at \in Reaping,
         Touches(Top) \subseteq live, f.at \in Loose => f.wp = Top.wp /\ Top.at \in Dropping,
         live' \subseteq live, live \ live' \subseteq {Top.wp} \ {Cli, ListHead},
         live' # live => Top.at = "free",
         \A a \in live : mem'[a].wid = mem[a].wid /\ mem'[a].pid = mem[a].pid,
         \A a \in Cells : /\ mem'[a].pid \in {mem[a].pid, Unset}
                          /\ mem'[a].next = Cli => mem[a].next = Cli,
         Cli \in live => mem'[ListHead].next = Cli /\ mem'[Cli].prev = ListHead,
         On(live', stack') \subseteq On(live, stack), Trail(live', stack') \subseteq Trail(live, stack),
         Top.at \in Dropping => \A i \in 1..Len(stack) - 1 : Gone(live', stack', Top.wp, i),
         \A x \in Trail(live, stack) :
           \/ x \in Trail(live', stack') /\ (x \in On(live, stack) => x \in On(live', stack'))
           \/ x = Top.wp /\ Top.at \in Dropping,
         \A a \in On(live', stack') :
           mem'[a].next = mem[a].next \/ (mem[a].next = Top.wp /\ Top.at \in Dropping),
         Cli \in live => \A i \in 1..Len(stack) - 1 :
           stack[i].at = "backlink" /\ stack[i].prev \in On(live', stack') =>
             /\ mem'[stack[i].new].prev = mem[stack[i].new].prev
             /\ mem'[stack[i].new].next = mem[stack[i].new].next
             /\ mem'[stack[i].prev].next = mem[stack[i].prev].next,
         ChainOK', OrderOK', NEW k \in Nat, k = Len(stack), ReaperOK(k)'
  PROVE  ListInv'
<1> DEFINE n == Len(stack)
<1>1. /\ n \in Nat \ {0} /\ Top = stack[n] /\ Len(stack') = n /\ stack'[n] = f
      /\ \A i \in 1..n : i = n \/ (i \in 1..n - 1 /\ stack'[i] = stack[i])
      /\ \A i \in 1..n - 1 : stack[i].at \notin Reaping /\ i \in 1..n /\ i < n
  BY ReaperMoves
<1>2. /\ ListInv /\ TickerInv /\ mem \in [Cells -> CellShape] /\ live \subseteq Cells
  BY Shapes DEF WatchersInv
<1> HIDE DEF n
<1>3. /\ On(live, stack) \subseteq live /\ Trail(live, stack) \subseteq live
      /\ On(live, stack) \subseteq Trail(live, stack)
  BY DEF On, Trail
<1>4. Top.at \in Dropping => mem[Top.wp].pid = Unset \/ child[mem[Top.wp].pid] = "reaped"
  BY <1>1, <1>2 DEF ListInv, FramesFit, FrameFits, ReaperOK, n
<1>5. \A a, b \in live : Less(mem', a, b) <=> Less(mem, a, b)
  BY DEF Less
<1>6. EndsOK'
  <2>1. ListHead \in live' /\ mem'[ListHead].pid = Unset /\ mem'[Cli].pid = Unset
    BY <1>2 DEF ListInv, EndsOK, Cells
  <2>2. \A a \in Cells : mem'[a].next = Cli => a = ListHead
    BY <1>2 DEF ListInv, EndsOK
  <2>3. Cli \in live' => mem'[ListHead].next = Cli /\ mem'[Cli].prev = ListHead /\ mem'[Cli].wid = 0
    BY <1>2 DEF ListInv, EndsOK
  <2>4. \A w \in On(live', stack') \cap Watchers : mem'[w].wid > 0
    BY <1>2, <1>3 DEF ListInv, EndsOK
  <2> QED
    BY <2>1, <2>2, <2>3, <2>4 DEF EndsOK
<1>7. ApartOK'
  BY <1>2, <1>3, <1>5 DEF ListInv, ApartOK, Apart
<1>8. \A w \in On(live, stack) : mem[w].pid \in Children =>
        child[mem[w].pid] = "reaped" \/ w \in On(live', stack')
  BY <1>3, <1>4, DistinctAssumption
<1>9. ASSUME NEW i \in 1..n - 1 PROVE FrameFits(i)'
  <2>1. /\ MakerOK(i) /\ (Cli \in live => PlaceOK(i)) /\ WalkOK(i)
        /\ FrameOK(stack[i]) /\ stack[i] \in FrameShape
        /\ stack'[i] = stack[i] /\ stack[i].at \notin Reaping /\ i < n /\ i \in 1..n
    <3>1. i \in 1..Len(stack) /\ i # n
      BY <1>1 DEF n
    <3> QED
      BY <1>1, <1>2, <3>1, Shapes DEF ListInv, FramesFit, FrameFits
  <2>2. \A x : Gone(live, stack, x, i) => Gone(live', stack', x, i)
    <3>1. \A j \in 1..n : stack[j].at \in Loose => j = n /\ Top.at \in Dropping
      BY <1>1 DEF Loose, Reaping, Dropping
    <3>2. ASSUME NEW x, Gone(live, stack, x, i) PROVE (x = Top.wp /\ Top.at \in Dropping) \/ x \notin live
      BY <1>1, <3>1, <3>2 DEF Gone, n
    <3>3. \A x : x \notin live => Gone(live', stack', x, i)
      BY DEF Gone
    <3>4. Top.at \in Dropping => Gone(live', stack', Top.wp, i)
      BY DEF n
    <3> QED
      BY <3>2, <3>3, <3>4
  <2>3. \A x : x \in On(live, stack) \/ Gone(live, stack, x, i) =>
                 x \in On(live', stack') \/ Gone(live', stack', x, i)
    <3>1. Top.at \in Dropping => Gone(live', stack', Top.wp, i)
      BY DEF n
    <3> QED
      BY <1>3, <2>2, <3>1
  <2>4. \A x : x \in Trail(live, stack) \/ Gone(live, stack, x, i) =>
                 x \in Trail(live', stack') \/ Gone(live', stack', x, i)
    <3>1. Top.at \in Dropping => Gone(live', stack', Top.wp, i)
      BY DEF n
    <3> QED
      BY <2>2, <3>1
  <2>5. Buried(stack, i) => Buried(stack', i)
    <3>1. Top.at \notin Ending
      BY DEF Ending, Dropping
    <3> QED
      BY <1>1, <3>1 DEF Buried, n
  <2>6. Cli \in live <=> Cli \in live'
    OBVIOUS
  <2>7. stack[i].at \in Creating => stack[i].new \in Cells /\ stack[i].prev \in Cells
    BY <2>1 DEF FrameOK, Cells
  <2>8. MakerOK(i)'
    <3>1. stack[i].at \in Creating => mem'[stack[i].new].pid = Unset
      BY <2>1, <2>7 DEF MakerOK
    <3>2. ASSUME stack[i].at \in Making
          PROVE  /\ stack[i].new \in live' /\ (stack[i].new # Top.wp \/ Top.at = "freed")
                 /\ \A j \in 1..n : stack'[j].at \in Loose => stack'[j].wp # stack[i].new
      <4>1. /\ stack[i].new \in live
            /\ \A j \in 1..n : stack[j].at \in Loose => stack[j].wp # stack[i].new
        BY <2>1, <3>2 DEF MakerOK, n
      <4>2. Top.at \in Dropping => stack[i].new # Top.wp
        <5>1. stack[i].new \notin On(live, stack)
          BY <2>1, <3>2 DEF On, Hides, n
        <5>2. Top.at = "unlink" => Top.wp \in On(live, stack)
          BY <1>1, <1>2 DEF ListInv, FramesFit, FrameFits, ReaperOK, n
        <5>3. n \in 1..n
          BY <1>1
        <5> QED
          BY <1>1, <4>1, <5>1, <5>2, <5>3 DEF Dropping, Loose
      <4>3. \A j \in 1..n : stack'[j].at \in Loose => j = n /\ f.at \in Loose
        BY <1>1 DEF Reaping, Dropping, Loose
      <4> QED
        BY <1>1, <4>1, <4>2, <4>3
    <3> QED
      BY <1>1, <2>1, <2>3, <2>5, <2>6, <3>1, <3>2 DEF MakerOK
  <2>9. ASSUME Cli \in live PROVE PlaceOK(i)'
    <3>1. PlaceOK(i)
      BY <2>1, <2>9
    <3>2. ASSUME stack[i].at \in Making, stack[i].prev \in On(live', stack')
          PROVE  stack[i].prev \in On(live, stack) /\ stack[i].prev \in live
      BY <1>3, <3>2
    <3>3. ASSUME stack[i].at = "scan"
          PROVE  /\ stack[i].prev = ListHead => stack[i].wid = 0 /\ stack[i].cur = Cli
                 /\ stack[i].cur = NULL \/ stack[i].cur \in On(live', stack')
                    \/ Gone(live', stack', stack[i].cur, i)
                 /\ stack[i].prev \in On(live', stack') \ {ListHead} =>
                      /\ mem'[stack[i].prev].wid + 1 = stack[i].wid
                      /\ (stack[i].cur = NULL \/ ~Gone(live', stack', stack[i].cur, i)) =>
                            stack[i].cur = mem'[stack[i].prev].next
      <4>1. /\ stack[i].prev = ListHead => stack[i].wid = 0 /\ stack[i].cur = Cli
            /\ stack[i].cur = NULL \/ stack[i].cur \in On(live, stack) \/ Gone(live, stack, stack[i].cur, i)
            /\ stack[i].prev \in On(live, stack) \ {ListHead} =>
                 /\ mem[stack[i].prev].wid + 1 = stack[i].wid
                 /\ (stack[i].cur = NULL \/ ~Gone(live, stack, stack[i].cur, i)) =>
                       stack[i].cur = mem[stack[i].prev].next
        BY <3>1, <3>3 DEF PlaceOK
      <4>2. ASSUME stack[i].prev \in On(live', stack') \ {ListHead},
                   stack[i].cur = NULL \/ ~Gone(live', stack', stack[i].cur, i)
            PROVE  stack[i].cur = mem'[stack[i].prev].next
        <5>1. stack[i].cur = mem[stack[i].prev].next
          BY <2>2, <3>2, <3>3, <4>1, <4>2 DEF Making
        <5>2. Top.at \in Dropping => Top.wp # NULL /\ Gone(live', stack', Top.wp, i)
          BY <1>2, TopIsOK DEF FrameOK, n
        <5> QED
          BY <4>2, <5>1, <5>2
      <4> QED
        BY <2>3, <3>2, <3>3, <4>1, <4>2 DEF Making
    <3>4. ASSUME stack[i].at \in Making \ {"scan"}, stack[i].prev \in On(live', stack')
          PROVE  Gap(stack[i].prev, stack[i].wid)'
      <4>1. Gap(stack[i].prev, stack[i].wid)
        BY <3>1, <3>2, <3>4 DEF PlaceOK
      <4>2. /\ mem'[stack[i].prev].wid < stack[i].wid
            /\ \A b \in On(live', stack') : Less(mem', stack[i].prev, b) => stack[i].wid < mem'[b].wid
        BY <1>3, <1>5, <3>2, <3>4, <4>1 DEF Gap
      <4> QED
        BY <2>1, <4>2 DEF Gap
    <3>5. ASSUME stack[i].at = "backlink", stack[i].prev \in On(live', stack')
          PROVE  /\ mem'[stack[i].new].prev = stack[i].prev
                 /\ mem'[stack[i].new].next = mem'[stack[i].prev].next
      BY <2>9, <3>1, <3>2, <3>5 DEF PlaceOK, Making, n
    <3> QED
      BY <2>1, <3>3, <3>4, <3>5 DEF PlaceOK
  <2>10. WalkOK(i)'
    <3> SUFFICES ASSUME stack[i].at = "remove", Cli \notin live, NEW c \in Children, Untold(c)'
                 PROVE  Ahead(c, i)'
      BY <2>1, <2>6 DEF WalkOK
    <3>1. Untold(c)
      <4>1. BeingStarted(c) => BeingStarted(c)'
        BY <1>2, StartsGoOn DEF TickerInv, Dropping
      <4> QED
        BY <4>1 DEF Untold
    <3>2. PICK w \in On(live, stack) :
            /\ mem[w].pid = c /\ stack[i].wp \in Cells
            /\ \/ Gone(live, stack, stack[i].wp, i)
               \/ stack[i].wp \in Trail(live, stack) /\ ~Less(mem, w, stack[i].wp)
      BY <2>1, <3>1 DEF WalkOK, Ahead
    <3>3. w \in On(live', stack') /\ mem'[w].pid = c
      BY <1>3, <1>8, <3>1, <3>2 DEF Untold
    <3>4. \/ Gone(live', stack', stack[i].wp, i)
          \/ stack[i].wp \in Trail(live', stack') /\ ~Less(mem', w, stack[i].wp)
      BY <1>3, <1>5, <2>2, <2>4, <3>2
    <3> QED
      BY <2>1, <3>2, <3>3, <3>4 DEF Ahead
  <2>11. ReaperOK(i)'
    BY <2>1 DEF ReaperOK, Reaping, Dropping, Loose
  <2> QED
    BY <2>6, <2>8, <2>9, <2>10, <2>11 DEF FrameFits
<1>10. FramesFit'
  <2>1. FrameFits(k)'
    <3>1. stack'[k] = f /\ f.at \in Reaping
      BY <1>1 DEF n
    <3> QED
      BY <3>1 DEF FrameFits, MakerOK, PlaceOK, WalkOK, Creating, Making, Reaping, Dropping
  <2>2. \A i \in 1..Len(stack') : i = k \/ i \in 1..n - 1
    BY <1>1 DEF n
  <2> QED
    BY <1>9, <2>1, <2>2 DEF FramesFit
<1>11. Booked'
  <2>1. \A c : BeingStarted(c) => BeingStarted(c)'
    BY <1>2, StartsGoOn DEF TickerInv, Dropping
  <2>2. \A w \in On(live, stack) : mem'[w].pid = mem[w].pid
    BY <1>3
  <2> QED
    BY <1>2, <1>8, <2>1, <2>2 DEF ListInv, Booked
<1>12. ExitOK'
  BY DEF ExitOK
<1> QED
  BY <1>6, <1>7, <1>10, <1>11, <1>12 DEF ListInv

\* Who inserts below the SIGCHLD handler is about to link a WATCHER that is not in the list.
LEMMA LinkersAre ==
  ASSUME WatchersInv, ~torn, NEW i \in Linkers(stack)
  PROVE  /\ i \in 1..Len(stack) /\ stack[i].at = "link"
         /\ stack[i].new \in Watchers /\ stack[i].new \in live /\ stack[i].new \in Cells
         /\ stack[i].new \notin On(live, stack)
         /\ stack[i].prev \in Cells /\ stack[i].prev # ListHead
         /\ stack[i].prev \in On(live, stack) \/ Gone(live, stack, stack[i].prev, i)
         /\ \A j \in 1..Len(stack) : stack[j].at \in Loose => stack[j].wp # stack[i].new
<1>1. i \in 1..Len(stack) /\ stack[i].at = "link"
  BY DEF Linkers
<1>2. FrameOK(stack[i]) /\ MakerOK(i)
  BY <1>1, Shapes DEF WatchersInv, ListInv, FramesFit, FrameFits
<1>3. stack[i].new \notin On(live, stack)
  BY <1>1 DEF On, Hides, Making
<1> QED
  BY <1>1, <1>2, <1>3 DEF FrameOK, MakerOK, Creating, Making, Cells

\* next and prev are to be the same while the same writers are at work.
LEMMA SameLinks ==
  ASSUME NEW s, NEW t, Linkers(t) = Linkers(s), Cutters(t) = Cutters(s),
         \A i \in Linkers(s) \cup Cutters(s) : t[i] = s[i], NEW m
  PROVE  Succ(m, t) = Succ(m, s) /\ Back(m, t) = Back(m, s) /\ Pred(m, t) = Pred(m, s)
<1>1. TheOne(Linkers(t)) \in Linkers(s) \/ Linkers(s) = {}
  BY DEF TheOne
<1>2. TheOne(Cutters(t)) \in Cutters(s) \/ Cutters(s) = {}
  BY DEF TheOne
<1>3. Succ(m, t) = Succ(m, s)
  <2>1. ASSUME NEW a \in Cells PROVE Succ(m, t)[a] = Succ(m, s)[a]
    BY <1>1 DEF Succ
  <2> QED
    BY <2>1 DEF Succ
<1>4. Back(m, t) = Back(m, s)
  <2>1. ASSUME NEW b \in Cells PROVE Back(m, t)[b] = Back(m, s)[b]
    BY <1>2 DEF Back
  <2> QED
    BY <2>1 DEF Back
<1>5. Pred(m, t) = Pred(m, s)
  <2>1. ASSUME NEW b \in Cells PROVE Pred(m, t)[b] = Pred(m, s)[b]
    BY <1>1, <1>4 DEF Pred
  <2> QED
    BY <2>1 DEF Pred
<1> QED
  BY <1>3, <1>4, <1>5

\* What the SIGCHLD handler is at work on.
LEMMA ReaperHolds ==
  ASSUME WatchersInv, ~torn, Top.at \in Dropping \cup {"freed"}, Touches(Top) \subseteq live
  PROVE  /\ Top.wp \in Watchers /\ Top.wp \in Cells
         /\ Top.at \in Dropping => Top.wp \in live
         /\ Top.at = "unlink" => Top.wp \in On(live, stack)
         /\ Top.at \in Loose => Top.wp \notin On(live, stack)
         /\ Top.at = "unlinkNext" => mem[Top.wp].next \in On(live, stack) \cup {NULL}
         /\ Top.at \in Loose \cup {"freed"} =>
              (mem[Top.wp].next \in live => mem[Top.wp].next \in On(live, stack))
         /\ mem[Top.wp].next # Cli
         /\ Top.at \in Dropping => mem[Top.wp].pid = Unset \/ child[mem[Top.wp].pid] = "reaped"
         /\ Cli \in live => mem[ListHead].next = Cli /\ mem[Cli].prev = ListHead
<1>1. /\ Len(stack) \in Nat \ {0} /\ Top = stack[Len(stack)] /\ ListInv
      /\ FrameOK(Top) /\ Top \in FrameShape
  BY TopIsOK, Shapes DEF WatchersInv
<1>2. ReaperOK(Len(stack))
  BY <1>1 DEF ListInv, FramesFit, FrameFits
<1>3. Top.wp \in Watchers /\ Top.wp \in Cells /\ Top.wp # ListHead
  BY <1>1, <1>2, DistinctAssumption DEF FrameOK, FrameShape, Successors, ReaperOK, Reaping, Cells
<1>4. Len(stack) \in 1..Len(stack)
  BY <1>1
<1>5. /\ Top.at \in Dropping => Top.wp \in live
      /\ Top.at \in Loose => Top.wp \notin On(live, stack)
  BY <1>1, <1>4, DroppedAreLive DEF Loose, Dropping
<1>6. \A x : ~BeingMade(stack, x, Len(stack))
  BY <1>1 DEF BeingMade
<1>7. Top.at = "unlinkNext" => ~Astray
  <2>1. ASSUME Top.at = "unlinkNext", Astray PROVE FALSE
    <3>1. PICK j \in 1..Len(stack) : /\ stack[j].at = "unlinkNext"
                                     /\ mem[stack[j].wp].next \in Cells \ live
      BY <2>1 DEF Astray
    <3>2. j = Len(stack)
      BY <1>1, <1>4, <2>1, <3>1, OneWriterEach DEF WatchersInv, Cutters
    <3>3. mem[Top.wp].next \in Cells => mem[Top.wp].next \in Touches(Top)
      BY <2>1 DEF Touches
    <3> QED
      BY <1>1, <3>1, <3>2, <3>3
  <2> QED
    BY <2>1
<1> QED
  BY <1>1, <1>2, <1>3, <1>5, <1>6, <1>7 DEF ReaperOK, ListInv, EndsOK

\* The second write of cleanWatcher() does what the first has begun.
LEMMA UnlinkNextKeepsList ==
  ASSUME WatchersInv, TickerInv', ~torn, ReapUnlinkNext
  PROVE  ListInv'
<1> DEFINE n == Len(stack)
<1> DEFINE w == Top.wp
<1> DEFINE s == mem[w].next
<1>1. /\ Top \in FrameShape /\ ListInv /\ TickerInv /\ UNCHANGED <<status, child, told, live>>
      /\ Top.at = "unlinkNext" /\ status = "running" /\ Touches(Top) \subseteq live
      /\ mem \in [Cells -> CellShape] /\ live \subseteq Cells
  BY TopIsOK, Shapes DEF WatchersInv, ReapUnlinkNext, At, world
<1>2. PICK f : Becomes(f) /\ f.at = "free" /\ f.wp = w
  <2>1. PICK f : Becomes(f) /\ f = [Top EXCEPT !.at = "free"]
    BY DEF ReapUnlinkNext
  <2> QED
    BY <1>1, <2>1 DEF FrameShape
<1>3. /\ n \in Nat \ {0} /\ Top = stack[n] /\ Len(stack') = n /\ stack'[n] = f
      /\ \A i \in 1..n : i = n \/ (i \in 1..n - 1 /\ stack'[i] = stack[i])
      /\ \A i \in 1..n - 1 : stack[i].at \notin Reaping /\ i \in 1..n /\ i < n
      /\ Linkers(stack') = Linkers(stack)
      /\ \A i \in Linkers(stack) : i \in 1..n - 1 /\ stack'[i] = stack[i]
      /\ Cutters(stack) = {n} /\ Cutters(stack') = {}
  BY <1>1, <1>2, ReaperMoves DEF Reaping, Dropping
<1>4. /\ w \in Cells /\ w \in live /\ s \in On(live, stack) \cup {NULL} /\ s # Cli /\ w # Cli
      /\ mem[w].pid = Unset \/ child[mem[w].pid] = "reaped"
      /\ Cli \in live => mem[ListHead].next = Cli /\ mem[Cli].prev = ListHead
  BY <1>1, ReaperHolds, DistinctAssumption DEF Dropping
<1>5. Sorted /\ LinkOK
  BY <1>1, ReaperOnTop DEF Dropping
<1> HIDE DEF n, s, w
<1>6. On(live, stack') = On(live, stack) /\ Trail(live, stack') = Trail(live, stack)
  <2>1. \A i \in 1..n, a \in live : Hides(stack'[i], a) <=> Hides(stack[i], a)
    BY <1>1, <1>2, <1>3 DEF Hides, Making, Loose, w
  <2>2. On(live, stack') = On(live, stack)
    BY <1>3, <2>1 DEF On, n
  <2>3. \A i \in 1..n : stack'[i].at \in Loose <=> stack[i].at \in Loose
    BY <1>1, <1>2, <1>3 DEF Loose
  <2>4. \A i \in 1..n : stack'[i].at = "link" <=> stack[i].at = "link"
    BY <1>1, <1>2, <1>3
  <2>5. \A i \in 1..n : stack'[i].wp = stack[i].wp
    BY <1>2, <1>3 DEF w
  <2> QED
    BY <1>3, <2>2, <2>3, <2>4, <2>5 DEF Trail, n
<1>7. \A b \in Cells : /\ mem'[b].next = mem[b].next /\ mem'[b].wid = mem[b].wid
                       /\ mem'[b].pid = mem[b].pid
                       /\ mem'[b].prev = IF b = s THEN mem[w].prev ELSE mem[b].prev
  <2>1. mem' = IF s = NULL THEN mem ELSE [mem EXCEPT ![s].prev = mem[w].prev]
    BY DEF ReapUnlinkNext, s, w
  <2>2. NULL \notin Cells
    BY DistinctAssumption DEF Cells
  <2>3. \A b \in Cells : mem[b] \in CellShape
    BY <1>1
  <2> QED
    BY <1>1, <2>1, <2>2, <2>3 DEF CellShape
<1>8. \A b \in Cells : Back(mem', stack')[b] = Back(mem, stack)[b]
  <2>1. \A b \in Cells : Back(mem', stack')[b] = mem'[b].prev
    BY <1>3, NothingToCut
  <2>2. \A b \in Cells : Back(mem, stack)[b] = IF b = s THEN mem[w].prev ELSE mem[b].prev
    <3>1. \A i, j \in Cutters(stack) : i = j
      BY <1>3
    <3>2. \A i \in Cutters(stack) : stack[i].wp = w
      BY <1>3 DEF w
    <3> QED
      BY <1>3, <3>1, <3>2, BackIs DEF s
  <2> QED
    BY <1>7, <2>1, <2>2
<1>9. /\ \A i \in Linkers(stack) : /\ stack[i].new \in Cells /\ stack[i].new \notin On(live, stack)
                                   /\ stack[i].new # s /\ stack[i].prev \in Cells
      /\ \A i, j \in Linkers(stack) : i = j
  <2>1. \A i, j \in Linkers(stack) : i = j
    BY <1>1, OneWriterEach DEF WatchersInv
  <2>2. \A i \in Linkers(stack) : /\ stack[i].new \in Cells /\ stack[i].new \notin On(live, stack)
                                  /\ stack[i].prev \in Cells
    BY LinkersAre
  <2>3. \A i \in Linkers(stack) : stack[i].new # s
    BY <1>4, <2>2, DistinctAssumption DEF Cells
  <2> QED
    BY <2>1, <2>2, <2>3
<1>10. /\ \A a \in Cells : Succ(mem', stack')[a] = Succ(mem, stack)[a]
       /\ \A b \in Cells : Pred(mem', stack')[b] = Pred(mem, stack)[b]
  <2>1. /\ \A i \in Linkers(stack) : Succ(mem, stack)[stack[i].prev] = mem[stack[i].new].next
        /\ \A a \in Cells : (\A i \in Linkers(stack) : stack[i].prev # a) =>
             Succ(mem, stack)[a] = mem[a].next
    BY <1>9, SuccIs
  <2>2. \A i, j \in Linkers(stack') : i = j
    BY <1>3, <1>9
  <2>3. /\ \A i \in Linkers(stack) : Succ(mem', stack')[stack[i].prev] = mem'[stack[i].new].next
        /\ \A a \in Cells : (\A i \in Linkers(stack) : stack[i].prev # a) =>
             Succ(mem', stack')[a] = mem'[a].next
    <3>1. /\ \A i \in Linkers(stack') : stack'[i].prev \in Cells =>
               Succ(mem', stack')[stack'[i].prev] = mem'[stack'[i].new].next
          /\ \A a \in Cells : (\A i \in Linkers(stack') : stack'[i].prev # a) =>
               Succ(mem', stack')[a] = mem'[a].next
      BY <2>2, SuccIs
    <3> QED
      BY <1>3, <1>9, <3>1
  <2>4. \A a \in Cells : Succ(mem', stack')[a] = Succ(mem, stack)[a]
    BY <1>7, <1>9, <2>1, <2>3
  <2>5. \A b \in Cells :
          /\ \A i \in Linkers(stack) : stack[i].new = Back(mem, stack)[b] =>
               Pred(mem, stack)[b] = stack[i].prev
          /\ (\A i \in Linkers(stack) : stack[i].new # Back(mem, stack)[b]) =>
               Pred(mem, stack)[b] = Back(mem, stack)[b]
    BY <1>9, PredIs
  <2>6. \A b \in Cells :
          /\ \A i \in Linkers(stack') : stack'[i].new = Back(mem', stack')[b] =>
               Pred(mem', stack')[b] = stack'[i].prev
          /\ (\A i \in Linkers(stack') : stack'[i].new # Back(mem', stack')[b]) =>
               Pred(mem', stack')[b] = Back(mem', stack')[b]
    BY <2>2, PredIs
  <2> QED
    BY <1>3, <1>8, <2>4, <2>5, <2>6
<1>11. /\ \A a \in On(live, stack) : a \in Cells /\ a \in live
       /\ \A a \in Trail(live, stack) : a \in Cells
  BY <1>1 DEF On, Trail
<1>12. OrderOK'
  <2>1. Sorted'
    BY <1>1, <1>5, <1>6, <1>7, <1>10, <1>11, SameOrder DEF Sorted
  <2>2. LinkOK'
    <3> SUFFICES ASSUME NEW i \in Linkers(stack), stack[i].prev \in On(live, stack)
                 PROVE  /\ mem'[stack[i].new].prev = stack[i].prev
                        /\ mem'[stack[i].prev].next \in
                             (Cells \ On(live, stack)) \cup {mem'[stack[i].new].next}
                        /\ mem'[stack[i].new].next # NULL =>
                             Back(mem', stack')[mem'[stack[i].new].next] = stack[i].new
      BY <1>1, <1>3, <1>6 DEF LinkOK, LinkAt
    <3>1. /\ mem[stack[i].new].prev = stack[i].prev
          /\ mem[stack[i].prev].next \in (Cells \ On(live, stack)) \cup {mem[stack[i].new].next}
          /\ mem[stack[i].new].next # NULL =>
                             Back(mem, stack)[mem[stack[i].new].next] = stack[i].new
      BY <1>5 DEF LinkOK, LinkAt
    <3>2. mem[stack[i].new].next # NULL => mem[stack[i].new].next \in Cells
      <4>1. mem[stack[i].new] \in CellShape
        BY <1>1, <1>9
      <4> QED
        BY <4>1 DEF CellShape, Successors, Cells
    <3> QED
      BY <1>7, <1>8, <1>9, <3>1, <3>2
  <2> QED
    BY <2>1, <2>2 DEF OrderOK
<1>13. ChainOK'
  <2> SUFFICES ASSUME NEW a \in Trail(live, stack) PROVE ChainAt(a)'
    BY <1>1, <1>6 DEF ChainOK
  <2>1. ChainAt(a) /\ a \in Cells /\ mem'[a].next = mem[a].next
    BY <1>1, <1>7, <1>11 DEF ListInv, ChainOK
  <2>2. \A x, y \in Cells : Less(mem', x, y) <=> Less(mem, x, y)
    BY <1>7 DEF Less
  <2> QED
    BY <1>1, <1>6, <1>11, <2>1, <2>2 DEF ChainAt
<1>14. \A i \in 1..n - 1 : Gone(live', stack', w, i)
  BY <1>2, <1>3 DEF Gone, Loose, n
<1>15. PICK k \in Nat : k = n
  BY <1>3
<1>16. ReaperOK(k)'
  <2>1. stack'[k] = f /\ mem'[w].next = s /\ mem'[w].pid = mem[w].pid
    BY <1>3, <1>4, <1>7, <1>15 DEF s
  <2>2. s \in live => s \in On(live, stack)
    BY <1>1, <1>4, DistinctAssumption DEF Cells
  <2> QED
    BY <1>1, <1>2, <1>4, <1>6, <2>1, <2>2 DEF ReaperOK, Reaping, Dropping, Loose
<1>17. \A i \in 1..n - 1 : stack[i].at = "backlink" =>
         /\ mem'[stack[i].new].prev = mem[stack[i].new].prev
         /\ mem'[stack[i].new].next = mem[stack[i].new].next
         /\ stack[i].prev \in Cells
  <2> SUFFICES ASSUME NEW i \in 1..n - 1, stack[i].at = "backlink"
               PROVE  /\ mem'[stack[i].new].prev = mem[stack[i].new].prev
                      /\ mem'[stack[i].new].next = mem[stack[i].new].next
                      /\ stack[i].prev \in Cells
    OBVIOUS
  <2>1. i \in 1..Len(stack)
    BY <1>3 DEF n
  <2>2. stack[i].new \in Cells /\ stack[i].prev \in Cells
    BY <1>1, <2>1, Shapes DEF FrameOK, Creating, Cells
  <2>3. stack[i].new \notin On(live, stack) /\ stack[i].new # NULL
    BY <2>1, <2>2, DistinctAssumption DEF On, Hides, Making, Cells
  <2> QED
    BY <1>4, <1>7, <2>2, <2>3
<1>18. mem'[ListHead].next = mem[ListHead].next /\ mem'[Cli].prev = mem[Cli].prev
  BY <1>4, <1>7 DEF Cells
<1> QED
  BY <1>1, <1>2, <1>4, <1>6, <1>7, <1>11, <1>12, <1>13, <1>14, <1>15, <1>16, <1>17, <1>18,
     ReapingKeeps
  DEF n, w, Reaping, Dropping

\* The WATCHER is freed, and nothing leads to it any more.
LEMMA FreeKeepsList ==
  ASSUME WatchersInv, TickerInv', ~torn, ReapFree
  PROVE  ListInv'
<1> DEFINE n == Len(stack)
<1> DEFINE w == Top.wp
<1>1. /\ Top \in FrameShape /\ ListInv /\ TickerInv /\ UNCHANGED <<status, child, told, mem>>
      /\ Top.at = "free" /\ status = "running" /\ Touches(Top) \subseteq live
      /\ mem \in [Cells -> CellShape] /\ live \subseteq Cells /\ live' = live \ {w}
  BY TopIsOK, Shapes DEF WatchersInv, ReapFree, At, world
<1>2. PICK f : Becomes(f) /\ f.at = "freed" /\ f.wp = w
  <2>1. PICK f : Becomes(f) /\ f = [Top EXCEPT !.at = "freed"]
    BY DEF ReapFree
  <2> QED
    BY <1>1, <2>1 DEF FrameShape
<1>3. /\ n \in Nat \ {0} /\ Top = stack[n] /\ Len(stack') = n /\ stack'[n] = f
      /\ \A i \in 1..n : i = n \/ (i \in 1..n - 1 /\ stack'[i] = stack[i])
      /\ \A i \in 1..n - 1 : stack[i].at \notin Reaping /\ i \in 1..n /\ i < n
      /\ Linkers(stack') = Linkers(stack)
      /\ \A i \in Linkers(stack) : i \in 1..n - 1 /\ stack'[i] = stack[i]
      /\ Cutters(stack) = {} /\ Cutters(stack') = {}
  BY <1>1, <1>2, ReaperMoves DEF Reaping, Dropping
<1>4. /\ w \in Cells /\ w \in Watchers /\ w \in live /\ w \notin On(live, stack)
      /\ mem[w].next \in live => mem[w].next \in On(live, stack)
      /\ Cli \in live => mem[ListHead].next = Cli /\ mem[Cli].prev = ListHead
      /\ w # Cli /\ w # ListHead
  BY <1>1, ReaperHolds, DistinctAssumption DEF Dropping, Loose
<1>5. Sorted /\ LinkOK
  BY <1>1, ReaperOnTop DEF Dropping
<1> HIDE DEF n, w
<1>6. On(live', stack') = On(live, stack)
  <2>1. \A i \in 1..n, a \in live : a # w => (Hides(stack'[i], a) <=> Hides(stack[i], a))
    BY <1>1, <1>2, <1>3 DEF Hides, Making, Loose, w
  <2>2. \A a \in On(live, stack) : a # w
    BY <1>4
  <2> QED
    BY <1>1, <1>3, <2>1, <2>2 DEF On, n
<1>7. /\ Trail(live', stack') = On(live, stack)
      /\ On(live, stack) \subseteq Trail(live, stack)
      /\ \A x \in Trail(live, stack) : x \in On(live, stack) \/ x = w
  <2>1. \A i \in 1..n : stack'[i].at \notin Loose
    BY <1>2, <1>3 DEF Reaping, Dropping, Loose
  <2>2. \A i \in 1..n : stack[i].at \in Loose => i = n
    BY <1>3 DEF Reaping, Dropping, Loose
  <2> QED
    BY <1>3, <1>6, <2>1, <2>2 DEF Trail, n, w
<1>8. \A m : /\ Succ(m, stack') = Succ(m, stack) /\ Back(m, stack') = Back(m, stack)
             /\ Pred(m, stack') = Pred(m, stack)
  <2>1. /\ Linkers(stack') = Linkers(stack) /\ Cutters(stack') = Cutters(stack)
        /\ \A i \in Linkers(stack) \cup Cutters(stack) : stack'[i] = stack[i]
    BY <1>3
  <2> QED
    BY <2>1, SameLinks
<1>9. OrderOK'
  <2>1. Sorted'
    BY <1>1, <1>5, <1>6, <1>8 DEF Sorted
  <2>2. LinkOK'
    BY <1>1, <1>3, <1>5, <1>6, <1>8 DEF LinkOK, LinkAt
  <2> QED
    BY <2>1, <2>2 DEF OrderOK
<1>10. ChainOK'
  <2> SUFFICES ASSUME NEW a \in On(live, stack) PROVE ChainAt(a)'
    BY <1>7 DEF ChainOK
  <2>1. ChainAt(a)
    BY <1>1, <1>7 DEF ListInv, ChainOK
  <2>2. \A x, y : Less(mem', x, y) <=> Less(mem, x, y)
    BY <1>1 DEF Less
  <2> QED
    BY <1>1, <1>6, <1>7, <2>1, <2>2 DEF ChainAt
<1>11. \A i \in 1..n - 1 : Gone(live', stack', w, i)
  BY <1>1 DEF Gone
<1>12. PICK k \in Nat : k = n
  BY <1>3
<1>13. ReaperOK(k)'
  <2>1. stack'[k] = f
    BY <1>3, <1>12
  <2> QED
    BY <1>1, <1>2, <1>4, <1>6, <2>1 DEF ReaperOK, Reaping, Dropping, Loose
<1> QED
  BY <1>1, <1>2, <1>4, <1>6, <1>7, <1>9, <1>10, <1>11, <1>12, <1>13, ReapingKeeps
  DEF n, w, Reaping, Dropping, Loose

\* The SIGCHLD handler goes on behind the WATCHER that it freed.
LEMMA NextKeepsList ==
  ASSUME WatchersInv, TickerInv', ~torn, ReapNext
  PROVE  ListInv'
<1> DEFINE n == Len(stack)
<1> DEFINE w == Top.wp
<1>1. /\ Top \in FrameShape /\ ListInv /\ TickerInv /\ UNCHANGED <<status, child, told, live>>
      /\ Top.at = "freed" /\ status = "running" /\ Touches(Top) \subseteq live
      /\ mem \in [Cells -> CellShape] /\ live \subseteq Cells
  BY TopIsOK, Shapes DEF WatchersInv, ReapNext, At, world
<1>2. PICK f : Becomes(f) /\ f.at = "reaping" /\ f.wp = mem[w].next
  <2>1. PICK b : b = mem[w].next
    OBVIOUS
  <2>2. PICK f : Becomes(f) /\ f = [Top EXCEPT !.wp = b, !.at = "reaping"]
    BY <2>1 DEF ReapNext, AfterReaping
  <2>3. Top \in FrameShape
    BY <1>1
  <2>4. f.at = "reaping" /\ f.wp = b
    BY <2>2, <2>3 DEF FrameShape
  <2> QED
    BY <2>1, <2>2, <2>4
<1>3. /\ n \in Nat \ {0} /\ Top = stack[n] /\ Len(stack') = n /\ stack'[n] = f
      /\ \A i \in 1..n : i = n \/ (i \in 1..n - 1 /\ stack'[i] = stack[i])
      /\ \A i \in 1..n - 1 : stack[i].at \notin Reaping /\ i \in 1..n /\ i < n
      /\ Linkers(stack') = Linkers(stack)
      /\ \A i \in Linkers(stack) : i \in 1..n - 1 /\ stack'[i] = stack[i]
      /\ Cutters(stack) = {} /\ Cutters(stack') = {}
  BY <1>1, <1>2, ReaperMoves DEF Reaping, Dropping
<1>4. /\ w \in Cells /\ w \in Watchers
      /\ mem[w].next \in live => mem[w].next \in On(live, stack)
      /\ mem[w].next # Cli
      /\ Cli \in live => mem[ListHead].next = Cli /\ mem[Cli].prev = ListHead
      /\ ListHead \in live
  BY <1>1, ReaperHolds DEF ListInv, EndsOK
<1>5. Sorted /\ LinkOK
  BY <1>1, ReaperOnTop
<1> HIDE DEF n, w
<1>6. /\ \A a \in live : mem'[a] = mem[a]
      /\ \A a \in Cells : /\ mem'[a].pid \in {mem[a].pid, Unset}
                          /\ mem'[a].next = Cli => mem[a].next = Cli
  <2>1. mem' = IF w \in live THEN mem ELSE [mem EXCEPT ![w] = Blank]
    BY DEF ReapNext, w
  <2>2. Blank.pid = Unset /\ Blank.next = NULL /\ NULL # Cli
    BY DistinctAssumption DEF Blank, Cell
  <2> QED
    BY <1>1, <1>4, <2>1, <2>2
<1>7. /\ On(live, stack') = On(live, stack)
      /\ Trail(live, stack') = On(live, stack) /\ Trail(live, stack) = On(live, stack)
  <2>1. \A i \in 1..n, a \in live : Hides(stack'[i], a) <=> Hides(stack[i], a)
    BY <1>1, <1>2, <1>3 DEF Hides, Making, Loose
  <2>2. On(live, stack') = On(live, stack)
    BY <1>3, <2>1 DEF On, n
  <2>3. \A i \in 1..n : stack'[i].at \notin Loose /\ stack[i].at \notin Loose
    BY <1>1, <1>2, <1>3 DEF Reaping, Dropping, Loose
  <2> QED
    BY <1>3, <2>2, <2>3 DEF Trail, n
<1>8. \A a \in On(live, stack) : a \in Cells /\ a \in live /\ mem'[a] = mem[a]
  BY <1>1, <1>6 DEF On
<1>9. /\ \A i \in Linkers(stack) : /\ stack[i].new \in Cells /\ stack[i].prev \in Cells
                                   /\ mem'[stack[i].new] = mem[stack[i].new]
      /\ \A i, j \in Linkers(stack) : i = j
  BY <1>1, <1>6, LinkersAre, OneWriterEach DEF WatchersInv
<1>10. /\ \A b \in Cells : Back(mem, stack)[b] = mem[b].prev
       /\ \A b \in Cells : Back(mem', stack')[b] = mem'[b].prev
  BY <1>3, NothingToCut
<1>11. /\ \A a \in On(live, stack) : Succ(mem', stack')[a] = Succ(mem, stack)[a]
       /\ \A b \in On(live, stack) : Pred(mem', stack')[b] = Pred(mem, stack)[b]
  <2>1. /\ \A i \in Linkers(stack) : Succ(mem, stack)[stack[i].prev] = mem[stack[i].new].next
        /\ \A a \in Cells : (\A i \in Linkers(stack) : stack[i].prev # a) =>
             Succ(mem, stack)[a] = mem[a].next
    BY <1>9, SuccIs
  <2>2. \A i, j \in Linkers(stack') : i = j
    BY <1>3, <1>9
  <2>3. /\ \A i \in Linkers(stack) : Succ(mem', stack')[stack[i].prev] = mem'[stack[i].new].next
        /\ \A a \in Cells : (\A i \in Linkers(stack) : stack[i].prev # a) =>
             Succ(mem', stack')[a] = mem'[a].next
    <3>1. /\ \A i \in Linkers(stack') : stack'[i].prev \in Cells =>
               Succ(mem', stack')[stack'[i].prev] = mem'[stack'[i].new].next
          /\ \A a \in Cells : (\A i \in Linkers(stack') : stack'[i].prev # a) =>
               Succ(mem', stack')[a] = mem'[a].next
      BY <2>2, SuccIs
    <3> QED
      BY <1>3, <1>9, <3>1
  <2>4. \A a \in On(live, stack) : Succ(mem', stack')[a] = Succ(mem, stack)[a]
    BY <1>8, <1>9, <2>1, <2>3
  <2>5. \A b \in Cells :
          /\ \A i \in Linkers(stack) : stack[i].new = Back(mem, stack)[b] =>
               Pred(mem, stack)[b] = stack[i].prev
          /\ (\A i \in Linkers(stack) : stack[i].new # Back(mem, stack)[b]) =>
               Pred(mem, stack)[b] = Back(mem, stack)[b]
    BY <1>9, PredIs
  <2>6. \A b \in Cells :
          /\ \A i \in Linkers(stack') : stack'[i].new = Back(mem', stack')[b] =>
               Pred(mem', stack')[b] = stack'[i].prev
          /\ (\A i \in Linkers(stack') : stack'[i].new # Back(mem', stack')[b]) =>
               Pred(mem', stack')[b] = Back(mem', stack')[b]
    BY <2>2, PredIs
  <2>7. \A b \in On(live, stack) : Back(mem', stack')[b] = Back(mem, stack)[b]
    BY <1>8, <1>10
  <2> QED
    BY <1>3, <1>8, <2>4, <2>5, <2>6, <2>7
<1>12. OrderOK'
  <2>1. Sorted'
    BY <1>1, <1>5, <1>7, <1>8, <1>11, SameOrder DEF Sorted
  <2>2. LinkOK'
    <3> SUFFICES ASSUME NEW i \in Linkers(stack), stack[i].prev \in On(live, stack)
                 PROVE  /\ mem'[stack[i].new].prev = stack[i].prev
                        /\ mem'[stack[i].prev].next \in
                             (Cells \ On(live, stack)) \cup {mem'[stack[i].new].next}
                        /\ mem'[stack[i].new].next # NULL =>
                             Back(mem', stack')[mem'[stack[i].new].next] = stack[i].new
      BY <1>1, <1>3, <1>7 DEF LinkOK, LinkAt
    <3>1. /\ mem[stack[i].new].prev = stack[i].prev
          /\ mem[stack[i].prev].next \in (Cells \ On(live, stack)) \cup {mem[stack[i].new].next}
          /\ mem[stack[i].new].next # NULL =>
                             Back(mem, stack)[mem[stack[i].new].next] = stack[i].new
      BY <1>5 DEF LinkOK, LinkAt
    <3>2. mem[stack[i].new].next # NULL => mem[stack[i].new].next \in On(live, stack)
      <4>1. Succ(mem, stack)[stack[i].prev] = mem[stack[i].new].next
        BY <1>9, SuccIs
      <4> QED
        BY <1>5, <4>1 DEF Sorted, InOrder
    <3> QED
      BY <1>8, <1>9, <1>10, <3>1, <3>2
  <2> QED
    BY <2>1, <2>2 DEF OrderOK
<1>13. ChainOK'
  <2> SUFFICES ASSUME NEW a \in On(live, stack) PROVE ChainAt(a)'
    BY <1>1, <1>7 DEF ChainOK
  <2>1. ChainAt(a)
    BY <1>1, <1>7 DEF ListInv, ChainOK
  <2>2. \A x, y \in live : Less(mem', x, y) <=> Less(mem, x, y)
    BY <1>6 DEF Less
  <2> QED
    BY <1>1, <1>7, <1>8, <2>1, <2>2 DEF ChainAt
<1>14. PICK k \in Nat : k = n
  BY <1>3
<1>15. ReaperOK(k)'
  <2>1. stack'[k] = f
    BY <1>3, <1>14
  <2> QED
    BY <1>1, <1>2, <1>4, <1>7, <2>1 DEF ReaperOK, Reaping, Dropping, Loose
<1>16. \A i \in 1..n - 1 : stack[i].at = "backlink" => mem'[stack[i].new] = mem[stack[i].new]
  <2>1. ASSUME NEW i \in 1..n - 1, stack[i].at = "backlink" PROVE stack[i].new \in live
    <3>1. i \in 1..Len(stack)
      BY <1>3 DEF n
    <3>2. MakerOK(i)
      BY <1>1, <3>1 DEF ListInv, FramesFit, FrameFits
    <3> QED
      BY <2>1, <3>2 DEF MakerOK, Making
  <2> QED
    BY <1>6, <2>1
<1> QED
  BY <1>1, <1>2, <1>4, <1>6, <1>7, <1>8, <1>12, <1>13, <1>14, <1>15, <1>16, ReapingKeeps
  DEF n, w, Reaping, Dropping, Loose

\* The first write of cleanWatcher() takes its WATCHER out of the list.  Another one may
\* be about to be linked in front of it, or behind it: then the handler's pointer to the
\* next may have been freed, and the handler goes astray.
LEMMA UnlinkKeepsList ==
  ASSUME WatchersInv, TickerInv', ~torn', ReapUnlink
  PROVE  ListInv'
<1> DEFINE n == Len(stack)
<1> DEFINE w == Top.wp
<1> DEFINE p == mem[w].prev
<1> DEFINE s == mem[w].next
<1> DEFINE q == Pred(mem, stack)[w]
<1>1. /\ Top \in FrameShape /\ ListInv /\ TickerInv /\ UNCHANGED <<status, child, told, live>>
      /\ Top.at = "unlink" /\ status = "running" /\ Touches(Top) \subseteq live /\ ~torn
      /\ mem \in [Cells -> CellShape] /\ live \subseteq Cells
  BY TopIsOK, Shapes DEF WatchersInv, ReapUnlink, At, world
<1>2. PICK f : Becomes(f) /\ f.at = "unlinkNext" /\ f.wp = w
  <2>1. PICK f : Becomes(f) /\ f = [Top EXCEPT !.at = "unlinkNext"]
    BY DEF ReapUnlink
  <2> QED
    BY <1>1, <2>1 DEF FrameShape
<1>3. /\ n \in Nat \ {0} /\ Top = stack[n] /\ Len(stack') = n /\ stack'[n] = f
      /\ \A i \in 1..n : i = n \/ (i \in 1..n - 1 /\ stack'[i] = stack[i])
      /\ \A i \in 1..n - 1 : stack[i].at \notin Reaping /\ i \in 1..n /\ i < n
      /\ Linkers(stack') = Linkers(stack)
      /\ \A i \in Linkers(stack) : i \in 1..n - 1 /\ stack'[i] = stack[i]
      /\ Cutters(stack) = {} /\ Cutters(stack') = {n}
  BY <1>1, <1>2, ReaperMoves DEF Reaping, Dropping
<1>4. /\ w \in Cells /\ w \in Watchers /\ w \in live /\ w \in On(live, stack) /\ s # Cli
      /\ mem[w].pid = Unset \/ child[mem[w].pid] = "reaped"
      /\ Cli \in live => mem[ListHead].next = Cli /\ mem[Cli].prev = ListHead
      /\ w # Cli /\ w # ListHead
  BY <1>1, ReaperHolds, DistinctAssumption DEF Dropping
<1>5. /\ Sorted /\ LinkOK /\ Trail(live, stack) = On(live, stack)
      /\ Apart(On(live, stack), On(live, stack), mem) /\ Numbered(On(live, stack), mem)
  <2>1. Trail(live, stack) = On(live, stack)
    BY <1>1, NoneIsLoose DEF WatchersInv, Reaping, Dropping, Loose
  <2> QED
    BY <1>1, <2>1, ReaperOnTop, EndsAreOn DEF Dropping
<1> HIDE DEF n, s, w, p, q
<1>6. /\ \A a \in On(live, stack) : a \in Cells /\ a \in live
      /\ NULL \notin Cells /\ ListHead \in On(live, stack)
      /\ On(live, stack) \subseteq live
  BY <1>1, EndsAreOn, DistinctAssumption DEF On, Cells
<1>7. /\ \A i \in Linkers(stack) :
            /\ stack[i].new \in Cells /\ stack[i].new \notin On(live, stack)
            /\ stack[i].prev \in Cells /\ stack[i].prev # ListHead
            /\ i \in 1..Len(stack) /\ stack[i].at = "link"
            /\ stack[i].prev \in On(live, stack) =>
                 /\ mem[stack[i].new].prev = stack[i].prev
                 /\ mem[stack[i].prev].next \in (Cells \ On(live, stack)) \cup {mem[stack[i].new].next}
                 /\ mem[stack[i].new].next # NULL =>
                      mem[mem[stack[i].new].next].prev = stack[i].new
                 /\ mem[stack[i].new].next # NULL => mem[stack[i].new].next \in Cells
      /\ \A i, j \in Linkers(stack) : i = j
  <2>1. \A b \in Cells : Back(mem, stack)[b] = mem[b].prev
    <3>1. Cutters(stack) = {}
      BY <1>3
    <3> QED
      BY <3>1, NothingToCut
  <2>2. ASSUME NEW i \in Linkers(stack) PROVE LinkAt(i)
    BY <1>5 DEF LinkOK
  <2>3. ASSUME NEW i \in Linkers(stack)
        PROVE  mem[stack[i].new].next # NULL => mem[stack[i].new].next \in Cells
    <3>1. mem[stack[i].new] \in CellShape
      BY <1>1, LinkersAre
    <3> QED
      BY <3>1 DEF CellShape, Successors, Cells
  <2> QED
    BY <1>1, <2>1, <2>2, <2>3, LinkersAre, OneWriterEach DEF WatchersInv, LinkAt
<1>8. /\ \A i \in Linkers(stack) : Succ(mem, stack)[stack[i].prev] = mem[stack[i].new].next
      /\ \A a \in Cells :
           (\A i \in Linkers(stack) : stack[i].prev # a) => Succ(mem, stack)[a] = mem[a].next
  BY <1>7, SuccIs
<1>9. \A b \in Cells :
        /\ \A i \in Linkers(stack) : stack[i].new = mem[b].prev => Pred(mem, stack)[b] = stack[i].prev
        /\ (\A i \in Linkers(stack) : stack[i].new # mem[b].prev) => Pred(mem, stack)[b] = mem[b].prev
  <2>1. \A b \in Cells : Back(mem, stack)[b] = mem[b].prev
    <3>1. Cutters(stack) = {}
      BY <1>3
    <3> QED
      BY <3>1, NothingToCut
  <2> QED
    BY <1>7, <2>1, PredIs
\* What is in front of w: q in the list, and p in memory.
<1>10. /\ q \in On(live, stack) /\ Succ(mem, stack)[q] = w /\ Less(mem, q, w) /\ q # w
       /\ \A i \in Linkers(stack) : stack[i].new = p => q = stack[i].prev
       /\ (\A i \in Linkers(stack) : stack[i].new # p) => q = p
  <2>1. q \in On(live, stack) /\ Succ(mem, stack)[q] = w
    BY <1>4, <1>5 DEF Sorted, InOrder, q
  <2>2. Less(mem, q, w)
    BY <1>4, <1>5, <1>6, <2>1 DEF Sorted, InOrder
  <2>3. ~Less(mem, w, w)
    BY <1>4, <1>5, LessIsOrder
  <2> QED
    BY <1>4, <1>9, <2>1, <2>2, <2>3 DEF p, q
<1>11. p \in On(live, stack) =>
         /\ p = q /\ mem[p].next = w /\ \A i \in Linkers(stack) : stack[i].prev # p
         /\ \A i \in Linkers(stack) : stack[i].new # p
  <2> SUFFICES ASSUME p \in On(live, stack)
               PROVE  /\ p = q /\ mem[p].next = w
                      /\ \A i \in Linkers(stack) : stack[i].prev # p
      BY <1>7
  <2>1. p = q
    BY <1>7, <1>10
  <2>2. ASSUME NEW i \in Linkers(stack), stack[i].prev = p PROVE FALSE
    <3>1. mem[stack[i].new].next = w
      BY <1>8, <1>10, <2>1, <2>2
    <3>2. p = stack[i].new
      BY <1>4, <1>6, <1>7, <2>2, <3>1 DEF p
    <3> QED
      BY <1>7, <3>2
  <2> QED
    BY <1>6, <1>8, <1>10, <2>1, <2>2
<1>12. p \in Cells /\ (p \notin On(live, stack) => \E i \in Linkers(stack) : stack[i].new = p)
  BY <1>6, <1>7, <1>10
<1>13. \A b \in Cells : /\ mem'[b].next = IF b = p THEN s ELSE mem[b].next
                        /\ mem'[b].wid = mem[b].wid /\ mem'[b].pid = mem[b].pid
                        /\ mem'[b].prev = mem[b].prev
  <2>1. mem' = [mem EXCEPT ![p].next = s]
    BY DEF ReapUnlink, p, s, w
  <2>2. \A b \in Cells : mem[b] \in CellShape
    BY <1>1
  <2> QED
    BY <1>1, <1>12, <2>1, <2>2 DEF CellShape
<1>14. /\ s = NULL \/ s \in Cells
       /\ s \in live => /\ s \in On(live, stack) \ {w} /\ Less(mem, w, s)
                        /\ \A v \in On(live, stack) : Less(mem, w, v) => ~Less(mem, v, s)
       /\ s = NULL => \A v \in On(live, stack) : ~Less(mem, w, v)
  <2>1. s \in Successors
    BY <1>1, <1>4 DEF CellShape, s
  <2>2. ChainAt(w)
    BY <1>1, <1>4, <1>5 DEF ListInv, ChainOK
  <2>3. ~Less(mem, w, w)
    BY <1>4, <1>5, LessIsOrder
  <2> QED
    BY <1>5, <2>1, <2>2, <2>3 DEF Successors, Cells, ChainAt, s
<1>15. /\ On(live', stack') = On(live, stack) \ {w}
       /\ Trail(live', stack') =
            On(live', stack') \cup (IF Linkers(stack) = {} THEN {} ELSE {w})
       /\ \A i \in 1..n - 1 : Gone(live', stack', w, i)
  <2>1. \A i \in 1..n, a \in live :
          /\ a # w => (Hides(stack'[i], a) <=> Hides(stack[i], a))
          /\ i = n => Hides(stack'[i], w)
    BY <1>1, <1>2, <1>3 DEF Hides, Making, Loose
  <2>2. n \in 1..n
    BY <1>3
  <2>3. On(live', stack') = On(live, stack) \ {w}
    BY <1>1, <1>3, <1>4, <2>1, <2>2 DEF On, n
  <2>4. \A i \in 1..n : stack'[i].at \in Loose <=> i = n
    BY <1>2, <1>3 DEF Reaping, Dropping, Loose
  <2>5. /\ stack'[n].wp = w
        /\ \A i \in 1..n : stack'[i].at = "link" <=> i \in Linkers(stack)
    BY <1>2, <1>3 DEF Linkers, n
  <2>6. \A i \in Linkers(stack) : i \in 1..n /\ i < n
    BY <1>3
  <2>7. Trail(live', stack') = On(live', stack') \cup (IF Linkers(stack) = {} THEN {} ELSE {w})
    BY <1>1, <1>3, <1>4, <2>2, <2>4, <2>5, <2>6 DEF Trail, n
  <2>8. \A i \in 1..n - 1 : Gone(live', stack', w, i)
    BY <1>3, <2>2, <2>4, <2>5 DEF Gone
  <2> QED
    BY <2>3, <2>7, <2>8
<1>16. \A a, b \in Cells : Less(mem', a, b) <=> Less(mem, a, b)
  BY <1>13 DEF Less
<1>17. \/ Astray'
       \/ s = Succ(mem, stack)[w]
  <2> SUFFICES ASSUME s # Succ(mem, stack)[w] PROVE Astray'
    OBVIOUS
  <2>1. PICK i \in Linkers(stack) : stack[i].prev = w
    BY <1>4, <1>8 DEF s
  <2>2. s \in Cells \ live
    BY <1>4, <1>7, <1>8, <1>14, <2>1 DEF s
  <2>3. mem'[w].next = s
    BY <1>4, <1>13 DEF s
  <2>4. i \in 1..Len(stack') /\ n \in 1..Len(stack') /\ i < n /\ stack'[i].at = "link"
    BY <1>3, <1>7, <2>1
  <2> QED
    BY <1>1, <1>2, <1>3, <2>2, <2>3, <2>4 DEF Astray
<1>18. ChainOK'
  <2> SUFFICES ASSUME NEW a \in Trail(live', stack') PROVE ChainAt(a)'
    BY DEF ChainOK
  <2>1. a \in On(live, stack) /\ a \in Cells
    BY <1>4, <1>6, <1>15
  <2>2. CASE a = p
    <3>1. mem'[a].next = s /\ a = q /\ a \in Cells
      BY <1>11, <1>13, <2>1, <2>2
    <3>2. ASSUME NEW v \in On(live', stack'), Less(mem, a, v) PROVE Less(mem, w, v)
      <4>1. v \in On(live, stack) /\ v # w
        BY <1>15, <3>2
      <4>2. ~Less(mem, v, w)
        BY <1>5, <1>10, <3>1, <3>2, <4>1 DEF Sorted, InOrder
      <4> QED
        BY <1>4, <1>5, <4>1, <4>2 DEF Apart
    <3>3. ASSUME s \in live
          PROVE  /\ s \in Trail(live', stack') /\ Less(mem', a, s)
                 /\ \A v \in On(live', stack') : Less(mem', a, v) => ~Less(mem', v, s)
      <4>1. s \in Trail(live', stack') /\ s \in Cells /\ s \in On(live, stack)
        BY <1>6, <1>14, <1>15, <3>3
      <4>2. Less(mem', a, s)
        <5>1. Less(mem, a, w) /\ Less(mem, w, s)
          BY <1>10, <1>14, <3>1, <3>3
        <5> QED
          BY <1>4, <1>5, <1>16, <2>1, <4>1, <5>1, LessIsOrder
      <4>3. ASSUME NEW v \in On(live', stack'), Less(mem', a, v) PROVE ~Less(mem', v, s)
        <5>1. v \in On(live, stack) /\ v \in Cells
          BY <1>6, <1>15
        <5> QED
          BY <1>14, <1>16, <2>1, <3>2, <3>3, <4>1, <4>3, <5>1
      <4> QED
        BY <4>1, <4>2, <4>3
    <3>4. s = NULL => \A v \in On(live', stack') : ~Less(mem', a, v)
      BY <1>6, <1>14, <1>15, <1>16, <2>1, <3>2
    <3> QED
      BY <1>1, <3>1, <3>3, <3>4 DEF ChainAt
  <2>3. CASE a # p
    <3>1. mem'[a].next = mem[a].next /\ ChainAt(a)
      BY <1>1, <1>5, <1>13, <2>1, <2>3 DEF ListInv, ChainOK
    <3>2. mem[a].next = w => Linkers(stack) # {}
      <4>1. ASSUME Linkers(stack) = {}, mem[a].next = w PROVE FALSE
        <5>1. Succ(mem, stack)[a] = w /\ p = q
          BY <1>8, <1>10, <2>1, <4>1
        <5>2. a = q
          BY <1>5, <1>6, <1>10, <2>1, <4>1, <5>1, <1>4 DEF Sorted, InOrder, q
        <5> QED
          BY <2>3, <5>1, <5>2
      <4> QED
        BY <4>1
    <3>3. \A x \in On(live, stack) : x # w \/ Linkers(stack) # {} => x \in Trail(live', stack')
      BY <1>15
    <3> QED
      BY <1>1, <1>5, <1>6, <1>15, <1>16, <2>1, <3>1, <3>2, <3>3 DEF ChainAt
  <2> QED
    BY <2>2, <2>3
<1>19. \A b \in Cells : Back(mem', stack')[b] = IF b = s THEN p ELSE mem[b].prev
  <2>1. \A i, j \in Cutters(stack') : i = j
    BY <1>3
  <2>2. \A i \in Cutters(stack') : stack'[i].wp = w
    BY <1>2, <1>3
  <2>3. mem'[w].prev = p /\ mem'[w].next = s
    BY <1>4, <1>13 DEF p, s
  <2>4. \A b \in Cells :
          /\ \A i \in Cutters(stack') : mem'[stack'[i].wp].next = b =>
               Back(mem', stack')[b] = mem'[stack'[i].wp].prev
          /\ (\A i \in Cutters(stack') : mem'[stack'[i].wp].next # b) =>
               Back(mem', stack')[b] = mem'[b].prev
    BY <2>1, BackIs
  <2> QED
    BY <1>3, <1>13, <2>2, <2>3, <2>4
<1>20. /\ \A i \in Linkers(stack) : Succ(mem', stack')[stack[i].prev] = mem'[stack[i].new].next
       /\ \A a \in Cells : (\A i \in Linkers(stack) : stack[i].prev # a) =>
            Succ(mem', stack')[a] = mem'[a].next
       /\ \A b \in Cells :
            /\ \A i \in Linkers(stack) : stack[i].new = Back(mem', stack')[b] =>
                 Pred(mem', stack')[b] = stack[i].prev
            /\ (\A i \in Linkers(stack) : stack[i].new # Back(mem', stack')[b]) =>
                 Pred(mem', stack')[b] = Back(mem', stack')[b]
  <2>1. \A i, j \in Linkers(stack') : i = j
    BY <1>3, <1>7
  <2>2. /\ \A i \in Linkers(stack') : stack'[i].prev \in Cells =>
             Succ(mem', stack')[stack'[i].prev] = mem'[stack'[i].new].next
        /\ \A a \in Cells : (\A i \in Linkers(stack') : stack'[i].prev # a) =>
             Succ(mem', stack')[a] = mem'[a].next
    BY <2>1, SuccIs
  <2>3. \A b \in Cells :
            /\ \A i \in Linkers(stack') : stack'[i].new = Back(mem', stack')[b] =>
                 Pred(mem', stack')[b] = stack'[i].prev
            /\ (\A i \in Linkers(stack') : stack'[i].new # Back(mem', stack')[b]) =>
                 Pred(mem', stack')[b] = Back(mem', stack')[b]
    BY <2>1, PredIs
  <2> QED
    BY <1>3, <1>7, <2>2, <2>3
<1>21. ASSUME s = Succ(mem, stack)[w] PROVE Sorted' /\ LinkOK'
  <2>1. \A a \in On(live, stack) \ {w} :
          /\ Succ(mem', stack')[a] = IF a = q THEN s ELSE Succ(mem, stack)[a]
          /\ mem'[a].wid = mem[a].wid
    <3> SUFFICES ASSUME NEW a \in On(live, stack) \ {w}
                 PROVE  Succ(mem', stack')[a] = IF a = q THEN s ELSE Succ(mem, stack)[a]
      BY <1>6, <1>13
    <3>1. CASE \E i \in Linkers(stack) : stack[i].prev = a
      <4>1. PICK i \in Linkers(stack) : stack[i].prev = a
        BY <3>1
      <4>2. /\ Succ(mem', stack')[a] = IF stack[i].new = p THEN s ELSE mem[stack[i].new].next
            /\ Succ(mem, stack)[a] = mem[stack[i].new].next
        BY <1>7, <1>8, <1>13, <1>20, <4>1
      <4>3. a = q <=> stack[i].new = p
        BY <1>7, <1>10, <1>11, <1>12, <4>1
      <4> QED
        BY <4>2, <4>3
    <3>2. CASE \A i \in Linkers(stack) : stack[i].prev # a
      <4>1. /\ Succ(mem', stack')[a] = IF a = p THEN s ELSE mem[a].next
            /\ Succ(mem, stack)[a] = mem[a].next
        BY <1>6, <1>8, <1>13, <1>20, <3>2
      <4>2. a = q <=> a = p
        BY <1>7, <1>10, <1>11, <3>2
      <4> QED
        BY <4>1, <4>2
    <3> QED
      BY <3>1, <3>2
  <2>2. \A b \in On(live, stack) \ {w, ListHead} :
          Pred(mem', stack')[b] = IF b = s THEN q ELSE Pred(mem, stack)[b]
    <3> SUFFICES ASSUME NEW b \in On(live, stack) \ {w, ListHead}
                 PROVE  Pred(mem', stack')[b] = IF b = s THEN q ELSE Pred(mem, stack)[b]
      OBVIOUS
    <3>1. CASE b = s
      BY <1>6, <1>10, <1>19, <1>20, <3>1
    <3>2. CASE b # s
      BY <1>6, <1>9, <1>19, <1>20, <3>2
    <3> QED
      BY <3>1, <3>2
  <2>3. Sorted'
    <3>1. InOrder(On(live, stack), Succ(mem, stack), Pred(mem, stack), mem)
      BY <1>5 DEF Sorted
    <3>2. \A a \in On(live, stack) \ {w} :
            /\ Succ(mem', stack')[a] = IF a = Pred(mem, stack)[w] THEN Succ(mem, stack)[w]
                                       ELSE Succ(mem, stack)[a]
            /\ mem'[a].wid = mem[a].wid
      BY <1>21, <2>1 DEF q
    <3>3. \A b \in On(live, stack) \ {w, ListHead} :
            Pred(mem', stack')[b] = IF b = Succ(mem, stack)[w] THEN Pred(mem, stack)[w]
                                    ELSE Pred(mem, stack)[b]
      BY <1>21, <2>2 DEF q
    <3> QED
      <4>1. PICK S, nx, pv, nx2, pv2, m2 :
              /\ S = On(live, stack) /\ nx = Succ(mem, stack) /\ pv = Pred(mem, stack)
              /\ nx2 = Succ(mem', stack') /\ pv2 = Pred(mem', stack') /\ m2 = mem'
        OBVIOUS
      <4>2. /\ InOrder(S, nx, pv, mem) /\ Apart(S, S, mem) /\ Numbered(S, mem)
            /\ w \in S /\ w # ListHead
        BY <1>4, <1>5, <1>15, <3>1, <4>1
      <4>3. /\ \A a \in S \ {w} : /\ nx2[a] = IF a = pv[w] THEN nx[w] ELSE nx[a]
                                  /\ m2[a].wid = mem[a].wid
            /\ \A b \in S \ {w, ListHead} : pv2[b] = IF b = nx[w] THEN pv[w] ELSE pv[b]
        BY <3>2, <3>3, <4>1
      <4>4. InOrder(S \ {w}, nx2, pv2, m2)
        BY <4>2, <4>3, RemoveFromOrder
      <4> QED
        BY <1>4, <1>5, <1>15, <4>1, <4>4 DEF Sorted
  <2>4. LinkOK'
    <3> SUFFICES ASSUME NEW i \in Linkers(stack), stack[i].prev \in On(live, stack) \ {w}
                 PROVE  /\ mem'[stack[i].new].prev = stack[i].prev
                        /\ mem'[stack[i].prev].next \in
                             (Cells \ On(live', stack')) \cup {mem'[stack[i].new].next}
                        /\ mem'[stack[i].new].next # NULL =>
                             Back(mem', stack')[mem'[stack[i].new].next] = stack[i].new
      BY <1>3, <1>15 DEF LinkOK, LinkAt
    <3>1. PICK N, P : N = stack[i].new /\ P = stack[i].prev
      OBVIOUS
    <3>2. /\ N \in Cells /\ P \in Cells /\ P \in On(live, stack) /\ P # w
          /\ mem[N].prev = P /\ mem[P].next \in (Cells \ On(live, stack)) \cup {mem[N].next}
          /\ mem[N].next # NULL => mem[mem[N].next].prev = N /\ mem[N].next \in Cells
          /\ Succ(mem, stack)[P] = mem[N].next
      BY <1>7, <1>8, <3>1
    <3>3. P # p
      BY <1>11, <3>1, <3>2
    <3>4. mem'[N].prev = P /\ mem'[P].next = mem[P].next
      BY <1>13, <3>2, <3>3
    <3>5. CASE p = N
      <4>1. q = P /\ mem[N].next = w /\ mem'[N].next = s
        BY <1>10, <1>13, <3>1, <3>2, <3>5
      <4>2. mem[P].next \in Cells \ On(live', stack')
        BY <1>4, <1>15, <3>2, <4>1
      <4>3. s # NULL => Back(mem', stack')[s] = N
        BY <1>14, <1>19, <3>5
      <4> QED
        BY <3>1, <3>4, <4>1, <4>2, <4>3
    <3>6. CASE p # N
      <4>1. mem'[N].next = mem[N].next
        BY <1>13, <3>2, <3>6
      <4>2. mem[P].next \in (Cells \ On(live', stack')) \cup {mem[N].next}
        BY <1>15, <3>2
      <4>3. mem[N].next # NULL => mem[N].next # s
        <5>1. mem[N].next # NULL => Pred(mem, stack)[mem[N].next] = P
          BY <1>5, <3>2 DEF Sorted, InOrder
        <5>2. s # NULL => Pred(mem, stack)[s] = w
          BY <1>4, <1>5, <1>21 DEF Sorted, InOrder
        <5> QED
          BY <3>2, <5>1, <5>2
      <4>4. mem[N].next # NULL => Back(mem', stack')[mem[N].next] = N
        BY <1>19, <3>2, <4>3
      <4> QED
        BY <3>1, <3>4, <4>1, <4>2, <4>4
    <3> QED
      BY <3>5, <3>6
  <2> QED
    BY <2>3, <2>4
<1>22. OrderOK'
  BY <1>17, <1>21 DEF OrderOK
<1>23. PICK k \in Nat : k = n
  BY <1>3
<1>24. ReaperOK(k)'
  <2>1. stack'[k] = f /\ mem'[w].next = s /\ mem'[w].pid = mem[w].pid
    BY <1>3, <1>4, <1>13, <1>23 DEF s
  <2>2. s \in live => s \in On(live', stack')
    BY <1>14, <1>15
  <2>3. s \in On(live', stack') \cup {NULL} \/ Astray'
    <3>1. CASE s = Succ(mem, stack)[w]
      <4>1. s = NULL \/ s \in live
        BY <1>4, <1>5, <1>6, <3>1 DEF Sorted, InOrder
      <4> QED
        BY <2>2, <4>1
    <3> QED
      BY <1>17, <3>1
  <2> QED
    BY <1>1, <1>2, <1>4, <2>1, <2>2, <2>3 DEF ReaperOK, Reaping, Dropping, Loose
<1>25. ASSUME Cli \in live, NEW i \in 1..n - 1, stack[i].at = "backlink",
              stack[i].prev \in On(live', stack')
       PROVE  /\ mem'[stack[i].new].prev = mem[stack[i].new].prev
              /\ mem'[stack[i].new].next = mem[stack[i].new].next
              /\ mem'[stack[i].prev].next = mem[stack[i].prev].next
  <2>1. i \in 1..n /\ i \in 1..Len(stack) /\ stack[i].prev \in On(live, stack)
    BY <1>3, <1>15, <1>25 DEF n
  <2>2. PlaceOK(i) /\ FrameOK(stack[i])
    BY <1>1, <1>25, <2>1, Shapes DEF ListInv, FramesFit, FrameFits
  <2>3. mem[stack[i].new].next = mem[stack[i].prev].next /\ stack[i].new \in Cells
    BY <1>25, <2>1, <2>2 DEF PlaceOK, FrameOK, Creating, Cells
  <2>4. stack[i].new \notin On(live, stack)
    BY <1>25, <2>1 DEF On, Hides, Making
  <2>5. stack[i].new # p
    <3>1. Linkers(stack) = {}
      <4>1. ASSUME NEW j \in Linkers(stack) PROVE FALSE
        <5>1. i = j
          BY <1>1, <1>7, <1>25, <2>1, OneOfEach DEF WatchersInv, OneMaker, Commanding, Creating
        <5> QED
          BY <1>7, <1>25, <5>1
      <4> QED
        BY <4>1
    <3> QED
      BY <1>12, <2>4, <3>1
  <2>6. stack[i].prev # p
    <3>1. i \in DOMAIN Below /\ Below[i] = stack[i]
      BY <1>1, <1>25, TopOfStack, TopIsOK DEF n
    <3>2. mem[stack[i].new].next # w
      BY <1>25, <3>1 DEF ReapUnlink, w
    <3> QED
      BY <1>11, <2>1, <2>3, <3>2
  <2> QED
    BY <1>6, <1>13, <2>1, <2>3, <2>5, <2>6
<1>26. /\ \A a \in Cells : mem'[a].next = Cli => mem[a].next = Cli
       /\ Cli \in live => mem'[ListHead].next = Cli /\ mem'[Cli].prev = ListHead
  <2>1. ASSUME Cli \in live PROVE p # ListHead
    BY <1>4, <1>6, <1>11, <2>1
  <2> QED
    BY <1>4, <1>6, <1>13, <2>1 DEF Cells
<1>27. \A a \in On(live', stack') : mem'[a].next = mem[a].next \/ mem[a].next = w
  BY <1>6, <1>11, <1>13, <1>15
<1>28. /\ On(live', stack') \subseteq On(live, stack)
       /\ Trail(live', stack') \subseteq Trail(live, stack)
       /\ \A x \in Trail(live, stack) :
            \/ x \in Trail(live', stack') /\ (x \in On(live, stack) => x \in On(live', stack'))
            \/ x = w
  BY <1>4, <1>5, <1>15
<1> QED
  BY <1>1, <1>2, <1>6, <1>13, <1>15, <1>18, <1>22, <1>23, <1>24, <1>25, <1>26, <1>27, <1>28,
     ReapingKeeps
  DEF n, w, Reaping, Dropping, Loose

(***************************************************************************)
(* The invariant holds always.                                             *)
(***************************************************************************)

\* The running frame may go on to f: it is still the loop's, with no command to obey, or
\* SIGIO is blocked as it was.
GoesOn(f) ==
  /\ f.at \in Commanding \cup {"parse"} => Top.at \in Commanding \cup {"parse"} \cup Waiting
  /\ \/ f.kind = "main" /\ f.at \in Idle
     \/ /\ f.saved = Top.saved
        /\ "IO" \in mask' \/ (mask \subseteq mask' /\ (f.kind = "main" => Top.at \notin Idle))

\* Then there still is only one frame that obeys commands.
LEMMA ParserGoesOn ==
  ASSUME TickerInv, ParsersOK, NEW f, Becomes(f), f.kind = Top.kind, GoesOn(f)
  PROVE  ParsersOK'
<1> DEFINE n == Len(stack)
<1>1. /\ n \in Nat \ {0} /\ Top = stack[n] /\ Len(stack') = n /\ stack'[n] = f
      /\ \A i \in 1..n - 1 : stack'[i] = stack[i]
  BY Shapes, TopBecomes DEF TickerInv
<1>2. /\ \A i \in 1..n : stack[i].kind = "main" <=> i = 1
      /\ Top.at \in Waiting => Top.kind = "main"
  BY Shapes, <1>1 DEF TickerInv, HandlersNest, FrameOK
<1>3. /\ \A i \in 1..n : /\ stack[i].at \in Commanding \cup {"parse"} =>
                              stack[i].kind \in {"main", "IO"}
                         /\ stack[i].kind = "IO" => stack[1].at \in Idle
      /\ stack[1].at \notin Idle => "IO" \in mask /\ \A i \in 1..n : i > 1 => "IO" \in stack[i].saved
  BY DEF ParsersOK
<1> HIDE DEF n
<1>4. CASE n = 1
  <2>1. f.kind = "main" /\ stack'[1] = f /\ stack[1] = Top /\ \A i \in 1..n : i = 1
    BY <1>1, <1>2, <1>4
  <2>2. f.at \notin Idle => "IO" \in mask'
    BY <1>3, <2>1 DEF GoesOn
  <2> QED
    BY <1>1, <2>1, <2>2 DEF ParsersOK
<1>5. CASE n > 1
  <2>1. stack'[1] = stack[1] /\ f.kind # "main" /\ f.saved = Top.saved
    BY <1>1, <1>2, <1>5 DEF GoesOn
  <2>2. \A i \in 1..n : stack'[i].kind = stack[i].kind /\ stack'[i].saved = stack[i].saved
    BY <1>1, <2>1
  <2>3. \A i \in 1..n : stack'[i].at \in Commanding \cup {"parse"} =>
                          stack[i].kind \in {"main", "IO"}
    BY <1>1, <1>2, <1>3 DEF GoesOn
  <2>4. stack[1].at \notin Idle => "IO" \in mask'
    BY <1>3, <2>1 DEF GoesOn
  <2> QED
    BY <1>1, <1>3, <2>1, <2>2, <2>3, <2>4 DEF ParsersOK
<1> QED
  BY <1>1, <1>4, <1>5

\* The steps of the running frame.
LEMMA MoversAreParsers ==
  ASSUME TickerInv, ParsersOK,
         \/ MainPrompt \/ MainClear \/ MainSuspend \/ ParseStart \/ NothingToRead \/ ReadOutput
         \/ Recv \/ ReadCommands \/ (ParseEnd /\ Top.kind = "main")
         \/ StartWithoutRoom \/ StartCreate \/ StartScan \/ StartInsert \/ StartBacklink
         \/ StartLink \/ StartFork \/ StartSetPid \/ Walk \/ Find \/ Obey
         \/ StartSubscribe /\ Becomes([Top EXCEPT !.at = "recv"])
         \/ InterruptStart \/ RemoveCli \/ RemoveWatcher
         \/ ReapStart \/ ReapNone \/ ReapOne \/ ReapUnlink \/ ReapUnlinkNext \/ ReapFree
         \/ ReapNext
  PROVE  ParsersOK'
<1>1. Top \in FrameShape /\ FrameOK(Top) /\ ShapeOK
  BY TopIsOK
<1> USE DEF GoesOn, Commanding, Idle, Waiting, Creating
<1>2. CASE MainPrompt \/ MainClear \/ MainSuspend \/ (ParseEnd /\ Top.kind = "main")
  <2>1. PICK f : /\ Becomes(f)
                 /\ \/ f = [Top EXCEPT !.at = IF reprint THEN "clear" ELSE "parse"]
                    \/ f = [Top EXCEPT !.at = "parse"]
                    \/ f = [Top EXCEPT !.at = "sleeping", !.saved = mask]
                    \/ f = [Top EXCEPT !.at = "suspend"]
    BY <1>2 DEF MainPrompt, MainClear, MainSuspend, ParseEnd
  <2>2. f.at \in Idle /\ f.kind = Top.kind
    BY <1>1, <2>1 DEF FrameShape
  <2>3. Top.kind = "main"
    BY <1>1, <1>2 DEF MainPrompt, MainClear, MainSuspend, FrameOK, At
  <2>4. Top.at \in Waiting \cup {"read"}
    BY <1>1, <1>2 DEF MainPrompt, MainClear, MainSuspend, ParseEnd, At
  <2> QED
    BY <2>1, <2>2, <2>3, <2>4, ParserGoesOn
<1>3. CASE ParseStart
  <2>1. PICK f : Becomes(f) /\ f = [Top EXCEPT !.wp = mem[ListHead].next, !.at = "read"]
    BY <1>3 DEF ParseStart
  <2>2. f.at = "read" /\ f.kind = Top.kind /\ f.saved = Top.saved
    BY <1>1, <2>1 DEF FrameShape
  <2>3. Top.at = "parse" /\ "IO" \in mask'
    BY <1>3 DEF ParseStart, At
  <2> QED
    BY <2>1, <2>2, <2>3, ParserGoesOn
<1>4. CASE NothingToRead \/ Recv
  <2>1. PICK f : Becomes(f) /\ f.at = "read" /\ f.kind = Top.kind /\ f.saved = Top.saved
    BY <1>1, <1>4 DEF NothingToRead, Recv, PassOver, NextWatcher, Frame
  <2>2. Top.at \in {"read", "recv"} /\ mask' = mask
    BY <1>4 DEF NothingToRead, Recv, At
  <2> QED
    BY <2>1, <2>2, ParserGoesOn
<1>5. CASE ReadCommands
  <2>1. PICK l, a, b, c : Becomes([Top EXCEPT !.cmd = c, !.at = l, !.cur = a, !.wp = b])
    BY <1>5 DEF ReadCommands
  <2>2. PICK f : Becomes(f) /\ f = [Top EXCEPT !.cmd = c, !.at = l, !.cur = a, !.wp = b]
    BY <2>1
  <2>3. f.kind = Top.kind /\ f.saved = Top.saved
    BY <1>1, <2>2 DEF FrameShape
  <2>4. Top.at = "read" /\ mask' = mask
    BY <1>5 DEF ReadCommands, At
  <2> QED
    BY <2>2, <2>3, <2>4, ParserGoesOn
<1>6. CASE \/ ReadOutput \/ StartWithoutRoom \/ StartInsert \/ StartBacklink \/ StartLink
           \/ StartSetPid \/ Walk \/ Find \/ Obey
           \/ StartSubscribe /\ Becomes([Top EXCEPT !.at = "recv"])
  <2>1. PICK l, a : Becomes([Top EXCEPT !.at = l]) \/ Becomes([Top EXCEPT !.cur = a])
    BY <1>6 DEF ReadOutput, StartWithoutRoom, StartInsert, StartBacklink, StartLink, StartSetPid,
       Walk, Find, Obey
  <2>2. PICK f : Becomes(f) /\ (f = [Top EXCEPT !.at = l] \/ f = [Top EXCEPT !.cur = a])
    BY <2>1
  <2>3. f.kind = Top.kind /\ f.saved = Top.saved
    BY <1>1, <2>2 DEF FrameShape
  <2>4. Top.at \in Commanding \ {"parse"} /\ mask' = mask
    BY <1>6 DEF ReadOutput, StartWithoutRoom, StartInsert, StartBacklink, StartLink, StartSetPid,
       Walk, Find, Obey, StartSubscribe, At
  <2> QED
    BY <2>2, <2>3, <2>4, ParserGoesOn
<1>7. CASE StartCreate \/ StartScan \/ StartFork
  <2>1. PICK l, a, b, c, d : \/ Becomes([Top EXCEPT !.at = l, !.new = a, !.prev = b, !.wid = c])
                             \/ Becomes([Top EXCEPT !.at = l])
                             \/ Becomes([Top EXCEPT !.prev = a, !.cur = b, !.wid = c])
                             \/ Becomes([Top EXCEPT !.at = l, !.pid = d])
    <3>1. CASE StartCreate
      BY <3>1 DEF StartCreate
    <3>2. CASE StartScan
      BY <3>2 DEF StartScan
    <3>3. CASE StartFork
      BY <3>3 DEF StartFork
    <3> QED
      BY <1>7, <3>1, <3>2, <3>3
  <2>2. PICK f : /\ Becomes(f)
                 /\ \/ f = [Top EXCEPT !.at = l, !.new = a, !.prev = b, !.wid = c]
                    \/ f = [Top EXCEPT !.at = l]
                    \/ f = [Top EXCEPT !.prev = a, !.cur = b, !.wid = c]
                    \/ f = [Top EXCEPT !.at = l, !.pid = d]
    BY <2>1
  <2>3. f.kind = Top.kind /\ f.saved = Top.saved
    BY <1>1, <2>2 DEF FrameShape
  <2>4. Top.at \in Commanding \ {"parse"} /\ mask' = mask
    BY <1>7 DEF StartCreate, StartScan, StartFork, At
  <2> QED
    BY <2>2, <2>3, <2>4, ParserGoesOn
<1>8. CASE \/ InterruptStart \/ RemoveCli \/ RemoveWatcher \/ ReapStart \/ ReapNone \/ ReapOne
           \/ ReapUnlink \/ ReapUnlinkNext \/ ReapFree \/ ReapNext
  <2>1. PICK l, a : /\ Becomes([Top EXCEPT !.at = l]) \/ Becomes([Top EXCEPT !.at = l, !.wp = a])
                       \/ Becomes([Top EXCEPT !.wp = a]) \/ Becomes([Top EXCEPT !.wp = a, !.at = l])
                    /\ l \in Ending \cup Reaping
    BY <1>8 DEF InterruptStart, RemoveCli, RemoveWatcher, ReapStart, ReapNone, ReapOne,
       ReapUnlink, ReapUnlinkNext, ReapFree, ReapNext, Ending, Reaping, Dropping
  <2>2. PICK f : /\ Becomes(f)
                 /\ \/ f = [Top EXCEPT !.at = l] \/ f = [Top EXCEPT !.at = l, !.wp = a]
                    \/ f = [Top EXCEPT !.wp = a] \/ f = [Top EXCEPT !.wp = a, !.at = l]
    BY <2>1
  <2>3. f.kind = Top.kind /\ f.saved = Top.saved /\ f.at \in {l, Top.at}
    BY <1>1, <2>2 DEF FrameShape
  <2>4. Top.at \in Ending \cup Reaping /\ mask' = mask
    BY <1>8 DEF InterruptStart, RemoveCli, RemoveWatcher, ReapStart, ReapNone, ReapOne,
       ReapUnlink, ReapUnlinkNext, ReapFree, ReapNext, At, Ending, Reaping, Dropping
  <2> QED
    BY <2>1, <2>2, <2>3, <2>4, ParserGoesOn DEF Ending, Reaping, Dropping
<1> QED
  BY <1>2, <1>3, <1>4, <1>5, <1>6, <1>7, <1>8

\* A handler that returns, or starts, and the steps that move no frame.
LEMMA OthersAreParsers ==
  ASSUME TickerInv, ParsersOK,
         \/ ParseEnd /\ Top.kind # "main"
         \/ ReapEnd
         \/ \E sig \in Signals : Deliver(sig)
         \/ UNCHANGED <<stack, mask>>
  PROVE  ParsersOK'
<1> DEFINE n == Len(stack)
<1>1. n \in Nat \ {0} /\ Top = stack[n] /\ stack \in Seq(FrameShape) /\ ShapeOK
  BY TopOfStack DEF TickerInv, ShapeOK
<1>2. /\ \A i \in 1..n : /\ stack[i].at \in Commanding \cup {"parse"} =>
                              stack[i].kind \in {"main", "IO"}
                         /\ stack[i].kind = "IO" => stack[1].at \in Idle
      /\ stack[1].at \notin Idle => "IO" \in mask /\ \A i \in 1..n : i > 1 => "IO" \in stack[i].saved
  BY DEF ParsersOK
<1>3. CASE ReapEnd \/ (ParseEnd /\ Top.kind # "main")
  <2>1. Return /\ Top.kind # "main"
    <3>1. ReapEnd => Top.kind = "CHLD"
      BY TopIsOK DEF ReapEnd, FrameOK, At, Reaping
    <3> QED
      BY <1>3, <3>1 DEF ReapEnd, ParseEnd
  <2>4. n > 1
    <3>1. Top.kind = "main" <=> n = 1
      BY TopIsOK
    <3>2. n \in Nat /\ n # 0 /\ n # 1
      BY <1>1, <2>1, <3>1
    <3> HIDE DEF n
    <3> QED
      BY <3>2
  <2>2. CASE stack' = Below /\ mask' = Top.saved
    <3>1. /\ Len(stack') = n - 1 /\ \A i \in 1..n - 1 : stack'[i] = stack[i]
      BY <2>2, <1>1, TopOfStack
    <3> QED
      BY <1>1, <1>2, <2>2, <2>4, <3>1 DEF ParsersOK
  <2>3. CASE /\ stack[1].at = "sleeping" /\ stack' = <<[stack[1] EXCEPT !.at = "prompt"]>>
    <3>1. PICK f : f = [stack[1] EXCEPT !.at = "prompt"]
      OBVIOUS
    <3>2. f.at = "prompt" /\ f.kind = stack[1].kind /\ stack[1].kind = "main"
      BY <1>1, <3>1, SMTT(30) DEF FrameShape, TickerInv, HandlersNest
    <3>3. stack' = <<f>> /\ Len(stack') = 1 /\ stack'[1] = f
      BY <2>3, <3>1
    <3> QED
      BY <3>2, <3>3 DEF ParsersOK, Idle, Waiting, Commanding, Creating
  <2> QED
    BY <1>1, <2>1, <2>2, <2>3, <2>4, ReturnUncovers
<1>4. CASE \E sig \in Signals : Deliver(sig)
  <2>1. PICK sig \in Signals : Deliver(sig)
    BY <1>4
  <2>2. PICK f : f = Frame(sig, Handler[sig], mask)
    OBVIOUS
  <2>3. f.kind = sig /\ f.at = Handler[sig] /\ f.saved = mask
    BY <2>2 DEF Frame
  <2>4. PICK S : S = FrameShape \cup {f}
    OBVIOUS
  <2>5. stack \in Seq(S) /\ f \in S /\ stack' = Append(stack, f)
    BY <1>1, <2>1, <2>2, <2>4, SeqMonotonic DEF Deliver
  <2>6. Len(stack') = n + 1 /\ stack'[n + 1] = f /\ \A i \in 1..n : stack'[i] = stack[i]
    BY <1>1, <2>5
  <2>7. sig \notin mask /\ mask' = mask \cup {sig} /\ Handler[sig] \in {"parse", "reap", "interrupt"}
    BY <2>1 DEF Deliver, Signals, Handler
  <2>8. Handler[sig] = "parse" => sig = "IO"
    BY DEF Signals, Handler
  <2>9. sig = "IO" => stack[1].at \in Idle
    BY <1>2, <2>7
  <2> HIDE DEF n
  <2> QED
    BY <1>1, <1>2, <2>3, <2>6, <2>7, <2>8, <2>9 DEF ParsersOK, Commanding, Creating
<1>5. CASE UNCHANGED <<stack, mask>>
  BY <1>2, <1>5 DEF ParsersOK
<1> QED
  BY <1>3, <1>4, <1>5

\* At first the list holds the CLI WATCHER only.
LEMMA WatchersInit == Init => WatchersInv
<1> SUFFICES ASSUME Init PROVE WatchersInv
  OBVIOUS
<1>1. PICK f : f = Frame("main", "prompt", {})
  OBVIOUS
<1>2. f.kind = "main" /\ f.at = "prompt"
  BY <1>1 DEF Frame
<1>3. Len(stack) = 1 /\ stack[1] = f /\ 1..Len(stack) = {1}
  BY <1>1 DEF Init
<1>4. /\ live = {Cli, ListHead} /\ Cli # ListHead /\ NULL \notin {Cli, ListHead}
      /\ Cli \in Cells /\ ListHead \in Cells /\ Cli \notin Watchers /\ ListHead \notin Watchers
      /\ NULL \notin Cells
  BY DistinctAssumption DEF Init, Cells
<1>5. \A a \in Cells : /\ mem[a].wid = 0 /\ mem[a].pid = Unset
                       /\ mem[a].next = IF a = ListHead THEN Cli ELSE NULL
                       /\ mem[a].prev = IF a = Cli THEN ListHead ELSE NULL
  BY DEF Init, Cell
<1>6. On(live, stack) = live /\ Trail(live, stack) = live
  BY <1>2, <1>3 DEF On, Hides, Making, Loose, Trail
<1>7. Linkers(stack) = {} /\ Cutters(stack) = {}
  BY <1>2, <1>3 DEF Linkers, Cutters
<1>8. ParsersOK
  BY <1>2, <1>3 DEF ParsersOK, Commanding, Creating, Idle, Waiting
<1>9. \A a, b \in live : Less(mem, a, b) <=> a = ListHead /\ b = Cli
  BY <1>4, <1>5 DEF Less
<1>10. EndsOK
  BY <1>4, <1>5, <1>6 DEF EndsOK
<1>11. ApartOK
  BY <1>4, <1>6, <1>9 DEF ApartOK, Apart
<1>12. ChainOK
  BY <1>4, <1>5, <1>6, <1>9 DEF ChainOK, ChainAt
<1>13. OrderOK
  <2>1. Succ(mem, stack) = [a \in Cells |-> mem[a].next]
    BY <1>7 DEF Succ
  <2>2. Pred(mem, stack) = [a \in Cells |-> mem[a].prev]
    BY <1>7 DEF Pred, Back
  <2>3. PICK nx, pv : nx = Succ(mem, stack) /\ pv = Pred(mem, stack)
    OBVIOUS
  <2>4. nx[ListHead] = Cli /\ nx[Cli] = NULL /\ pv[Cli] = ListHead
    BY <1>4, <1>5, <2>1, <2>2, <2>3
  <2>5. InOrder(live, nx, pv, mem)
    BY <1>4, <1>9, <2>4 DEF InOrder
  <2>6. Sorted
    BY <1>6, <2>3, <2>5 DEF Sorted
  <2> QED
    BY <1>7, <2>6 DEF OrderOK, LinkOK
<1>14. FramesFit
  BY <1>2, <1>3 DEF FramesFit, FrameFits, MakerOK, PlaceOK, ReaperOK, WalkOK, Creating, Making, Loose,
     Reaping, Dropping
<1>15. Booked /\ ExitOK
  BY DEF Booked, ExitOK, Init
<1> QED
  BY <1>8, <1>10, <1>11, <1>12, <1>13, <1>14, <1>15, TickerInit DEF WatchersInv, ListInv

\* Every step keeps the list as it should be, until two changes of one place meet.
LEMMA WatchersNext == WatchersInv /\ [Next]_vars => WatchersInv'
<1> SUFFICES ASSUME WatchersInv, [Next]_vars PROVE WatchersInv'
  OBVIOUS
<1>1. TickerInv /\ TickerInv' /\ ParsersOK
  BY TickerNext DEF WatchersInv
<1>2. CASE \/ MainPrompt \/ MainClear \/ MainSuspend \/ ParseStart \/ NothingToRead \/ ReadOutput
           \/ Recv \/ StartWithoutRoom \/ Walk \/ Find \/ Obey
           \/ StartSubscribe /\ Becomes([Top EXCEPT !.at = "recv"])
           \/ ParseEnd /\ Top.kind = "main"
  <2>1. ParsersOK'
    BY <1>1, <1>2, MoversAreParsers
  <2>2. torn' = torn
    BY <1>2 DEF MainPrompt, MainClear, MainSuspend, ParseStart, NothingToRead, ReadOutput, Recv,
       StartWithoutRoom, Walk, Find, Obey, StartSubscribe, ParseEnd
  <2> QED
    BY <1>1, <1>2, <2>1, <2>2, LoopIsQuiet DEF WatchersInv
<1>3. CASE InterruptStart \/ RemoveWatcher \/ ReadCommands
  <2>1. ParsersOK'
    BY <1>1, <1>3, MoversAreParsers
  <2>2. torn' = torn
    BY <1>3 DEF InterruptStart, RemoveWatcher, ReadCommands
  <2> QED
    BY <1>1, <1>3, <2>1, <2>2, WalkIsQuiet, CommandIsQuiet DEF WatchersInv
<1>4. CASE ReapStart \/ ReapNone \/ ReapOne \/ StartFork
  <2>1. ParsersOK'
    BY <1>1, <1>4, MoversAreParsers
  <2>2. torn' = torn
    BY <1>4 DEF ReapStart, ReapNone, ReapOne, StartFork
  <2> QED
    BY <1>1, <1>4, <2>1, <2>2, ReapIsQuiet, ForkIsQuiet DEF WatchersInv
<1>5. CASE \/ ParseEnd /\ Top.kind # "main"
           \/ ReapEnd
  <2>1. ParsersOK'
    BY <1>1, <1>5, OthersAreParsers
  <2>2. torn' = torn
    BY <1>5 DEF ParseEnd, ReapEnd
  <2> QED
    BY <1>1, <1>5, <2>1, <2>2, ReturnIsQuiet DEF WatchersInv
<1>6. CASE \E sig \in Signals : Deliver(sig)
  <2>1. ParsersOK'
    BY <1>1, <1>6, OthersAreParsers
  <2>2. torn' = torn
    BY <1>6 DEF Deliver
  <2> QED
    BY <1>1, <1>6, <2>1, <2>2, DeliverIsQuiet DEF WatchersInv
<1>7. CASE Environment
  <2>1. UNCHANGED <<stack, mask, torn>>
    BY <1>7 DEF Environment, Type, ChildWrites, ChildEnds, Interrupt
  <2>2. ParsersOK'
    BY <1>1, <2>1, OthersAreParsers
  <2> QED
    BY <1>1, <1>7, <2>1, <2>2, EnvironmentIsQuiet DEF WatchersInv
<1>8. CASE \/ Faults \/ RemoveEnd \/ UNCHANGED vars
           \/ StartSubscribe /\ UNCHANGED stack
  <2>1. UNCHANGED <<stack, mask, torn>>
    BY <1>8 DEF Faults, RemoveEnd, StartSubscribe, vars
  <2>2. ParsersOK'
    BY <1>1, <2>1, OthersAreParsers
  <2> QED
    BY <1>1, <1>8, <2>1, <2>2, EndsAreQuiet DEF WatchersInv
<1>9. CASE \/ StartCreate \/ StartScan \/ StartInsert \/ StartLink \/ StartSetPid \/ RemoveCli
           \/ ReapUnlinkNext \/ ReapFree \/ ReapNext
  <2>1. ParsersOK'
    BY <1>1, <1>9, MoversAreParsers
  <2>2. torn' = torn
    BY <1>9 DEF StartCreate, StartScan, StartInsert, StartLink, StartSetPid, RemoveCli,
       ReapUnlinkNext, ReapFree, ReapNext
  <2> QED
    BY <1>1, <1>9, <2>1, <2>2, CreateKeepsList, ScanKeepsList, InsertKeepsList, LinkKeepsList,
       SetPidKeepsList, RemoveCliKeepsList, UnlinkNextKeepsList, FreeKeepsList, NextKeepsList
    DEF WatchersInv
<1>10. CASE StartBacklink \/ ReapUnlink
  <2>1. ParsersOK'
    BY <1>1, <1>10, MoversAreParsers
  <2> QED
    BY <1>1, <1>10, <2>1, BacklinkKeepsList, UnlinkKeepsList DEF WatchersInv
<1>11. Rests => UNCHANGED vars
  BY DEF Rests
<1>12. StartSubscribe => Becomes([Top EXCEPT !.at = "recv"]) \/ UNCHANGED stack
  BY DEF StartSubscribe
<1> QED
  BY <1>2, <1>3, <1>4, <1>5, <1>6, <1>7, <1>8, <1>9, <1>10, <1>11, <1>12 DEF Next, Step

\* The list is what its invariant says, however the handlers come over one another, and
\* over the loop (ticker.c:54-73, 291-316, watcher.c:52-102, 124-151).
THEOREM WatchersInvariant == Spec => [](torn \/ ListInv)
<1>1. Spec => []WatchersInv
  BY WatchersInit, WatchersNext, PTL DEF Spec
<1>2. WatchersInv => torn \/ ListInv
  BY DEF WatchersInv
<1> QED
  BY <1>1, <1>2, PTL

(***************************************************************************)
(* What a walk along next finds.                                           *)
(***************************************************************************)

\* A set of numbers has a least element.
LEMMA LeastNumber ==
  ASSUME NEW S, S \subseteq Nat, S # {}
  PROVE  \E n \in S : \A m \in S : n <= m
<1>1. PICK n \in S : \A m \in S : <<m, n>> \notin OpToRel(<, Nat)
  BY NatLessThanWellFounded, WFMin
<1>2. \A m \in S : ~(m < n)
  BY <1>1 DEF OpToRel
<1> QED
  BY <1>2

\* f is the walk along next from the list head, up to its Kth cell.
IsWalk(f, K) ==
  f = [n \in 0..K |-> IF n = 0 THEN ListHead ELSE IF f[n - 1] = NULL THEN NULL
                      ELSE mem[f[n - 1]].next]

\* There is such a walk.
LEMMA WalkExists ==
  ASSUME NEW K \in Nat
  PROVE  \E f : IsWalk(f, K)
<1> DEFINE S == {k \in Nat : ~ \E f : IsWalk(f, k)}
<1> SUFFICES ASSUME S # {} PROVE FALSE
  OBVIOUS
<1>1. PICK k \in S : \A i \in S : k <= i
  <2>1. S \subseteq Nat
    OBVIOUS
  <2> HIDE DEF S
  <2> QED
    BY <2>1, LeastNumber
<1>2. k \in Nat /\ ~ \E f : IsWalk(f, k)
  OBVIOUS
<1>3. CASE k = 0
  <2>1. PICK f : f = [n \in 0..0 |-> ListHead]
    OBVIOUS
  <2>2. IsWalk(f, 0)
    BY <2>1 DEF IsWalk
  <2> QED
    BY <1>2, <1>3, <2>2
<1>4. CASE k # 0
  <2>1. PICK f : IsWalk(f, k - 1)
    BY <1>1, <1>2, <1>4
  <2>2. PICK g : g = [n \in 0..k |-> IF n < k THEN f[n]
                                    ELSE IF f[n - 1] = NULL THEN NULL ELSE mem[f[n - 1]].next]
    OBVIOUS
  <2>3. ASSUME NEW n \in 0..k
        PROVE  g[n] = IF n = 0 THEN ListHead ELSE IF g[n - 1] = NULL THEN NULL
                      ELSE mem[g[n - 1]].next
    <3>1. CASE n < k
      <4>1. n \in 0..k - 1 /\ g[n] = f[n] /\ (n # 0 => g[n - 1] = f[n - 1])
        BY <1>2, <2>2, <3>1
      <4>2. f[n] = IF n = 0 THEN ListHead ELSE IF f[n - 1] = NULL THEN NULL ELSE mem[f[n - 1]].next
        BY <2>1, <4>1 DEF IsWalk
      <4> QED
        BY <4>1, <4>2
    <3>2. CASE ~(n < k)
      <4>1. n = k /\ g[n] = IF f[n - 1] = NULL THEN NULL ELSE mem[f[n - 1]].next
        BY <1>2, <2>2, <3>2
      <4>2. g[n - 1] = f[n - 1]
        BY <1>2, <1>4, <2>2, <4>1
      <4> QED
        BY <1>4, <4>1, <4>2
    <3> QED
      BY <3>1, <3>2
  <2>4. DOMAIN g = 0..k /\ g = [n \in DOMAIN g |-> g[n]]
    BY <2>2
  <2>5. IsWalk(g, k)
    BY <2>3, <2>4 DEF IsWalk
  <2> QED
    BY <1>2, <2>5
<1> QED
  BY <1>3, <1>4

\* There are only so many cells.
LEMMA CellsAreFinite == IsFiniteSet(Cells) /\ Cardinality(Cells) \in Nat
<1>1. IsFiniteSet(Watchers \cup {Cli}) /\ IsFiniteSet((Watchers \cup {Cli}) \cup {ListHead})
  BY BoundsAssumption, FS_AddElement
<1>2. Cells = (Watchers \cup {Cli}) \cup {ListHead}
  BY DEF Cells
<1> QED
  BY <1>1, <1>2, FS_CardinalityType

\* Nth is one.
LEMMA NthIsWalk == IsWalk(Nth, Cardinality(Cells))
<1> DEFINE F == CHOOSE f : IsWalk(f, Cardinality(Cells))
<1>1. IsWalk(F, Cardinality(Cells))
  BY CellsAreFinite, WalkExists
<1>2. Nth = F
  BY DEF Nth, IsWalk
<1> QED
  BY <1>1, <1>2

\* It finds the elements of a list in order, all of them.
LEMMA WalkFindsAll ==
  ASSUME NEW S, S \subseteq Cells, Numbered(S, mem), Apart(S, S, mem),
         NEW nx, NEW pv, InOrder(S, nx, pv, mem), \A a \in S : nx[a] = mem[a].next
  PROVE  Listed = S
<1>1. PICK K \in Nat : K = Cardinality(Cells)
  BY CellsAreFinite
<1>2. PICK W : IsWalk(W, K) /\ W = Nth
  BY <1>1, NthIsWalk
<1>3. DOMAIN W = 0..K /\ NULL \notin S /\ ListHead \in S
  BY <1>2, DistinctAssumption DEF IsWalk, Cells, InOrder
<1>4. /\ W[0] = ListHead
      /\ \A n \in 1..K : W[n] = IF W[n - 1] = NULL THEN NULL ELSE mem[W[n - 1]].next
  <2>1. \A n \in 0..K : W[n] = IF n = 0 THEN ListHead ELSE IF W[n - 1] = NULL THEN NULL
                               ELSE mem[W[n - 1]].next
    BY <1>2 DEF IsWalk
  <2>2. 0 \in 0..K /\ \A n \in 1..K : n \in 0..K /\ n # 0
    OBVIOUS
  <2> QED
    BY <2>1, <2>2
<1>5. \A n \in 0..K : W[n] \in S \cup {NULL}
  <2> DEFINE Bad == {n \in 0..K : W[n] \notin S \cup {NULL}}
  <2> SUFFICES ASSUME Bad # {} PROVE FALSE
    OBVIOUS
  <2>1. PICK n \in Bad : \A m \in Bad : n <= m
    <3>1. Bad \subseteq Nat
      OBVIOUS
    <3> HIDE DEF Bad
    <3> QED
      BY <3>1, LeastNumber
  <2>2. n \in 0..K /\ W[n] \notin S \cup {NULL}
    BY <2>1
  <2>3. n # 0 /\ n \in 1..K /\ n - 1 \in 0..K
    BY <1>3, <1>4, <2>2
  <2>4. W[n - 1] \in S \cup {NULL}
    BY <2>1, <2>2, <2>3
  <2>5. W[n - 1] # NULL => nx[W[n - 1]] \in S \cup {NULL}
    BY <2>4 DEF InOrder
  <2> QED
    BY <1>4, <2>2, <2>3, <2>4, <2>5
<1>6. \A n, m \in 0..K : n < m /\ W[m] # NULL => W[n] # NULL /\ Less(mem, W[n], W[m])
  <2> DEFINE Bad == {m \in 0..K : W[m] # NULL /\ \E n \in 0..K :
                       n < m /\ ~(W[n] # NULL /\ Less(mem, W[n], W[m]))}
  <2> SUFFICES ASSUME Bad # {} PROVE FALSE
    OBVIOUS
  <2>1. PICK m \in Bad : \A i \in Bad : m <= i
    <3>1. Bad \subseteq Nat
      OBVIOUS
    <3> HIDE DEF Bad
    <3> QED
      BY <3>1, LeastNumber
  <2>2. m \in 0..K /\ W[m] # NULL
    BY <2>1
  <2>3. PICK n \in 0..K : n < m /\ ~(W[n] # NULL /\ Less(mem, W[n], W[m]))
    BY <2>1
  <2>4. m \in 1..K /\ m - 1 \in 0..K /\ (m - 1 \notin Bad)
    BY <2>1, <2>2, <2>3
  <2>5. W[m - 1] # NULL /\ W[m] = mem[W[m - 1]].next /\ W[m - 1] \in S /\ W[m] \in S
    BY <1>4, <1>5, <2>2, <2>4
  <2>6. Less(mem, W[m - 1], W[m])
    BY <2>2, <2>5 DEF InOrder
  <2>7. n # m - 1 /\ n < m - 1
    BY <2>2, <2>3, <2>5, <2>6
  <2>8. W[n] # NULL /\ Less(mem, W[n], W[m - 1])
    BY <2>4, <2>5, <2>7
  <2>9. W[n] \in S
    BY <1>5, <2>8
  <2> QED
    BY <2>3, <2>5, <2>6, <2>8, <2>9, LessIsOrder
<1>7. ASSUME NEW b \in S, \A n \in 0..K : W[n] # b
      PROVE  FALSE
  <2>1. b # ListHead
    BY <1>4, <1>7
  <2>2. \A n \in 0..K : W[n] # NULL /\ Less(mem, W[n], b)
    <3> DEFINE Bad == {n \in 0..K : ~(W[n] # NULL /\ Less(mem, W[n], b))}
    <3> SUFFICES ASSUME Bad # {} PROVE FALSE
      OBVIOUS
    <3>1. PICK n \in Bad : \A i \in Bad : n <= i
      <4>1. Bad \subseteq Nat
        OBVIOUS
      <4> HIDE DEF Bad
      <4> QED
        BY <4>1, LeastNumber
    <3>2. n \in 0..K /\ ~(W[n] # NULL /\ Less(mem, W[n], b))
      BY <3>1
    <3>3. n # 0
      BY <1>3, <1>4, <2>1, <3>2 DEF Less
    <3>4. n \in 1..K /\ n - 1 \in 0..K /\ n - 1 \notin Bad
      BY <3>1, <3>2, <3>3
    <3>5. W[n - 1] # NULL /\ Less(mem, W[n - 1], b) /\ W[n - 1] \in S
      BY <1>5, <3>4
    <3>6. W[n] = nx[W[n - 1]] /\ W[n] # b
      BY <1>4, <1>7, <3>2, <3>4, <3>5
    <3>7. W[n] # NULL /\ ~Less(mem, b, W[n]) /\ W[n] \in S
      BY <1>5, <3>2, <3>5, <3>6 DEF InOrder
    <3> QED
      BY <3>2, <3>6, <3>7 DEF Apart
  <2>3. W \in [0..K -> Cells]
    <3>1. \A n \in 0..K : W[n] \in Cells
      BY <1>5, <2>2
    <3>2. W = [n \in 0..K |-> W[n]]
      BY <1>2 DEF IsWalk
    <3> QED
      BY <3>1, <3>2
  <2>4. IsFiniteSet(0..K) /\ Cardinality(Cells) < Cardinality(0..K)
    BY <1>1, FS_Interval
  <2>5. PICK n, m \in 0..K : n # m /\ W[n] = W[m]
    BY <2>3, <2>4, CellsAreFinite, FS_PigeonHole
  <2>6. n < m \/ m < n
    BY <2>5
  <2>7. Less(mem, W[n], W[n]) /\ W[n] \in S
    BY <1>5, <1>6, <2>2, <2>5, <2>6
  <2> QED
    BY <2>7, LessIsOrder
<1>8. Listed = {W[n] : n \in 0..K} \ {NULL}
  BY <1>2, <1>3 DEF Listed
<1> QED
  BY <1>3, <1>5, <1>7, <1>8

(***************************************************************************)
(* The properties of the list.                                             *)
(***************************************************************************)

\* While nobody is at work on the list, no cell is hidden from it.
LEMMA CalmList ==
  ASSUME TickerInv, ListInv, Calm
  PROVE  /\ Listed = live /\ On(live, stack) = live
         /\ \A a \in live : LET b == mem[a].next IN b # NULL =>
              Less(mem, a, b) /\ mem[b].prev = a
<1>1. DOMAIN stack = 1..Len(stack) /\ live \subseteq Cells
  BY Shapes DEF TickerInv, ShapeOK
<1>2. \A i \in 1..Len(stack) : stack[i].at \notin Making \cup Dropping
  BY <1>1 DEF Calm, Relinking, Making, Dropping
<1>3. On(live, stack) = live /\ Trail(live, stack) = live
  BY <1>2 DEF On, Trail, Hides, Making, Loose, Dropping
<1>4. Linkers(stack) = {} /\ Cutters(stack) = {}
  BY <1>2 DEF Linkers, Cutters, Making, Dropping
<1>5. ~EndedOver /\ ~Astray
  BY <1>2 DEF EndedOver, Astray, Making
<1>6. PICK nx, pv : nx = Succ(mem, stack) /\ pv = Pred(mem, stack)
  OBVIOUS
<1>7. \A a \in Cells : nx[a] = mem[a].next
  BY <1>4, <1>6, NothingToLink
<1>8. \A b \in Cells : pv[b] = mem[b].prev
  <2>1. \A b \in Cells : pv[b] = Back(mem, stack)[b]
    BY <1>4, <1>6, NothingToLink
  <2>2. \A b \in Cells : Back(mem, stack)[b] = mem[b].prev
    BY <1>4, NothingToCut
  <2> QED
    BY <2>1, <2>2
<1>9. InOrder(live, nx, pv, mem)
  BY <1>3, <1>5, <1>6 DEF ListInv, OrderOK, Sorted
<1>10. Numbered(live, mem) /\ Apart(live, live, mem)
  BY <1>3, EndsAreOn
<1>11. Listed = live
  BY <1>1, <1>7, <1>9, <1>10, WalkFindsAll
<1>12. ASSUME NEW a \in live, mem[a].next # NULL
       PROVE  Less(mem, a, mem[a].next) /\ mem[mem[a].next].prev = a
  <2>1. nx[a] = mem[a].next
    BY <1>1, <1>7
  <2>2. mem[a].next \in live /\ Less(mem, a, mem[a].next) /\ pv[mem[a].next] = a
    BY <1>9, <1>12, <2>1 DEF InOrder
  <2> QED
    BY <1>1, <1>8, <2>2
<1> QED
  BY <1>3, <1>11, <1>12

\* Whenever nobody is at work on the list it holds every allocated WATCHER and no freed
\* one, next and prev agree, and the ids ascend: walking it ends (watcher.c:52-79, 124-151).
THEOREM TheListIsSound == Spec => []ListIsSound
<1>1. ASSUME TickerInv, torn \/ ListInv PROVE ListIsSound
  <2> SUFFICES ASSUME Calm, ~torn
               PROVE  /\ Listed = live
                      /\ \A a \in Listed : mem[a].next # NULL =>
                           /\ mem[mem[a].next].prev = a
                           /\ a # ListHead => mem[a].wid < mem[mem[a].next].wid
    BY DEF ListIsSound
  <2> QED
    BY <1>1, CalmList DEF Less
<1> QED
  BY <1>1, TickerInvariant, WatchersInvariant, PTL

\* A child is on the books from its fork to its reaping: a WATCHER of the list has its pid,
\* or the frame that forked it is about to record it (bitstamp.c:58-86).
THEOREM TheChildrenAreWatched == Spec => []ChildrenAreWatched
<1>1. ASSUME TickerInv, torn \/ ListInv PROVE ChildrenAreWatched
  <2> SUFFICES ASSUME Calm, ~torn, NEW c \in Children, child[c] \in {"running", "zombie"}
               PROVE  \/ \E a \in Listed \ {ListHead} : mem[a].pid = c
                      \/ BeingStarted(c)
    BY DEF ChildrenAreWatched
  <2>1. BeingStarted(c) \/ \E w \in On(live, stack) : mem[w].pid = c
    BY <1>1 DEF ListInv, Booked
  <2>2. Listed = live /\ On(live, stack) = live
    BY <1>1, CalmList
  <2>3. mem[ListHead].pid = Unset
    BY <1>1 DEF ListInv, EndsOK
  <2> QED
    BY <2>1, <2>2, <2>3, DistinctAssumption
<1> QED
  BY <1>1, TickerInvariant, WatchersInvariant, PTL

\* quit and SIGINT leave no feed behind: every child that still runs when the process has
\* exited has been sent SIGTERM, but the one whose start SIGINT cut short
\* (watcher.c:93-102).
THEOREM NoFeedStaysBehind == Spec => []NoFeedIsLeftBehind
<1>1. torn \/ ListInv => NoFeedIsLeftBehind
  BY DEF ListInv, ExitOK, Untold, NoFeedIsLeftBehind
<1> QED
  BY <1>1, WatchersInvariant, PTL
===============================================================================
