--------------------------- MODULE TickerProperties ---------------------------
(***************************************************************************)
(* What the ticker's watcher list and signal handling promise.             *)
(***************************************************************************)
EXTENDS Ticker

\* Code is between two of the writes that insert or remove a WATCHER.
Relinking == {"scan", "insert", "backlink", "link", "unlink", "unlinkNext", "free"}
Calm == /\ status = "running"
        /\ \A i \in DOMAIN stack : stack[i].at \notin Relinking

\* The list as a walk finds it: its nth cell, NULL behind the last one.
Nth[n \in 0..Cardinality(Cells)] ==
  IF n = 0 THEN ListHead ELSE IF Nth[n - 1] = NULL THEN NULL ELSE mem[Nth[n - 1]].next
Listed == {Nth[n] : n \in DOMAIN Nth} \ {NULL}

\* The list is right whenever nobody is at work on it: it holds every allocated
\* WATCHER and no freed one, next and prev agree, and the ids ascend, so that no
\* two are the same (watcher.c:124-151, 52-79).  The exception, torn, is that two
\* changes of one place met: the SIGCHLD handler took out the very WATCHER a new one had
\* just been pointed at, or an insertion came between its two writes, in front of the
\* WATCHER that the second one then points past the new one.
ListIsSound ==
  Calm /\ ~torn =>
    /\ Listed = live
    /\ \A a \in Listed : LET b == mem[a].next IN
         b # NULL => mem[b].prev = a /\ (a # ListHead => mem[a].wid < mem[b].wid)

\* The frame that forked a child has not yet recorded its pid.
BeingStarted(c) == \E i \in DOMAIN stack : stack[i].at = "setpid" /\ stack[i].pid = c

\* A child is on the books from its fork to its reaping: a WATCHER of the list has
\* its pid, or the frame that forked it is about to record it (bitstamp.c:58-86).
ChildrenAreWatched ==
  Calm /\ ~torn =>
    \A c \in Children : child[c] \in {"running", "zombie"} =>
      \/ \E a \in Listed \ {ListHead} : mem[a].pid = c
      \/ BeingStarted(c)

\* quit and SIGINT leave no feed behind: when the process has exited, every child
\* that still runs has been sent SIGTERM, but the one whose start SIGINT cut short
\* (watcher.c:93-102).
NoFeedIsLeftBehind ==
  status = "exited" /\ ~torn =>
    \A c \in Children : child[c] = "running" => c \in told \/ BeingStarted(c)

\* The SIGCHLD handler drops a WATCHER only when its child has been reaped, or when its
\* start was interrupted before the pid was recorded (ticker.c:54-73).
OnlyTheDeadAreDropped ==
  [][\A w \in live \ live' :
       \/ w = Cli
       \/ mem[w].pid # Unset /\ child[mem[w].pid] = "reaped"
       \/ \E i \in DOMAIN Below : Below[i].new = w]_vars

Over == status # "running"

\* No signal is overlooked: what the user types is read, whenever it comes, in the
\* loop's own parse, in the gap before sigsuspend(), or while a handler runs; so is the
\* output of a child, unless its WATCHER is dropped; and a child that has ended is
\* reaped, however many ended at once (ticker.c:54-73, 291-316).
SignalsAreServed ==
  /\ (stdin # <<>>) ~> (stdin = <<>> \/ Over)
  /\ \A c \in Children :
       /\ (c \in output) ~> (c \notin output \/ Over \/ torn)
       /\ (child[c] = "zombie") ~> (child[c] # "zombie" \/ Over \/ torn)
===============================================================================
