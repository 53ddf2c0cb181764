-------------------------------- MODULE Ticker --------------------------------
(***************************************************************************)
(* The ticker process of crypto_exchange_watcher: one thread, three signal *)
(* handlers that interrupt it and one another, and the linked list of      *)
(* watchers that all of them walk and change (ticker.c, watcher.c, cli.c,  *)
(* bitstamp.c).  The children (uwsc) and the user are the environment.     *)
(*                                                                         *)
(* The thread is a stack of frames: the main loop at the bottom, above it  *)
(* the handlers that interrupted it, the running one on top.  A step is    *)
(* what the code does between two accesses to the list that a handler can  *)
(* come between.                                                           *)
(*                                                                         *)
(* A freed WATCHER keeps its contents until its memory is allocated again  *)
(* (so does the build's malloc), and the SIGCHLD handler relies on it: it  *)
(* reads wp->next right after it freed wp.  Every other access to a freed  *)
(* WATCHER ends the run as "faulted".                                      *)
(***************************************************************************)
EXTENDS Naturals, Sequences, SequencesExt, FiniteSets

CONSTANTS
  Watchers,   \* the addresses malloc() can return for a WATCHER
  Cli,        \* the address of the CLI watcher
  ListHead,   \* watcherLstHead, its next is the first watcher
  NULL,
  Children,   \* the processes fork() can create
  Unset,      \* the pid 0 of a WATCHER that blankWatcher() made
  Commands,   \* the lines the user can type
  MaxLines,   \* bounds the lines typed
  Writers,    \* the children that write to their pipe
  Interrupts  \* whether the user may press ^C

Ops == {"start", "stop", "trace", "watchers", "quit", "other"}
Ids == 0..Cardinality(Watchers)

ASSUME DistinctAssumption ==
  /\ Cli # ListHead /\ NULL \notin {Cli, ListHead}
  /\ {Cli, ListHead, NULL} \cap Watchers = {}
  /\ Unset \notin Children
ASSUME CommandsAssumption == Commands \subseteq [op : Ops, wid : Ids]
ASSUME BoundsAssumption ==
  /\ IsFiniteSet(Watchers) /\ IsFiniteSet(Children)
  /\ Writers \subseteq Children /\ MaxLines \in Nat /\ Interrupts \in BOOLEAN

Cells == Watchers \cup {Cli, ListHead}
Signals == {"IO", "CHLD", "INT"}

VARIABLES
  status,   \* "running", or how the process ended
  stack,    \* the frames, the interrupted ones first
  mask,     \* the signals blocked now
  pending,  \* the signals sent and not yet delivered
  reprint,  \* shouldReprint
  mem,      \* the contents of every WATCHER, freed ones included
  live,     \* the WATCHERs that are allocated
  stdin,    \* the lines typed and not yet read
  typed,    \* how many lines have been typed
  child,    \* the state of every child process
  output,   \* the children whose output has not been read
  told,     \* the children that were sent SIGTERM
  torn      \* history: an insertion and a removal at the same place of the list met

vars == <<status, stack, mask, pending, reprint, mem, live, stdin, typed, child,
          output, told, torn>>
list == <<mem, live>>
world == <<stdin, typed, child, output>>

-------------------------------------------------------------------------------
(***************************************************************************)
(* Frames.                                                                 *)
(***************************************************************************)

\* wp is the loop's WATCHER; new, prev, cur and wid are newWatcher()'s locals
\* (cur also getWatcherByWid()'s), cmd the command being obeyed, pid what
\* fork() returned, saved the mask to restore when a handler returns.
Frame(kind, at, saved) ==
  [kind |-> kind, at |-> at, wp |-> NULL, new |-> NULL, prev |-> NULL, cur |-> NULL,
   wid |-> 0, cmd |-> [op |-> "other", wid |-> 0], pid |-> Unset, saved |-> saved]

Top == Last(stack)
Below == Front(stack)
Becomes(f) == stack' = Append(Below, f)

\* A handler returns; sigsuspend() does when a handler it let in has, and puts the
\* mask back that it had replaced.
Wakes == Len(Below) = 1 /\ Below[1].at = "sleeping"
Return ==
  IF Wakes THEN stack' = <<[Below[1] EXCEPT !.at = "prompt"]>> /\ mask' = Below[1].saved
           ELSE stack' = Below /\ mask' = Top.saved

\* The WATCHERs the next step of a frame reads or writes.
Touches(f) ==
  {a \in Cells :
     \/ a = f.wp /\ f.at \in {"read", "recv", "remove", "reaping", "unlink", "unlinkNext", "free"}
     \/ a = f.cur /\ f.at \in {"scan", "find", "walk", "obey"}
     \/ a = f.new /\ f.at \in {"insert", "backlink", "link", "fork", "setpid", "subscribe"}
     \/ a = f.prev /\ f.at \in {"insert", "backlink", "link"}
     \/ f.at = "backlink" /\ a = mem[f.prev].next
     \/ f.at = "remove" /\ f.wp = Cli /\ a = mem[Cli].next
     \/ f.at = "reap" /\ a = mem[ListHead].next
     \/ f.at = "unlink" /\ a = mem[f.wp].prev
     \/ f.at = "unlinkNext" /\ a = mem[f.wp].next}

At(label) ==
  /\ status = "running"
  /\ Top.at = label
  /\ Touches(Top) \subseteq live

\* Any access to freed memory but the one the SIGCHLD handler gets away with, and
\* the NULL pointer it follows once the list is empty (ticker.c:58).
Faults ==
  /\ status = "running"
  /\ \/ ~(Touches(Top) \subseteq live)
     \/ Top.at = "reap" /\ mem[ListHead].next = NULL
  /\ status' = "faulted"
  /\ UNCHANGED <<stack, mask, pending, reprint, list, world, told, torn>>

-------------------------------------------------------------------------------
Cell(wid, pid, next, prev) == [wid |-> wid, pid |-> pid, next |-> next, prev |-> prev]
Blank == Cell(0, Unset, NULL, NULL)   \* blankWatcher()

\* After initTicker() and initCliWatcher(): the list holds the CLI watcher.
Init ==
  /\ status = "running"
  /\ stack = <<Frame("main", "prompt", {})>>
  /\ mask = {} /\ pending = {}
  /\ reprint = TRUE
  /\ mem = [a \in Cells |-> Cell(0, Unset, IF a = ListHead THEN Cli ELSE NULL,
                                         IF a = Cli THEN ListHead ELSE NULL)]
  /\ live = {Cli, ListHead}
  /\ stdin = <<>> /\ typed = 0
  /\ child = [c \in Children |-> "unborn"]
  /\ output = {} /\ told = {}
  /\ torn = FALSE

-------------------------------------------------------------------------------
(***************************************************************************)
(* The main loop (ticker.c:291-316).                                       *)
(***************************************************************************)

MainPrompt ==
  /\ At("prompt")
  /\ Becomes([Top EXCEPT !.at = IF reprint THEN "clear" ELSE "parse"])
  /\ UNCHANGED <<status, mask, pending, reprint, list, world, told, torn>>

MainClear ==
  /\ At("clear")
  /\ reprint' = FALSE
  /\ Becomes([Top EXCEPT !.at = "parse"])
  /\ UNCHANGED <<status, mask, pending, list, world, told, torn>>

SuspendMask == {}

\* sigsuspend(&setMask), whose mask lets the three signals in (ticker.c:180-191).
MainSuspend ==
  /\ At("suspend")
  /\ Becomes([Top EXCEPT !.at = "sleeping", !.saved = mask])
  /\ mask' = SuspendMask
  /\ UNCHANGED <<status, pending, reprint, list, world, told, torn>>

(***************************************************************************)
(* parseInput(), called by the loop and by the SIGIO handler.              *)
(***************************************************************************)

ParseStart ==
  /\ At("parse")
  /\ mask' = mask \cup {"IO"}
  /\ Becomes([Top EXCEPT !.wp = mem[ListHead].next, !.at = "read"])
  /\ UNCHANGED <<status, pending, reprint, list, world, told, torn>>

\* The loop goes on to wp->next; the locals of recv() are gone.
NextWatcher == [Frame(Top.kind, "read", Top.saved) EXCEPT !.wp = mem[Top.wp].next]

StopReading == [Top EXCEPT !.wp = NULL]   \* variant: break for continue
PassOver == NextWatcher

\* Nothing to read (EAGAIN), or end of file, which is passed over the same way.
NothingToRead ==
  /\ At("read")
  /\ IF Top.wp = Cli THEN stdin = <<>>
     ELSE Top.wp # NULL /\ mem[Top.wp].pid \notin output
  /\ Becomes(PassOver)
  /\ UNCHANGED <<status, mask, pending, reprint, list, world, told, torn>>

\* Where cli_watcher_recv() goes with a command.
Branch ==
  [start |-> "start", stop |-> "find", trace |-> "find", watchers |-> "walk",
   quit |-> "remove", other |-> "recv"]

\* All that is there to read becomes one message, and cli_watcher_recv() looks
\* at the command the message begins with: the lines behind it are lost.
ReadCommands ==
  /\ At("read")
  /\ Top.wp = Cli /\ stdin # <<>>
  /\ stdin' = <<>>
  /\ reprint' = TRUE
  /\ LET first == mem[ListHead].next IN
     Becomes([Top EXCEPT !.cmd = stdin[1], !.at = Branch[stdin[1].op], !.cur = first,
                         !.wp = IF stdin[1].op = "quit" THEN first ELSE @])
  /\ UNCHANGED <<status, mask, pending, list, typed, child, output, told, torn>>

ReadOutput ==
  /\ At("read")
  /\ Top.wp \notin {Cli, NULL}
  /\ mem[Top.wp].pid \in output
  /\ output' = output \ {mem[Top.wp].pid}
  /\ Becomes([Top EXCEPT !.at = "recv"])
  /\ UNCHANGED <<status, mask, pending, reprint, list, stdin, typed, child, told, torn>>

\* recv() of the watcher has no further effect here; on to wp->next.
Recv ==
  /\ At("recv")
  /\ Becomes(NextWatcher)
  /\ UNCHANGED <<status, mask, pending, reprint, list, world, told, torn>>

ParseEnd ==
  /\ At("read")
  /\ Top.wp = NULL
  /\ IF Top.kind = "main"
     THEN mask' = mask \ {"IO"} /\ Becomes([Top EXCEPT !.at = "suspend"])
     ELSE Return
  /\ UNCHANGED <<status, pending, reprint, list, world, told, torn>>

(***************************************************************************)
(* "start bitstamp.net ...": bitstamp_watcher_start() and newWatcher().    *)
(***************************************************************************)

\* With no address or no child left to model, the command is passed over.
NoRoom == Watchers \subseteq live \/ \A c \in Children : child[c] # "unborn"

\* blankWatcher(), and the loop over the list set up (watcher.c:125-129).
StartCreate ==
  /\ At("start") /\ ~NoRoom
  /\ \E a \in Watchers \ live :
       /\ mem' = [mem EXCEPT ![a] = Blank]
       /\ live' = live \cup {a}
       /\ Becomes([Top EXCEPT !.at = "scan", !.new = a, !.prev = ListHead, !.wid = 0])
  /\ UNCHANGED <<status, mask, pending, reprint, world, told, torn>>

StartWithoutRoom ==
  /\ At("start") /\ NoRoom
  /\ Becomes([Top EXCEPT !.at = "recv"])
  /\ UNCHANGED <<status, mask, pending, reprint, list, world, told, torn>>

\* One turn of the loop that looks for the first wid not in use.
StartScan ==
  /\ At("scan")
  /\ Becomes(IF Top.cur = NULL \/ mem[Top.cur].wid # Top.wid
             THEN [Top EXCEPT !.at = "insert"]
             ELSE [Top EXCEPT !.prev = Top.cur, !.cur = mem[Top.cur].next, !.wid = @ + 1])
  /\ UNCHANGED <<status, mask, pending, reprint, list, world, told, torn>>

\* The new WATCHER points into the list (watcher.c:142-143) ...
StartInsert ==
  /\ At("insert")
  /\ mem' = [mem EXCEPT ![Top.new].prev = Top.prev,
                        ![Top.new].next = mem[Top.prev].next]
  /\ Becomes([Top EXCEPT !.at = "backlink"])
  /\ UNCHANGED <<status, mask, pending, reprint, live, world, told, torn>>

\* ... its successor points back to it (144-145), unless a SIGCHLD handler that this
\* one interrupted is about to point it to what was in front of the one it removes ...
NotBacklinked == mem   \* variant: forgotten
Backlinked == IF mem[Top.prev].next = NULL THEN mem
              ELSE [mem EXCEPT ![mem[Top.prev].next].prev = Top.new]
StartBacklink ==
  /\ At("backlink")
  /\ mem' = Backlinked
  /\ Becomes([Top EXCEPT !.at = "link"])
  /\ torn' = (torn \/ \E i \in DOMAIN Below : /\ Below[i].at = "unlinkNext"
                                              /\ mem[Below[i].wp].next = mem[Top.prev].next
                                              /\ mem[Top.prev].next # NULL)
  /\ UNCHANGED <<status, mask, pending, reprint, live, world, told>>

\* ... and the list holds it, under its wid (146-147).
StartLink ==
  /\ At("link")
  /\ mem' = [mem EXCEPT ![Top.prev].next = Top.new, ![Top.new].wid = Top.wid]
  /\ Becomes([Top EXCEPT !.at = "fork"])
  /\ UNCHANGED <<status, mask, pending, reprint, live, world, told, torn>>

\* fork(): from here the child runs, and can end, before its pid is recorded.
StartFork ==
  /\ At("fork")
  /\ \E c \in Children :
       /\ child[c] = "unborn"
       /\ child' = [child EXCEPT ![c] = "running"]
       /\ Becomes([Top EXCEPT !.at = "setpid", !.pid = c])
  /\ UNCHANGED <<status, mask, pending, reprint, list, stdin, typed, output, told, torn>>

StartSetPid ==
  /\ At("setpid")
  /\ mem' = [mem EXCEPT ![Top.new].pid = Top.pid]
  /\ Becomes([Top EXCEPT !.at = "subscribe"])
  /\ UNCHANGED <<status, mask, pending, reprint, live, world, told, torn>>

\* The subscription is written to the child's pipe; when the child is gone the
\* write raises SIGPIPE, whose default action ends the ticker.
StartSubscribe ==
  /\ At("subscribe")
  /\ IF child[Top.pid] = "running"
     THEN Becomes([Top EXCEPT !.at = "recv"]) /\ UNCHANGED status
     ELSE status' = "killed" /\ UNCHANGED stack
  /\ UNCHANGED <<mask, pending, reprint, list, world, told, torn>>

(***************************************************************************)
(* The other commands that walk the list.                                  *)
(***************************************************************************)

\* watchersString(), one WATCHER at a time.
Walk ==
  /\ At("walk")
  /\ Becomes(IF Top.cur = NULL THEN [Top EXCEPT !.at = "recv"]
             ELSE [Top EXCEPT !.cur = mem[@].next])
  /\ UNCHANGED <<status, mask, pending, reprint, list, world, told, torn>>

\* getWatcherByWid(); an unknown wid is answered with "???".
Find ==
  /\ At("find")
  /\ Becomes(IF Top.cur = NULL THEN [Top EXCEPT !.at = "recv"]
             ELSE IF mem[Top.cur].wid = Top.cmd.wid THEN [Top EXCEPT !.at = "obey"]
             ELSE [Top EXCEPT !.cur = mem[@].next])
  /\ UNCHANGED <<status, mask, pending, reprint, list, world, told, torn>>

\* The children that kill(pid, SIGTERM) reaches.
RunningChildren == {c \in Children : child[c] = "running"}
SignalledNone(pid) == {}   \* variant: the children are left alone
Signalled(pid) == IF pid = Unset THEN RunningChildren ELSE {pid}

\* stop: cli_watcher_stop() only answers, bitstamp_watcher_stop() sends SIGTERM
\* and leaves the WATCHER to the SIGCHLD handler.
Obey ==
  /\ At("obey")
  /\ told' = IF Top.cmd.op = "stop" /\ Top.cur # Cli
             THEN told \cup Signalled(mem[Top.cur].pid) ELSE told
  /\ Becomes([Top EXCEPT !.at = "recv"])
  /\ UNCHANGED <<status, mask, pending, reprint, list, world, torn>>

(***************************************************************************)
(* removeAllWatchers(), for quit and for the SIGINT handler, then exit().  *)
(***************************************************************************)

InterruptStart ==
  /\ At("interrupt")
  /\ Becomes([Top EXCEPT !.at = "remove", !.wp = mem[ListHead].next])
  /\ UNCHANGED <<status, mask, pending, reprint, list, world, told, torn>>

\* wp unlinked, as cleanWatcher() does it where nothing comes in between.
Unlinked(wp) ==
  [a \in Cells |->
     [mem[a] EXCEPT !.next = IF a = mem[wp].prev THEN mem[wp].next ELSE @,
                    !.prev = IF a = mem[wp].next THEN mem[wp].prev ELSE @]]

RemoveCli ==
  /\ At("remove") /\ Top.wp = Cli
  /\ mem' = Unlinked(Cli) /\ live' = live \ {Cli}
  /\ Becomes([Top EXCEPT !.wp = mem[@].next])
  /\ UNCHANGED <<status, mask, pending, reprint, world, told, torn>>

\* kill(pid, SIGTERM).  The pid 0 of a WATCHER whose start was interrupted is
\* the process group: the children, and the ticker itself.
RemoveWatcher ==
  /\ At("remove") /\ Top.wp \notin {Cli, NULL}
  /\ told' = told \cup Signalled(mem[Top.wp].pid)
  /\ status' = IF mem[Top.wp].pid = Unset THEN "killed" ELSE status
  /\ Becomes([Top EXCEPT !.wp = mem[@].next])
  /\ UNCHANGED <<mask, pending, reprint, list, world, torn>>

RemoveEnd ==
  /\ At("remove") /\ Top.wp = NULL
  /\ status' = "exited"
  /\ UNCHANGED <<stack, mask, pending, reprint, list, world, told, torn>>

(***************************************************************************)
(* The SIGCHLD handler and cleanWatcher().                                 *)
(***************************************************************************)

\* It starts behind the first watcher, taken to be the CLI watcher.
FirstChild == mem[mem[ListHead].next].next
ReapStart ==
  /\ At("reap") /\ mem[ListHead].next # NULL
  /\ Becomes([Top EXCEPT !.wp = FirstChild, !.at = "reaping"])
  /\ UNCHANGED <<status, mask, pending, reprint, list, world, told, torn>>

Zombies == {c \in Children : child[c] = "zombie"}

\* What waitpid(pid, WNOHANG) can wait for; pid 0 is any child.
WaitedForAny(pid) == Zombies   \* variant: waitpid(-1)
Waited(pid) == IF pid = Unset THEN Zombies ELSE Zombies \cap {pid}
NeverRuns(pid) == FALSE   \* variant: every result of waitpid() means the end
StillRuns(pid) ==
  \E c \in Children : child[c] = "running" /\ pid \in {c, Unset}

\* waitpid() is 0 while the child runs; it is its pid when it has ended, and -1
\* when there is no such child: both make the handler clean the WATCHER.
ReapNone ==
  /\ At("reaping") /\ Top.wp # NULL
  /\ Waited(mem[Top.wp].pid) = {} /\ StillRuns(mem[Top.wp].pid)
  /\ Becomes([Top EXCEPT !.wp = mem[@].next])
  /\ UNCHANGED <<status, mask, pending, reprint, list, world, told, torn>>

ReapOne ==
  /\ At("reaping") /\ Top.wp # NULL
  /\ LET waited == Waited(mem[Top.wp].pid) IN
     \/ \E c \in waited : child' = [child EXCEPT ![c] = "reaped"]
     \/ waited = {} /\ ~StillRuns(mem[Top.wp].pid) /\ UNCHANGED child
  /\ Becomes([Top EXCEPT !.at = "unlink"])
  /\ UNCHANGED <<status, mask, pending, reprint, list, stdin, typed, output, told, torn>>

\* wp->prev->next = wp->next (watcher.c:55).
ReapUnlink ==
  /\ At("unlink")
  /\ mem' = [mem EXCEPT ![mem[Top.wp].prev].next = mem[Top.wp].next]
  /\ Becomes([Top EXCEPT !.at = "unlinkNext"])
  /\ torn' = (torn \/ \E i \in DOMAIN Below : /\ Below[i].at = "backlink"
                                              /\ mem[Below[i].new].next = Top.wp)
  /\ UNCHANGED <<status, mask, pending, reprint, live, world, told>>

\* wp->next->prev = wp->prev (watcher.c:56-58).
ReapUnlinkNext ==
  /\ At("unlinkNext")
  /\ mem' = IF mem[Top.wp].next = NULL THEN mem
            ELSE [mem EXCEPT ![mem[Top.wp].next].prev = mem[Top.wp].prev]
  /\ Becomes([Top EXCEPT !.at = "free"])
  /\ UNCHANGED <<status, mask, pending, reprint, live, world, told, torn>>

\* Closing the pipe drops the output not read yet.
ReapFree ==
  /\ At("free")
  /\ live' = live \ {Top.wp}
  /\ output' = output \ {mem[Top.wp].pid}
  /\ Becomes([Top EXCEPT !.at = "freed"])
  /\ UNCHANGED <<status, mask, pending, reprint, mem, stdin, typed, child, told, torn>>

AfterReaping == mem[Top.wp].next

\* wp = wp->next, of the WATCHER just freed (ticker.c:64).  Nothing else reads
\* freed memory and goes on, so its contents are forgotten here.
ReapNext ==
  /\ At("freed")
  /\ Becomes([Top EXCEPT !.wp = AfterReaping, !.at = "reaping"])
  /\ mem' = IF Top.wp \in live THEN mem ELSE [mem EXCEPT ![Top.wp] = Blank]
  /\ UNCHANGED <<status, mask, pending, reprint, live, world, told, torn>>

ReapEnd ==
  /\ At("reaping") /\ Top.wp = NULL
  /\ Return
  /\ UNCHANGED <<status, pending, reprint, list, world, told, torn>>

(***************************************************************************)
(* Signals and the environment.                                            *)
(***************************************************************************)

\* The first step of a signal's handler.
Handler == [IO |-> "parse", CHLD |-> "reap", INT |-> "interrupt"]

\* A signal that is not blocked interrupts whatever runs; it stays blocked, with
\* what was blocked before, until its handler returns (the sa_masks are empty).
Deliver(sig) ==
  /\ status = "running"
  /\ sig \in pending \ mask
  /\ pending' = pending \ {sig}
  /\ mask' = mask \cup {sig}
  /\ stack' = Append(stack, Frame(sig, Handler[sig], mask))
  /\ UNCHANGED <<status, reprint, list, world, told, torn>>

\* A child's pipe raises SIGIO once the parent has set it up (bitstamp.c:82-88).
Watched(c) == \E a \in live : mem[a].pid = c

Type(cmd) ==
  /\ typed < MaxLines
  /\ stdin' = Append(stdin, cmd)
  /\ typed' = typed + 1
  /\ pending' = pending \cup {"IO"}
  /\ UNCHANGED <<status, stack, mask, reprint, list, child, output, told, torn>>

ChildWrites(c) ==
  /\ c \in Writers /\ child[c] = "running"
  /\ output' = output \cup {c}
  /\ pending' = IF Watched(c) THEN pending \cup {"IO"} ELSE pending
  /\ UNCHANGED <<status, stack, mask, reprint, list, stdin, typed, child, told, torn>>

ChildEnds(c) ==
  /\ child[c] = "running"
  /\ child' = [child EXCEPT ![c] = "zombie"]
  /\ pending' = pending \cup {"CHLD"} \cup (IF Watched(c) THEN {"IO"} ELSE {})
  /\ UNCHANGED <<status, stack, mask, reprint, list, stdin, typed, output, told, torn>>

Interrupt ==
  /\ Interrupts /\ "INT" \notin mask
  /\ pending' = pending \cup {"INT"}
  /\ UNCHANGED <<status, stack, mask, reprint, list, world, told, torn>>

Environment ==
  /\ status = "running"
  /\ \/ \E cmd \in Commands : Type(cmd)
     \/ \E c \in Children : ChildWrites(c) \/ ChildEnds(c)
     \/ Interrupt

-------------------------------------------------------------------------------
Step ==
  \/ MainPrompt \/ MainClear \/ MainSuspend
  \/ ParseStart \/ NothingToRead \/ ReadCommands \/ ReadOutput \/ Recv \/ ParseEnd
  \/ StartCreate \/ StartWithoutRoom \/ StartScan \/ StartInsert \/ StartBacklink
  \/ StartLink \/ StartFork \/ StartSetPid \/ StartSubscribe
  \/ Walk \/ Find \/ Obey
  \/ InterruptStart \/ RemoveCli \/ RemoveWatcher \/ RemoveEnd
  \/ ReapStart \/ ReapNone \/ ReapOne \/ ReapUnlink \/ ReapUnlinkNext \/ ReapFree
  \/ ReapNext \/ ReapEnd
  \/ Faults

\* The process sleeps, or is gone.
Rests ==
  /\ status # "running" \/ Top.at = "sleeping"
  /\ UNCHANGED vars

Next == Step \/ (\E sig \in Signals : Deliver(sig)) \/ Environment \/ Rests

Spec == Init /\ [][Next]_vars

\* The kernel runs the process whenever it can run, and delivers its signals;
\* and the children do not write without end: while they do, the SIGIO handler
\* can run on top of everything else over and over.
Fairness ==
  /\ WF_vars(Step)
  /\ \A sig \in Signals : WF_vars(Deliver(sig))
  /\ <>[][\A c \in Children : ~ChildWrites(c)]_vars
FairSpec == Spec /\ Fairness
===============================================================================
