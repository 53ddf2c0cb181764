----------------------------- MODULE TickerProofs -----------------------------
(***************************************************************************)
(* Proofs about the ticker's signal handlers, for any WATCHERs, children,  *)
(* commands and number of lines typed.                                     *)
(***************************************************************************)
EXTENDS TickerProperties, SequenceTheorems, TLAPS

(***************************************************************************)
(* The inductive invariant.                                                *)
(***************************************************************************)

\* Where a frame may be: in the loop of main(), in parseInput(), at a command, in
\* newWatcher() and fork(), in cleanWatcher(), in the SIGCHLD handler.
Waiting == {"prompt", "clear", "suspend", "sleeping"}
Parsing == {"parse", "read", "remove", "interrupt"}
Obeying == {"recv", "start", "find", "walk", "obey", "subscribe"}
Creating == {"scan", "insert", "backlink", "link", "fork", "setpid"}
Dropping == {"unlink", "unlinkNext", "free"}
Reaping == Dropping \cup {"reap", "reaping", "freed"}
Labels == Waiting \cup Parsing \cup Obeying \cup Creating \cup Reaping

\* What a next pointer can hold.
Successors == Watchers \cup {Cli, NULL}
CellShape ==
  [wid : Nat, pid : Children \cup {Unset}, next : Successors, prev : Cells \cup {NULL}]
FrameShape ==
  [kind : Signals \cup {"main"}, at : Labels, wp : Successors, new : Watchers \cup {NULL},
   prev : Cells \cup {NULL}, cur : Successors, wid : Nat, cmd : [op : Ops, wid : Nat],
   pid : Children \cup {Unset}, saved : SUBSET Signals]

\* The values the variables take.
ShapeOK ==
  /\ stack \in Seq(FrameShape) /\ stack # <<>>
  /\ mask \in SUBSET Signals
  /\ mem \in [Cells -> CellShape]
  /\ live \in SUBSET Cells
  /\ stdin \in Seq(Commands)
  /\ child \in [Children -> {"unborn", "running", "zombie", "reaped"}]

\* A frame is where its kind can be, and has the pointers it needs there.
FrameOK(f) ==
  /\ f.at \in Waiting => f.kind = "main"
  /\ f.at \in Reaping => f.kind = "CHLD"
  /\ f.at \in Obeying \cup Creating \cup Dropping \cup {"freed"} => f.wp # NULL
  /\ f.at \in Creating => f.new \in Watchers /\ f.prev \in Cells
  /\ f.at \in {"setpid", "subscribe"} => f.pid \in Children /\ child[f.pid] # "unborn"
FramesOK == \A i \in 1..Len(stack) : FrameOK(stack[i])

\* A handler interrupts the loop or the handlers of other signals, never itself, and
\* gives them back a mask in which they are blocked.
HandlersNest ==
  /\ \A i \in 1..Len(stack) :
       /\ stack[i].kind = "main" <=> i = 1
       /\ stack[i].kind \in mask \cup {"main"}
  /\ \A i, j \in 1..Len(stack) : i < j =>
       /\ stack[i].kind # stack[j].kind
       /\ stack[i].kind \in stack[j].saved \cup {"main"}

\* A pid on the books is that of a child that was forked.
PidsAreOfChildren ==
  \A a \in Cells : mem[a].pid \in Children => child[mem[a].pid] # "unborn"

\* A WATCHER without a pid is one that a frame is at work to start.
HalfMadeHaveMakers ==
  \A w \in live \cap Watchers : mem[w].pid = Unset =>
    \E i \in 1..Len(stack) : stack[i].at \in Creating /\ stack[i].new = w

\* The WATCHER with the child that has ended, or whose start was interrupted.
Dead(i) ==
  LET w == stack[i].wp IN
    \/ mem[w].pid \in Children /\ child[mem[w].pid] = "reaped"
    \/ \E j \in 1..Len(stack) : j < i /\ stack[j].new = w

\* What the SIGCHLD handler is about to drop is dead, is still there, and is not being
\* made by a handler that interrupted it.
DroppedAreDead ==
  \A i \in 1..Len(stack) : stack[i].at \in Dropping /\ stack[i].wp # Cli =>
    /\ stack[i].wp \in live /\ Dead(i)
    /\ \A j \in 1..Len(stack) : i < j => stack[j].new # stack[i].wp

TickerInv ==
  /\ ShapeOK /\ FramesOK /\ HandlersNest
  /\ PidsAreOfChildren /\ HalfMadeHaveMakers /\ DroppedAreDead

(***************************************************************************)
(* The stack of frames.                                                    *)
(***************************************************************************)

\* The running frame is on top of a stack that is never empty.
LEMMA TopOfStack ==
  ASSUME ShapeOK
  PROVE  /\ Len(stack) \in Nat \ {0}
         /\ Top = stack[Len(stack)] /\ Top \in FrameShape
         /\ \A i \in 1..Len(stack) : stack[i] \in FrameShape
         /\ Below \in Seq(FrameShape) /\ Len(Below) = Len(stack) - 1
         /\ \A i \in 1..Len(stack) - 1 : Below[i] = stack[i]
<1>1. stack \in Seq(FrameShape) /\ stack # <<>>
  BY DEF ShapeOK
<1>2. /\ Len(stack) \in Nat \ {0} /\ Top = stack[Len(stack)]
      /\ \A i \in 1..Len(stack) : stack[i] \in FrameShape
  BY <1>1 DEF Top, Last
<1>3. Below = SubSeq(stack, 1, Len(stack) - 1)
  BY DEF Below, Front
<1>4. Below \in Seq(FrameShape) /\ Len(Below) = Len(stack) - 1
  <2>1. PICK n \in Nat : n = Len(stack) - 1
    BY <1>2
  <2>2. \A i \in 1..n : stack[i] \in FrameShape
    BY <1>2, <2>1
  <2>3. SubSeq(stack, 1, n) \in Seq(FrameShape) /\ Len(SubSeq(stack, 1, n)) = n
    BY <2>2, SubSeqProperties
  <2> QED
    BY <1>3, <2>1, <2>3
<1>5. \A i \in 1..Len(stack) - 1 : Below[i] = stack[i]
  BY <1>1, <1>2, <1>3
<1> QED
  BY <1>1, <1>2, <1>4, <1>5

\* A step of the running frame changes no other.
LEMMA OnlyTopChanges ==
  ASSUME ShapeOK, NEW f \in FrameShape, Becomes(f)
  PROVE  /\ stack' \in Seq(FrameShape) /\ stack' # <<>> /\ Len(stack') = Len(stack)
         /\ stack'[Len(stack)] = f
         /\ \A i \in 1..Len(stack) - 1 : stack'[i] = stack[i]
BY TopOfStack DEF Becomes

\* A handler that returns uncovers the frames below, or wakes the loop of main().
LEMMA ReturnUncovers ==
  ASSUME ShapeOK, Len(stack) > 1, Return
  PROVE  \/ /\ stack' = Below /\ mask' = Top.saved /\ stack' # <<>>
         \/ /\ stack[1].at = "sleeping" /\ Len(stack) = 2 /\ mask' = stack[1].saved
            /\ stack' = <<[stack[1] EXCEPT !.at = "prompt"]>>
BY TopOfStack DEF Return, Wakes

\* Only a frame with work on the list reads it, and then only what is allocated.
LEMMA ReapsTheLiving ==
  ASSUME ShapeOK, At("reaping") \/ At("free"), Top.wp # NULL
  PROVE  Top.wp \in live
<1>1. Top.wp \in Cells
  BY TopOfStack DEF FrameShape, Successors, Cells
<1>2. Top.wp \in Touches(Top) /\ Touches(Top) \subseteq live
  BY <1>1 DEF At, Touches
<1> QED
  BY <1>2

(***************************************************************************)
(* The steps that allocate, start and drop nothing.                        *)
(***************************************************************************)

\* No pid is recorded, none but the CLI WATCHER goes, and no child is forgotten.
Gentle ==
  /\ mem' \in [Cells -> CellShape] /\ \A a \in Cells : mem'[a].pid = mem[a].pid
  /\ live' \subseteq live /\ live \ live' \subseteq {Cli}
  /\ stdin' \in Seq(Commands)
  /\ child' \in [Children -> {"unborn", "running", "zombie", "reaped"}]
  /\ \A c \in Children : /\ child[c] # "unborn" => child'[c] # "unborn"
                         /\ child[c] = "reaped" => child'[c] = "reaped"

\* The running frame moves on to f.
Moves(f) ==
  /\ f \in FrameShape /\ Becomes(f) /\ FrameOK(f)'
  /\ f.kind = Top.kind /\ (f.saved = Top.saved \/ f.kind = "main")
  /\ f.new \in {Top.new, NULL}
  /\ Top.at \in Creating => f.at \in Creating /\ f.new = Top.new
  /\ f.at \in Dropping => Top.at \in Dropping /\ f.wp = Top.wp
  /\ mask' \in SUBSET Signals /\ (mask \subseteq mask' \/ f.kind = "main")
  /\ Gentle

\* Such a move keeps the invariant.
LEMMA MoveKeeps ==
  ASSUME TickerInv, NEW f, Moves(f)
  PROVE  TickerInv'
<1> USE DEF TickerInv, Moves
<1> DEFINE n == Len(stack)
<1>1. /\ n \in Nat \ {0} /\ Top = stack[n]
      /\ stack' \in Seq(FrameShape) /\ stack' # <<>> /\ Len(stack') = n
      /\ stack'[n] = f /\ \A i \in 1..n - 1 : stack'[i] = stack[i]
      /\ \A i \in 1..n : stack[i] \in FrameShape
  BY TopOfStack, OnlyTopChanges
<1>2. ShapeOK'
  BY <1>1 DEF Gentle, ShapeOK
<1> HIDE DEF n
<1>3. FramesOK'
  <2>1. ASSUME NEW i \in 1..n - 1 PROVE FrameOK(stack[i])'
    <3>1. stack'[i] = stack[i] /\ FrameOK(stack[i])
      BY <1>1 DEF FramesOK, n
    <3> QED
      BY <3>1 DEF FrameOK, Gentle
  <2> SUFFICES ASSUME NEW i \in 1..n PROVE FrameOK(stack[i])'
    BY <1>1 DEF FramesOK
  <2>2. CASE i = n
    BY <1>1, <2>2 DEF FrameOK
  <2> QED
    BY <1>1, <2>1, <2>2
<1>4. HandlersNest'
  <2>1. \A i \in 1..n : stack'[i].kind = stack[i].kind
    BY <1>1
  <2>2. f.kind = "main" => n = 1
    BY <1>1 DEF HandlersNest, n
  <2>3. \A i, j \in 1..n : i < j => stack'[j].saved = stack[j].saved
    BY <1>1, <2>2
  <2>4. \A i \in 1..n : stack[i].kind \in mask' \cup {"main"}
    BY <1>1, <2>2 DEF HandlersNest, n
  <2>5. /\ \A i \in 1..n : stack[i].kind = "main" <=> i = 1
        /\ \A i, j \in 1..n : i < j =>
             /\ stack[i].kind # stack[j].kind
             /\ stack[i].kind \in stack[j].saved \cup {"main"}
    BY DEF HandlersNest, n
  <2> QED
    BY <1>1, <2>1, <2>3, <2>4, <2>5 DEF HandlersNest
<1>5. PidsAreOfChildren'
  BY DEF PidsAreOfChildren, Gentle
<1>6. HalfMadeHaveMakers'
  <2> SUFFICES ASSUME NEW w \in live' \cap Watchers, mem'[w].pid = Unset
               PROVE  \E i \in 1..n : stack'[i].at \in Creating /\ stack'[i].new = w
    BY <1>1 DEF HalfMadeHaveMakers
  <2>1. PICK i \in 1..n : stack[i].at \in Creating /\ stack[i].new = w
    BY <1>1 DEF HalfMadeHaveMakers, Gentle, n, Cells
  <2> QED
    BY <1>1, <2>1
<1>7. DroppedAreDead'
  <2> SUFFICES ASSUME NEW i \in 1..n, stack'[i].at \in Dropping, stack'[i].wp # Cli
               PROVE  /\ stack'[i].wp \in live' /\ Dead(i)'
                      /\ \A j \in 1..n : i < j => stack'[j].new # stack'[i].wp
    BY <1>1 DEF DroppedAreDead
  <2>1. stack[i].at \in Dropping /\ stack'[i].wp = stack[i].wp
    BY <1>1
  <2>2. /\ stack[i].wp \in live /\ Dead(i)
        /\ \A j \in 1..n : i < j => stack[j].new # stack[i].wp
    BY <2>1 DEF DroppedAreDead, n
  <2>3. stack[i].wp \in Cells /\ stack[i].wp # NULL
    BY <2>2, DistinctAssumption DEF ShapeOK, Cells
  <2>4. Dead(i)'
    BY <1>1, <2>1, <2>2, <2>3 DEF Dead, Gentle, n
  <2>5. stack'[i].wp \in live'
    BY <2>1, <2>2 DEF Gentle
  <2> QED
    BY <1>1, <2>1, <2>2, <2>3, <2>4, <2>5
<1> QED
  BY <1>2, <1>3, <1>4, <1>5, <1>6, <1>7

\* The running frame is where its kind can be, and so is its stack.
LEMMA TopIsOK ==
  ASSUME TickerInv
  PROVE  /\ Top \in FrameShape /\ FrameOK(Top) /\ ShapeOK
         /\ Top.kind = "main" <=> Len(stack) = 1
BY TopOfStack DEF TickerInv, FramesOK, HandlersNest

\* A step that leaves WATCHERs, input and children alone is gentle.
LEMMA AloneIsGentle ==
  ASSUME TickerInv, UNCHANGED <<mem, live, stdin, child>>
  PROVE  Gentle
BY DEF TickerInv, ShapeOK, Gentle

\* So is one that only relinks WATCHERs.
LEMMA RelinkingIsGentle ==
  ASSUME TickerInv, UNCHANGED <<live, stdin, child>>,
         mem' \in [Cells -> CellShape], \A a \in Cells : mem'[a].pid = mem[a].pid
  PROVE  Gentle
BY DEF TickerInv, ShapeOK, Gentle

\* The loop of main(), and parseInput() but for its return to what it interrupted.
LEMMA LoopMoves ==
  ASSUME TickerInv, MainPrompt \/ MainClear \/ MainSuspend \/ ParseStart \/ NothingToRead
                    \/ Recv \/ ReadCommands \/ ReadOutput
  PROVE  \E f : Moves(f)
<1>1. /\ Top \in FrameShape /\ FrameOK(Top) /\ ListHead \in Cells
      /\ mem \in [Cells -> CellShape] /\ mask \in SUBSET Signals
  BY TopIsOK DEF ShapeOK, Cells
<1>2. CASE MainPrompt
  <2>1. PICK f : f = [Top EXCEPT !.at = IF reprint THEN "clear" ELSE "parse"] /\ Becomes(f)
    BY <1>2 DEF MainPrompt
  <2>2. f \in FrameShape
    BY <1>1, <1>2, <2>1
    DEF MainPrompt, At, NextWatcher, Frame, FrameShape, CellShape, Labels, Waiting, Parsing, Obeying
  <2>3. Gentle
    BY <1>2, AloneIsGentle DEF MainPrompt, list, world
  <2> QED
    BY <1>1, <1>2, <2>1, <2>2, <2>3
    DEF MainPrompt, Moves, At, FrameOK, FrameShape, NextWatcher, Frame, Waiting, Parsing, Obeying,
        Creating, Reaping, Dropping, SuspendMask, Signals
<1>3. CASE MainClear
  <2>1. PICK f : f = [Top EXCEPT !.at = "parse"] /\ Becomes(f)
    BY <1>3 DEF MainClear
  <2>2. f \in FrameShape
    BY <1>1, <1>3, <2>1
    DEF MainClear, At, NextWatcher, Frame, FrameShape, CellShape, Labels, Waiting, Parsing, Obeying
  <2>3. Gentle
    BY <1>3, AloneIsGentle DEF MainClear, list, world
  <2> QED
    BY <1>1, <1>3, <2>1, <2>2, <2>3
    DEF MainClear, Moves, At, FrameOK, FrameShape, NextWatcher, Frame, Waiting, Parsing, Obeying,
        Creating, Reaping, Dropping, SuspendMask, Signals
<1>4. CASE MainSuspend
  <2>1. PICK f : f = [Top EXCEPT !.at = "sleeping", !.saved = mask] /\ Becomes(f)
    BY <1>4 DEF MainSuspend
  <2>2. f \in FrameShape
    BY <1>1, <1>4, <2>1
    DEF MainSuspend, At, NextWatcher, Frame, FrameShape, CellShape, Labels, Waiting, Parsing,
        Obeying
  <2>3. Gentle
    BY <1>4, AloneIsGentle DEF MainSuspend, list, world
  <2> QED
    BY <1>1, <1>4, <2>1, <2>2, <2>3
    DEF MainSuspend, Moves, At, FrameOK, FrameShape, NextWatcher, Frame, Waiting, Parsing, Obeying,
        Creating, Reaping, Dropping, SuspendMask, Signals
<1>5. CASE ParseStart
  <2>1. PICK f : f = [Top EXCEPT !.wp = mem[ListHead].next, !.at = "read"] /\ Becomes(f)
    BY <1>5 DEF ParseStart
  <2>2. f \in FrameShape
    BY <1>1, <1>5, <2>1
    DEF ParseStart, At, NextWatcher, Frame, FrameShape, CellShape, Labels, Waiting, Parsing, Obeying
  <2>3. Gentle
    BY <1>5, AloneIsGentle DEF ParseStart, list, world
  <2> QED
    BY <1>1, <1>5, <2>1, <2>2, <2>3
    DEF ParseStart, Moves, At, FrameOK, FrameShape, NextWatcher, Frame, Waiting, Parsing, Obeying,
        Creating, Reaping, Dropping, SuspendMask, Signals
<1>6. CASE NothingToRead \/ Recv
  <2>1. PICK f : f = NextWatcher /\ Becomes(f)
    BY <1>6 DEF NothingToRead, Recv, PassOver
  <2>2. f \in FrameShape
    <3>1. Top.wp \in Cells
      BY <1>1, <1>6 DEF NothingToRead, Recv, At, FrameOK, Obeying, FrameShape, Successors, Cells
    <3>2. mem[Top.wp].next \in Successors
      BY <1>1, <3>1 DEF CellShape
    <3> QED
      BY <1>1, <2>1, <3>2 DEF NextWatcher, Frame, FrameShape, Labels, Parsing, Ops, Successors
  <2>3. Gentle
    BY <1>6, AloneIsGentle DEF NothingToRead, Recv, list, world
  <2> QED
    BY <1>1, <1>6, <2>1, <2>2, <2>3
    DEF NothingToRead, Recv, Moves, At, FrameOK, FrameShape, NextWatcher, Frame, Waiting,
        Parsing, Obeying,
        Creating, Reaping, Dropping, SuspendMask, Signals
<1>7. CASE ReadOutput
  <2>1. PICK f : f = [Top EXCEPT !.at = "recv"] /\ Becomes(f)
    BY <1>7 DEF ReadOutput
  <2>2. f \in FrameShape
    BY <1>1, <1>7, <2>1
    DEF ReadOutput, At, NextWatcher, Frame, FrameShape, CellShape, Labels, Waiting, Parsing, Obeying
  <2>3. Gentle
    BY <1>7, AloneIsGentle DEF ReadOutput, list, world
  <2> QED
    BY <1>1, <1>7, <2>1, <2>2, <2>3
    DEF ReadOutput, Moves, At, FrameOK, FrameShape, NextWatcher, Frame, Waiting, Parsing, Obeying,
        Creating, Reaping, Dropping, SuspendMask, Signals
<1>8. CASE ReadCommands
  <2>1. PICK cmd : cmd = stdin[1] /\ cmd \in [op : Ops, wid : Nat]
    BY <1>1, <1>8, TopIsOK, CommandsAssumption DEF ReadCommands, ShapeOK, Ids
  <2>2. PICK f :
          /\ f = [Top EXCEPT !.cmd = cmd, !.at = Branch[cmd.op], !.cur = mem[ListHead].next,
                             !.wp = IF cmd.op = "quit" THEN mem[ListHead].next ELSE @]
          /\ Becomes(f) /\ Top.wp = Cli
    BY <1>8, <2>1 DEF ReadCommands
  <2>3. \/ Branch[cmd.op] \in Obeying \ {"subscribe"} /\ cmd.op # "quit"
        \/ Branch[cmd.op] = "remove"
    BY <2>1 DEF Branch, Ops, Obeying
  <2>4. f \in FrameShape
    <3>1. mem[ListHead].next \in Successors /\ Branch[cmd.op] \in Labels
      BY <1>1, <2>3 DEF CellShape, Labels, Parsing
    <3> QED
      BY <1>1, <2>1, <2>2, <3>1 DEF FrameShape
  <2>5. Gentle
    BY <1>8, TopIsOK DEF ReadCommands, ShapeOK, Gentle, list
  <2>6. /\ f.kind = Top.kind /\ f.saved = Top.saved /\ f.new = Top.new
        /\ f.at = Branch[cmd.op] /\ (cmd.op # "quit" => f.wp = Cli)
    BY <1>1, <2>2 DEF FrameShape
  <2>7. FrameOK(f)'
    BY <2>3, <2>6, DistinctAssumption
    DEF FrameOK, Waiting, Obeying, Creating, Reaping, Dropping
  <2>8. Top.at = "read" /\ mask' = mask
    BY <1>8 DEF ReadCommands, At
  <2> QED
    BY <1>1, <2>2, <2>3, <2>4, <2>5, <2>6, <2>7, <2>8
    DEF Moves, Obeying, Creating, Dropping
<1> QED
  BY <1>2, <1>3, <1>4, <1>5, <1>6, <1>7, <1>8

\* The commands, but for the steps that allocate a WATCHER and record its pid.
LEMMA CommandMoves ==
  ASSUME TickerInv, \/ StartWithoutRoom \/ StartScan \/ StartInsert \/ StartBacklink
                    \/ StartLink \/ StartFork \/ Walk \/ Find \/ Obey
                    \/ StartSubscribe /\ Becomes([Top EXCEPT !.at = "recv"])
  PROVE  \E f : Moves(f)
<1>1. /\ Top \in FrameShape /\ FrameOK(Top) /\ ListHead \in Cells
      /\ mem \in [Cells -> CellShape] /\ mask \in SUBSET Signals
  BY TopIsOK DEF ShapeOK, Cells
<1>2. CASE StartWithoutRoom \/ Obey
  <2>1. PICK f : f = [Top EXCEPT !.at = "recv"] /\ Becomes(f)
    BY <1>2 DEF StartWithoutRoom, Obey
  <2>2. f \in FrameShape
    BY <1>1, <1>2, <2>1
    DEF StartWithoutRoom, Obey, At, FrameShape, CellShape, Labels, Successors, Cells,
        Waiting, Parsing, Obeying, Creating, Reaping, Dropping
  <2>3. Gentle
    BY <1>2, AloneIsGentle DEF StartWithoutRoom, Obey, list, world
  <2> QED
    BY <1>1, <1>2, <2>1, <2>2, <2>3, DistinctAssumption
    DEF StartWithoutRoom, Obey, Moves, At, FrameOK, FrameShape, Waiting, Parsing, Obeying,
        Creating, Reaping, Dropping
<1>3. CASE StartInsert
  <2>1. PICK f : f = [Top EXCEPT !.at = "backlink"] /\ Becomes(f)
    BY <1>3 DEF StartInsert
  <2>2. f \in FrameShape
    BY <1>1, <1>3, <2>1
    DEF StartInsert, At, FrameShape, CellShape, Labels, Successors, Cells,
        Waiting, Parsing, Obeying, Creating, Reaping, Dropping
  <2>3. Gentle
    <3>1. mem' \in [Cells -> CellShape] /\ \A a \in Cells : mem'[a].pid = mem[a].pid
      BY <1>1, <1>3 DEF StartInsert, At, FrameOK, Creating, Dropping, Reaping, CellShape,
         FrameShape,
         Successors, Cells
    <3> QED
      BY <1>3, <3>1, RelinkingIsGentle DEF StartInsert, world
  <2> QED
    BY <1>1, <1>3, <2>1, <2>2, <2>3, DistinctAssumption
    DEF StartInsert, Moves, At, FrameOK, FrameShape, Waiting, Parsing, Obeying,
        Creating, Reaping, Dropping
<1>4. CASE StartBacklink
  <2>1. PICK f : f = [Top EXCEPT !.at = "link"] /\ Becomes(f)
    BY <1>4 DEF StartBacklink
  <2>2. f \in FrameShape
    BY <1>1, <1>4, <2>1
    DEF StartBacklink, At, FrameShape, CellShape, Labels, Successors, Cells,
        Waiting, Parsing, Obeying, Creating, Reaping, Dropping
  <2>3. Gentle
    <3>1. mem' \in [Cells -> CellShape] /\ \A a \in Cells : mem'[a].pid = mem[a].pid
      BY <1>1, <1>4 DEF StartBacklink, At, FrameOK, Creating, Dropping, Reaping, CellShape,
         FrameShape,
         Successors, Cells, Backlinked
    <3> QED
      BY <1>4, <3>1, RelinkingIsGentle DEF StartBacklink, world
  <2> QED
    BY <1>1, <1>4, <2>1, <2>2, <2>3, DistinctAssumption
    DEF StartBacklink, Moves, At, FrameOK, FrameShape, Waiting, Parsing, Obeying,
        Creating, Reaping, Dropping
<1>5. CASE StartLink
  <2>1. PICK f : f = [Top EXCEPT !.at = "fork"] /\ Becomes(f)
    BY <1>5 DEF StartLink
  <2>2. f \in FrameShape
    BY <1>1, <1>5, <2>1
    DEF StartLink, At, FrameShape, CellShape, Labels, Successors, Cells,
        Waiting, Parsing, Obeying, Creating, Reaping, Dropping
  <2>3. Gentle
    <3>1. mem' \in [Cells -> CellShape] /\ \A a \in Cells : mem'[a].pid = mem[a].pid
      BY <1>1, <1>5 DEF StartLink, At, FrameOK, Creating, Dropping, Reaping, CellShape, FrameShape,
         Successors, Cells
    <3> QED
      BY <1>5, <3>1, RelinkingIsGentle DEF StartLink, world
  <2> QED
    BY <1>1, <1>5, <2>1, <2>2, <2>3, DistinctAssumption
    DEF StartLink, Moves, At, FrameOK, FrameShape, Waiting, Parsing, Obeying,
        Creating, Reaping, Dropping
<1>6. CASE Walk \/ Find
  <2>1. PICK f :
          /\ Becomes(f)
          /\ \/ f = [Top EXCEPT !.at = "recv"]
             \/ f = [Top EXCEPT !.at = "obey"]
             \/ Top.cur # NULL /\ f = [Top EXCEPT !.cur = mem[Top.cur].next]
    BY <1>6 DEF Walk, Find
  <2>2. Top.cur # NULL => mem[Top.cur].next \in Successors /\ Top.cur \in Cells
    BY <1>1 DEF FrameShape, CellShape, Successors, Cells
  <2>3. f \in FrameShape
    BY <1>1, <2>1, <2>2 DEF FrameShape, Labels, Obeying, Creating
  <2>4. /\ f.kind = Top.kind /\ f.saved = Top.saved /\ f.new = Top.new /\ f.wp = Top.wp
        /\ Top.cur # NULL \/ f.prev = Top.prev
        /\ f.prev \in {Top.prev, Top.cur} /\ f.at \in {"recv", "obey", "walk", "find"}
    BY <1>1, <1>6, <2>1 DEF Walk, Find, At, FrameShape
  <2>5. Gentle /\ mask' = mask
    BY <1>6, AloneIsGentle DEF Walk, Find, list, world
  <2> QED
    BY <1>1, <1>6, <2>1, <2>2, <2>3, <2>4, <2>5
    DEF Walk, Find, Moves, At, FrameOK, Waiting, Obeying, Creating, Reaping, Dropping
<1>7. CASE StartScan
  <2>1. PICK f :
          /\ Becomes(f)
          /\ \/ f = [Top EXCEPT !.at = "insert"]
             \/ /\ Top.cur # NULL
                /\ f = [Top EXCEPT !.prev = Top.cur, !.cur = mem[Top.cur].next,
                                   !.wid = Top.wid + 1]
    BY <1>7 DEF StartScan
  <2>2. Top.cur # NULL => mem[Top.cur].next \in Successors /\ Top.cur \in Cells
    BY <1>1 DEF FrameShape, CellShape, Successors, Cells
  <2>3. f \in FrameShape
    <3>1. CASE f = [Top EXCEPT !.at = "insert"]
      BY <1>1, <3>1 DEF FrameShape, Labels, Creating
    <3>2. CASE /\ Top.cur # NULL
               /\ f = [Top EXCEPT !.prev = Top.cur, !.cur = mem[Top.cur].next, !.wid = Top.wid + 1]
      <4>1. PICK w \in Nat : w = Top.wid + 1
        BY <1>1 DEF FrameShape
      <4>2. PICK a \in Successors, b \in Cells : a = mem[Top.cur].next /\ b = Top.cur
        BY <2>2, <3>2
      <4>3. f = [Top EXCEPT !.prev = b, !.cur = a, !.wid = w]
        BY <3>2, <4>1, <4>2
      <4> QED
        BY <1>1, <4>3 DEF FrameShape
    <3> QED
      BY <2>1, <3>1, <3>2
  <2>4. /\ f.kind = Top.kind /\ f.saved = Top.saved /\ f.new = Top.new /\ f.wp = Top.wp
        /\ Top.cur # NULL \/ f.prev = Top.prev
        /\ f.prev \in {Top.prev, Top.cur} /\ f.at \in {"insert", "scan"}
    BY <1>1, <1>7, <2>1 DEF StartScan, At, FrameShape
  <2>5. Gentle /\ mask' = mask
    BY <1>7, AloneIsGentle DEF StartScan, list, world
  <2> QED
    BY <1>1, <1>7, <2>1, <2>2, <2>3, <2>4, <2>5
    DEF StartScan, Moves, At, FrameOK, Waiting, Obeying, Creating, Reaping, Dropping
<1>8. CASE StartFork
  <2>1. PICK c \in Children :
          /\ child[c] = "unborn" /\ child' = [child EXCEPT ![c] = "running"]
          /\ Becomes([Top EXCEPT !.at = "setpid", !.pid = c])
    BY <1>8 DEF StartFork
  <2>2. PICK f : f = [Top EXCEPT !.at = "setpid", !.pid = c] /\ Becomes(f)
    BY <2>1
  <2>3. f \in FrameShape
    BY <1>1, <2>2 DEF FrameShape, Labels, Creating
  <2>4. Gentle /\ child'[c] # "unborn"
    BY <1>8, <2>1, TopIsOK DEF StartFork, ShapeOK, Gentle, list
  <2> QED
    BY <1>1, <1>8, <2>1, <2>2, <2>3, <2>4
    DEF StartFork, Moves, At, FrameOK, FrameShape, Waiting, Obeying, Creating, Reaping, Dropping
<1>9. CASE StartSubscribe /\ Becomes([Top EXCEPT !.at = "recv"])
  <2>1. PICK f : f = [Top EXCEPT !.at = "recv"] /\ Becomes(f)
    BY <1>9
  <2>2. f \in FrameShape
    BY <1>1, <2>1 DEF FrameShape, Labels, Obeying
  <2>3. Gentle
    BY <1>9, AloneIsGentle DEF StartSubscribe, list, world
  <2> QED
    BY <1>1, <1>9, <2>1, <2>2, <2>3
    DEF StartSubscribe, Moves, At, FrameOK, FrameShape, Waiting, Obeying, Creating, Reaping,
        Dropping
<1> QED
  BY <1>2, <1>3, <1>4, <1>5, <1>6, <1>7, <1>8, <1>9

\* quit and the SIGINT handler, the SIGCHLD handler but for the steps that reap and
\* free, and the end of the loop's own parseInput().
LEMMA HandlerMoves ==
  ASSUME TickerInv, \/ InterruptStart \/ RemoveCli \/ RemoveWatcher \/ ReapStart \/ ReapNone
                    \/ ReapUnlink \/ ReapUnlinkNext \/ (ParseEnd /\ Top.kind = "main")
  PROVE  \E f : Moves(f)
<1>1. /\ Top \in FrameShape /\ FrameOK(Top) /\ ListHead \in Cells
      /\ mem \in [Cells -> CellShape] /\ mask \in SUBSET Signals
  BY TopIsOK DEF ShapeOK, Cells
<1>2. CASE InterruptStart
  <2>1. PICK f : f = [Top EXCEPT !.at = "remove", !.wp = mem[ListHead].next] /\ Becomes(f)
    BY <1>2 DEF InterruptStart
  <2>2. f \in FrameShape
    BY <1>1, <1>2, <2>1
    DEF InterruptStart, At, FrameShape, CellShape, Labels, Successors, Cells,
        Waiting, Parsing, Obeying, Creating, Reaping, Dropping
  <2>3. Gentle
    BY <1>2, AloneIsGentle DEF InterruptStart, list, world
  <2> QED
    BY <1>1, <1>2, <2>1, <2>2, <2>3, DistinctAssumption
    DEF InterruptStart, Moves, At, FrameOK, FrameShape, Waiting, Parsing, Obeying,
        Creating, Reaping, Dropping
<1>3. CASE RemoveWatcher \/ ReapNone
  <2>1. PICK f : f = [Top EXCEPT !.wp = mem[Top.wp].next] /\ Becomes(f)
    BY <1>3 DEF RemoveWatcher, ReapNone
  <2>2. f \in FrameShape
    <3>1. Top.wp \in Cells
      BY <1>1, <1>3 DEF RemoveWatcher, ReapNone, At, FrameShape, Successors, Cells
    <3>2. mem[Top.wp].next \in Successors
      BY <1>1, <3>1 DEF CellShape
    <3> QED
      BY <1>1, <2>1, <3>2 DEF FrameShape
  <2>3. Gentle
    BY <1>3, AloneIsGentle DEF RemoveWatcher, ReapNone, list, world
  <2> QED
    BY <1>1, <1>3, <2>1, <2>2, <2>3, DistinctAssumption
    DEF RemoveWatcher, ReapNone, Moves, At, FrameOK, FrameShape, Waiting, Parsing, Obeying,
        Creating, Reaping, Dropping
<1>4. CASE RemoveCli
  <2>1. PICK f : f = [Top EXCEPT !.wp = mem[Top.wp].next] /\ Becomes(f)
    BY <1>4 DEF RemoveCli
  <2>2. f \in FrameShape
    <3>1. Top.wp \in Cells
      BY <1>1, <1>4 DEF RemoveCli, At, FrameShape, Successors, Cells
    <3>2. mem[Top.wp].next \in Successors
      BY <1>1, <3>1 DEF CellShape
    <3> QED
      BY <1>1, <2>1, <3>2 DEF FrameShape
  <2>3. Gentle
    <3>1. mem' \in [Cells -> CellShape] /\ \A a \in Cells : mem'[a].pid = mem[a].pid
      <4>1. mem[Cli].next \in Successors /\ mem[Cli].prev \in Cells \cup {NULL}
        BY <1>1 DEF CellShape, Cells
      <4>2. PICK r \in Successors, q \in Cells \cup {NULL} : r = mem[Cli].next /\ q = mem[Cli].prev
        BY <4>1
      <4>3. mem' = [a \in Cells |-> [mem[a] EXCEPT !.next = IF a = q THEN r ELSE @,
                                                  !.prev = IF a = r THEN q ELSE @]]
        BY <1>4, <4>2 DEF RemoveCli, Unlinked
      <4>4. ASSUME NEW a \in Cells PROVE mem'[a] \in CellShape /\ mem'[a].pid = mem[a].pid
        BY <1>1, <4>2, <4>3 DEF CellShape
      <4> QED
        BY <4>3, <4>4
    <3> QED
      BY <1>4, <3>1, TopIsOK DEF RemoveCli, Gentle, ShapeOK, world
  <2> QED
    BY <1>1, <1>4, <2>1, <2>2, <2>3, DistinctAssumption
    DEF RemoveCli, Moves, At, FrameOK, FrameShape, Waiting, Parsing, Obeying,
        Creating, Reaping, Dropping
<1>5. CASE ReapUnlink
  <2>1. PICK f : f = [Top EXCEPT !.at = "unlinkNext"] /\ Becomes(f)
    BY <1>5 DEF ReapUnlink
  <2>2. f \in FrameShape
    BY <1>1, <1>5, <2>1
    DEF ReapUnlink, At, FrameShape, CellShape, Labels, Successors, Cells,
        Waiting, Parsing, Obeying, Creating, Reaping, Dropping
  <2>3. Gentle
    <3>1. mem' \in [Cells -> CellShape] /\ \A a \in Cells : mem'[a].pid = mem[a].pid
      <4>1. Top.wp \in Cells
        BY <1>1, <1>5 DEF ReapUnlink, At, FrameOK, Dropping, FrameShape, Successors, Cells
      <4>2. PICK r \in Successors : r = mem[Top.wp].next
        BY <1>1, <4>1 DEF CellShape
      <4>3. mem' = [mem EXCEPT ![mem[Top.wp].prev].next = r]
        BY <1>5, <4>2 DEF ReapUnlink
      <4> QED
        BY <1>1, <4>3 DEF CellShape
    <3> QED
      BY <1>5, <3>1, RelinkingIsGentle DEF ReapUnlink, world
  <2> QED
    BY <1>1, <1>5, <2>1, <2>2, <2>3, DistinctAssumption
    DEF ReapUnlink, Moves, At, FrameOK, FrameShape, Waiting, Parsing, Obeying,
        Creating, Reaping, Dropping
<1>6. CASE ReapUnlinkNext
  <2>1. PICK f : f = [Top EXCEPT !.at = "free"] /\ Becomes(f)
    BY <1>6 DEF ReapUnlinkNext
  <2>2. f \in FrameShape
    BY <1>1, <1>6, <2>1
    DEF ReapUnlinkNext, At, FrameShape, CellShape, Labels, Successors, Cells,
        Waiting, Parsing, Obeying, Creating, Reaping, Dropping
  <2>3. Gentle
    <3>1. mem' \in [Cells -> CellShape] /\ \A a \in Cells : mem'[a].pid = mem[a].pid
      BY <1>1, <1>6 DEF ReapUnlinkNext, At, FrameOK, Dropping, CellShape, FrameShape,
         Successors, Cells
    <3> QED
      BY <1>6, <3>1, RelinkingIsGentle DEF ReapUnlinkNext, world
  <2> QED
    BY <1>1, <1>6, <2>1, <2>2, <2>3, DistinctAssumption
    DEF ReapUnlinkNext, Moves, At, FrameOK, FrameShape, Waiting, Parsing, Obeying,
        Creating, Reaping, Dropping
<1>7. CASE ReapStart
  <2>1. PICK f : f = [Top EXCEPT !.wp = FirstChild, !.at = "reaping"] /\ Becomes(f)
    BY <1>7 DEF ReapStart
  <2>2. f \in FrameShape
    <3>1. mem[ListHead].next \in Cells
      BY <1>1, <1>7 DEF ReapStart, CellShape, Successors, Cells
    <3>2. FirstChild \in Successors
      BY <1>1, <3>1 DEF FirstChild, CellShape
    <3> QED
      BY <1>1, <2>1, <3>2 DEF FrameShape, Labels, Reaping
  <2>3. Gentle
    BY <1>7, AloneIsGentle DEF ReapStart, list, world
  <2> QED
    BY <1>1, <1>7, <2>1, <2>2, <2>3, DistinctAssumption
    DEF ReapStart, Moves, At, FrameOK, FrameShape, Waiting, Parsing, Obeying,
        Creating, Reaping, Dropping
<1>8. CASE ParseEnd /\ Top.kind = "main"
  <2>1. PICK f : f = [Top EXCEPT !.at = "suspend"] /\ Becomes(f)
    BY <1>8 DEF ParseEnd
  <2>2. f \in FrameShape
    BY <1>1, <1>8, <2>1
    DEF ParseEnd, At, FrameShape, CellShape, Labels, Successors, Cells,
        Waiting, Parsing, Obeying, Creating, Reaping, Dropping
  <2>3. Gentle
    BY <1>8, AloneIsGentle DEF ParseEnd, list, world
  <2> QED
    BY <1>1, <1>8, <2>1, <2>2, <2>3, DistinctAssumption
    DEF ParseEnd, Moves, At, FrameOK, FrameShape, Waiting, Parsing, Obeying,
        Creating, Reaping, Dropping
<1> QED
  BY <1>2, <1>3, <1>4, <1>5, <1>6, <1>7, <1>8

\* A step that only the world, or nobody, makes.
LEMMA OthersKeep ==
  ASSUME TickerInv, UNCHANGED <<stack, mask>>, Gentle
  PROVE  TickerInv'
<1>1. Top \in FrameShape /\ FrameOK(Top) /\ mask \in SUBSET Signals
  BY TopIsOK DEF ShapeOK
<1>2. PICK f : f = Top
  OBVIOUS
<1>3. Becomes(f)
  BY <1>2, TopOfStack, SMTT(30) DEF Becomes, TickerInv, ShapeOK
<1>4. FrameOK(f)'
  BY <1>1, <1>2 DEF FrameOK, Gentle
<1>5. Moves(f)
  BY <1>1, <1>2, <1>3, <1>4 DEF Moves
<1> QED
  BY <1>5, MoveKeeps

(***************************************************************************)
(* The steps that allocate, start and drop.                                *)
(***************************************************************************)

\* When the running frame keeps its kind, and children only go on, the handlers nest as
\* they did.
LEMMA SameHandlers ==
  ASSUME TickerInv, NEW f \in FrameShape, Becomes(f), FrameOK(f)',
         f.kind = Top.kind, f.saved = Top.saved, mask' = mask,
         \A c \in Children : child[c] # "unborn" => child'[c] # "unborn"
  PROVE  FramesOK' /\ HandlersNest'
<1> DEFINE n == Len(stack)
<1>1. /\ n \in Nat \ {0} /\ Top = stack[n] /\ Len(stack') = n
      /\ stack'[n] = f /\ \A i \in 1..n - 1 : stack'[i] = stack[i]
  BY TopOfStack, OnlyTopChanges DEF TickerInv
<1>2. /\ \A i \in 1..n : FrameOK(stack[i])
      /\ \A i \in 1..n : stack[i].kind = "main" <=> i = 1
      /\ \A i \in 1..n : stack[i].kind \in mask \cup {"main"}
      /\ \A i, j \in 1..n : i < j =>
           /\ stack[i].kind # stack[j].kind
           /\ stack[i].kind \in stack[j].saved \cup {"main"}
  BY DEF TickerInv, FramesOK, HandlersNest
<1> HIDE DEF n
<1>3. ASSUME NEW i \in 1..n PROVE FrameOK(stack[i])'
  <2>1. CASE i = n
    BY <1>1, <2>1 DEF FrameOK
  <2>2. CASE i # n
    <3>1. stack'[i] = stack[i] /\ FrameOK(stack[i])
      BY <1>1, <1>2, <2>2
    <3> QED
      BY <3>1 DEF FrameOK
  <2> QED
    BY <2>1, <2>2
<1>4. \A i \in 1..n : stack'[i].kind = stack[i].kind /\ stack'[i].saved = stack[i].saved
  BY <1>1
<1>5. HandlersNest'
  BY <1>1, <1>2, <1>4 DEF HandlersNest
<1> QED
  BY <1>1, <1>3, <1>5 DEF FramesOK

\* newWatcher() allocates a cell that no handler is about to drop.
LEMMA CreateKeeps ==
  ASSUME TickerInv, StartCreate
  PROVE  TickerInv'
<1> DEFINE n == Len(stack)
<1>1. /\ n \in Nat \ {0} /\ Top = stack[n] /\ Top \in FrameShape /\ FrameOK(Top) /\ ShapeOK
      /\ \A i \in 1..n : stack[i] \in FrameShape
  BY TopOfStack, TopIsOK DEF TickerInv
<1>0. PICK a \in Watchers \ live : \E f :
        /\ f = [Top EXCEPT !.at = "scan", !.new = a, !.prev = ListHead, !.wid = 0]
        /\ Becomes(f) /\ mem' = [mem EXCEPT ![a] = Blank] /\ live' = live \cup {a}
  BY DEF StartCreate
<1>2. PICK f :
        /\ f = [Top EXCEPT !.at = "scan", !.new = a, !.prev = ListHead, !.wid = 0]
        /\ Becomes(f) /\ mem' = [mem EXCEPT ![a] = Blank] /\ live' = live \cup {a}
  BY <1>0
<1>3. Top.at = "start" /\ UNCHANGED <<mask, child, stdin>>
  BY DEF StartCreate, At, world
<1>4. /\ f \in FrameShape /\ f.kind = Top.kind /\ f.saved = Top.saved
      /\ f.at = "scan" /\ f.new = a /\ FrameOK(f)'
  <2>1. a \in Watchers /\ ListHead \in Cells /\ Top.wp # NULL
    BY <1>1, <1>2, <1>3 DEF Cells, FrameOK, Obeying
  <2>2. f \in FrameShape
    BY <1>1, <1>2, <2>1, ZenonT(30) DEF FrameShape, Labels, Creating
  <2>3. /\ f.kind = Top.kind /\ f.saved = Top.saved /\ f.at = "scan" /\ f.new = a
        /\ f.wp = Top.wp /\ f.prev = ListHead
    BY <1>1, <1>2 DEF FrameShape
  <2> QED
    BY <2>1, <2>2, <2>3 DEF FrameOK, Waiting, Obeying, Creating, Reaping, Dropping
<1>5. /\ stack' \in Seq(FrameShape) /\ stack' # <<>> /\ Len(stack') = n
      /\ stack'[n] = f /\ \A i \in 1..n - 1 : stack'[i] = stack[i]
  BY <1>1, <1>2, <1>4, OnlyTopChanges
<1>6. FramesOK' /\ HandlersNest'
  BY <1>2, <1>3, <1>4, SameHandlers
<1>7. /\ \A b \in Cells \ {a} : mem'[b] = mem[b]
      /\ mem'[a].pid = Unset /\ a \in Cells /\ mem' \in [Cells -> CellShape]
  BY <1>1, <1>2 DEF ShapeOK, Blank, Cell, CellShape, Successors, Cells
<1>8. ShapeOK'
  BY <1>1, <1>2, <1>3, <1>5, <1>7 DEF ShapeOK
<1> HIDE DEF n
<1>9. PidsAreOfChildren'
  BY <1>3, <1>7, DistinctAssumption DEF TickerInv, PidsAreOfChildren
<1>10. HalfMadeHaveMakers'
  <2> SUFFICES ASSUME NEW w \in live' \cap Watchers, mem'[w].pid = Unset
               PROVE  \E i \in 1..n : stack'[i].at \in Creating /\ stack'[i].new = w
    BY <1>5 DEF HalfMadeHaveMakers
  <2>1. CASE w = a
    BY <1>1, <1>4, <1>5, <2>1 DEF Creating
  <2>2. CASE w # a
    <3>1. PICK i \in 1..n : stack[i].at \in Creating /\ stack[i].new = w
      BY <1>2, <1>7, <2>2 DEF TickerInv, HalfMadeHaveMakers, n, Cells
    <3>2. i # n
      BY <1>1, <1>3, <3>1 DEF Creating
    <3> QED
      BY <1>1, <1>5, <3>1, <3>2
  <2> QED
    BY <2>1, <2>2
<1>11. DroppedAreDead'
  <2> SUFFICES ASSUME NEW i \in 1..n, stack'[i].at \in Dropping, stack'[i].wp # Cli
               PROVE  /\ stack'[i].wp \in live' /\ Dead(i)'
                      /\ \A j \in 1..n : i < j => stack'[j].new # stack'[i].wp
    BY <1>5 DEF DroppedAreDead
  <2>1. i # n /\ stack'[i] = stack[i]
    BY <1>1, <1>4, <1>5 DEF Dropping
  <2>2. /\ stack[i].wp \in live /\ Dead(i)
        /\ \A j \in 1..n : i < j => stack[j].new # stack[i].wp
    BY <2>1 DEF TickerInv, DroppedAreDead, n
  <2>3. stack[i].wp \in Cells \ {a}
    BY <1>1, <1>2, <2>2 DEF ShapeOK
  <2>4. Dead(i)'
    BY <1>1, <1>3, <1>5, <1>7, <2>1, <2>2, <2>3 DEF Dead, n
  <2>5. ASSUME NEW j \in 1..n, i < j PROVE stack'[j].new # stack'[i].wp
    <3>1. CASE j = n
      BY <1>4, <1>5, <2>1, <2>3, <3>1
    <3>2. CASE j # n
      BY <1>1, <1>5, <2>1, <2>2, <2>5, <3>2
    <3> QED
      BY <3>1, <3>2
  <2> QED
    BY <1>2, <2>1, <2>2, <2>4, <2>5
<1> QED
  BY <1>6, <1>8, <1>9, <1>10, <1>11 DEF TickerInv

\* fork() returned in newWatcher()'s caller, and the pid is put on the books.
LEMMA SetPidKeeps ==
  ASSUME TickerInv, StartSetPid
  PROVE  TickerInv'
<1> DEFINE n == Len(stack)
<1>1. /\ n \in Nat \ {0} /\ Top = stack[n] /\ Top \in FrameShape /\ FrameOK(Top) /\ ShapeOK
      /\ \A i \in 1..n : stack[i] \in FrameShape
  BY TopOfStack, TopIsOK DEF TickerInv
<1>2. PICK f : /\ f = [Top EXCEPT !.at = "subscribe"] /\ Becomes(f)
               /\ mem' = [mem EXCEPT ![Top.new].pid = Top.pid]
  BY DEF StartSetPid
<1>3. Top.at = "setpid" /\ UNCHANGED <<mask, child, stdin, live>>
  BY DEF StartSetPid, At, world
<1>4. /\ f \in FrameShape /\ f.kind = Top.kind /\ f.saved = Top.saved
      /\ f.at = "subscribe" /\ f.new = Top.new /\ FrameOK(f)'
  <2>1. f \in FrameShape
    BY <1>1, <1>2 DEF FrameShape, Labels, Obeying
  <2>2. /\ f.kind = Top.kind /\ f.saved = Top.saved /\ f.at = "subscribe"
        /\ f.new = Top.new /\ f.wp = Top.wp /\ f.pid = Top.pid
    BY <1>1, <1>2 DEF FrameShape
  <2> QED
    BY <1>1, <1>3, <2>1, <2>2 DEF FrameOK, Waiting, Obeying, Creating, Reaping, Dropping
<1>5. /\ stack' \in Seq(FrameShape) /\ stack' # <<>> /\ Len(stack') = n
      /\ stack'[n] = f /\ \A i \in 1..n - 1 : stack'[i] = stack[i]
  BY <1>1, <1>2, <1>4, OnlyTopChanges
<1>6. FramesOK' /\ HandlersNest'
  BY <1>2, <1>3, <1>4, SameHandlers
<1>7. /\ Top.new \in Cells /\ Top.pid \in Children /\ child[Top.pid] # "unborn"
      /\ mem' \in [Cells -> CellShape] /\ mem'[Top.new].pid = Top.pid
      /\ \A b \in Cells \ {Top.new} : mem'[b] = mem[b]
  <2>1. Top.new \in Cells /\ Top.pid \in Children /\ child[Top.pid] # "unborn"
    BY <1>1, <1>3 DEF FrameOK, Creating, Cells
  <2> QED
    BY <1>1, <1>2, <2>1, ZenonT(30) DEF ShapeOK, CellShape
<1>8. ShapeOK'
  BY <1>1, <1>3, <1>5, <1>7 DEF ShapeOK
<1> HIDE DEF n
<1>9. PidsAreOfChildren'
  BY <1>3, <1>7 DEF TickerInv, PidsAreOfChildren
<1>10. HalfMadeHaveMakers'
  <2> SUFFICES ASSUME NEW w \in live' \cap Watchers, mem'[w].pid = Unset
               PROVE  \E i \in 1..n : stack'[i].at \in Creating /\ stack'[i].new = w
    BY <1>5 DEF HalfMadeHaveMakers
  <2>1. w # Top.new /\ mem[w].pid = Unset
    BY <1>7, DistinctAssumption DEF Cells
  <2>2. PICK i \in 1..n : stack[i].at \in Creating /\ stack[i].new = w
    BY <1>3, <2>1 DEF TickerInv, HalfMadeHaveMakers, n
  <2> QED
    BY <1>1, <1>5, <2>1, <2>2
<1>11. DroppedAreDead'
  <2> SUFFICES ASSUME NEW i \in 1..n, stack'[i].at \in Dropping, stack'[i].wp # Cli
               PROVE  /\ stack'[i].wp \in live' /\ Dead(i)'
                      /\ \A j \in 1..n : i < j => stack'[j].new # stack'[i].wp
    BY <1>5 DEF DroppedAreDead
  <2>1. i # n /\ stack'[i] = stack[i]
    BY <1>1, <1>4, <1>5 DEF Dropping
  <2>2. /\ stack[i].wp \in live /\ Dead(i)
        /\ \A j \in 1..n : i < j => stack[j].new # stack[i].wp
    BY <2>1 DEF TickerInv, DroppedAreDead, n
  <2>3. \A j \in 1..n : stack'[j].new = stack[j].new
    BY <1>1, <1>4, <1>5
  <2>4. stack[i].wp \in Cells \ {Top.new}
    BY <1>1, <2>1, <2>2 DEF ShapeOK
  <2>5. Dead(i)'
    BY <1>3, <1>5, <1>7, <2>1, <2>2, <2>3, <2>4 DEF Dead, n
  <2> QED
    BY <1>3, <2>1, <2>2, <2>3, <2>5
<1> QED
  BY <1>6, <1>8, <1>9, <1>10, <1>11 DEF TickerInv

\* waitpid() says that there is no child to wait for, or that one has ended: what the
\* handler then drops is dead.
LEMMA ReapKeeps ==
  ASSUME TickerInv, ReapOne
  PROVE  TickerInv'
<1> DEFINE n == Len(stack)
<1>1. /\ n \in Nat \ {0} /\ Top = stack[n] /\ Top \in FrameShape /\ FrameOK(Top) /\ ShapeOK
      /\ \A i \in 1..n : stack[i] \in FrameShape
  BY TopOfStack, TopIsOK DEF TickerInv
<1>2. PICK f : f = [Top EXCEPT !.at = "unlink"] /\ Becomes(f)
  BY DEF ReapOne
<1>3. /\ Top.at = "reaping" /\ Top.wp # NULL /\ Top.wp \in live
      /\ UNCHANGED <<mask, mem, stdin, live>>
  BY <1>1, ReapsTheLiving DEF ReapOne, At, list
<1>4. /\ f \in FrameShape /\ f.kind = Top.kind /\ f.saved = Top.saved
      /\ f.at = "unlink" /\ f.new = Top.new /\ f.wp = Top.wp /\ FrameOK(f)'
  <2>1. f \in FrameShape
    BY <1>1, <1>2 DEF FrameShape, Labels, Reaping, Dropping
  <2>2. /\ f.kind = Top.kind /\ f.saved = Top.saved /\ f.at = "unlink"
        /\ f.new = Top.new /\ f.wp = Top.wp
    BY <1>1, <1>2 DEF FrameShape
  <2> QED
    BY <1>1, <1>3, <2>1, <2>2 DEF FrameOK, Waiting, Obeying, Creating, Reaping, Dropping
<1>5. /\ stack' \in Seq(FrameShape) /\ stack' # <<>> /\ Len(stack') = n
      /\ stack'[n] = f /\ \A i \in 1..n - 1 : stack'[i] = stack[i]
  BY <1>1, <1>2, <1>4, OnlyTopChanges
<1>7. /\ child' \in [Children -> {"unborn", "running", "zombie", "reaped"}]
      /\ \A c \in Children : /\ child[c] # "unborn" => child'[c] # "unborn"
                             /\ child[c] = "reaped" => child'[c] = "reaped"
      /\ mem[Top.wp].pid \in Children => child'[mem[Top.wp].pid] = "reaped"
  <2>1. mem[Top.wp].pid \in Children \cup {Unset}
    BY <1>1, <1>3 DEF ShapeOK, CellShape
  <2>2. CASE \E c \in Waited(mem[Top.wp].pid) : child' = [child EXCEPT ![c] = "reaped"]
    <3>1. PICK c \in Children : /\ c \in Waited(mem[Top.wp].pid)
                               /\ child' = [child EXCEPT ![c] = "reaped"]
      BY <2>2 DEF Waited, Zombies
    <3>2. child[c] = "zombie" /\ (mem[Top.wp].pid \in Children => c = mem[Top.wp].pid)
      BY <3>1, DistinctAssumption DEF Waited, Zombies
    <3> QED
      BY <1>1, <3>1, <3>2 DEF ShapeOK
  <2>3. CASE /\ Waited(mem[Top.wp].pid) = {} /\ ~StillRuns(mem[Top.wp].pid)
             /\ UNCHANGED child
    <3>1. ASSUME mem[Top.wp].pid \in Children PROVE child[mem[Top.wp].pid] = "reaped"
      <4>1. PICK c \in Children : c = mem[Top.wp].pid
        BY <3>1
      <4>2. child[c] # "unborn"
        BY <1>1, <1>3, <4>1 DEF TickerInv, PidsAreOfChildren, ShapeOK
      <4>3. child[c] # "zombie" /\ child[c] # "running"
        BY <2>3, <4>1, DistinctAssumption DEF Waited, Zombies, StillRuns
      <4> QED
        BY <1>1, <4>1, <4>2, <4>3 DEF ShapeOK
    <3> QED
      BY <1>1, <2>3, <3>1 DEF ShapeOK
  <2> QED
    BY <2>2, <2>3 DEF ReapOne
<1>6. FramesOK' /\ HandlersNest'
  BY <1>2, <1>3, <1>4, <1>7, SameHandlers
<1>8. ShapeOK'
  BY <1>1, <1>3, <1>5, <1>7 DEF ShapeOK
<1> HIDE DEF n
<1>9. PidsAreOfChildren'
  BY <1>3, <1>7 DEF TickerInv, PidsAreOfChildren
<1>10. \A w \in live \cap Watchers : mem[w].pid = Unset =>
         \E i \in 1..n - 1 : /\ stack[i].at \in Creating /\ stack[i].new = w
                           /\ stack'[i] = stack[i]
  <2> SUFFICES ASSUME NEW w \in live \cap Watchers, mem[w].pid = Unset
               PROVE  \E i \in 1..n - 1 : /\ stack[i].at \in Creating /\ stack[i].new = w
                                        /\ stack'[i] = stack[i]
    OBVIOUS
  <2>1. PICK i \in 1..n : stack[i].at \in Creating /\ stack[i].new = w
    BY DEF TickerInv, HalfMadeHaveMakers, n
  <2>2. i # n
    BY <1>1, <1>3, <2>1 DEF Creating
  <2> QED
    BY <1>1, <1>5, <2>1, <2>2
<1>11. HalfMadeHaveMakers'
  BY <1>1, <1>3, <1>5, <1>10 DEF HalfMadeHaveMakers
<1>12. DroppedAreDead'
  <2> SUFFICES ASSUME NEW i \in 1..n, stack'[i].at \in Dropping, stack'[i].wp # Cli
               PROVE  /\ stack'[i].wp \in live' /\ Dead(i)'
                      /\ \A j \in 1..n : i < j => stack'[j].new # stack'[i].wp
    BY <1>5 DEF DroppedAreDead
  <2>1. CASE i # n
    <3>1. stack'[i] = stack[i]
      BY <1>1, <1>5, <2>1
    <3>2. stack[i].kind = "CHLD" /\ stack[n].kind = "CHLD"
      BY <1>1, <1>3, <3>1 DEF TickerInv, FramesOK, FrameOK, Reaping, n
    <3> QED
      BY <1>1, <2>1, <3>2 DEF TickerInv, HandlersNest, n
  <2>2. CASE i = n
    <3>1. stack'[i].wp = Top.wp /\ Top.wp \in Watchers
      BY <1>1, <1>3, <1>4, <1>5, <2>2 DEF FrameShape, Successors
    <3>2. Dead(i)'
      <4>1. CASE mem[Top.wp].pid \in Children
        BY <1>3, <1>7, <3>1, <4>1 DEF Dead
      <4>2. CASE mem[Top.wp].pid = Unset
        <5>1. PICK j \in 1..n - 1 : stack'[j].new = Top.wp
          BY <1>3, <1>10, <3>1, <4>2
        <5> QED
          BY <1>1, <1>5, <2>2, <3>1, <5>1 DEF Dead
      <4> QED
        BY <1>1, <1>3, <4>1, <4>2 DEF ShapeOK, CellShape
    <3> QED
      BY <1>1, <1>3, <2>2, <3>1, <3>2
  <2> QED
    BY <2>1, <2>2
<1> QED
  BY <1>6, <1>8, <1>9, <1>11, <1>12 DEF TickerInv

\* cleanWatcher() frees the WATCHER, or the handler goes on from what it held.
LEMMA FreeKeeps ==
  ASSUME TickerInv, ReapFree \/ ReapNext
  PROVE  TickerInv'
<1> DEFINE n == Len(stack)
<1>1. /\ n \in Nat \ {0} /\ Top = stack[n] /\ Top \in FrameShape /\ FrameOK(Top) /\ ShapeOK
      /\ \A i \in 1..n : stack[i] \in FrameShape
  BY TopOfStack, TopIsOK DEF TickerInv
<1>2. PICK f : /\ \/ f = [Top EXCEPT !.at = "freed"]
                  \/ f = [Top EXCEPT !.wp = AfterReaping, !.at = "reaping"]
               /\ Becomes(f)
  BY DEF ReapFree, ReapNext
<1>3. /\ Top.at \in Reaping \ {"reap", "reaping"} /\ Top.kind = "CHLD" /\ Top.wp \in Cells
      /\ UNCHANGED <<mask, stdin, child>>
  BY <1>1, DistinctAssumption
  DEF ReapFree, ReapNext, At, world, FrameOK, Reaping, Dropping, FrameShape, Successors, Cells
<1>4. /\ f \in FrameShape /\ f.kind = Top.kind /\ f.saved = Top.saved
      /\ f.at \in {"freed", "reaping"} /\ f.new = Top.new /\ FrameOK(f)'
  <2>1. AfterReaping \in Successors
    BY <1>1, <1>3 DEF AfterReaping, ShapeOK, CellShape
  <2>2. f \in FrameShape
    BY <1>1, <1>2, <2>1, ZenonT(30) DEF FrameShape, Labels, Reaping
  <2>3. /\ f.kind = Top.kind /\ f.saved = Top.saved /\ f.new = Top.new
        /\ (f.at = "freed" /\ f.wp = Top.wp) \/ f.at = "reaping"
    BY <1>1, <1>2 DEF FrameShape
  <2>4. Top.wp # NULL
    BY <1>3, DistinctAssumption DEF Cells
  <2> QED
    BY <1>3, <2>2, <2>3, <2>4 DEF FrameOK, Waiting, Obeying, Creating, Reaping, Dropping
<1>5. /\ stack' \in Seq(FrameShape) /\ stack' # <<>> /\ Len(stack') = n
      /\ stack'[n] = f /\ \A i \in 1..n - 1 : stack'[i] = stack[i]
  BY <1>1, <1>2, <1>4, OnlyTopChanges
<1>6. FramesOK' /\ HandlersNest'
  BY <1>2, <1>3, <1>4, SameHandlers
<1>7. /\ mem' \in [Cells -> CellShape] /\ live' \subseteq live
      /\ \A a \in Cells : mem'[a].pid = mem[a].pid \/ (mem'[a].pid = Unset /\ a \notin live)
  <2>1. Blank \in CellShape /\ Blank.pid = Unset
    BY DEF Blank, Cell, CellShape, Successors
  <2>2. CASE mem' = mem /\ live' \subseteq live
    BY <1>1, <2>2 DEF ShapeOK
  <2>3. CASE mem' = [mem EXCEPT ![Top.wp] = Blank] /\ Top.wp \notin live /\ live' = live
    BY <1>1, <1>3, <2>1, <2>3 DEF ShapeOK
  <2> QED
    BY <2>2, <2>3 DEF ReapFree, ReapNext
<1>8. ShapeOK'
  BY <1>1, <1>3, <1>5, <1>7 DEF ShapeOK
<1> HIDE DEF n
<1>9. PidsAreOfChildren'
  BY <1>3, <1>7, DistinctAssumption DEF TickerInv, PidsAreOfChildren
<1>10. HalfMadeHaveMakers'
  <2> SUFFICES ASSUME NEW w \in live' \cap Watchers, mem'[w].pid = Unset
               PROVE  \E i \in 1..n : stack'[i].at \in Creating /\ stack'[i].new = w
    BY <1>5 DEF HalfMadeHaveMakers
  <2>1. w \in live /\ mem[w].pid = Unset
    BY <1>7 DEF Cells
  <2>2. PICK i \in 1..n : stack[i].at \in Creating /\ stack[i].new = w
    BY <2>1 DEF TickerInv, HalfMadeHaveMakers, n
  <2>3. i # n
    BY <1>1, <1>3, <2>2 DEF Creating, Reaping, Dropping
  <2> QED
    BY <1>1, <1>5, <2>2, <2>3
<1>11. DroppedAreDead'
  <2>1. ASSUME NEW i \in 1..n, stack'[i].at \in Dropping PROVE FALSE
    <3>1. i # n /\ stack'[i] = stack[i]
      BY <1>1, <1>4, <1>5, <2>1 DEF Dropping
    <3>2. stack[i].kind = "CHLD" /\ stack[n].kind = "CHLD"
      BY <1>1, <1>3, <2>1, <3>1 DEF TickerInv, FramesOK, FrameOK, Reaping, n
    <3> QED
      BY <1>1, <3>1, <3>2 DEF TickerInv, HandlersNest, n
  <2> QED
    BY <1>5, <2>1 DEF DroppedAreDead
<1> QED
  BY <1>6, <1>8, <1>9, <1>10, <1>11 DEF TickerInv

(***************************************************************************)
(* Handlers come and go.                                                   *)
(***************************************************************************)

\* A handler that returns gives back the mask of what it interrupted.
LEMMA ReturnKeeps ==
  ASSUME TickerInv, \/ ParseEnd /\ Top.kind # "main"
                    \/ ReapEnd
  PROVE  TickerInv'
<1> DEFINE n == Len(stack)
<1>1. /\ n \in Nat \ {0} /\ Top = stack[n] /\ Top \in FrameShape /\ FrameOK(Top) /\ ShapeOK
      /\ \A i \in 1..n : stack[i] \in FrameShape
  BY TopOfStack, TopIsOK DEF TickerInv
<1>2. Return /\ UNCHANGED <<mem, live, stdin, child>>
  BY DEF ParseEnd, ReapEnd, list, world
<1>3. Top.at \in {"read", "reaping"} /\ Top.kind # "main" /\ n > 1
  <2>1. Top.at \in {"read", "reaping"} /\ Top.kind # "main"
    BY <1>1 DEF ParseEnd, ReapEnd, At, FrameOK, Reaping
  <2>2. Len(stack) # 1
    BY <2>1, TopIsOK
  <2>3. n \in Nat /\ n # 0 /\ n # 1
    BY <1>1, <2>2
  <2>4. n > 1
    <3> HIDE DEF n
    <3> QED
      BY <2>3
  <2> QED
    BY <2>1, <2>4
<1>4. CASE stack' = Below /\ mask' = Top.saved
  <2>1. /\ stack' \in Seq(FrameShape) /\ stack' # <<>> /\ Len(stack') = n - 1
        /\ \A i \in 1..n - 1 : stack'[i] = stack[i]
    BY <1>1, <1>3, <1>4, TopOfStack
  <2>2. ShapeOK'
    BY <1>1, <1>2, <1>4, <2>1 DEF ShapeOK, FrameShape
  <2> HIDE DEF n
  <2>3. FramesOK'
    <3> SUFFICES ASSUME NEW i \in 1..n - 1 PROVE FrameOK(stack[i])'
      BY <2>1 DEF FramesOK
    <3>1. FrameOK(stack[i]) /\ stack'[i] = stack[i]
      BY <1>1, <2>1 DEF TickerInv, FramesOK, n
    <3> QED
      BY <1>2, <3>1 DEF FrameOK
  <2>4. HandlersNest'
    <3>1. /\ \A i \in 1..n : stack[i].kind = "main" <=> i = 1
          /\ \A i, j \in 1..n : i < j =>
               /\ stack[i].kind # stack[j].kind
               /\ stack[i].kind \in stack[j].saved \cup {"main"}
      BY DEF TickerInv, HandlersNest, n
    <3>2. \A i \in 1..n - 1 : stack[i].kind \in mask' \cup {"main"}
      BY <1>1, <1>4, <3>1
    <3> QED
      BY <1>1, <2>1, <3>1, <3>2 DEF HandlersNest
  <2>5. PidsAreOfChildren'
    BY <1>2 DEF TickerInv, PidsAreOfChildren
  <2>6. HalfMadeHaveMakers'
    <3> SUFFICES ASSUME NEW w \in live \cap Watchers, mem[w].pid = Unset
                 PROVE  \E i \in 1..n - 1 : stack'[i].at \in Creating /\ stack'[i].new = w
      BY <1>2, <2>1 DEF HalfMadeHaveMakers
    <3>1. PICK i \in 1..n : stack[i].at \in Creating /\ stack[i].new = w
      BY DEF TickerInv, HalfMadeHaveMakers, n
    <3>2. i # n
      BY <1>1, <1>3, <3>1 DEF Creating
    <3> QED
      BY <1>1, <2>1, <3>1, <3>2
  <2>7. DroppedAreDead'
    <3> SUFFICES ASSUME NEW i \in 1..n - 1, stack[i].at \in Dropping, stack[i].wp # Cli
                 PROVE  /\ stack[i].wp \in live /\ Dead(i)'
                        /\ \A j \in 1..n - 1 : i < j => stack'[j].new # stack[i].wp
      BY <1>2, <2>1 DEF DroppedAreDead
    <3>1. /\ stack[i].wp \in live /\ Dead(i)
          /\ \A j \in 1..n : i < j => stack[j].new # stack[i].wp
      BY <1>1 DEF TickerInv, DroppedAreDead, n
    <3>2. Dead(i)'
      BY <1>1, <1>2, <2>1, <3>1, SMTT(30) DEF Dead, n
    <3> QED
      BY <1>1, <2>1, <3>1, <3>2
  <2> QED
    BY <2>2, <2>3, <2>4, <2>5, <2>6, <2>7 DEF TickerInv
<1>5. CASE /\ stack[1].at = "sleeping" /\ n = 2 /\ mask' = stack[1].saved
           /\ stack' = <<[stack[1] EXCEPT !.at = "prompt"]>>
  <2>1. stack[1] \in FrameShape /\ stack[1].kind = "main"
    BY <1>1, <1>5 DEF TickerInv, HandlersNest
  <2>2. PICK f : f = [stack[1] EXCEPT !.at = "prompt"]
    OBVIOUS
  <2>3. f \in FrameShape /\ f.at = "prompt" /\ f.kind = "main"
    BY <2>1, <2>2 DEF FrameShape, Labels, Waiting
  <2>4. /\ stack' \in Seq(FrameShape) /\ stack' # <<>> /\ Len(stack') = 1
        /\ stack'[1] = f /\ mask' \in SUBSET Signals /\ 1..Len(stack') = {1}
    BY <1>5, <2>1, <2>2, <2>3 DEF FrameShape
  <2>5. ShapeOK'
    BY <1>1, <1>2, <2>4 DEF ShapeOK
  <2>6. FrameOK(f)'
    BY <2>3 DEF FrameOK, Waiting, Obeying, Creating, Reaping, Dropping
  <2>7. FramesOK'
    <3>1. FrameOK(stack[1])'
      BY <2>4, <2>6 DEF FrameOK
    <3> QED
      BY <2>4, <3>1 DEF FramesOK
  <2>8. HandlersNest'
    BY <2>3, <2>4 DEF HandlersNest
  <2>9. PidsAreOfChildren'
    BY <1>2 DEF TickerInv, PidsAreOfChildren
  <2>10. HalfMadeHaveMakers'
    <3>1. \A i \in 1..n : stack[i].at \notin Creating
      BY <1>1, <1>3, <1>5 DEF Creating
    <3> QED
      BY <1>2, <3>1 DEF TickerInv, HalfMadeHaveMakers
  <2>11. DroppedAreDead'
    BY <2>3, <2>4 DEF DroppedAreDead, Dropping
  <2> QED
    BY <2>5, <2>7, <2>8, <2>9, <2>10, <2>11 DEF TickerInv
<1> QED
  BY <1>1, <1>2, <1>3, <1>4, <1>5, ReturnUncovers

\* A signal puts its handler on top, if that is not there already: it would be blocked.
LEMMA DeliverKeeps ==
  ASSUME TickerInv, NEW sig \in Signals, Deliver(sig)
  PROVE  TickerInv'
<1> DEFINE n == Len(stack)
<1>1. /\ n \in Nat \ {0} /\ ShapeOK /\ \A i \in 1..n : stack[i] \in FrameShape
  BY TopOfStack DEF TickerInv
<1>2. PICK f : f = Frame(sig, Handler[sig], mask)
  OBVIOUS
<1>3. /\ sig \notin mask /\ mask' = mask \cup {sig} /\ stack' = Append(stack, f)
      /\ UNCHANGED <<mem, live, stdin, child>>
  BY <1>2 DEF Deliver, list, world
<1>4. /\ f.kind = sig /\ f.saved = mask /\ f.new = NULL /\ f.at = Handler[sig]
      /\ Handler[sig] \in {"parse", "reap", "interrupt"}
      /\ Handler[sig] = "reap" => sig = "CHLD"
  BY <1>2 DEF Frame, Handler, Signals
<1>5. f \in FrameShape
  <2>1. Handler[sig] \in Labels
    BY <1>4 DEF Labels, Parsing, Reaping
  <2> QED
    BY <1>1, <1>2, <2>1 DEF Frame, FrameShape, ShapeOK, Successors, Ops
<1>6. FrameOK(f)'
  BY <1>4 DEF FrameOK, Waiting, Obeying, Creating, Reaping, Dropping
<1>7. /\ stack' \in Seq(FrameShape) /\ stack' # <<>> /\ Len(stack') = n + 1
      /\ stack'[n + 1] = f /\ \A i \in 1..n : stack'[i] = stack[i]
  BY <1>1, <1>3, <1>5 DEF ShapeOK
<1>8. ShapeOK'
  BY <1>1, <1>3, <1>7 DEF ShapeOK
<1> HIDE DEF n
<1>9. FramesOK'
  <2>1. ASSUME NEW i \in 1..n PROVE FrameOK(stack[i])'
    <3>1. FrameOK(stack[i]) /\ stack'[i] = stack[i]
      BY <1>7 DEF TickerInv, FramesOK, n
    <3> QED
      BY <1>3, <3>1 DEF FrameOK
  <2> SUFFICES ASSUME NEW i \in 1..n + 1 PROVE FrameOK(stack[i])'
    BY <1>7 DEF FramesOK
  <2>2. CASE i = n + 1
    BY <1>6, <1>7, <2>2 DEF FrameOK
  <2> QED
    BY <1>1, <2>1, <2>2
<1>10. HandlersNest'
  <2>1. /\ \A i \in 1..n : stack[i].kind = "main" <=> i = 1
        /\ \A i \in 1..n : stack[i].kind \in mask \cup {"main"}
        /\ \A i, j \in 1..n : i < j =>
             /\ stack[i].kind # stack[j].kind
             /\ stack[i].kind \in stack[j].saved \cup {"main"}
    BY DEF TickerInv, HandlersNest, n
  <2>2. f.kind # "main" /\ \A i \in 1..n : stack[i].kind # f.kind
    BY <1>3, <1>4, <2>1 DEF Signals
  <2>3. ASSUME NEW i \in 1..n + 1
        PROVE  /\ stack'[i].kind = "main" <=> i = 1
               /\ stack'[i].kind \in mask' \cup {"main"}
    BY <1>1, <1>3, <1>4, <1>7, <2>1, <2>2
  <2>4. ASSUME NEW i \in 1..n + 1, NEW j \in 1..n + 1, i < j
        PROVE  /\ stack'[i].kind # stack'[j].kind
               /\ stack'[i].kind \in stack'[j].saved \cup {"main"}
    <3>1. i \in 1..n
      BY <1>1, <2>4
    <3>2. CASE j = n + 1
      BY <1>4, <1>7, <2>1, <2>2, <3>1, <3>2
    <3>3. CASE j # n + 1
      BY <1>1, <1>7, <2>1, <2>4, <3>1, <3>3
    <3> QED
      BY <3>2, <3>3
  <2> QED
    BY <1>7, <2>3, <2>4 DEF HandlersNest
<1>11. PidsAreOfChildren'
  BY <1>3 DEF TickerInv, PidsAreOfChildren
<1>12. HalfMadeHaveMakers'
  <2> SUFFICES ASSUME NEW w \in live \cap Watchers, mem[w].pid = Unset
               PROVE  \E i \in 1..n + 1 : stack'[i].at \in Creating /\ stack'[i].new = w
    BY <1>3, <1>7 DEF HalfMadeHaveMakers
  <2>1. PICK i \in 1..n : stack[i].at \in Creating /\ stack[i].new = w
    BY DEF TickerInv, HalfMadeHaveMakers, n
  <2>2. i \in 1..n + 1
    BY <1>1
  <2> QED
    BY <1>7, <2>1, <2>2
<1>13. DroppedAreDead'
  <2> SUFFICES ASSUME NEW i \in 1..n + 1, stack'[i].at \in Dropping, stack'[i].wp # Cli
               PROVE  /\ stack'[i].wp \in live /\ Dead(i)'
                      /\ \A j \in 1..n + 1 : i < j => stack'[j].new # stack'[i].wp
    BY <1>3, <1>7 DEF DroppedAreDead
  <2>1. i \in 1..n /\ stack'[i] = stack[i]
    BY <1>1, <1>4, <1>7 DEF Dropping
  <2>2. /\ stack[i].wp \in live /\ Dead(i)
        /\ \A j \in 1..n : i < j => stack[j].new # stack[i].wp
    BY <2>1 DEF TickerInv, DroppedAreDead, n
  <2>3. stack[i].wp # NULL
    BY <1>1, <2>2, DistinctAssumption DEF ShapeOK, Cells
  <2>4. Dead(i)'
    BY <1>1, <1>3, <1>7, <2>1, <2>2 DEF Dead, n
  <2>5. ASSUME NEW j \in 1..n + 1, i < j PROVE stack'[j].new # stack'[i].wp
    <3>1. CASE j = n + 1
      BY <1>4, <1>7, <2>1, <2>3, <3>1
    <3>2. CASE j # n + 1
      BY <1>1, <1>7, <2>1, <2>2, <2>5, <3>2
    <3> QED
      BY <3>1, <3>2
  <2> QED
    BY <2>1, <2>2, <2>4, <2>5
<1> QED
  BY <1>8, <1>9, <1>10, <1>11, <1>12, <1>13 DEF TickerInv

\* The user and the children only ask to be heard.
LEMMA EnvironmentKeeps ==
  ASSUME TickerInv, Environment
  PROVE  TickerInv'
<1>1. UNCHANGED <<stack, mask, mem, live>> /\ ShapeOK
  BY DEF Environment, Type, ChildWrites, ChildEnds, Interrupt, list, world, TickerInv
<1>2. /\ stdin' \in Seq(Commands)
      /\ child' \in [Children -> {"unborn", "running", "zombie", "reaped"}]
      /\ \A c \in Children : /\ child[c] # "unborn" => child'[c] # "unborn"
                             /\ child[c] = "reaped" => child'[c] = "reaped"
  <2>1. CASE \E cmd \in Commands : Type(cmd)
    BY <1>1, <2>1 DEF Type, ShapeOK
  <2>2. CASE \E c \in Children : ChildWrites(c) \/ ChildEnds(c)
    BY <1>1, <2>2 DEF ChildWrites, ChildEnds, ShapeOK
  <2>3. CASE Interrupt
    BY <1>1, <2>3 DEF Interrupt, world, ShapeOK
  <2> QED
    BY <2>1, <2>2, <2>3 DEF Environment
<1>3. Gentle
  BY <1>1, <1>2 DEF Gentle, ShapeOK
<1> QED
  BY <1>1, <1>3, OthersKeep

\* The steps that end the process leave its frames as they are.
LEMMA EndsKeep ==
  ASSUME TickerInv, \/ Faults \/ RemoveEnd \/ UNCHANGED vars
                    \/ StartSubscribe /\ UNCHANGED stack
  PROVE  TickerInv'
<1>1. UNCHANGED <<stack, mask, mem, live, stdin, child>>
  BY DEF Faults, RemoveEnd, StartSubscribe, vars, list, world
<1>2. Gentle
  BY <1>1, AloneIsGentle
<1> QED
  BY <1>1, <1>2, OthersKeep

(***************************************************************************)
(* The invariant holds of every behaviour.                                 *)
(***************************************************************************)

\* initTicker() leaves the CLI WATCHER in the list, and only the loop on the stack.
LEMMA TickerInit == Init => TickerInv
<1> SUFFICES ASSUME Init PROVE TickerInv
  OBVIOUS
<1>1. PICK f : f = Frame("main", "prompt", {})
  OBVIOUS
<1>2. /\ f \in FrameShape /\ f.kind = "main" /\ f.at = "prompt"
      /\ f.new = NULL
  BY <1>1 DEF Frame, FrameShape, Labels, Waiting, Successors, Ops
<1>3. stack = <<f>> /\ Len(stack) = 1 /\ stack[1] = f /\ 1..Len(stack) = {1}
  BY <1>1 DEF Init
<1>4. /\ mem \in [Cells -> CellShape] /\ \A a \in Cells : mem[a].pid = Unset
      /\ live \subseteq Cells /\ live \cap Watchers = {}
  BY DistinctAssumption DEF Init, Cell, CellShape, Successors, Cells
<1>5. ShapeOK
  BY <1>2, <1>3, <1>4 DEF Init, ShapeOK
<1>6. FramesOK
  BY <1>2, <1>3 DEF FramesOK, FrameOK, Waiting, Obeying, Creating, Reaping, Dropping
<1>7. HandlersNest
  BY <1>2, <1>3 DEF HandlersNest
<1>8. PidsAreOfChildren /\ HalfMadeHaveMakers
  BY <1>4, DistinctAssumption DEF PidsAreOfChildren, HalfMadeHaveMakers
<1>9. DroppedAreDead
  BY <1>2, <1>3 DEF DroppedAreDead, Dropping
<1> QED
  BY <1>5, <1>6, <1>7, <1>8, <1>9 DEF TickerInv

\* Every step of the process, of its environment and of the kernel keeps the invariant.
LEMMA TickerNext == TickerInv /\ [Next]_vars => TickerInv'
<1> SUFFICES ASSUME TickerInv, [Next]_vars PROVE TickerInv'
  OBVIOUS
<1>1. CASE \/ MainPrompt \/ MainClear \/ MainSuspend \/ ParseStart \/ NothingToRead
           \/ Recv \/ ReadCommands \/ ReadOutput
  BY <1>1, LoopMoves, MoveKeeps
<1>2. CASE \/ StartWithoutRoom \/ StartScan \/ StartInsert \/ StartBacklink
           \/ StartLink \/ StartFork \/ Walk \/ Find \/ Obey
  BY <1>2, CommandMoves, MoveKeeps
<1>3. CASE StartSubscribe
  BY <1>3, CommandMoves, MoveKeeps, EndsKeep DEF StartSubscribe
<1>4. CASE \/ InterruptStart \/ RemoveCli \/ RemoveWatcher \/ ReapStart \/ ReapNone
           \/ ReapUnlink \/ ReapUnlinkNext
  BY <1>4, HandlerMoves, MoveKeeps
<1>5. CASE ParseEnd
  BY <1>5, HandlerMoves, MoveKeeps, ReturnKeeps
<1>6. CASE Faults \/ RemoveEnd \/ Rests \/ UNCHANGED vars
  BY <1>6, EndsKeep DEF Rests
<1>7. CASE StartCreate \/ StartSetPid \/ ReapOne \/ ReapFree \/ ReapNext \/ ReapEnd
  BY <1>7, CreateKeeps, SetPidKeeps, ReapKeeps, FreeKeeps, ReturnKeeps
<1>8. CASE (\E sig \in Signals : Deliver(sig)) \/ Environment
  BY <1>8, DeliverKeeps, EnvironmentKeeps
<1> QED
  BY <1>1, <1>2, <1>3, <1>4, <1>5, <1>6, <1>7, <1>8 DEF Next, Step

\* Frames, masks, pids and half-made WATCHERs fit each other, however signals interrupt
\* the loop and each other's handlers (ticker.c, watcher.c, bitstamp.c).
THEOREM TickerInvariant == Spec => []TickerInv
  BY TickerInit, TickerNext, PTL DEF Spec

\* No handler ever interrupts itself, and each gives back a mask that blocks the signals
\* of those it interrupted (ticker.c:165-191, 220-243).
THEOREM HandlersAlwaysNest == Spec => []HandlersNest
<1>1. TickerInv => HandlersNest
  BY DEF TickerInv
<1> QED
  BY <1>1, TickerInvariant, PTL

\* The SIGCHLD handler frees a WATCHER only when its child has been reaped or its start
\* was interrupted, although it cannot tell a child that has ended from none
\* (ticker.c:54-73).
THEOREM DroppedForGoodReason == Spec => OnlyTheDeadAreDropped
<1> DEFINE Justified == \A w \in live \ live' :
                      \/ w = Cli
                      \/ mem[w].pid # Unset /\ child[mem[w].pid] = "reaped"
                      \/ \E i \in DOMAIN Below : Below[i].new = w
<1>1. ASSUME TickerInv, ReapFree, Top.wp # Cli
      PROVE  \/ mem[Top.wp].pid # Unset /\ child[mem[Top.wp].pid] = "reaped"
             \/ \E i \in DOMAIN Below : Below[i].new = Top.wp
  <2>1. PICK n \in Nat \ {0} :
          /\ n = Len(stack) /\ Top = stack[n] /\ Len(Below) = n - 1
          /\ DOMAIN Below = 1..n - 1 /\ \A i \in 1..n - 1 : Below[i] = stack[i]
    BY <1>1, TopOfStack DEF TickerInv
  <2>2. stack[n].at \in Dropping /\ stack[n].wp = Top.wp
    BY <1>1, <2>1 DEF ReapFree, At, Dropping
  <2>3. Dead(n)
    BY <1>1, <2>1, <2>2 DEF TickerInv, DroppedAreDead
  <2> QED
    BY <2>1, <2>2, <2>3, DistinctAssumption DEF Dead
<1>2. ASSUME TickerInv, [Next]_vars PROVE Justified
  <2> SUFFICES ASSUME NEW w \in live \ live', w # Cli
               PROVE  \/ mem[w].pid # Unset /\ child[mem[w].pid] = "reaped"
                      \/ \E i \in DOMAIN Below : Below[i].new = w
    OBVIOUS
  <2>1. ReapFree
    <3>1. CASE Step
      BY <3>1
      DEF Step, MainPrompt, MainClear, MainSuspend, ParseStart, NothingToRead, ReadCommands,
          ReadOutput, Recv, ParseEnd, StartCreate, StartWithoutRoom, StartScan, StartInsert,
          StartBacklink, StartLink, StartFork, StartSetPid, StartSubscribe, Walk, Find, Obey,
          InterruptStart, RemoveCli, RemoveWatcher, RemoveEnd, ReapStart, ReapNone, ReapOne,
          ReapUnlink, ReapUnlinkNext, ReapNext, ReapEnd, Faults, list
    <3>2. CASE \E sig \in Signals : Deliver(sig)
      BY <3>2 DEF Deliver, list
    <3>3. CASE Environment
      BY <3>3 DEF Environment, Type, ChildWrites, ChildEnds, Interrupt, list
    <3>4. CASE Rests \/ UNCHANGED vars
      BY <3>4 DEF Rests, vars, list
    <3> QED
      BY <1>2, <3>1, <3>2, <3>3, <3>4 DEF Next
  <2>2. w = Top.wp
    BY <2>1 DEF ReapFree
  <2> QED
    BY <1>1, <1>2, <2>1, <2>2
<1> QED
  BY <1>2, TickerInvariant, PTL DEF Spec, OnlyTheDeadAreDropped

===============================================================================
