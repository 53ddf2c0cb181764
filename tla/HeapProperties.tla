--------------------------- MODULE HeapProperties ---------------------------
(***************************************************************************)
(* What the heap of Heap.tla keeps true from call to call, as long as none *)
(* of the ends "crashed", "aborted", "overrun" and "smashed" is reached.   *)
(***************************************************************************)
EXTENDS Heap

Running  == heap.fate = "fine" /\ heap.end > Start
Epilogue == heap.end - 1
Word(b)  == heap.mem[b]
Next1(b) == b + Length(Word(b))

\* The blocks a walk by lengths visits, from b to the epilogue.
RECURSIVE blocksFrom(_)
blocksFrom(b) == IF b >= Epilogue \/ Length(Word(b)) = 0 THEN {b}
                 ELSE {b} \cup blocksFrom(Next1(b))

Blocks      == blocksFrom(Start + M) \ {Epilogue}
FreeBlocks  == {b \in Blocks : ~isAlloc(Word(b))}
QuickBlocks == {b \in Blocks : isAlloc(Word(b)) /\ inQuickLst(Word(b))}

\* The blocks tile the heap from the prologue to the epilogue: none is
\* shorter than 32 bytes; a free one has a footer equal to its header; where a
\* header says that the block before is free, it is, and the footer leads to
\* it (sfmm.c:88-143, which every call relies on).  Nothing is promised the
\* other way round: after sf_realloc() a header may say of a free block that
\* it is allocated.
Tiled ==
    /\ Epilogue \in blocksFrom(Start + M)
    /\ Length(Word(Epilogue)) = 1 /\ isAlloc(Word(Epilogue))
    /\ \A b \in Blocks : Length(Word(b)) >= M
    /\ \A b \in FreeBlocks : Word(Next1(b) - 1) = Word(b)
    /\ \A b \in Blocks \cup {Epilogue} :
          ~prevAlloc(Word(b)) => prevBlock(heap, b) \in FreeBlocks

\* The blocks of a list, by the links from link w on.
RECURSIVE linkedFrom(_, _)
linkedFrom(w, seen) ==
    LET b == RowOf(w)
    IN  IF b \in seen \cup HeadRows \cup {NULL} THEN seen
        ELSE linkedFrom(heap.mem[NextLink(b)], seen \cup {b})

\* Every free block is in the list of its class and in no other, the lists
\* are circular and the links back agree with the links forth; the quick list
\* of a length holds exactly the blocks marked for it (sfmm.c:163-189,
\* 242-286).  So no free block is lost, and none can be handed out twice.
Listed ==
    /\ \A i \in FreeLists :
          LET list == linkedFrom(heap.mem[NextLink(Head(i))], {})
          IN  /\ list = {b \in FreeBlocks : fitsInFreeList(Length(Word(b)), i) = 2}
              /\ \A b \in list \cup {Head(i)} :
                    heap.mem[PrevLink(RowOf(heap.mem[NextLink(b)]))] = Address(b)
    /\ \A i \in DOMAIN heap.qfirst :
          linkedFrom(heap.qfirst[i], {}) = {b \in QuickBlocks : Length(Word(b)) = M + i}

\* The blocks that are neither free nor in a quick list are those of the
\* client's regions, and sf_free() would take each of them (sfmm.c:390-500).
\* No call forgets a block, no two regions overlap, no valid pointer aborts.
Owned ==
    /\ {p - 1 : p \in DOMAIN held} = Blocks \ (FreeBlocks \cup QuickBlocks)
    /\ \A p \in DOMAIN held : validFreePtr(heap, p)

\* Between two calls tags, lists and the client agree on every block, whatever
\* calls came before, as long as the program runs (sfmm.c:88-500).
HeapIsSound == Running => Tiled /\ Listed /\ Owned

\* The rows the block of region p has for its payload, and how many fewer
\* they are than the client asked for.
Room(h, p)        == LengthAt(h, p - 1) - 1
Missing(h, hd, p) == hd[p] - Room(h, p)

\* Two calls hand out less than they were asked for, although
\* include/sfmm.h:224-231 and 260-261 promise it.  Where sf_realloc() leaves a region
\* in its place it takes the length of the block, header included, for that
\* of the payload (sfmm.c:519-525), and the client's last row is the header
\* of the next block.  And sf_memalign() goes on to a multiple of twice the
\* alignment, but has only allowed for one (sfmm.c:558-568, 617).
ResizedInPlace(p) ==
    /\ p \in DOMAIN held
    /\ Missing(heap', held', p) = 1
    /\ \E n \in Sizes : Realloc(p, n)
AlignedTooFar(p) ==
    /\ p \notin DOMAIN held
    /\ \E n \in Sizes, a \in Alignments :
          Memalign(n, a) /\ 8 * Missing(heap', held', p) <= a - 8

\* What the client asked for of region p, without the rows that are missing.
Region(h, hd, p) == p .. p - 1 + Min({hd[p], Room(h, p)})

\* Every region is as long as the client asked, except for those two calls.
\* No call changes a word of a region the client holds before and after it,
\* and a region that sf_realloc() moves takes all its words along
\* (sfmm.c:519-541).  Only the client writes.
RegionsKeepTheirContents == [][heap'.fate = "fine" =>
    LET old == DOMAIN held
        new == DOMAIN held'
    IN  /\ \A p \in new :
              \/ Missing(heap', held', p) <= 0
              \/ (p \in old /\ Missing(heap', held', p) = Missing(heap, held, p))
              \/ ResizedInPlace(p)
              \/ AlignedTooFar(p)
        /\ \A p \in old \cap new :
              \A r \in Region(heap, held, p) \cap Region(heap', held', p) :
                 heap'.mem[r] \in {heap.mem[r]} \cup Data
        /\ \A p \in old \ new, c \in new \ old :
              \A r \in Region(heap, held, p) :
                 /\ r - p + c \in Region(heap', held', c)
                 /\ heap'.mem[r - p + c] = heap.mem[r]]_vars

\* A call with a region the client holds, or with the size of a new one,
\* returns: "If the allocation is not successful, then NULL is returned and
\* sf_errno is set to ENOMEM" (include/sfmm.h).
CallsReturn == heap.fate # "crashed"

=============================================================================
