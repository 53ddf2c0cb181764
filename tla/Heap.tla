-------------------------------- MODULE Heap --------------------------------
(***************************************************************************)
(* The heap allocator of custom_memory_manager (src/sfmm.c).               *)
(*                                                                         *)
(* Memory is modelled as the code sees it: a function from rows (8 bytes)  *)
(* to words.  A word is a number, and the same number is a block's tag     *)
(* (its length in bytes, with the flags in the three low bits), a link     *)
(* (the address of a row, a multiple of 8) or a client's data, depending   *)
(* on who reads it.  The allocator never clears what it gives up, so that  *)
(* it may read a tag where an old one, a link or data is still lying;      *)
(* those reads are the reason for this level of detail.                    *)
(*                                                                         *)
(* A function of the code is an operator from heaps to heaps; its result   *)
(* is left in the field ret.  A call of the client is one action: the      *)
(* allocator has no locks and is used by one thread.                       *)
(***************************************************************************)
EXTENDS Integers, FiniteSets, FiniteSetsExt, TLC

CONSTANTS
    PageRows,          \* PAGE_SZ in rows
    MaxPages,          \* how often sf_mem_grow() succeeds
    NUM_QUICK_LISTS, QUICK_LIST_MAX, NUM_FREE_LISTS,
    Sizes,             \* the sizes clients ask for, in bytes; as a size_t a
                       \*   negative number is one of 2^63 or more
    Alignments,        \* the alignments clients ask for, in bytes
    Data,              \* the words clients write
    MaxHeld            \* how many regions the client holds at once

ASSUME HeapAssumption ==
    /\ PageRows \in Nat /\ PageRows >= 9
    /\ MaxPages \in Nat \ {0}
    /\ NUM_QUICK_LISTS \in Nat \ {0}
    /\ QUICK_LIST_MAX \in Nat \ {0}
    /\ NUM_FREE_LISTS \in Nat \ {0, 1}
    /\ Sizes \subseteq Int
    /\ Alignments \subseteq Nat
    /\ Data \subseteq Nat
    /\ MaxHeld \in Nat

VARIABLES
    heap,      \* the memory and the globals of the allocator
    held       \* the client's regions: of each row where a payload begins, how
               \*   many rows the client asked for

vars == <<heap, held>>

(***************************************************************************)
(* Memory.  The heads of the free lists are static memory, the heap starts *)
(* at sf_mem_start() and ends before sf_mem_end(); there is nothing        *)
(* anywhere else, and both areas are so far from address 0 that a link     *)
(* taken for a length leads out of them.                                   *)
(***************************************************************************)

NULL      == 0
M         == 4                         \* the smallest block, in rows
Start     == 512
FreeLists == 0 .. NUM_FREE_LISTS - 1
Head(i)   == 1024 + 3 * i
HeadRows  == Head(0) .. Head(NUM_FREE_LISTS) - 1

\* sf_quick_lists[i].length and .first, sf_free_list_heads[] and the heap
NewHeap ==
    [mem |-> [r \in HeadRows |-> 0], end |-> Start,
     qlen   |-> [i \in 0 .. NUM_QUICK_LISTS - 1 |-> 0],
     qfirst |-> [i \in 0 .. NUM_QUICK_LISTS - 1 |-> NULL],
     fate |-> "fine", ret |-> NULL]

Init == heap = NewHeap /\ held = <<>>

\* Loads and stores.  A store to where there is no memory ends the program;
\* so would a load, but the code stores through every pointer it loads from.
Get(h, r)    == IF r \in DOMAIN h.mem THEN h.mem[r] ELSE 0
Ends(h, how) == [h EXCEPT !.fate = IF @ = "fine" THEN how ELSE @]
Put(h, r, w) == IF r \in DOMAIN h.mem
                THEN [h EXCEPT !.mem[r] = w] ELSE Ends(h, "crashed")
Returns(h, x) == [h EXCEPT !.ret = x]

\* What the program does next, unless it has ended.
Then(h, F(_)) == IF h.fate = "fine" THEN F(h) ELSE h

Address(r)   == 8 * r
RowOf(w)     == w \div 8
NextLink(b)  == b + 1
PrevLink(b)  == b + 2

\* Tags: THIS_BLOCK_ALLOCATED is 1, PREV_BLOCK_ALLOCATED 2, IN_QUICK_LIST 4.
Tag(len, flags) == 8 * len + flags
Length(w)    == w \div 8
Flags(w)     == w % 8
isAlloc(w)   == w % 2 = 1
prevAlloc(w) == (w \div 2) % 2 = 1
inQuickLst(w) == (w \div 4) % 2 = 1
Bit(b, flag) == IF b THEN flag ELSE 0

\* Variant: what the header says of the block before is forgotten.
prevFlagForgotten(w) == 0

prevFlag(w)  == Bit(prevAlloc(w), 2)
LengthAt(h, b) == Length(Get(h, b))

-----------------------------------------------------------------------------
(***************************************************************************)
(* Boundary tags.                                                          *)
(***************************************************************************)

createFooter(h, b) == Put(h, b + LengthAt(h, b) - 1, Get(h, b))

createHeaderAndFooter(h, b, len, flags) ==
    createFooter(Put(h, b, Tag(len, flags)), b)

\* The block after b, by its length; the block before b, by its footer.
nextBlock(h, b) == b + LengthAt(h, b)

prevBlock(h, b) ==
    LET footer == Get(h, b - 1)
        p == b - Length(footer)
    IN  IF /\ ~prevAlloc(Get(h, b))
           /\ ~isAlloc(footer)
           /\ p \in Start .. h.end - 1
           /\ Get(h, p) = footer
        THEN p ELSE NULL

\* What a block's header says of the block before it.  The header of a block
\* that is not allocated goes to its footer too, wherever its length says
\* the footer is.
updateHeader(h, b, prev) ==
    IF b >= h.end THEN h
    ELSE LET w == Get(h, b)
             g == Put(h, b, w - prevFlag(w) + Bit(prev, 2))
         IN  IF isAlloc(w) THEN g ELSE createFooter(g, b)

updateBlock(h, b, len, flags) ==
    IF isAlloc(flags)
    THEN updateHeader(Put(h, b, Tag(len, flags)), b + len, TRUE)
    ELSE updateHeader(createHeaderAndFooter(h, b, len, flags), b + len, FALSE)

\* keeps the length and what the header says of the block before
updateBlockFlags(h, b, quick, alloc) ==
    updateBlock(h, b, LengthAt(h, b),
                prevFlag(Get(h, b)) + Bit(quick, 4) + Bit(alloc, 1))

-----------------------------------------------------------------------------
(***************************************************************************)
(* The free lists: circular, doubly linked, one for each class of sizes.   *)
(***************************************************************************)

\* 2: blocks of this length belong in list i; 1: blocks of list i are
\* longer; 0: they are shorter
fitsInFreeList(len, i) ==
    LET max == M * 2^i
        min == IF i = 0 THEN 0 ELSE M * 2^(i - 1)
    IN  CASE i = NUM_FREE_LISTS - 1 /\ len > min -> 2
          [] len <= max /\ len > min             -> 2
          [] len <= min                          -> 1
          [] OTHER                               -> 0

linkAfter(h, head, b) ==
    LET first == Get(h, NextLink(head))
        g     == Put(Put(h, NextLink(b), first), PrevLink(b), Address(head))
    IN  Put(Put(g, PrevLink(RowOf(first)), Address(b)), NextLink(head), Address(b))

addToFreeList(h, b) ==
    LET class == {i \in FreeLists : fitsInFreeList(LengthAt(h, b), i) = 2}
    IN  IF class = {} THEN Returns(h, NULL)
        ELSE Then(updateBlockFlags(h, b, FALSE, FALSE),
                  LAMBDA g : Returns(linkAfter(g, Head(Max(class)), b), b))

\* Of a block's links the one back, or forth, is given to the neighbour.
linkBack(h, b) ==
    IF Get(h, PrevLink(b)) = NULL THEN h
    ELSE Put(h, NextLink(RowOf(Get(h, PrevLink(b)))), Get(h, NextLink(b)))
linkForth(h, b) ==
    IF Get(h, NextLink(b)) = NULL THEN h
    ELSE Put(h, PrevLink(RowOf(Get(h, NextLink(b)))), Get(h, PrevLink(b)))
clearLinks(h, b) == Put(Put(h, NextLink(b), NULL), PrevLink(b), NULL)

\* Whatever the block's first two rows hold is taken for links.
removeFromFreeList(h, b) ==
    Then(linkBack(h, b), LAMBDA g : clearLinks(linkForth(g, b), b))

(***************************************************************************)
(* Merging a block with its free neighbours.                               *)
(***************************************************************************)

RECURSIVE mergeForward(_, _)
mergeForward(h, b) ==
    LET next == nextBlock(h, b)
        g == createHeaderAndFooter(removeFromFreeList(h, next), b,
                 LengthAt(h, b) + LengthAt(h, next), Flags(Get(h, b)))
    IN  IF h.fate # "fine" \/ isAlloc(Get(h, next)) THEN h
        ELSE IF LengthAt(h, next) = 0 THEN Ends(h, "hung")
        ELSE mergeForward(g, b)

RECURSIVE mergeBackward(_, _)
mergeBackward(h, b) ==
    LET p == prevBlock(h, b)
        g == createHeaderAndFooter(h, p, LengthAt(h, p) + LengthAt(h, b),
                                   Flags(Get(h, p)))
    IN  IF h.fate # "fine" \/ prevAlloc(Get(h, b)) THEN Returns(h, b)
        ELSE IF p = NULL THEN Ends(h, "crashed")
        ELSE mergeBackward(removeFromFreeList(g, p), p)

\* A block that is being freed is in no list, and yet taken out of one: its
\* first rows, payload, are followed as links.  While a quick list is flushed
\* they lead to the next block of that list; when they lead anywhere else in
\* the heap, that is the end of what is modelled.
listed(h, b) == /\ Get(h, PrevLink(b)) # NULL
                /\ Get(h, NextLink(RowOf(Get(h, PrevLink(b))))) = Address(b)

strayLinks(h, b) ==
    LET next == RowOf(Get(h, NextLink(b)))
        prev == RowOf(Get(h, PrevLink(b)))
    IN  /\ ~listed(h, b)
        /\ \/ NextLink(prev) \in DOMAIN h.mem
           \/ PrevLink(next) \in DOMAIN h.mem /\ ~inQuickLst(Get(h, next))

coalesce(h, b) ==
    IF nextBlock(h, b) >= h.end THEN Returns(h, b)
    ELSE IF strayLinks(h, b) THEN Ends(removeFromFreeList(h, b), "smashed")
    ELSE Then(mergeBackward(mergeForward(removeFromFreeList(h, b), b), b),
              LAMBDA g : addToFreeList(g, g.ret))

\* Cuts a block in two; the first part has len rows.  Putting a free block's
\* first part back into a list updates the header behind it, which is not
\* written yet: what lies there decides whether, and where, a footer is
\* written.  Outside the block that is the end of what is modelled.
strayFooter(h, b, len) ==
    LET w == Get(h, b + len)
    IN  /\ ~isAlloc(Get(h, b)) /\ ~isAlloc(w)
        /\ b + len + Length(w) - 1 \notin b .. b + LengthAt(h, b) - 1

splitBlock(h, b, len) ==
    LET rest  == b + len
        old   == LengthAt(h, b)
        alloc == isAlloc(Get(h, b))
        flags == Flags(Get(h, b))
        first == IF alloc THEN Put(h, b, Tag(len, flags))
                 ELSE addToFreeList(createHeaderAndFooter(
                          removeFromFreeList(h, b), b, len, flags), b)
        second == createHeaderAndFooter(first, rest, old - len, Bit(alloc, 2))
    IN  IF old - len < M \/ len < M THEN Returns(h, NULL)
        ELSE IF strayFooter(h, b, len) THEN Ends(h, "smashed")
        ELSE Returns(addToFreeList(second, rest), rest)

-----------------------------------------------------------------------------
(***************************************************************************)
(* The quick lists: last in, first out, one for each length of the         *)
(* smallest blocks.  Their blocks count as allocated.                      *)
(***************************************************************************)

getQuickListNum(len) == IF len \in M .. M + NUM_QUICK_LISTS - 1 THEN len - M ELSE -1

RECURSIVE flush(_, _)
flush(h, w) ==
    IF w = NULL \/ h.fate # "fine" THEN h
    ELSE flush(coalesce(updateBlockFlags(h, RowOf(w), FALSE, FALSE), RowOf(w)),
               Get(h, NextLink(RowOf(w))))

full(h, i) == h.qlen[i] >= QUICK_LIST_MAX

addToQuickList(h, b) ==
    LET i == getQuickListNum(LengthAt(h, b))
    IN  IF i < 0 THEN Returns(h, NULL)
        ELSE Then(IF ~full(h, i) THEN h
                  ELSE flush([h EXCEPT !.qlen[i] = 0, !.qfirst[i] = NULL], h.qfirst[i]),
                  LAMBDA g : Returns(updateBlockFlags(
                      [Put(g, NextLink(b), g.qfirst[i]) EXCEPT
                          !.qlen[i] = @ + 1, !.qfirst[i] = Address(b)],
                      b, TRUE, TRUE), b))

-----------------------------------------------------------------------------
(***************************************************************************)
(* The heap's ends.                                                        *)
(***************************************************************************)

\* sf_mem_grow(): a page of zeros, or NULL when there is none left
sf_mem_grow(h) ==
    IF h.end = Start + MaxPages * PageRows THEN Returns(h, NULL)
    ELSE [h EXCEPT !.mem = @ @@ [r \in h.end .. h.end + PageRows - 1 |-> 0],
                   !.end = @ + PageRows, !.ret = h.end]

\* Nothing in any list: the heads of free lists link to themselves.
emptyLists(h) ==
    [h EXCEPT !.mem = [r \in HeadRows |->
                          LET head == r - ((r - Head(0)) % 3)
                          IN  IF r = head THEN h.mem[r] ELSE Address(head)] @@ @,
              !.qlen   = [i \in DOMAIN @ |-> 0],
              !.qfirst = [i \in DOMAIN @ |-> NULL]]

\* The first page: prologue, one free block, epilogue.
initHeap(h) ==
    LET freeBlock == Start + M
    IN  Then(sf_mem_grow(h), LAMBDA g :
            addToFreeList(emptyLists(
                updateBlock(
                    updateBlock(updateBlock(g, Start, M, 1), g.end - 1, 1, 1),
                    freeBlock, g.end - 1 - freeBlock, 2)), freeBlock))

\* One page more: the old epilogue becomes a free block.
expandHeap(h) ==
    LET old == h.end - 1
    IN  Then(sf_mem_grow(h), LAMBDA g :
            IF g.ret = NULL THEN g
            ELSE coalesce(updateBlock(
                     createHeaderAndFooter(g, old, g.end - 1 - old, prevFlag(Get(h, old))),
                     g.end - 1, 1, 1), old))

-----------------------------------------------------------------------------
(***************************************************************************)
(* The functions clients call.                                             *)
(***************************************************************************)

\* In size_t arithmetic a negative long comes back as SIZE_MAX.
roundUpSize(n) == IF n < 0 THEN -1 ELSE 8 * ((n + 7) \div 8)

\* The rows of a block for n bytes.  SIZE_MAX + 8 is 7.
blockSize(n) == Max({M, (roundUpSize(n) + 8) \div 8})

\* Takes a free block of at least size rows out of its list and hands out
\* its payload.
allocate(h, b) ==
    Returns(updateBlockFlags(removeFromFreeList(h, b), b, FALSE, TRUE), b + 1)

\* The first block of a free list, from link w on, that is long enough.
RECURSIVE firstFit(_, _, _)
firstFit(h, w, size) ==
    LET b == RowOf(w)
    IN  IF b \in HeadRows \/ b \notin DOMAIN h.mem THEN NULL
        ELSE IF LengthAt(h, b) >= size THEN b
        ELSE firstFit(h, Get(h, NextLink(b)), size)

\* Pages are added until the last block is long enough; it is not split.
RECURSIVE grow(_, _)
grow(h, size) ==
    Then(expandHeap(h), LAMBDA g :
        IF g.ret = NULL THEN g
        ELSE IF LengthAt(g, g.ret) >= size THEN allocate(g, g.ret)
        ELSE grow(g, size))

\* A list whose length is positive is taken to have a first block.  The length
\* stays what it was.
takeFromQuickList(h, i) ==
    LET b == RowOf(h.qfirst[i])
    IN  IF h.qfirst[i] = NULL THEN Ends(h, "crashed")
        ELSE Returns(updateBlockFlags(
                 [h EXCEPT !.qfirst[i] = Get(h, NextLink(b))], b, FALSE, TRUE), b + 1)

\* A block of size rows: from a quick list, from the first free list with one
\* that is long enough, or from new pages.
obtain(h, size) ==
    LET i    == getQuickListNum(size)
        fit  == [c \in FreeLists |->
                   IF fitsInFreeList(size, c) = 0 THEN NULL
                   ELSE firstFit(h, Get(h, NextLink(Head(c))), size)]
        classes == {c \in FreeLists : fit[c] # NULL}
        b    == fit[Min(classes)]
    IN  IF i >= 0 /\ h.qlen[i] > 0 THEN takeFromQuickList(h, i)
        ELSE IF classes # {} THEN allocate(splitBlock(h, b, size), b)
        ELSE grow(h, size)

sf_malloc(h, n) ==
    IF n = 0 THEN Returns(h, NULL)
    ELSE Then(IF h.end = Start THEN initHeap(h) ELSE h,
              LAMBDA g : obtain(g, blockSize(n)))

\* p is the row of a payload.
validFreePtr(h, p) ==
    LET w == Get(h, p - 1)
    IN  /\ p > Start
        /\ Length(w) >= M
        /\ p - 1 + Length(w) <= h.end
        /\ isAlloc(w) /\ ~inQuickLst(w)
        /\ prevAlloc(w) \/ prevBlock(h, p - 1) # NULL

sf_free(h, p) ==
    IF ~validFreePtr(h, p) THEN Ends(h, "aborted")
    ELSE Then(addToQuickList(h, p - 1), LAMBDA g :
             IF g.ret = NULL THEN Returns(coalesce(g, p - 1), NULL)
             ELSE Returns(g, NULL))

\* Variant: a footer is subtracted too.
copyLessPayload(h, b, c) ==
    LET rows == LengthAt(h, b) - 2
    IN  [h EXCEPT !.mem = [r \in c + 1 .. c + rows |-> h.mem[r - c + b]] @@ @]

\* memcpy() of the payload of block b to that of block c
copyPayload(h, b, c) ==
    LET rows == LengthAt(h, b) - 1
    IN  [h EXCEPT !.mem = [r \in c + 1 .. c + rows |-> h.mem[r - c + b]] @@ @]

\* The block of a region keeps its first rows, the others are freed.
trim(h, p, rows) ==
    Then(splitBlock(h, p - 1, rows), LAMBDA g :
        IF g.ret = NULL THEN Returns(g, p) ELSE Returns(coalesce(g, g.ret), p))

\* Block c takes over the flags of block b, but keeps what it says of the block
\* before it when that is allocated.
takeFlags(h, c, b) ==
    updateBlock(h, c, LengthAt(h, c),
        Flags(Get(h, b)) + Bit(prevAlloc(Get(h, c)) /\ ~prevAlloc(Get(h, b)), 2))

\* A failed allocation is not noticed.
move(h, p, rsize) ==
    Then(sf_malloc(h, rsize), LAMBDA g :
        IF g.ret = NULL THEN Ends(g, "crashed")
        ELSE LET c == g.ret - 1
             IN  Returns(sf_free(takeFlags(copyPayload(g, p - 1, c), c, p - 1), p), c + 1))

\* n bytes become n rows of block without one for its header when the block
\* is long enough already.
sf_realloc(h, p, n) ==
    LET rsize == roundUpSize(IF n \in 0 .. 31 THEN 32 ELSE n)
    IN  IF ~validFreePtr(h, p) THEN Returns(h, NULL)
        ELSE IF n = 0 THEN sf_free(h, p)
        ELSE IF 8 * LengthAt(h, p - 1) >= rsize THEN trim(h, p, rsize \div 8)
        ELSE move(h, p, rsize)

\* isAligned() and alignUp() build a mask of one bit too many: no address is
\* aligned, and each is moved up to the next multiple of twice the alignment.
alignUp(address, align) == (address \div (2 * align) + 1) * 2 * align

\* What is before the aligned address is freed, then what is behind the region.
align(h, p0, boundary, rows) ==
    LET b == p0 - 1
        p == RowOf(alignUp(Address(p0) + 24, boundary))
    IN  Then(splitBlock(addToFreeList(h, b), b, p - 1 - b), LAMBDA g :
            IF g.ret = NULL THEN Ends(g, "overrun")
            ELSE Then(coalesce(updateBlockFlags(
                          removeFromFreeList(g, p - 1), p - 1, FALSE, TRUE), b),
                      LAMBDA front : trim(front, p, rows)))

sf_memalign(h, n, boundary) ==
    LET rounded == roundUpSize(n)
        size    == IF rounded \in 0 .. 23 THEN 24 ELSE rounded
        power2  == \E k \in 0 .. 20 : boundary = 2^k
    IN  IF boundary < 8 \/ ~power2 THEN Returns(h, NULL)
        ELSE IF boundary = 8 THEN sf_malloc(h, size)
        ELSE Then(sf_malloc(h, 32 + boundary + size), LAMBDA g :
                 IF g.ret = NULL THEN Ends(g, "crashed")
                 ELSE align(g, g.ret, boundary, (size + 8) \div 8))

-----------------------------------------------------------------------------
(***************************************************************************)
(* The client: one call at a time, with pointers it was given, until the   *)
(* program ends.                                                           *)
(***************************************************************************)

\* What the client may count on when it asked for n bytes: no region is shorter
\* than the payload of the smallest block, and a request that wraps round in
\* roundUpSize() is one for that.
RowsFor(n) == Max({M - 1, roundUpSize(n) \div 8})

\* A call for n bytes gives heap g: its memory is gone when the program has
\* ended, or else the client has what the call returned and no longer what it
\* was given, unless that is kept when the call fails.
Call(g, n, given, kept) ==
    LET gone == IF g.ret = NULL /\ kept THEN {} ELSE given
    IN  IF g.fate = "fine"
        THEN /\ heap' = Returns(g, NULL)
             /\ held' = [p \in (DOMAIN held \ gone) \cup ({g.ret} \ {NULL}) |->
                            IF p = g.ret THEN RowsFor(n) ELSE held[p]]
        ELSE heap' = [NewHeap EXCEPT !.fate = g.fate] /\ held' = <<>>

Malloc(n) ==
    /\ Cardinality(DOMAIN held) < MaxHeld
    /\ Call(sf_malloc(heap, n), n, {}, FALSE)

Memalign(n, boundary) ==
    /\ Cardinality(DOMAIN held) < MaxHeld
    /\ Call(sf_memalign(heap, n, boundary), n, {}, FALSE)

\* sf_free(NULL) is an error like that of any other invalid pointer.
Free(p) == Call(sf_free(heap, p), 0, {p}, FALSE)

Realloc(p, n) == Call(sf_realloc(heap, p, n), n, {p}, n # 0)

\* The client writes to its region, as far as the allocator uses it for links
\* once it is free again.
Write(p, w) ==
    /\ heap' = [heap EXCEPT !.mem = [r \in {p, p + 1} |-> w] @@ @]
    /\ UNCHANGED held

\* The client writes to the end of its region.  When sf_realloc() or
\* sf_memalign() left it in a block that is too short, that is the header of
\* the next block, and the end of what is modelled.
WriteToTheEnd(p) ==
    /\ held[p] >= LengthAt(heap, p - 1)
    /\ heap' = [NewHeap EXCEPT !.fate = "overrun"] /\ held' = <<>>

Next ==
    /\ heap.fate = "fine"
    /\ \/ \E n \in Sizes : Malloc(n)
       \/ \E n \in Sizes, a \in Alignments : Memalign(n, a)
       \/ \E p \in DOMAIN held \cup {NULL} : Free(p)
       \/ \E p \in DOMAIN held \cup {NULL}, n \in Sizes : Realloc(p, n)
       \/ \E p \in DOMAIN held, w \in Data : Write(p, w)
       \/ \E p \in DOMAIN held : WriteToTheEnd(p)

Spec == Init /\ [][Next]_vars

=============================================================================
