---------------------------------- MODULE Hunk ----------------------------------
(***************************************************************************)
(* The hunk patch.c has in hand: its static variables p_first ... p_len    *)
(* as one record, and what the program computes from it.                   *)
(*                                                                         *)
(* c[i] and t[i] are p_char[i] and p_line[i].  Line 0 is the header of the *)
(* old part, lines 1 to ptrn are the old part, then come the header of the *)
(* new part and the new part, up to line end.  Both arrays keep what       *)
(* earlier hunks put behind end: the signs as they were, the lines freed.  *)
(***************************************************************************)
EXTENDS Integers, Sequences, FiniteSetsExt

CONSTANTS
  Texts,       \* the lines a file can have
  Squeeze,     \* every line with its white space canonicalized
  Freed,       \* a line printed from memory that holds none
  NULL,
  MAXHUNKSIZE  \* the length of p_line, p_char and p_len

ASSUME SqueezeAssumption == Squeeze \in [Texts -> Texts]
ASSUME SpecialLinesAssumption == Freed # NULL /\ {Freed, NULL} \cap Texts = {}
ASSUME RoomAssumption == MAXHUNKSIZE \in Nat \ {0}

Room == 0..(MAXHUNKSIZE - 1)

\* The static variables before the first hunk.
NoHunk ==
  [first |-> 0, newfirst |-> 0, ptrn |-> 0, repl |-> 0, end |-> -1, max |-> 0, dash |-> 0,
   c |-> [i \in Room |-> "none"], t |-> [i \in Room |-> NULL]]

\* re_patch()
Cleared(h) ==
  [h EXCEPT !.first = 0, !.newfirst = 0, !.ptrn = 0, !.repl = 0, !.end = -1, !.max = 0]

\* another_hunk() frees the lines of the last hunk, not their signs.
LinesFreed(h) ==
  [h EXCEPT !.end = -1, !.max = MAXHUNKSIZE, !.dash = 0,
            !.t = [i \in Room |-> IF i <= h.end THEN Freed ELSE h.t[i]]]

Put(h, i, sign, text) == [h EXCEPT !.c[i] = sign, !.t[i] = text]
PutNext(h, sign, text) == [Put(h, h.end + 1, sign, text) EXCEPT !.end = @ + 1]

Sign(h, i) == IF i \in Room THEN h.c[i] ELSE "none"
Line(h, i) == IF i \in 0..h.end THEN h.t[i] ELSE Freed

\* The first line from i on whose sign is not one of these, wherever the hunk ends.
Behind(h, i, signs) ==
  Min({j \in i..MAXHUNKSIZE : Sign(h, j) \notin signs})
Lines(h, i, j) == [n \in 1..(j - i) |-> Line(h, i + n - 1)]

-------------------------------------------------------------------------------
(***************************************************************************)
(* pch_swap(): old becomes new.                                            *)
(***************************************************************************)

Blank(h) == IF Sign(h, h.ptrn + 1) = "\n" THEN 1 ELSE 0
NewHeader(h) == h.ptrn + 1 + Blank(h)
NewLength(h) == h.end - NewHeader(h) + 1

\* Its assertions about the two headers.
CanSwap(h) == Sign(h, NewHeader(h)) = "=" /\ Sign(h, 0) = "*"

\* Where the swap takes line n from: the new part comes first, then the blank
\* line between the parts, then the old part.
Source(h, n) ==
  IF n < NewLength(h) THEN NewHeader(h) + n
  ELSE IF n < NewLength(h) + Blank(h) THEN h.ptrn + 1
  ELSE n - NewLength(h) - Blank(h)

Turned(sign, old) ==
  IF old THEN IF sign = "=" THEN "*" ELSE IF sign = "+" THEN "-" ELSE sign
         ELSE IF sign = "*" THEN "=" ELSE IF sign = "-" THEN "+" ELSE sign

Swapped(h) ==
  [h EXCEPT !.first = h.newfirst, !.newfirst = h.first,
            !.ptrn = h.repl, !.repl = h.ptrn,
            !.c = [n \in Room |-> IF n > h.end THEN h.c[n]
                                  ELSE Turned(h.c[Source(h, n)], n < NewLength(h))],
            !.t = [n \in Room |-> IF n > h.end THEN h.t[n] ELSE h.t[Source(h, n)]]]

-------------------------------------------------------------------------------
(***************************************************************************)
(* Where a hunk fits into the lines of a file.                             *)
(***************************************************************************)

\* strnEQ(), or similar() with -l.
SameLine(a, b, loose) == a = b \/ (loose /\ b \in Texts /\ Squeeze[a] = Squeeze[b])

\* Variant: the last line of the pattern is not looked at.
MatchesButLast(h, file, at, loose) ==
  \A i \in 1..h.ptrn - 1 :
    at + i - 1 \in 1..Len(file) /\ SameLine(file[at + i - 1], h.t[i], loose)
\* patch_match(); ifetch() answers "" for a line the file does not have.
Matches(h, file, at, loose) ==
  \A i \in 1..h.ptrn :
    at + i - 1 \in 1..Len(file) /\ SameLine(file[at + i - 1], h.t[i], loose)

\* The distances locate_hunk() tries, forwards and backwards alike: as far as the
\* pattern can move towards the end of the file.
Hits(h, file, guess, loose) ==
  {o \in 1..(Len(file) - guess - h.ptrn + 1) :
     Matches(h, file, guess + o, loose) \/ Matches(h, file, guess - o, loose)}

Nearest(h, file, guess, o, loose) ==
  IF Matches(h, file, guess + o, loose) THEN guess + o ELSE guess - o

\* locate_hunk(): 0 when the hunk fits nowhere.  A hunk without old lines fits
\* where it says.
Where(h, file, guess, loose) ==
  IF h.ptrn = 0 \/ (guess <= Len(file) /\ Matches(h, file, guess, loose)) THEN guess
  ELSE IF Hits(h, file, guess, loose) = {} THEN 0
  ELSE Nearest(h, file, guess, Min(Hits(h, file, guess, loose)), loose)
===============================================================================
