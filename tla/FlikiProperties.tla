---------------------------- MODULE FlikiProperties ----------------------------
(***************************************************************************)
(* What patch() of Fliki.tla promises, against a definition of diffs and   *)
(* of patching that knows the whole diff and the whole text                *)
(* (src/fliki.c:757-803).                                                  *)
(***************************************************************************)
EXTENDS Fliki, FiniteSetsExt

\* Two zero bytes, which end a report, fit behind the data in each buffer
\* (src/fliki.c:39-102, 613, 630); the text is read from front to back.
TypeOK ==
    /\ at \in {"next", "more", "skip", "hunk", "pass", "delete", "append", "rest", "done"}
    /\ \A s \in {"delete", "append"} :
          /\ reader.buffer[s].ptr \in 0 .. HUNK_MAX - 2
          /\ reader.buffer[s].count \in 0 .. reader.buffer[s].ptr
    /\ reader.status \in Codes \cup {""} /\ reader.used \in {"none", "next", "getc"}
    /\ reader.finished \in 0 .. 2
    /\ lineCount \in Nat /\ count \in Nat /\ prevEnd \in Nat
    /\ Len(diff) <= MaxLines /\ IsSuffix(source, text)
    /\ result \in {0, -1} /\ told \in BOOLEAN

-----------------------------------------------------------------------------
(***************************************************************************)
(* Diffs.                                                                  *)
(***************************************************************************)

IsHeader(line)     == Len(line) = 2 /\ isDigit(line[1]) /\ line[1] \in DOMAIN Headers
                      /\ line[2] = "\n"
IsData(line, sign) == /\ Len(line) > 2 /\ line[1] = sign /\ line[2] = " "
                      /\ Last(line) = "\n"
Separator          == <<"-", "-", "-", "\n">>

\* The hunk that begins at line i: its header, its lines and those of one sign.
HunkLines == {i \in DOMAIN diff : IsHeader(diff[i])}
Said(i)   == Headers[diff[i][1]]
Body(i)   == LET later == {j \in HunkLines : j > i}
             IN  SubSeq(diff, i + 1, IF later = {} THEN Len(diff) ELSE Min(later) - 1)
Data(i, sign) == SelectSeq(Body(i), LAMBDA line : IsData(line, sign))

\* The diff is made of headers and sections of the right kinds of lines.
WellShaped ==
    /\ diff # << >> => IsHeader(diff[1])
    /\ \A i \in HunkLines : Body(i) =
          CASE Said(i).type = "delete" -> Data(i, "<")
            [] Said(i).type = "append" -> Data(i, ">")
            [] OTHER -> Data(i, "<") \o <<Separator>> \o Data(i, ">")

\* Sections are as long as the headers say, and hunks are in the order of the
\* lines they change.
NumbersFit == \A i \in HunkLines :
    LET h == Said(i)
    IN  /\ h.old_start <= h.old_end /\ h.new_start <= h.new_end
        /\ h.type = "append" => h.old_end = h.old_start
        /\ h.type = "delete" => h.new_end = h.new_start
        /\ h.type # "append" => Len(Data(i, "<")) = h.old_end - h.old_start + 1
        /\ h.type # "delete" => Len(Data(i, ">")) = h.new_end - h.new_start + 1
Ordered == \A i, j \in HunkLines : i < j => Said(i).old_end < Said(j).old_start

-----------------------------------------------------------------------------
(***************************************************************************)
(* Patching.                                                               *)
(***************************************************************************)

LineEnds == SetToSortSeq({i \in DOMAIN text : text[i] = "\n" \/ i = Len(text)},
                         LAMBDA i, j : i < j)
Line(k)  == SubSeq(text, IF k = 1 THEN 1 ELSE LineEnds[k - 1] + 1, LineEnds[k])
Complete == text = << >> \/ Last(text) = "\n"

\* A hunk names lines there are, or the one before the first for an append.
LinesExist == \A i \in HunkLines :
    /\ Said(i).old_start >= (IF Said(i).type = "append" THEN 0 ELSE 1)
    /\ Said(i).old_end <= Len(LineEnds)
Contents(i, sign) == [n \in DOMAIN Data(i, sign) |-> SubSeq(Data(i, sign)[n], 3, Len(Data(i, sign)[n]))]
Matches == \A i \in HunkLines : Said(i).type # "append" =>
    \A n \in DOMAIN Contents(i, "<") : Contents(i, "<")[n] = Line(Said(i).old_start + n - 1)

Gone(k)  == \E i \in HunkLines : /\ Said(i).type # "append"
                                 /\ k \in Said(i).old_start .. Said(i).old_end
Added(k) == FlattenSeq([n \in 1 .. Cardinality(HunkLines) |->
    LET i == SetToSortSeq(HunkLines, LAMBDA a, b : a < b)[n]
    IN  IF Said(i).type # "delete" /\ Said(i).old_end = k
        THEN FlattenSeq(Contents(i, ">")) ELSE << >>])

\* The text without the lines that are gone, and what is added after line k.
Patched == FlattenSeq([n \in 1 .. Len(LineEnds) + 1 |->
    LET k == n - 1
    IN  (IF k = 0 \/ Gone(k) THEN << >> ELSE Line(k)) \o Added(k)])

\* No byte looks like the end of a file.
Plain == /\ \A c \in HighBytes : ~Contains(text, c)
         /\ \A i \in DOMAIN diff, c \in HighBytes : ~Contains(diff[i], c)

-----------------------------------------------------------------------------

\* "If no error is reported, then it is guaranteed that the output is complete
\* and correct" (src/fliki.c:799-801), first half: when nothing is reported,
\* the sections of a well-shaped diff were as long as its headers say, in
\* order, and what was deleted was there.  Hunks that append behind lines
\* there are not, or delete lines before the first, are let through.
OnlyProperDiffsPass ==
    at = "done" /\ result = 0 /\ ~told /\ Plain /\ Complete /\ WellShaped
       /\ (\A i \in HunkLines : Said(i).type = "append" => Said(i).old_start <= Len(LineEnds))
       /\ (\A i \in HunkLines : Said(i).type # "append" => Said(i).old_start > 0)
    => NumbersFit /\ Ordered /\ LinesExist /\ Matches

\* Second half: a proper diff is applied without a report, and the output is
\* what the definition above makes of the text, although the program sees one
\* character of each at a time.
ProperDiffsApply ==
    at = "done" /\ Plain /\ Complete
       /\ WellShaped /\ NumbersFit /\ Ordered /\ LinesExist /\ Matches
    => result = 0 /\ ~told /\ out = Patched

=============================================================================
