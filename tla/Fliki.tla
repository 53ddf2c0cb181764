-------------------------------- MODULE Fliki --------------------------------
(***************************************************************************)
(* The patch filter of diff_parser (src/fliki.c): patch() applies a diff   *)
(* to a text while it reads both, one character of the diff at a time      *)
(* through hunk_next() and hunk_getc(), which keep what they know of the   *)
(* diff in static variables.                                               *)
(*                                                                         *)
(* Files are sequences of characters.  The numbers and the letter of a     *)
(* hunk's header are one character here, a key of Headers; the newline     *)
(* behind them is not part of it.  The diff is not known beforehand: its   *)
(* lines are made up as the program comes to read them.                    *)
(***************************************************************************)
EXTENDS Integers, Sequences, SequencesExt

CONSTANTS
    Headers,     \* from the characters that stand for headers to what they say
    Digits,      \* the characters that stand for digits without a header
    HighBytes,   \* the characters whose code is in 128 .. 254
    Lines,       \* the lines of which diffs are made
    Texts,       \* the texts to be patched
    MaxLines,    \* the length of a diff
    HUNK_MAX     \* the size of the buffers for error reports

Types == {"append", "delete", "change"}

ASSUME FlikiAssumption ==
    /\ \A c \in DOMAIN Headers : Headers[c] \in
          [type : Types, old_start : Nat, old_end : Nat, new_start : Nat, new_end : Nat]
    /\ Lines \subseteq Seq(STRING) /\ Texts \subseteq Seq(STRING)
    /\ MaxLines \in Nat
    /\ HUNK_MAX \in Nat /\ HUNK_MAX > 4

VARIABLES
    diff,       \* the lines of the diff made up so far
    ahead,      \* what the program has not read of the last of them
    ended,      \* the diff has no more lines
    reader,     \* the static variables of fliki.c, see NewReader
    at,         \* where patch() is
    hunk,       \* its local variables hunk, prevHunk.old_end, lineCount,
    prevEnd,    \*   firstTime
    lineCount,
    firstTime,
    count,      \* linesDeleted and linesAppended of the loop it is in
    text,       \* the text to be patched
    source,     \* what is not read of it yet
    out,        \* what was written to stdout
    result,     \* what patch() returned
    told        \* an error was reported

file == <<diff, ahead, ended>>
vars == <<diff, ahead, ended, reader, at, hunk, prevEnd, lineCount, firstTime,
          count, text, source, out, result, told>>

(***************************************************************************)
(* Characters.  A char is signed: end of file, the codes of hunk_getc()    *)
(* and every byte of 128 or more are negative.                             *)
(***************************************************************************)

Codes       == {"EOF", "ERR", "EOS"}
Negative(c) == c \in Codes \cup HighBytes
isDigit(c)  == c \in DOMAIN Headers \cup Digits

EmptyBuffer == [ptr |-> 0, count |-> 0, truncated |-> FALSE]
NoHunk      == [type |-> "change", old_start |-> 0, old_end |-> 0,
                new_start |-> 0, new_end |-> 0]

\* lastChar, errStatus, lastUsed, file_finished, addDelStatus, the pointers
\* into the buffers, with delsTrunc and addsTrunc; hunk_getc()'s result
NewReader ==
    [last |-> "", status |-> "", used |-> "none", finished |-> 0,
     section |-> "delete", got |-> "",
     buffer |-> [s \in {"delete", "append"} |-> EmptyBuffer]]

Init ==
    /\ diff = << >> /\ ahead = << >> /\ ended = FALSE
    /\ reader = NewReader
    /\ at = "next" /\ hunk = NoHunk
    /\ prevEnd = 0 /\ lineCount = 0 /\ firstTime = TRUE /\ count = 0
    /\ text \in Texts /\ source = text
    /\ out = << >> /\ result = 0 /\ told = FALSE

-----------------------------------------------------------------------------
(***************************************************************************)
(* The diff.                                                               *)
(***************************************************************************)

Reading == at \in {"next", "more", "skip", "delete", "append"}

\* The program comes to a line: there is one, or one without its newline that
\* is the last one, or none.
Arrive ==
    /\ Reading /\ ahead = << >> /\ ~ended
    /\ \/ /\ Len(diff) < MaxLines
          /\ \E line \in Lines :
                \/ ahead' = line /\ ended' = FALSE /\ diff' = Append(diff, line)
                \/ ahead' = Front(line) /\ ended' = TRUE
                   /\ diff' = Append(diff, Front(line))
       \/ ended' = TRUE /\ UNCHANGED <<diff, ahead>>
    /\ UNCHANGED <<text, reader, at, hunk, prevEnd, lineCount, firstTime, count,
                   source, out, result, told>>

CanRead == ahead # << >> \/ ended

\* The nth character from here on.
Peek(n) == IF n <= Len(ahead) THEN ahead[n] ELSE "EOF"

\* n characters are read.
Read(n) == /\ ahead' = SubSeq(ahead, n + 1, Len(ahead))
           /\ UNCHANGED <<diff, ended>>

-----------------------------------------------------------------------------
(***************************************************************************)
(* hunk_next().                                                            *)
(***************************************************************************)

\* The bounds of append and delete hunks that parseHeader() lets pass.
badNumbers(h) == \/ h.type = "append" /\ h.old_end # h.old_start
                 \/ h.type = "delete" /\ h.new_end # h.new_start

hunk_next_returns(status) ==
    /\ reader' = [reader EXCEPT !.used = "next", !.status = status]
    /\ at' = "hunk"

\* addsTrunc and delsTrunc are not reset.
freshBuffers(r) == [s \in DOMAIN r.buffer |->
                      [r.buffer[s] EXCEPT !.ptr = 0, !.count = 0]]

\* The rest of the line is none of a header's business.
Skips == at' = "skip" /\ reader' = [reader EXCEPT !.used = "next"]

\* A line that may be a header.  A newline where something else was expected is
\* read like anything else.
ParseHeader ==
    /\ at \in {"next", "more"} /\ CanRead /\ isDigit(Peek(1))
    /\ Read(2)
    /\ \/ /\ Peek(2) = "EOF" \/ (Peek(1) \in DOMAIN Headers /\ Negative(Peek(2)))
          /\ hunk_next_returns("EOF") /\ UNCHANGED hunk
       \/ /\ Peek(1) \in DOMAIN Headers /\ Peek(2) = "\n"
          /\ hunk' = Headers[Peek(1)]
          /\ at' = "hunk"
          /\ reader' = IF badNumbers(hunk')
               THEN [reader EXCEPT !.used = "next", !.last = "\n", !.status = "ERR"]
               ELSE [reader EXCEPT !.used = "next", !.last = "\n", !.status = "",
                        !.finished = 0, !.buffer = freshBuffers(reader)]
       \/ /\ Peek(2) # "EOF"
          /\ Peek(1) \in DOMAIN Headers => Peek(2) # "\n" /\ ~Negative(Peek(2))
          /\ Skips /\ UNCHANGED hunk
    /\ UNCHANGED <<text, prevEnd, lineCount, firstTime, count, source, out, result, told>>

\* A line that is none.  The first one may be anything.
SkipOther ==
    /\ at \in {"next", "more"} /\ CanRead /\ ~isDigit(Peek(1))
    /\ Read(1)
    /\ IF at = "more" /\ Peek(1) \notin {"<", ">", "-"}
       THEN hunk_next_returns("ERR") ELSE Skips
    /\ UNCHANGED <<text, hunk, prevEnd, lineCount, firstTime, count, source, out, result, told>>

\* advanceUntil() the end of the line, which may be that of the next one.
SkipLine ==
    /\ at = "skip" /\ CanRead
    /\ Read(Len(ahead))
    /\ IF Contains(ahead, "\n") /\ SelectInSeq(ahead, Negative) = 0
       THEN at' = "more" /\ UNCHANGED reader
       ELSE hunk_next_returns("EOF")
    /\ UNCHANGED <<text, hunk, prevEnd, lineCount, firstTime, count, source, out, result, told>>

-----------------------------------------------------------------------------
(***************************************************************************)
(* hunk_getc().                                                            *)
(***************************************************************************)

\* Variant: room is left for one byte only behind the data.
tightBuffer(b) == HUNK_MAX - b.ptr <= 1 \/ HUNK_MAX - b.count <= 2

\* No character is stored where two bytes, or a line's two bytes of length and
\* two more, do not fit.
fullBuffer(b) == HUNK_MAX - b.ptr <= 2 \/ HUNK_MAX - b.count <= 4

addToBuffer(b, c) ==
    IF fullBuffer(b) THEN [b EXCEPT !.truncated = TRUE]
    ELSE LET p == (IF b.count = b.ptr THEN b.ptr + 2 ELSE b.ptr) + 1
         IN  [b EXCEPT !.ptr = p, !.count = IF c = "\n" THEN p ELSE @]

\* The character c of the section is returned, the last one read.
gives(r, c, section) ==
    [r EXCEPT !.got = c, !.last = c, !.status = "", !.section = section,
              !.buffer[section] = addToBuffer(@, c)]

fails(r) == [r EXCEPT !.got = "ERR", !.status = "ERR"]

\* The section ends; n is the new file_finished, c the new lastChar.
sectionEnds(r, n, c) ==
    [r EXCEPT !.got = "EOS", !.status = "EOS", !.finished = n, !.last = c]

mayNotRead(r) ==
    \/ r.used = "getc" /\ r.status = "ERR"
    \/ r.used = "next" /\ r.status \in Codes
    \/ r.used = "none"
    \/ r.finished = 2

belongs(section) == hunk.type \in {section, "change"}

\* A line of data: its sign, a blank and its first character.
dataLine(r, section) ==
    IF ~belongs(section) \/ Peek(2) # " " \/ Negative(Peek(3)) THEN fails(r)
    ELSE gives(r, Peek(3), section)

\* What hunk_getc() makes of the reader.
hunk_getc ==
    LET r == [reader EXCEPT !.used = "getc"]
        c == Peek(1)
    IN  CASE mayNotRead(reader) -> fails(reader)
          [] ~mayNotRead(reader) /\ Negative(c) ->
                IF r.last = "\n" THEN sectionEnds(r, 2, c) ELSE fails(r)
          [] ~mayNotRead(reader) /\ ~Negative(c) /\ r.last # "\n" -> gives(r, c, r.section)
          [] OTHER ->
                CASE c = "<"    -> dataLine(r, "delete")
                  [] c = ">"    -> dataLine(r, "append")
                  [] isDigit(c) -> sectionEnds(r, 2, "\n")
                  [] c = "-"    -> IF /\ hunk.type = "change"
                                      /\ \A n \in 2 .. 3 : Peek(n) = "-"
                                      /\ Peek(4) = "\n"
                                   THEN sectionEnds(r, 1, "\n") ELSE fails(r)
                  [] OTHER      -> fails(r)

\* How many characters of the diff that takes: the digit of a header is put
\* back, and after an error nobody reads on.
taken ==
    LET c == Peek(1)
    IN  CASE mayNotRead(reader) \/ hunk_getc.got = "ERR"    -> 0
          [] ~mayNotRead(reader) /\ hunk_getc.got = "EOS"  ->
                IF c = "-" THEN 4 ELSE IF isDigit(c) THEN 0 ELSE 1
          [] OTHER -> IF reader.last = "\n" THEN 3 ELSE 1

Getc == CanRead /\ reader' = hunk_getc /\ Read(taken)

-----------------------------------------------------------------------------
(***************************************************************************)
(* patch().                                                                *)
(***************************************************************************)

\* outputError() and return -1
Refuse == at' = "done" /\ result' = -1 /\ told' = TRUE

OutOfOrder == \/ ~firstTime /\ prevEnd >= hunk.old_start
              \/ hunk.old_end < hunk.old_start
              \/ hunk.new_end < hunk.new_start

\* The head of the loop; an error of hunk_next() is reported, and the text is
\* copied to its end like after the last hunk.
Hunk ==
    /\ at = "hunk"
    /\ IF reader.status \in Codes
       THEN /\ at' = "rest" /\ told' = (reader.status = "ERR")
            /\ UNCHANGED <<firstTime, result>>
       ELSE IF OutOfOrder THEN Refuse /\ UNCHANGED firstTime
       ELSE at' = "pass" /\ firstTime' = FALSE /\ UNCHANGED <<result, told>>
    /\ count' = 0
    /\ UNCHANGED <<text, file, reader, hunk, prevEnd, lineCount, source, out>>

\* outUntilFound(): the characters up to a newline or a negative one are
\* written, and that one too.  It becomes lastChar, as if it were of the diff.
lineStops(c) == c = "\n" \/ Negative(c)

PassLine ==
    LET n == SelectInSeq(source, lineStops)
        line == IF n = 0 THEN source \o <<"EOF">> ELSE SubSeq(source, 1, n)
    IN  /\ out' = out \o line
        /\ source' = SubSeq(source, Len(line) + 1, Len(source))
        /\ reader' = [reader EXCEPT !.last = Last(line)]

\* Variant: one line is passed less.
oneLineLess == hunk.old_start - 1

\* The line the loop before a hunk goes up to.
lastLine == IF hunk.type = "append" THEN hunk.old_start + 1 ELSE hunk.old_start

\* Lines count from 1 once there is one to count.
current == IF lineCount = 0 THEN 1 ELSE lineCount

\* The lines before the hunk are copied.
Pass ==
    /\ at = "pass"
    /\ \/ /\ current < lastLine
          /\ PassLine /\ lineCount' = current + 1 /\ UNCHANGED at
       \/ /\ current >= lastLine
          /\ lineCount' = current
          /\ at' = IF hunk.type = "append" THEN "append" ELSE "delete"
          /\ UNCHANGED <<source, out, reader>>
    /\ UNCHANGED <<text, file, hunk, prevEnd, firstTime, count, result, told>>

\* Variant: a hunk with a line too many is applied.
noMore(lines) == FALSE

enough(lines) == count = lines
toDelete == hunk.old_end - hunk.old_start + 1
toAppend == hunk.new_end - hunk.new_start + 1

NextSource == IF source = << >> THEN "EOF" ELSE Head(source)

\* One character of deleteLines().
Delete ==
    /\ at = "delete" /\ Getc
    /\ LET c == reader'.got
       IN  IF c \notin Codes
           THEN IF enough(toDelete) \/ c # NextSource
                THEN Refuse /\ UNCHANGED <<lineCount, count, source>>
                ELSE /\ source' = Tail(source)
                     /\ count' = IF c = "\n" THEN count + 1 ELSE count
                     /\ UNCHANGED <<at, lineCount, result, told>>
           ELSE IF c = "ERR" \/ count < toDelete
                THEN Refuse /\ UNCHANGED <<lineCount, count, source>>
                ELSE /\ lineCount' = lineCount + count
                     /\ count' = 0
                     /\ at' = IF hunk.type = "change" THEN "append" ELSE "next"
                     /\ UNCHANGED <<source, result, told>>
    /\ prevEnd' = IF at' = "next" THEN hunk.old_end ELSE prevEnd
    /\ UNCHANGED <<text, hunk, firstTime, out>>

\* One character of appendLines().
AppendChar ==
    /\ at = "append" /\ Getc
    /\ LET c == reader'.got
       IN  IF c \notin Codes
           THEN IF enough(toAppend) THEN Refuse /\ UNCHANGED <<count, out>>
                ELSE /\ out' = Append(out, c)
                     /\ count' = IF c = "\n" THEN count + 1 ELSE count
                     /\ UNCHANGED <<at, result, told>>
           ELSE IF c = "ERR" \/ count # toAppend THEN Refuse /\ UNCHANGED <<count, out>>
                ELSE at' = "next" /\ UNCHANGED <<count, out, result, told>>
    /\ prevEnd' = IF at' = "next" THEN hunk.old_end ELSE prevEnd
    /\ UNCHANGED <<text, hunk, lineCount, firstTime, source>>

\* What is left of the text, up to its end or a byte taken for it.
Rest ==
    /\ at = "rest"
    /\ LET n == SelectInSeq(source, Negative)
       IN  out' = out \o (IF n = 0 THEN source ELSE SubSeq(source, 1, n - 1))
    /\ source' = << >>
    /\ at' = "done"
    /\ UNCHANGED <<text, file, reader, hunk, prevEnd, lineCount, firstTime, count, result, told>>

Next ==
    \/ Arrive
    \/ ParseHeader \/ SkipOther \/ SkipLine
    \/ Hunk \/ Pass \/ Delete \/ AppendChar \/ Rest

Spec == Init /\ [][Next]_vars

=============================================================================
