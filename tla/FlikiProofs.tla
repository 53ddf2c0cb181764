------------------------------ MODULE FlikiProofs ------------------------------
(***************************************************************************)
(* Proofs about the patch filter of diff_parser, for any headers, texts,   *)
(* diffs and sizes of the buffers for error reports.                       *)
(***************************************************************************)
EXTENDS FlikiProperties, WellFoundedInduction, SequenceTheorems, TLAPS

(***************************************************************************)
(* What the variables hold.                                                *)
(***************************************************************************)

Sections == {"delete", "append"}
BufferShape == [ptr : Nat, count : Nat, truncated : BOOLEAN]
HunkShape ==
    [type : Types, old_start : Nat, old_end : Nat, new_start : Nat, new_end : Nat]
States == {"next", "more", "skip", "hunk", "pass", "delete", "append", "rest", "done"}

\* There is room for two bytes more behind the data, and the data of the line that is
\* being read begins at count.
Fits(b) == b \in BufferShape /\ b.ptr <= HUNK_MAX - 2 /\ b.count <= b.ptr
ReaderOK(r) ==
    /\ DOMAIN r = {"last", "status", "used", "finished", "section", "got", "buffer"}
    /\ r.status \in Codes \cup {""} /\ r.used \in {"none", "next", "getc"}
    /\ r.finished \in 0 .. 2 /\ r.section \in Sections
    /\ DOMAIN r.buffer = Sections /\ \A s \in Sections : Fits(r.buffer[s])

\* s is what is left of t when it is read from front to back.
Left(s, t) ==
    /\ s \in Seq(STRING) /\ t \in Seq(STRING) /\ Len(s) <= Len(t)
    /\ \A i \in 1 .. Len(s) : s[i] = t[Len(t) - Len(s) + i]
Shape ==
    /\ at \in States /\ ReaderOK(reader) /\ hunk \in HunkShape
    /\ lineCount \in Nat /\ count \in Nat /\ prevEnd \in Nat
    /\ diff \in Seq(Seq(STRING)) /\ Len(diff) <= MaxLines
    /\ Left(source, text) /\ result \in {0, -1} /\ told \in BOOLEAN

(***************************************************************************)
(* Sequences.                                                              *)
(***************************************************************************)

\* What is left to read is a suffix.
LEMMA LeftIsSuffix ==
    ASSUME NEW s, NEW t, Left(s, t)
    PROVE  IsSuffix(s, t)
<1>1. PICK m, n \in Nat : m = Len(s) /\ n = Len(t) /\ m <= n
  BY DEF Left
<1>2. PICK a, b : a = [i \in 1 .. m |-> s[m - i + 1]] /\ b = [i \in 1 .. n |-> t[n - i + 1]]
  OBVIOUS
<1>3. a \in Seq(STRING) /\ Len(a) = m /\ b \in Seq(STRING) /\ Len(b) = n
  <2>1. \A i \in 1 .. m : s[m - i + 1] \in STRING
    BY <1>1 DEF Left
  <2>2. \A i \in 1 .. n : t[n - i + 1] \in STRING
    BY <1>1 DEF Left
  <2> QED
    BY <1>1, <1>2, <2>1, <2>2
<1>4. \A i \in 1 .. m : a[i] = b[i]
  <2> SUFFICES ASSUME NEW i \in 1 .. m PROVE s[m - i + 1] = t[n - i + 1]
    BY <1>1, <1>2
  <2>1. m - i + 1 \in 1 .. m /\ n - m + (m - i + 1) = n - i + 1
    BY <1>1
  <2> QED
    BY <1>1, <2>1 DEF Left
<1>5. SubSeq(a, 1, m) = SubSeq(b, 1, m)
  <2>1. /\ SubSeq(a, 1, m) \in Seq(STRING) /\ Len(SubSeq(a, 1, m)) = m
        /\ SubSeq(b, 1, m) \in Seq(STRING) /\ Len(SubSeq(b, 1, m)) = m
        /\ \A i \in 1 .. m : SubSeq(a, 1, m)[i] = a[i] /\ SubSeq(b, 1, m)[i] = b[i]
    BY <1>1, <1>3
  <2> QED
    BY <1>4, <2>1, SeqEqual
<1>6. Reverse(s) = a /\ Reverse(t) = b
  BY <1>1, <1>2 DEF Reverse
<1> QED
  BY <1>1, <1>3, <1>5, <1>6 DEF IsSuffix, IsPrefix

\* It stays one when some of it is read.
LEMMA LeftGoesOn ==
    ASSUME NEW s, NEW t, Left(s, t), NEW n \in Nat \ {0}
    PROVE  Left(SubSeq(s, n, Len(s)), t)
<1>1. s \in Seq(STRING) /\ Len(s) \in Nat /\ t \in Seq(STRING) /\ Len(t) \in Nat
  BY DEF Left
<1>2. CASE n > Len(s)
  <2>1. SubSeq(s, n, Len(s)) = << >>
    BY <1>1, <1>2
  <2>2. << >> \in Seq(STRING) /\ Len(<< >>) = 0
    OBVIOUS
  <2> QED
    BY <1>1, <2>1, <2>2 DEF Left
<1>3. CASE n <= Len(s)
  <2>1. PICK r : r = SubSeq(s, n, Len(s))
    OBVIOUS
  <2>2. /\ r \in Seq(STRING) /\ Len(r) = Len(s) - n + 1
        /\ \A i \in 1 .. Len(r) : r[i] = s[n + i - 1]
    BY <1>1, <1>3, <2>1
  <2>3. ASSUME NEW i \in 1 .. Len(r) PROVE r[i] = t[Len(t) - Len(r) + i]
    <3>1. n + i - 1 \in 1 .. Len(s) /\ Len(t) - Len(s) + (n + i - 1) = Len(t) - Len(r) + i
      BY <1>1, <1>3, <2>2, <2>3
    <3> QED
      BY <2>2, <3>1 DEF Left
  <2> QED
    BY <1>1, <2>1, <2>2, <2>3 DEF Left
<1> QED
  BY <1>1, <1>2, <1>3

LEMMA LeftTail ==
    ASSUME NEW s, NEW t, Left(s, t), s # << >>
    PROVE  Left(Tail(s), t)
<1>1. s \in Seq(STRING) /\ Tail(s) = SubSeq(s, 2, Len(s))
  BY DEF Left
<1>2. PICK n \in Nat \ {0} : n = 2
  OBVIOUS
<1>3. Left(SubSeq(s, n, Len(s)), t)
  BY LeftGoesOn
<1> QED
  BY <1>1, <1>2, <1>3

(***************************************************************************)
(* The reader.                                                             *)
(***************************************************************************)

\* A character is stored only where two bytes behind it fit (src/fliki.c:39-102).
LEMMA BufferKeepsRoom ==
    ASSUME NEW b, Fits(b), NEW c
    PROVE  Fits(addToBuffer(b, c))
<1>1. b \in BufferShape /\ b.ptr \in Nat /\ b.count \in Nat /\ HUNK_MAX \in Nat
  BY FlikiAssumption DEF Fits, BufferShape
<1>2. CASE fullBuffer(b)
  <2>1. addToBuffer(b, c) = [b EXCEPT !.truncated = TRUE]
    BY <1>2 DEF addToBuffer
  <2> QED
    BY <1>1, <2>1 DEF Fits, BufferShape
<1>3. CASE ~fullBuffer(b)
  <2>1. PICK p \in Nat : /\ p = (IF b.count = b.ptr THEN b.ptr + 2 ELSE b.ptr) + 1
                         /\ p <= HUNK_MAX - 2 /\ b.count <= p
    BY <1>1, <1>3 DEF Fits, fullBuffer
  <2>2. addToBuffer(b, c) = [b EXCEPT !.ptr = p, !.count = IF c = "\n" THEN p ELSE @]
    BY <1>3, <2>1 DEF addToBuffer
  <2>3. PICK q \in Nat : q = (IF c = "\n" THEN p ELSE b.count) /\ q <= p
    BY <1>1, <2>1
  <2>4. addToBuffer(b, c) = [b EXCEPT !.ptr = p, !.count = q]
    BY <1>1, <2>2, <2>3 DEF BufferShape
  <2> QED
    BY <1>1, <2>1, <2>3, <2>4 DEF Fits, BufferShape
<1> QED
  BY <1>2, <1>3

\* The ways hunk_getc() returns.
LEMMA GivesKeeps ==
    ASSUME NEW r, ReaderOK(r), NEW c, NEW section \in Sections
    PROVE  ReaderOK(gives(r, c, section))
<1>1. PICK b : b = addToBuffer(r.buffer[section], c) /\ Fits(b)
  BY BufferKeepsRoom DEF ReaderOK
<1>2. PICK g : g = [r.buffer EXCEPT ![section] = b]
  OBVIOUS
<1>3. DOMAIN g = Sections /\ \A s \in Sections : Fits(g[s])
  BY <1>1, <1>2 DEF ReaderOK
<1>4. gives(r, c, section)
        = [r EXCEPT !.got = c, !.last = c, !.status = "", !.section = section, !.buffer = g]
  BY <1>1, <1>2 DEF gives
<1> QED
  BY <1>3, <1>4 DEF ReaderOK

LEMMA FailsKeeps ==
    ASSUME NEW r, ReaderOK(r)
    PROVE  ReaderOK(fails(r))
BY DEF ReaderOK, fails, Codes

LEMMA SectionEndsKeeps ==
    ASSUME NEW r, ReaderOK(r), NEW n \in 0 .. 2, NEW c
    PROVE  ReaderOK(sectionEnds(r, n, c))
BY DEF ReaderOK, sectionEnds, Codes

LEMMA DataLineKeeps ==
    ASSUME NEW r, ReaderOK(r), NEW section \in Sections
    PROVE  ReaderOK(dataLine(r, section))
BY GivesKeeps, FailsKeeps DEF dataLine

LEMMA GetcKeeps ==
    ASSUME ReaderOK(reader)
    PROVE  ReaderOK(hunk_getc)
<1>1. PICK r : r = [reader EXCEPT !.used = "getc"]
  OBVIOUS
<1>2. ReaderOK(r)
  BY <1>1 DEF ReaderOK
<1>3. PICK c : c = Peek(1)
  OBVIOUS
<1>4. CASE mayNotRead(reader)
  <2>1. hunk_getc = fails(reader)
    BY <1>4 DEF hunk_getc
  <2> QED
    BY <2>1, FailsKeeps
<1>5. CASE ~mayNotRead(reader)
  <2>1. hunk_getc \in {fails(r), sectionEnds(r, 2, c), sectionEnds(r, 1, "\n"),
                       sectionEnds(r, 2, "\n"), gives(r, c, r.section), dataLine(r, "delete"),
                       dataLine(r, "append")}
    BY <1>1, <1>3, <1>5 DEF hunk_getc
  <2>2. r.section \in Sections /\ "delete" \in Sections /\ "append" \in Sections
    BY <1>2 DEF ReaderOK, Sections
  <2>3. ReaderOK(sectionEnds(r, 2, c)) /\ ReaderOK(sectionEnds(r, 1, "\n"))
        /\ ReaderOK(sectionEnds(r, 2, "\n"))
    <3>1. PICK one \in 0 .. 2, two \in 0 .. 2 : one = 1 /\ two = 2
      OBVIOUS
    <3>2. ReaderOK(sectionEnds(r, two, c)) /\ ReaderOK(sectionEnds(r, one, "\n"))
          /\ ReaderOK(sectionEnds(r, two, "\n"))
      BY <1>2, SectionEndsKeeps
    <3> QED
      BY <3>1, <3>2
  <2>4. ReaderOK(fails(r)) /\ ReaderOK(gives(r, c, r.section))
    BY <1>2, <2>2, FailsKeeps, GivesKeeps
  <2>5. ReaderOK(dataLine(r, "delete")) /\ ReaderOK(dataLine(r, "append"))
    BY <1>2, <2>2, DataLineKeeps
  <2> QED
    BY <2>1, <2>3, <2>4, <2>5
<1> QED
  BY <1>4, <1>5

(***************************************************************************)
(* Every step keeps the shape.                                             *)
(***************************************************************************)

\* The least number of a set, which Min() is.
LEMMA MinIsIn ==
    ASSUME NEW S, S \subseteq Nat, S # {}
    PROVE  Min(S) \in S
<1>1. PICK i \in S : \A j \in S : <<j, i>> \notin OpToRel(<, Nat)
  BY NatLessThanWellFounded, WFMin
<1>2. \A j \in S : ~(j < i)
  BY <1>1 DEF OpToRel
<1>3. \A j \in S : i <= j
  BY <1>2
<1> QED
  BY <1>3 DEF Min

\* The line ends where the text is left.
LEMMA StopIsIn ==
    ASSUME NEW s, s \in Seq(STRING)
    PROVE  SelectInSeq(s, lineStops) \in 0 .. Len(s)
<1> DEFINE I == {i \in 1 .. Len(s) : lineStops(s[i])}
<1>1. SelectInSeq(s, lineStops) = IF I # {} THEN Min(I) ELSE 0
  BY DEF SelectInSeq
<1>2. I \subseteq Nat /\ (I # {} => Min(I) \in I)
  <2>1. I \subseteq Nat
    OBVIOUS
  <2> HIDE DEF I
  <2> QED
    BY <2>1, MinIsIn
<1> QED
  BY <1>1, <1>2

LEMMA ShapeInit == Init => Shape
<1> SUFFICES ASSUME Init PROVE Shape
  OBVIOUS
<1>1. ReaderOK(reader)
  <2>1. Fits(EmptyBuffer)
    BY FlikiAssumption DEF EmptyBuffer, Fits, BufferShape
  <2>2. PICK g : g = [s \in Sections |-> EmptyBuffer]
    OBVIOUS
  <2>3. reader = [last |-> "", status |-> "", used |-> "none", finished |-> 0,
                  section |-> "delete", got |-> "", buffer |-> g]
    BY <2>2 DEF Init, NewReader, Sections
  <2>4. DOMAIN g = Sections /\ \A s \in Sections : Fits(g[s])
    BY <2>1, <2>2
  <2>5. DOMAIN reader = {"last", "status", "used", "finished", "section", "got", "buffer"}
    BY <2>3
  <2>6. /\ reader.status = "" /\ reader.used = "none" /\ reader.finished = 0
        /\ reader.section = "delete" /\ reader.buffer = g
    BY <2>3
  <2>7. "delete" \in Sections /\ 0 \in 0 .. 2
    BY DEF Sections
  <2> QED
    BY <2>4, <2>5, <2>6, <2>7 DEF ReaderOK
<1>2. hunk \in HunkShape
  BY DEF Init, NoHunk, HunkShape, Types
<1>3. Left(source, text)
  BY FlikiAssumption DEF Init, Left
<1>4. /\ diff = << >> /\ at = "next" /\ lineCount = 0 /\ count = 0 /\ prevEnd = 0 /\ result = 0
      /\ told = FALSE
  BY DEF Init
<1>5. diff \in Seq(Seq(STRING)) /\ Len(diff) <= MaxLines
  <2>1. << >> \in Seq(Seq(STRING)) /\ Len(<< >>) = 0
    OBVIOUS
  <2> QED
    BY <1>4, <2>1, FlikiAssumption
<1>6. at \in States /\ result \in {0, -1} /\ told \in BOOLEAN
  BY <1>4 DEF States
<1>7. lineCount \in Nat /\ count \in Nat /\ prevEnd \in Nat
  BY <1>4
<1> QED
  BY <1>1, <1>2, <1>3, <1>5, <1>6, <1>7 DEF Shape

\* Reading the diff, and a header of it (src/fliki.c:128-333).
LEMMA HeaderKeeps ==
    ASSUME Shape, Arrive \/ ParseHeader \/ SkipOther \/ SkipLine
    PROVE  Shape'
<1>1. CASE Arrive
  <2>1. diff' \in Seq(Seq(STRING)) /\ Len(diff') <= MaxLines
    <3>1. CASE Len(diff) < MaxLines /\ \E line \in Lines :
                 diff' = Append(diff, line) \/ diff' = Append(diff, Front(line))
      <4>1. PICK line \in Lines : diff' = Append(diff, line) \/ diff' = Append(diff, Front(line))
        BY <3>1
      <4>2. line \in Seq(STRING) /\ Front(line) \in Seq(STRING)
        BY FlikiAssumption DEF Front
      <4>3. PICK x \in Seq(STRING) : diff' = Append(diff, x)
        BY <4>1, <4>2
      <4>4. diff \in Seq(Seq(STRING)) /\ Len(diff) \in Nat
        BY DEF Shape
      <4>5. diff' \in Seq(Seq(STRING)) /\ Len(diff') = Len(diff) + 1
        BY <4>3, <4>4, AppendProperties
      <4> QED
        BY <3>1, <4>4, <4>5, FlikiAssumption
    <3>2. CASE diff' = diff
      BY <3>2 DEF Shape
    <3> QED
      BY <1>1, <3>1, <3>2 DEF Arrive
  <2> QED
    BY <1>1, <2>1 DEF Arrive, Shape
<1>2. CASE ParseHeader
  <2>1. hunk' \in HunkShape
    BY <1>2, FlikiAssumption DEF ParseHeader, Shape, HunkShape
  <2>2. ReaderOK(reader')
    <3>1. ReaderOK(reader)
      BY DEF Shape
    <3>2. PICK g : g = freshBuffers(reader)
      OBVIOUS
    <3>3. DOMAIN g = Sections /\ \A s \in Sections : Fits(g[s])
      <4>1. DOMAIN g = Sections
        BY <3>1, <3>2 DEF freshBuffers, ReaderOK
      <4>3. 0 <= HUNK_MAX - 2
        BY FlikiAssumption
      <4>2. ASSUME NEW s \in Sections PROVE Fits(g[s])
        <5>1. Fits(reader.buffer[s]) /\ g[s] = [reader.buffer[s] EXCEPT !.ptr = 0, !.count = 0]
          BY <3>1, <3>2 DEF freshBuffers, ReaderOK
        <5> QED
          <6>1. PICK b \in BufferShape : b = reader.buffer[s]
            BY <5>1 DEF Fits
          <6>2. g[s] = [b EXCEPT !.ptr = 0, !.count = 0]
            BY <5>1, <6>1
          <6>3. g[s] \in BufferShape /\ g[s].ptr = 0 /\ g[s].count = 0
            <7>1. PICK z \in Nat : z = 0
              OBVIOUS
            <7>2. PICK x : x = [b EXCEPT !.ptr = z, !.count = z]
              OBVIOUS
            <7>3. x \in BufferShape /\ x.ptr = z /\ x.count = z
              BY <6>1, <7>2 DEF BufferShape
            <7> QED
              BY <6>2, <7>1, <7>2, <7>3
          <6> QED
            BY <4>3, <6>3 DEF Fits
      <4> QED
        BY <4>1, <4>2
    <3>4. \/ \E x : x \in {"EOF"} /\ reader' = [reader EXCEPT !.used = "next", !.status = x]
          \/ reader' = [reader EXCEPT !.used = "next", !.last = "\n", !.status = "ERR"]
          \/ reader' = [reader EXCEPT !.used = "next", !.last = "\n", !.status = "",
                          !.finished = 0, !.buffer = g]
          \/ reader' = [reader EXCEPT !.used = "next"]
      BY <1>2, <3>2 DEF ParseHeader, hunk_next_returns, Skips
    <3>5. CASE \E x : x \in {"EOF"} /\ reader' = [reader EXCEPT !.used = "next", !.status = x]
      BY <3>1, <3>5 DEF ReaderOK, Codes
    <3>6. CASE \/ reader' = [reader EXCEPT !.used = "next", !.last = "\n", !.status = "ERR"]
               \/ reader' = [reader EXCEPT !.used = "next"]
      BY <3>1, <3>6 DEF ReaderOK, Codes
    <3>7. CASE reader' = [reader EXCEPT !.used = "next", !.last = "\n", !.status = "",
                            !.finished = 0, !.buffer = g]
      <4>1. PICK z \in 0 .. 2 : z = 0
        OBVIOUS
      <4>2. reader' = [reader EXCEPT !.used = "next", !.last = "\n", !.status = "",
                         !.finished = z, !.buffer = g]
        BY <3>7, <4>1
      <4> QED
        BY <3>1, <3>3, <4>2 DEF ReaderOK
    <3> QED
      BY <3>4, <3>5, <3>6, <3>7
  <2>3. at' \in States
    BY <1>2 DEF ParseHeader, hunk_next_returns, Skips, States
  <2> QED
    BY <1>2, <2>1, <2>2, <2>3 DEF ParseHeader, Read, Shape
<1>3. CASE SkipOther \/ SkipLine
  <2>1. ReaderOK(reader')
    <3>1. ReaderOK(reader)
      BY DEF Shape
    <3>2. \/ \E x \in {"EOF", "ERR"} : reader' = [reader EXCEPT !.used = "next", !.status = x]
          \/ reader' = [reader EXCEPT !.used = "next"]
          \/ reader' = reader
      BY <1>3 DEF SkipOther, SkipLine, hunk_next_returns, Skips
    <3> QED
      BY <3>1, <3>2 DEF ReaderOK, Codes
  <2>2. at' \in States
    BY <1>3 DEF SkipOther, SkipLine, hunk_next_returns, Skips, States
  <2> QED
    BY <1>3, <2>1, <2>2 DEF SkipOther, SkipLine, Read, Shape
<1> QED
  BY <1>1, <1>2, <1>3

\* The text is read on (src/fliki.c:335-368).
LEMMA PassKeeps ==
    ASSUME Shape, Hunk \/ Pass \/ Rest
    PROVE  Shape'
<1>1. CASE Hunk
  BY <1>1 DEF Hunk, Refuse, Shape, States, file
<1>2. CASE Pass
  <2>1. lineCount' \in Nat /\ at' \in States
    BY <1>2 DEF Pass, current, Shape, States
  <2>2. ReaderOK(reader') /\ Left(source', text)
    <3>1. CASE PassLine
      <4>1. PICK n \in Nat : n = SelectInSeq(source, lineStops) /\ n <= Len(source)
        BY StopIsIn DEF Shape, Left
      <4>2. PICK line : /\ line = IF n = 0 THEN source \o <<"EOF">> ELSE SubSeq(source, 1, n)
                        /\ source' = SubSeq(source, Len(line) + 1, Len(source))
                        /\ reader' = [reader EXCEPT !.last = Last(line)]
        BY <3>1, <4>1 DEF PassLine
      <4>3. Len(line) \in Nat
        BY <4>1, <4>2 DEF Shape, Left
      <4>4. PICK k \in Nat \ {0} : k = Len(line) + 1
        BY <4>3
      <4>5. Left(SubSeq(source, k, Len(source)), text)
        BY LeftGoesOn DEF Shape
      <4> QED
        BY <4>2, <4>4, <4>5 DEF Shape, ReaderOK
    <3> QED
      BY <1>2, <3>1 DEF Pass, Shape
  <2> QED
    BY <1>2, <2>1, <2>2 DEF Pass, Shape, file
<1>3. CASE Rest
  <2>1. Left(<< >>, text)
    BY DEF Shape, Left
  <2> QED
    BY <1>3, <2>1 DEF Rest, Shape, States, file
<1> QED
  BY <1>1, <1>2, <1>3

\* The sections of a hunk (src/fliki.c:387-560, 674-755).
LEMMA SectionsKeep ==
    ASSUME Shape, Delete \/ AppendChar
    PROVE  Shape'
<1>1. ReaderOK(reader') /\ UNCHANGED <<diff, ended>>
  BY GetcKeeps DEF Shape, Delete, AppendChar, Getc, Read
<1>2. CASE Delete
  <2>1. PICK c : c = reader'.got
    OBVIOUS
  <2>2. Left(source', text)
    <3>1. CASE source' = source
      BY <3>1 DEF Shape
    <3>2. CASE c \notin Codes /\ c = NextSource /\ source' = Tail(source)
      <4>1. source # << >>
        BY <3>2 DEF NextSource, Codes
      <4> QED
        BY <3>2, <4>1, LeftTail DEF Shape
    <3> QED
      BY <1>2, <2>1, <3>1, <3>2 DEF Delete, Refuse
  <2>3. at' \in States /\ result' \in {0, -1} /\ told' \in BOOLEAN
    BY <1>2 DEF Delete, Refuse, Shape, States
  <2>4. lineCount' \in Nat /\ count' \in Nat
    BY <1>2 DEF Delete, Shape
  <2>5. prevEnd' \in Nat
    BY <1>2 DEF Delete, Shape, HunkShape
  <2> QED
    BY <1>1, <1>2, <2>2, <2>3, <2>4, <2>5 DEF Delete, Shape
<1>3. CASE AppendChar
  <2>1. at' \in States /\ result' \in {0, -1} /\ told' \in BOOLEAN
    BY <1>3 DEF AppendChar, Refuse, Shape, States
  <2>2. count' \in Nat
    BY <1>3 DEF AppendChar, Shape
  <2>3. prevEnd' \in Nat
    BY <1>3 DEF AppendChar, Shape, HunkShape
  <2> QED
    BY <1>1, <1>3, <2>1, <2>2, <2>3 DEF AppendChar, Shape
<1> QED
  BY <1>2, <1>3

LEMMA ShapeNext == Shape /\ [Next]_vars => Shape'
<1> SUFFICES ASSUME Shape, [Next]_vars PROVE Shape'
  OBVIOUS
<1>1. CASE UNCHANGED vars
  BY <1>1 DEF vars, Shape
<1> QED
  BY <1>1, HeaderKeeps, PassKeeps, SectionsKeep DEF Next

\* Whatever diff arrives, there is room for the two bytes that end a report behind the
\* data in each buffer, and what is left of the text is a suffix of it: nothing is read
\* twice or past its end (src/fliki.c:39-102, 335-368, 613, 630).
THEOREM BuffersHold == Spec => []TypeOK
<1>1. Shape => TypeOK
  <2> SUFFICES ASSUME Shape PROVE TypeOK
    OBVIOUS
  <2>1. ASSUME NEW s \in Sections
        PROVE  /\ reader.buffer[s].ptr \in 0 .. HUNK_MAX - 2
               /\ reader.buffer[s].count \in 0 .. reader.buffer[s].ptr
    <3>1. Fits(reader.buffer[s])
      BY DEF Shape, ReaderOK
    <3> QED
      BY <3>1, FlikiAssumption DEF Fits, BufferShape
  <2>2. IsSuffix(source, text)
    BY LeftIsSuffix DEF Shape
  <2> QED
    BY <2>1, <2>2 DEF TypeOK, Shape, States, ReaderOK, Sections
<1> QED
  BY <1>1, ShapeInit, ShapeNext, PTL DEF Spec
=============================================================================
