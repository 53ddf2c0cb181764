-------------------------------- MODULE MCPatch --------------------------------
(***************************************************************************)
(* Runs of patch for TLC: two versions of a text, what diff says about     *)
(* them, and what patch is asked to do with it.                            *)
(***************************************************************************)
EXTENDS PatchProperties, TLC

CONSTANT MaxEdits   \* the length of the edits that are taken in full

Words == {"a", "b"}
AllTexts == {"", "a", "a ", "b", "x"}
Squeezed == [t \in AllTexts |-> IF t = "a " THEN "a" ELSE t]
NameLength == [f \in Files |-> IF f = "f" THEN 1 ELSE 2]

-------------------------------------------------------------------------------
(***************************************************************************)
(* Edits, and the diffs that describe them.                                *)
(***************************************************************************)

Keep(t) == [k |-> "keep", t |-> t]
Del(t) == [k |-> "del", t |-> t]
Add(t) == [k |-> "add", t |-> t]
EditsOf(n) == [1..n -> {Keep(t) : t \in Words} \cup {Del("a"), Del("b"), Add("a"), Add("b")}]
\* Deletions come before additions, as in the output of diff.
Ordered(e) == \A i \in 1..Len(e) - 1 : ~(e[i].k = "add" /\ e[i + 1].k = "del")
Changes(e) == \E i \in DOMAIN e : e[i].k # "keep"

Pick(e, kinds) == LET Test(x) == x.k \in kinds IN SelectSeq(e, Test)
TextOf(e) == [i \in DOMAIN e |-> e[i].t]
OldOf(e) == TextOf(Pick(e, {"keep", "del"}))
NewOf(e) == TextOf(Pick(e, {"keep", "add"}))

\* The maximal intervals of a set of places in e, in their order.
Intervals(e, I) ==
  LET Begins(i) == i \in I /\ i - 1 \notin I
      Closes(i) == i \in I /\ i + 1 \notin I
      numbers == [i \in DOMAIN e |-> i]
      starts == SelectSeq(numbers, Begins)
      ends == SelectSeq(numbers, Closes) IN
    [n \in DOMAIN starts |-> <<starts[n], ends[n]>>]
Changed(e) == {i \in DOMAIN e : e[i].k # "keep"}
OldBefore(e, i) == Len(OldOf(SubSeq(e, 1, i - 1)))
NewBefore(e, i) == Len(NewOf(SubSeq(e, 1, i - 1)))
Mapped(Op(_), s) == [n \in DOMAIN s |-> Op(s[n])]

\* The sign of a line in a context diff.
ChangeAround(e, i) ==
  CHOOSE r \in {Intervals(e, Changed(e))[n] : n \in DOMAIN Intervals(e, Changed(e))} : r[1] <= i /\ i <= r[2]
SignAt(e, i) ==
  IF e[i].k = "keep" THEN " "
  ELSE IF Cardinality({e[j].k : j \in ChangeAround(e, i)[1]..ChangeAround(e, i)[2]}) = 2 THEN "!"
  ELSE IF e[i].k = "del" THEN "-" ELSE "+"
Marked(e) == [i \in DOMAIN e |-> [k |-> SignAt(e, i), t |-> e[i].t, was |-> e[i].k]]

Header(k, f, l) == [k |-> k, name |-> NULL, f |-> f, l |-> l]
HunkFor(e, m, r) ==
  LET part == SubSeq(m, r[1], r[2])
      IsOld(x) == x.was # "add"
      IsNew(x) == x.was # "del"
      Bare(x) == [k |-> x.k, t |-> x.t]
      old == Mapped(Bare, SelectSeq(part, IsOld))
      new == Mapped(Bare, SelectSeq(part, IsNew)) IN
    <<[k |-> "stars"], Header("***", OldBefore(e, r[1]) + 1, OldBefore(e, r[1]) + Len(old))>>
    \o old
    \o <<Header("---", NewBefore(e, r[1]) + 1, NewBefore(e, r[1]) + Len(new))>>
    \o new
ContextDiff(e) ==
  LET near == {i \in DOMAIN e : {i - 1, i, i + 1} \cap Changed(e) # {}}
      OfRange(r) == HunkFor(e, Marked(e), r) IN
    FlattenSeq(Mapped(OfRange, Intervals(e, near)))

Command(e, r) ==
  LET part == SubSeq(e, r[1], r[2])
      dels == Len(Pick(part, {"del"}))
      adds == Len(Pick(part, {"add"}))
      f == OldBefore(e, r[1])
      nf == NewBefore(e, r[1]) IN
    [k |-> "cmd", op |-> IF dels = 0 THEN "a" ELSE IF adds = 0 THEN "d" ELSE "c",
     f |-> IF dels = 0 THEN f ELSE f + 1, l |-> f + dels,
     nf |-> IF adds = 0 THEN nf ELSE nf + 1, nl |-> nf + adds]
Signed(k, lines) == [i \in DOMAIN lines |-> [k |-> k, t |-> lines[i].t]]
NormalDiff(e) ==
  LET OfRange(r) ==
        LET part == SubSeq(e, r[1], r[2]) IN
          <<Command(e, r)>> \o Signed("<", Pick(part, {"del"}))
          \o (IF Command(e, r).op = "c" THEN <<Header("bare", 0, 0)>> ELSE <<>>)
          \o Signed(">", Pick(part, {"add"})) IN
    FlattenSeq(Mapped(OfRange, Intervals(e, Changed(e))))
EdScript(e) ==
  LET OfRange(r) ==
        <<Command(e, r)>> \o
        (IF Command(e, r).op = "d" THEN <<>>
         ELSE Signed("other", Pick(SubSeq(e, r[1], r[2]), {"add"})) \o <<[k |-> ".", t |-> ""]>>) IN
    FlattenSeq(Reverse(Mapped(OfRange, Intervals(e, Changed(e)))))

-------------------------------------------------------------------------------
(***************************************************************************)
(* What patch is given.                                                    *)
(***************************************************************************)

Arg(k, v) == [k |-> k, v |-> v]
Switch(k) == Arg(k, NULL)
On(f) == <<Arg("file", f), Arg("file", "patch")>>
Reversed(list) == <<Switch("-R")>> \o list
Then(list, more) == list \o <<Switch("+")>> \o more
Alone(lines) == [f \in {"f"} |-> lines]
Job(patch, texts, lists, goal, diff) ==
  [patch |-> patch, texts |-> texts, args |-> lists, goal |-> goal, diff |-> diff]
NoGoal == [f \in {} |-> <<>>]

\* Whether every hunk of the context diff has one change.
Single(e) == \A i, j \in Changed(e) : i < j /\ j - i <= 3 => i..j \subseteq Changed(e)
Kind(e) == IF Single(e) THEN "single" ELSE "several"

Diffs(e) ==
  {NormalDiff(e)} \cup
  (IF OldOf(e) # <<>> /\ NewOf(e) # <<>> THEN {ContextDiff(e)} ELSE {})

\* plan_a() makes an empty file one of an empty line.
HasLines(e) == OldOf(e) # <<>>
UpTo(k) == {e \in UNION {EditsOf(n) : n \in 1..k} : Ordered(e) /\ Changes(e) /\ HasLines(e)}

\* Two changes far enough from each other for two hunks.
Pieces == {<<Del("a")>>, <<Add("a")>>, <<Del("a"), Add("b")>>, <<Del("b"), Add("b"), Add("a"), Add("x")>>,
           <<Del("b"), Del("a"), Add("x")>>}
Long == {first \o <<Keep("x"), Keep("b"), Keep("x")>> \o second \o last :
           first \in Pieces, second \in Pieces, last \in {<<>>, <<Keep("b")>>}}

SameVersion(e) ==
  {Job(d, Alone(OldOf(e)), On("f"), Alone(NewOf(e)), Kind(e)) : d \in Diffs(e)}
ByEd(e) == {Job(EdScript(e), Alone(OldOf(e)), On("f"), Alone(NewOf(e)), Kind(e))}
Undone(e) ==
  {Job(d, Alone(NewOf(e)), Reversed(On("f")),
       IF NewOf(e) = <<>> THEN NoGoal ELSE Alone(OldOf(e)), Kind(e)) : d \in Diffs(e)}
OnceMore(e) == {Job(d, Alone(NewOf(e)), On("f"), NoGoal, Kind(e)) : d \in Diffs(e)}
Shifted(e) ==
  {Job(d, Alone(t), On("f"), NoGoal, Kind(e)) :
     d \in Diffs(e), t \in {<<"x">> \o OldOf(e), Tail(OldOf(e)), OldOf(e) \o OldOf(e)}}
Defining(e) ==
  {Job(d, Alone(OldOf(e)), <<Switch("-D")>> \o On("f"), NoGoal, Kind(e)) : d \in Diffs(e)}
Spaced(lines) == [i \in DOMAIN lines |-> IF lines[i] = "a" THEN "a " ELSE lines[i]]
Loosely(e) ==
  {Job(d, Alone(Spaced(OldOf(e))), <<Switch("-l")>> \o On("f"), NoGoal, Kind(e)) :
     d \in Diffs(e)}

\* Blank lines as mailers leave them: the two spaces of a line of context are gone,
\* or the last lines are, or a line is put between the halves of a hunk.
NoText == [k |-> "\n", t |-> ""]
Eaten(d) == [i \in DOMAIN d |-> IF d[i].k = " " /\ d[i].t = "" THEN NoText ELSE d[i]]
Cut(d) == IF Last(d).k = " " /\ Last(d).t = "" THEN Front(d) ELSE d
Parted(d) ==
  LET Part(line) == IF line.k = "---" THEN <<NoText, line>> ELSE <<line>> IN
    FlattenSeq([i \in DOMAIN d |-> Part(d[i])])
WithBlanks == {<<Keep("")>> \o piece \o <<Keep("")>> : piece \in Pieces}
Mailed(e) ==
  LET d == ContextDiff(e) IN
    {Job(m, Alone(OldOf(e)), On("f"), Alone(NewOf(e)), Kind(e)) :
       m \in {Eaten(d), Cut(d), Parted(d)}}
    \cup {Job(Parted(d), Alone(NewOf(e)), Reversed(On("f")), Alone(OldOf(e)), Kind(e)),
          Job(Parted(d), Alone(<<"x">>), On("f"), NoGoal, Kind(e))}

\* A line lost, the rest lost, a count that is wrong.
Miscounted(line) ==
  CASE line.k \in {"***", "---"} -> {[line EXCEPT !.l = @ - 1], [line EXCEPT !.l = @ + 1]}
    [] line.k = "cmd"            -> {[line EXCEPT !.l = @ + 1], [line EXCEPT !.nl = @ + 1]}
    [] OTHER                     -> {}
Spoiled(d) ==
  {RemoveAt(d, i) : i \in DOMAIN d} \cup {SubSeq(d, 1, i) : i \in DOMAIN d}
  \cup UNION {{ReplaceAt(d, i, line) : line \in Miscounted(d[i])} : i \in DOMAIN d}
Broken(e) ==
  {Job(b, Alone(t), list, NoGoal, "broken") :
     b \in UNION {Spoiled(d) : d \in Diffs(e)}, t \in {OldOf(e), <<"x">>},
     list \in {On("f"), Reversed(On("f"))}}

TooLong == [i \in 1..9 |-> Del("a")] \o [i \in 1..9 |-> Add("b")]
Overrunning == {Job(d, Alone(OldOf(TooLong)), On("f"), NoGoal, "single") : d \in Diffs(TooLong)}

\* What leads up to a patch, and the arguments.
Change1 == <<Keep("x"), Del("a"), Add("b"), Keep("b")>>
Change2 == <<Keep("b"), Keep("x"), Add("a")>>
Delete == <<Keep("b"), Del("a"), Keep("x")>>
Plain(k) == [k |-> k, name |-> NULL, t |-> "x"]
FileHeader(k, f) == [k |-> k, name |-> f, f |-> 1, l |-> 1]
Both(t, u) == [f \in Files |-> IF f = "f" THEN t ELSE u]
Leads == {<<>>, <<Plain("other")>>, <<Plain("Prereq")>>,
          <<FileHeader("Index", "f")>>, <<FileHeader("Index", "gg")>>, <<FileHeader("***", "f"), FileHeader("---", "gg")>>,
          <<FileHeader("***", "hh"), FileHeader("---", "gg")>>, <<FileHeader("***", "gg"), FileHeader("---", "hh")>>}
Led ==
  {Job(lead \o d, texts, <<>>, NoGoal, "single") :
     lead \in Leads, d \in Diffs(Change1) \cup {EdScript(Change1)},
     texts \in {Both(OldOf(Change1), OldOf(Delete)), Alone(OldOf(Change1))}}
Typed ==
  {Job(d, Alone(OldOf(Change1)), <<Switch(type)>> \o On("f"), NoGoal, "single") :
     type \in {"-c", "-n", "-e"},
     d \in {ContextDiff(Change1), ContextDiff(Change1) \o NormalDiff(Change1), EdScript(Change1)}}
  \cup {Job(NormalDiff(Delete), Alone(OldOf(Delete)), <<Switch("-c")>> \o On("f"),
            Alone(NewOf(Delete)), "single")}
Output ==
  {Job(d, Both(OldOf(Change1), t), <<Arg("-o", "gg"), Arg("-b", "old")>> \o On("f"),
       Both(OldOf(Change1), NewOf(Change1)), "single") :
     d \in Diffs(Change1) \cup {EdScript(Change1)}, t \in {<<"a">>}}
  \cup {Job(NormalDiff(e), Alone(OldOf(e)), <<Arg("-o", "-")>> \o On("f"), NoGoal, "single") :
     e \in {Change1, <<Del("a")>>}}
Failing ==
  {Job(d, Both(<<"x">>, <<"a">>), Then(<<Arg("-r", "gg")>> \o On("f"), On("f")), NoGoal, "single") :
     d \in Diffs(Change1)}
  \cup {Job(ContextDiff(Change1), Alone(OldOf(Change1)), On("f") \o <<Arg("file", "gg")>>, NoGoal,
            "single")}

\* A patch file of two patches, for two files or for one.
AndOn(f) == <<Arg("file", f)>>
Several ==
  {Job(d1 \o <<Plain("other")>> \o d2, Both(OldOf(Change1), OldOf(Change2)),
       Then(switches \o On("f"), AndOn("gg")), NoGoal, "single") :
     d1 \in Diffs(Change1) \cup {EdScript(Change1)}, d2 \in Diffs(Change2) \cup {EdScript(Change2)},
     switches \in {<<>>, <<Switch("-l")>>, <<Switch("-D")>>, <<Arg("-b", "old")>>}}
  \cup {Job(d \o <<Plain("other")>> \o d2, Alone(OldOf(Change1)), Then(On("f"), list),
            IF list = AndOn("f") THEN NoGoal ELSE Alone(OldOf(Change1)), "single") :
     d \in Diffs(Change1), d2 \in Diffs(Change1), list \in {AndOn("f"), Reversed(AndOn("f"))}}
  \cup {Job(d1 \o <<Plain("other")>> \o d2, Alone(<<"b", "b">>), Then(On("f"), AndOn("f")), NoGoal,
            "single") :
     d1 \in Diffs(Change1), d2 \in Diffs(Delete)}

-------------------------------------------------------------------------------
SameVersionJobs == UNION {SameVersion(e) : e \in UpTo(MaxEdits) \cup Long}
AllJobs ==
  SameVersionJobs
  \cup UNION {Undone(e) : e \in UpTo(MaxEdits) \cup Long}
  \cup UNION {ByEd(e) \cup OnceMore(e) \cup Shifted(e) \cup Defining(e) \cup Loosely(e) :
                e \in UpTo(2) \cup Long}
  \cup UNION {Mailed(e) : e \in WithBlanks}
  \cup UNION {Broken(e) : e \in {Change1, Change2, Delete}}
  \cup Overrunning \cup Led \cup Typed \cup Output \cup Failing \cup Several
===============================================================================
