---------------------------- MODULE PatchProperties ----------------------------
(***************************************************************************)
(* What patch promises to those who run it.  A job says what is known of   *)
(* its patch: goal holds the files it should leave, where that is known,   *)
(* and diff is "single" or "several" for the output of diff with one or    *)
(* several changes in a hunk, "broken" for anything else.                  *)
(***************************************************************************)
EXTENDS Patch

(***************************************************************************)
(* The new file.                                                           *)
(***************************************************************************)

\* patch ended by itself, and the disk took what it wrote.
Finished == status \notin {"running", "interrupted", "killed"} /\ kept = {}
GoalsAreReached ==
  status = "exited" /\ \A f \in DOMAIN job.goal : <<f>> \in DOMAIN disk /\ disk[<<f>>] = job.goal[f]

\* A patch that is given to the version it was made from (patch.man: "the results are
\* guaranteed to be correct"), or with -R to the version it leads to, makes the other
\* version of it, unless apply_hunk() read signs an earlier hunk had left behind.
FilesAreAsPatched == (Finished /\ DOMAIN job.goal # {} /\ ~strayed) => GoalsAreReached

\* The same, whatever apply_hunk() read.
SameVersionIsCorrect == (Finished /\ DOMAIN job.goal # {}) => GoalsAreReached

\* A patch is applied and its output about to be put in place.
Applied == At("backup") /\ ~mv.rejects /\ sw.type \in {"context", "normal"}

\* Where hunk i was applied: the old lines it stood for begin at Starts(i) and end
\* in front of Stops(i).
Starts(i) == IF i > Len(applied) THEN Len(input) + 1 ELSE applied[i].where
Stops(i) == IF i = 0 THEN 1 ELSE applied[i].where + applied[i].hunk.ptrn
InOrder == \A i \in 0..Len(applied) : Starts(i + 1) \in Stops(i)..Len(input) + 1

NewLines(hk) == Lines(hk, NewHeader(hk) + 1, hk.end + 1)
Piece(i) ==
  (IF i = 0 THEN <<>> ELSE NewLines(applied[i].hunk))
  \o SubSeq(input, Stops(i), Starts(i + 1) - 1)
Spliced == FlattenSeq([i \in 1..Len(applied) + 1 |-> Piece(i - 1)])

SameText(a, b) == Len(a) = Len(b) /\ \A i \in DOMAIN a : SameLine(a[i], b[i], sw.loose)

\* What the C preprocessor makes of the output of -D: branch is the part of a
\* conditional that line i is in.
Branch(lines) ==
  LET b[i \in 0..Len(lines)] ==
        IF i = 0 THEN "both"
        ELSE CASE lines[i] = "#ifdef"  -> "new"
               [] lines[i] = "#ifndef" -> "old"
               [] lines[i] = "#else"   -> IF b[i - 1] = "new" THEN "old" ELSE "new"
               [] lines[i] = "#endif"  -> "both"
               [] OTHER                -> b[i - 1]
  IN b
Preprocessed(lines, version) ==
  LET b == Branch(lines)
      Stays(x) == x[1] \in Texts /\ x[2] \in {"both", version}
      staying == SelectSeq([i \in DOMAIN lines |-> <<lines[i], b[i]>>], Stays) IN
    [n \in DOMAIN staying |-> staying[n][1]]

\* Where the old and the new part of a hunk must meet again: the lines that stay, and
\* the first line of every change.
OldPart(hk) == 1..hk.ptrn
NewPart(hk) == NewHeader(hk) + 1..hk.end
Anchors(hk, part) ==
  {i \in part : Sign(hk, i) = " " \/ (Sign(hk, i) = "!" /\ Sign(hk, i - 1) # "!")}

\* The two parts have the same lines and changes, in the same order.
IsTwin(hk, twin) ==
  /\ \A j \in Anchors(hk, NewPart(hk)) : \E i \in Anchors(hk, OldPart(hk)) : twin[i] = j
  /\ \A i \in Anchors(hk, OldPart(hk)) :
       /\ Sign(hk, twin[i]) = Sign(hk, i)
       /\ Sign(hk, i) = " " => hk.t[twin[i]] = hk.t[i]
       /\ \A j \in Anchors(hk, OldPart(hk)) : i < j => twin[i] < twin[j]
Balanced(hk) ==
  /\ hk.ptrn \in Nat /\ hk.end \in Room /\ NewHeader(hk) <= hk.end /\ CanSwap(hk)
  /\ \A i \in OldPart(hk) : Sign(hk, i) \in {" ", "-", "!"}
  /\ \A i \in NewPart(hk) : Sign(hk, i) \in {" ", "+", "!"}
  /\ \E twin \in [Anchors(hk, OldPart(hk)) -> Anchors(hk, NewPart(hk))] : IsTwin(hk, twin)
AllBalanced == \A i \in DOMAIN applied : Balanced(applied[i].hunk)

\* Hunks that were found in the order of the file leave it with their new lines in
\* place of the old ones and every other line untouched, at whatever offset they
\* were found, swapped or not, each of several patches for itself.
OutputIsSpliced ==
  (Applied /\ AllBalanced /\ ~sw.defines /\ ~strayed /\ InOrder) => SameText(out, Spliced)

\* -D keeps both versions: without the symbol the compiler sees the old file, with
\* it the new one, if no hunk has more than one change.
DefinesKeepBoth ==
  (Applied /\ job.diff = "single" /\ sw.defines /\ ~strayed /\ InOrder) =>
    /\ SameText(Preprocessed(out, "old"), input)
    /\ SameText(Preprocessed(out, "new"), Spliced)

(***************************************************************************)
(* Rejects.                                                                *)
(***************************************************************************)

SignOf(line) == CASE line.k = "***" -> "*" [] line.k \in {"---", "bare"} -> "=" [] OTHER -> line.k
\* The lines of hunk r are those behind line i of the patch.
IsRead(r, i) ==
  /\ i + Len(r.signs) <= Len(Patch)
  /\ \A n \in DOMAIN r.signs :
       /\ r.signs[n] = SignOf(Patch[i + n])
       /\ r.signs[n] \in {"*", "="} \/ r.lines[n] = Patch[i + n].t

\* A hunk that fails goes to the reject file as it came, though the first one was
\* swapped, tried and swapped back, and is there once for every failure.
RejectsAreAsRead ==
  (sw.type = "context" /\ ~sw.reverse /\ job.diff # "broken") =>
    /\ Len(rej) = failed
    /\ \A n \in DOMAIN rej : \E i \in DOMAIN Patch : IsRead(rej[n], i)

(***************************************************************************)
(* The files on the disk.                                                  *)
(***************************************************************************)

\* SIGTERM, SIGQUIT and SIGKILL are never caught or ignored (patch.c:620-636): they may end
\* the program when it has unlinked a file and not yet linked the new one to its name.
\* Then the file is there as its backup.
KilledInBetween(f) ==
  status = "killed" /\ pc = "install" /\ mv.to = <<f>> /\ Backup \in DOMAIN disk

\* No hangup, no interrupt, no error and no malformed patch costs a user a file: whatever
\* was there is there when patch ends, unless the disk refused the new one, or a signal that
\* is not ignored came between the two.
FilesRemain ==
  status # "running" =>
    \A f \in DOMAIN job.texts :
      <<f>> \in DOMAIN disk \/ <<f>> \in kept \/ KilledInBetween(f)

\* A file that is no backup itself loses its text only when that text is in its
\* backup (patch.man: the original is saved with the extension .orig).
BackupOf(path) == Append(path, sw.ext)
TextsAreBackedUp ==
  [][\A p \in DOMAIN disk : p[Len(p)] # sw.ext =>
       \/ p \in DOMAIN disk' /\ disk'[p] = disk[p]
       \/ BackupOf(p) \in DOMAIN disk' /\ disk'[BackupOf(p)] = disk[p]]_disk

\* The program ends: every turn gets further in the patch.
PatchEnds == <>(status # "running")
===============================================================================
