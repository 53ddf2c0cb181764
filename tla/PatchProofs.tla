------------------------------ MODULE PatchProofs ------------------------------
(***************************************************************************)
(* Proofs about patch, for any jobs, texts, hunks and file names: that it  *)
(* keeps the files of the user, wherever a signal or an error strikes, and *)
(* what its output is, wherever the hunks are found.                       *)
(***************************************************************************)
EXTENDS PatchProperties, WellFoundedInduction, SequenceTheorems, TLAPS

(***************************************************************************)
(* The files: what holds of the disk at every step.                        *)
(***************************************************************************)

\* move_file() is at work, or has just returned.
Moving == {"backup", "unlink", "install", "moved"}

\* A name, or the name of a reject file.
IsPath(p) == (\E a : p = <<a>>) \/ (\E a, b : p = <<a, b>>)

\* What holds of the disk at every step.  While a file is out of its place it has a
\* backup, SIGHUP and SIGINT are ignored, and it comes back or is kept elsewhere, unless
\* another signal kills the program; the file that is about to be removed has its text in
\* its backup.
Held(f) ==
  \/ <<f>> \in DOMAIN disk
  \/ <<f>> \in kept
  \/ /\ status \in {"running", "killed"} /\ pc = "install" /\ mv.to = <<f>>
     /\ Backup \in DOMAIN disk
FilesInv ==
  /\ pc \in Moving => sigs = "ignored" /\ IsPath(mv.to)
  /\ pc = "unlink" => /\ mv.to \in DOMAIN disk /\ Backup \in DOMAIN disk
                      /\ disk[Backup] = disk[mv.to]
  /\ (status = "running" /\ pc = "install") => mv.to \notin DOMAIN disk
  /\ \A f \in DOMAIN job.texts : Held(f)

(***************************************************************************)
(* Paths.                                                                  *)
(***************************************************************************)

\* The backup of a file has a name of its own, which ends with the extension.
LEMMA BackupPath ==
  ASSUME NEW p, IsPath(p), NEW e
  PROVE  /\ Append(p, e) # p
         /\ \A f : Append(p, e) # <<f>>
         /\ Append(p, e)[Len(Append(p, e))] = e
<1>1. CASE \E a : p = <<a>>
  <2>1. PICK a : p = <<a>>
    BY <1>1
  <2>2. p \in Seq({a, e}) /\ e \in {a, e} /\ Len(p) = 1
    BY <2>1
  <2> QED
    BY <2>1, <2>2
<1>2. CASE \E a, b : p = <<a, b>>
  <2>1. PICK a, b : p = <<a, b>>
    BY <1>2
  <2>2. p \in Seq({a, b, e}) /\ e \in {a, b, e} /\ Len(p) = 2
    BY <2>1
  <2> QED
    BY <2>1, <2>2
<1> QED
  BY <1>1, <1>2 DEF IsPath

\* So has every file that is moved.
LEMMA MovedPath == \A a, b : IsPath(<<a>>) /\ IsPath(<<a, b>>)
  BY DEF IsPath

(***************************************************************************)
(* The steps that move no file.                                            *)
(***************************************************************************)

Quiet ==
  /\ UNCHANGED <<job, disk, kept>>
  /\ pc \notin Moving /\ pc' \notin Moving

\* Where no file is moved before or after a step, and none is touched by it, the
\* files stay as they were.
LEMMA QuietKeeps == FilesInv /\ Quiet => FilesInv'
  BY DEF FilesInv, Quiet, Held, Moving

\* Starting, and looking for a patch.
LEMMA LookingIsQuiet ==
  ASSUME Start \/ BadArguments \/ AnotherPatch \/ NoMorePatches \/ IntuitLine \/ IntuitDeletes
         \/ AskForFile \/ OpenFiles \/ CannotOpen \/ PatchAnyway \/ DoNotPatch \/ NextPatch
  PROVE  Quiet
<1> USE DEF At, Go, Ends, Quiet, Moving, moving, history, counts, temporary, text, intuition,
            reader, settings
<1>1. CASE Start \/ BadArguments \/ AnotherPatch \/ NoMorePatches \/ NextPatch
  BY <1>1 DEF Start, BadArguments, AnotherPatch, NoMorePatches, NextPatch
<1>2. CASE IntuitLine \/ IntuitDeletes
  BY <1>2 DEF IntuitLine, IntuitDeletes, Intuited
<1>3. CASE AskForFile \/ CannotOpen \/ PatchAnyway \/ DoNotPatch
  BY <1>3 DEF AskForFile, CannotOpen, PatchAnyway, DoNotPatch
<1>4. CASE OpenFiles
  BY <1>4 DEF OpenFiles
<1> QED
  BY <1>1, <1>2, <1>3, <1>4

\* Reading hunks.
LEMMA ReadingIsQuiet ==
  ASSUME EdCommand \/ NoMoreHunks \/ ContextHunk \/ OldHeader \/ NewHeaderLine \/ HunkText
         \/ HunkBlank \/ BadContext \/ Overrun \/ ContextEnds \/ NormalHunk \/ NormalLine
         \/ BadNormal \/ NormalEnds
  PROVE  Quiet
<1> USE DEF At, Go, Ends, Quiet, Moving, moving, history, counts, temporary, text, intuition,
            reader, settings
<1>1. CASE EdCommand
  BY <1>1 DEF EdCommand
<1>2. CASE OldHeader \/ NewHeaderLine \/ HunkText \/ HunkBlank
  BY <1>2 DEF OldHeader, NewHeaderLine, HunkText, HunkBlank, ReadingContext, Takes
<1>3. CASE NoMoreHunks \/ ContextHunk \/ BadContext \/ Overrun \/ ContextEnds
  BY <1>3 DEF NoMoreHunks, ContextHunk, BadContext, Overrun, ContextEnds
<1>4. CASE NormalHunk \/ NormalLine \/ BadNormal \/ NormalEnds
  BY <1>4 DEF NormalHunk, NormalLine, BadNormal, NormalEnds
<1> QED
  BY <1>1, <1>2, <1>3, <1>4

\* Placing and applying them.
LEMMA ApplyingIsQuiet ==
  ASSUME HunkIsRead \/ LocateHunk \/ DetectReversed \/ RejectHunk \/ CannotSwap \/ DeleteLine
         \/ InsertLine \/ ReplaceLines \/ KeepLine \/ OutOfSync \/ FinishHunk
  PROVE  Quiet
<1> USE DEF At, Go, Ends, Quiet, Moving, moving, history, counts, temporary, text, intuition,
            reader, settings
<1>1. CASE HunkIsRead \/ RejectHunk \/ CannotSwap
  BY <1>1 DEF HunkIsRead, RejectHunk, CannotSwap
<1>2. CASE LocateHunk \/ DetectReversed
  BY <1>2 DEF LocateHunk, DetectReversed, FitsAt
<1>3. CASE DeleteLine \/ InsertLine \/ ReplaceLines
  BY <1>3 DEF DeleteLine, InsertLine, ReplaceLines, Applying, Change
<1>4. CASE KeepLine \/ OutOfSync
  BY <1>4 DEF KeepLine, OutOfSync, Applying
<1>5. CASE FinishHunk
  BY <1>5 DEF FinishHunk, Change
<1> QED
  BY <1>1, <1>2, <1>3, <1>4, <1>5

(***************************************************************************)
(* move_file(), step by step.                                              *)
(***************************************************************************)

\* The output is complete, or the rejects are to be moved, or both are in place.
LEMMA MoveBegins ==
  ASSUME FilesInv, SpewOutput \/ EdDone \/ MoveRejects \/ PatchDone
  PROVE  FilesInv'
<1> USE DEF At, Go, FilesInv, Held, Moving, moving, history, counts, temporary, text,
            intuition, reader, settings
<1>1. CASE SpewOutput
  BY <1>1, MovedPath DEF SpewOutput, IgnoreSignals
<1>2. CASE EdDone
  BY <1>2, MovedPath DEF EdDone, IgnoreSignals
<1>3. CASE MoveRejects
  <2>1. IsPath(RejectName)
    BY MovedPath DEF RejectName
  <2> QED
    BY <1>3, <2>1 DEF MoveRejects
<1>4. CASE PatchDone
  BY <1>4 DEF PatchDone
<1> QED
  BY <1>1, <1>2, <1>3, <1>4

\* A step inside of move_file() (patch.c:1173-1251) changes neither the destination
\* nor the way signals are treated.
LEMMA MoveFrame ==
  ASSUME FilesInv, NEW label, MoveStep(label), pc \in Moving
  PROVE  /\ pc' = label /\ status' = status /\ job' = job /\ mv' = mv /\ sw' = sw
         /\ Backup' = Backup /\ sigs' = "ignored" /\ IsPath(mv'.to)
BY DEF FilesInv, MoveStep, Go, Backup, settings

\* The file is linked to the name of its backup, or that is not possible.
LEMMA BackingUp ==
  ASSUME FilesInv, BackUp \/ CannotBackUp
  PROVE  FilesInv'
<1>1. /\ IsPath(mv.to) /\ pc \in Moving /\ pc = "backup"
      /\ \A f : Backup # <<f>>
      /\ Backup # mv.to
  BY BackupPath DEF FilesInv, BackUp, CannotBackUp, At, Moving, Backup
<1>2. CASE BackUp /\ There
  <2>1. MoveStep("unlink") /\ disk' = With(Backup, disk[mv.to]) /\ kept' = kept
    BY <1>2 DEF BackUp
  <2>2. /\ pc' = "unlink" /\ job' = job /\ mv' = mv /\ Backup' = Backup
        /\ sigs' = "ignored" /\ IsPath(mv'.to)
    BY <1>1, <2>1, MoveFrame
  <2>3. /\ DOMAIN disk' = DOMAIN disk \cup {Backup}
        /\ disk'[Backup] = disk[mv.to] /\ disk'[mv.to] = disk[mv.to]
    BY <1>1, <1>2, <2>1 DEF With, There
  <2> QED
    BY <1>1, <1>2, <2>1, <2>2, <2>3 DEF FilesInv, Held, There, Moving
<1>3. CASE BackUp /\ ~There
  <2>1. MoveStep("install") /\ disk' = disk /\ kept' = kept
    BY <1>3 DEF BackUp
  <2>2. /\ pc' = "install" /\ job' = job /\ mv' = mv
        /\ sigs' = "ignored" /\ IsPath(mv'.to)
    BY <1>1, <2>1, MoveFrame
  <2> QED
    BY <1>1, <1>3, <2>1, <2>2 DEF FilesInv, Held, There, Moving
<1>4. CASE CannotBackUp
  <2>1. MoveStep("moved") /\ disk' = Without(Backup) /\ kept' = kept \cup {mv.to}
    BY <1>4 DEF CannotBackUp
  <2>2. /\ pc' = "moved" /\ job' = job /\ mv' = mv
        /\ sigs' = "ignored" /\ IsPath(mv'.to)
    BY <1>1, <2>1, MoveFrame
  <2>3. DOMAIN disk' = DOMAIN disk \ {Backup}
    BY <2>1 DEF Without
  <2> QED
    BY <1>1, <2>1, <2>2, <2>3 DEF FilesInv, Held, Moving
<1> QED
  BY <1>2, <1>3, <1>4

\* It is removed, and written anew or kept as a temporary file.
LEMMA Replacing ==
  ASSUME FilesInv, Unlink \/ Install \/ CannotCreate \/ CutShort
  PROVE  FilesInv'
<1>1. CASE Unlink
  <2>1. MoveStep("install") /\ disk' = Without(mv.to) /\ kept' = kept /\ pc = "unlink"
        /\ status = "running"
    BY <1>1 DEF Unlink, At
  <2>2. /\ pc' = "install" /\ status' = status /\ job' = job /\ mv' = mv
        /\ sigs' = "ignored" /\ IsPath(mv'.to) /\ Backup' = Backup
    BY <2>1, MoveFrame DEF Moving
  <2>3. DOMAIN disk' = DOMAIN disk \ {mv.to}
    BY <2>1 DEF Without
  <2>4. Backup # mv.to /\ Backup \in DOMAIN disk
    BY <2>1, BackupPath DEF FilesInv, Moving, Backup
  <2> QED
    BY <2>1, <2>2, <2>3, <2>4 DEF FilesInv, Held, Moving
<1>2. CASE Install
  <2>1. MoveStep("moved") /\ disk' = With(mv.to, mv.from) /\ kept' = kept /\ pc = "install"
    BY <1>2 DEF Install, At
  <2>2. /\ pc' = "moved" /\ job' = job /\ mv' = mv
        /\ sigs' = "ignored" /\ IsPath(mv'.to)
    BY <2>1, MoveFrame DEF Moving
  <2>3. DOMAIN disk' = DOMAIN disk \cup {mv.to}
    BY <2>1 DEF With
  <2> QED
    BY <2>1, <2>2, <2>3 DEF FilesInv, Held, Moving
<1>3. CASE CannotCreate
  <2>1. MoveStep("moved") /\ disk' = disk /\ kept' = kept \cup {mv.to} /\ pc = "install"
    BY <1>3 DEF CannotCreate, At
  <2>2. /\ pc' = "moved" /\ job' = job /\ mv' = mv
        /\ sigs' = "ignored" /\ IsPath(mv'.to)
    BY <2>1, MoveFrame DEF Moving
  <2> QED
    BY <2>1, <2>2 DEF FilesInv, Held, Moving
<1>4. CASE CutShort
  <2>1. /\ pc = "install" /\ pc' = pc /\ job' = job /\ mv' = mv /\ sigs' = sigs
        /\ UNCHANGED sw /\ kept' = kept \cup {mv.to} /\ status' # "running"
    BY <1>4 DEF CutShort, At, settings
  <2>2. PICK n : disk' = With(mv.to, SubSeq(mv.from, 1, n))
    BY <1>4 DEF CutShort
  <2>3. DOMAIN disk' = DOMAIN disk \cup {mv.to}
    BY <2>2 DEF With
  <2> QED
    BY <2>1, <2>3 DEF FilesInv, Held
<1> QED
  BY <1>1, <1>2, <1>3, <1>4

\* An output that goes to stdout (patch.c:1181-1194) touches no file.
LEMMA ToStdoutKeeps ==
  ASSUME FilesInv, ToStdout
  PROVE  FilesInv'
<1>1. pc = "backup" /\ disk' = disk /\ kept' = kept
  BY DEF ToStdout, At, Ends, moving
<1>2. CASE MoveStep("moved")
  <2>1. /\ pc' = "moved" /\ job' = job /\ mv' = mv
        /\ sigs' = "ignored" /\ IsPath(mv'.to)
    BY <1>1, <1>2, MoveFrame DEF Moving
  <2> QED
    BY <1>1, <2>1 DEF FilesInv, Held, Moving
<1>3. CASE Ends("fatal")
  BY <1>1, <1>3 DEF Ends, FilesInv, Held, Moving, moving
<1> QED
  BY <1>2, <1>3 DEF ToStdout

\* A hangup or an interrupt finds every file in its place.
LEMMA InterruptKeeps ==
  ASSUME FilesInv, Interrupt
  PROVE  FilesInv'
<1>1. pc \notin Moving
  BY DEF FilesInv, Interrupt
<1>2. Quiet
  BY <1>1 DEF Interrupt, Ends, Quiet, moving
<1> QED
  BY <1>2, QuietKeeps

\* Any other signal finds it there, or its backup.
LEMMA KillKeeps ==
  ASSUME FilesInv, Kill
  PROVE  FilesInv'
<1>1. /\ status = "running" /\ status' = "killed"
      /\ UNCHANGED <<job, pc, sigs, disk, sw, mv, kept>>
  BY DEF Kill, Ends, settings, moving
<1>2. Backup' = Backup
  BY <1>1 DEF Backup
<1> QED
  BY <1>1, <1>2 DEF FilesInv, Held

\* Every step of the program, of the user and of the disk keeps the files safe.
LEMMA FilesStep ==
  ASSUME FilesInv, [Next]_vars
  PROVE  FilesInv'
<1>1. CASE User
  BY <1>1, InterruptKeeps, KillKeeps, LookingIsQuiet, QuietKeeps DEF User
<1>2. CASE Disk
  BY <1>2, BackingUp, Replacing DEF Disk
<1>3. CASE Program
  BY <1>3, LookingIsQuiet, ReadingIsQuiet, ApplyingIsQuiet, QuietKeeps, MoveBegins,
     BackingUp, Replacing, ToStdoutKeeps DEF Program
<1>4. CASE UNCHANGED vars
  BY <1>4 DEF vars, moving, settings, FilesInv, Held, Moving, Backup
<1> QED
  BY <1>1, <1>2, <1>3, <1>4 DEF Next, Ended

\* Every file is there, and none is being moved, when the program starts.
LEMMA FilesInit == Init => FilesInv
  BY DEF Init, FilesInv, Held, Moving

\* No hangup, no interrupt, no error and no malformed patch costs a user a file: main()
\* ignores SIGHUP and SIGINT while move_file() has it out of its place (patch.c:630-636,
\* 1891).  A signal that is not ignored may come just then, but there is a backup.
THEOREM NoFileIsLost == Spec => []FilesRemain
<1>1. FilesInv => FilesRemain
  BY DEF FilesInv, Held, FilesRemain, KilledInBetween
<1> QED
  BY FilesInit, FilesStep, <1>1, PTL DEF Spec

\* A file that is no backup itself loses its text only when that text is in its
\* backup: move_file() links it there before it removes it (patch.c:1196-1226).
THEOREM BackupsAreMade == Spec => TextsAreBackedUp
<1> DEFINE Safe == \A p \in DOMAIN disk : p[Len(p)] # sw.ext =>
       \/ p \in DOMAIN disk' /\ disk'[p] = disk[p]
       \/ BackupOf(p) \in DOMAIN disk' /\ disk'[BackupOf(p)] = disk[p]
<1>1. ASSUME FilesInv, [Next]_vars PROVE [Safe]_disk
  <2>1. SUFFICES ASSUME disk' # disk PROVE Safe
    OBVIOUS
  <2>2. BackUp \/ CannotBackUp \/ Unlink \/ Install \/ CutShort
    BY <1>1, <2>1, LookingIsQuiet, ReadingIsQuiet, ApplyingIsQuiet
    DEF Next, User, Disk, Program, Ended, vars, Quiet, Interrupt, Kill, Ends, SpewOutput, EdDone,
        MoveRejects, PatchDone, CannotCreate, ToStdout
  <2>3. IsPath(mv.to)
    BY <1>1, <2>2 DEF FilesInv, Moving, BackUp, CannotBackUp, Unlink, Install, CutShort, At
  <2>4. Backup # mv.to /\ Backup[Len(Backup)] = sw.ext
    BY <2>3, BackupPath DEF Backup
  <2>5. CASE BackUp
    BY <2>1, <2>4, <2>5 DEF BackUp, With
  <2>6. CASE CannotBackUp
    BY <2>4, <2>6 DEF CannotBackUp, Without
  <2>7. CASE Unlink
    <3>1. pc = "unlink" /\ disk' = Without(mv.to)
      BY <2>7 DEF Unlink, At
    <3>2. mv.to \in DOMAIN disk /\ Backup \in DOMAIN disk /\ disk[Backup] = disk[mv.to]
      BY <1>1, <3>1 DEF FilesInv
    <3> QED
      BY <2>4, <3>1, <3>2 DEF Without, Backup, BackupOf
  <2>8. CASE Install \/ CutShort
    <3>1. PICK lines : mv.to \notin DOMAIN disk /\ disk' = With(mv.to, lines)
      BY <1>1, <2>8 DEF FilesInv, Install, CutShort, At
    <3> QED
      BY <3>1 DEF With
  <2> QED
    BY <2>2, <2>5, <2>6, <2>7, <2>8
<1> QED
  BY FilesInit, FilesStep, <1>1, PTL DEF Spec, TextsAreBackedUp

(***************************************************************************)
(* What the variables hold.                                                *)
(***************************************************************************)

\* The signs of the lines of a hunk, and their texts.
Signs == LineKinds \cup {"*", "=", "none"}
HunkTexts == Texts \cup {"", NULL, Freed}

\* Everything that can be a line of a file, a reject among it.
Rejects == [old : Int, new : Int, lines : Seq(HunkTexts), signs : Seq(Signs)]
Written == HunkTexts \cup {"#ifdef", "#ifndef", "#else", "#endif"} \cup Rejects

HunkType ==
  [first : Int, newfirst : Int, ptrn : Int, repl : Int, end : Int, max : Int, dash : Nat,
   c : [Room -> Signs], t : [Room -> HunkTexts]]

\* A hunk that has been read fits into p_line.
FitsRoom(hk) == hk.ptrn < MAXHUNKSIZE /\ hk.repl < MAXHUNKSIZE /\ hk.end < MAXHUNKSIZE

\* While it is being read it does too, once both headers are there.
HunkFits ==
  /\ pc = "context" => /\ h.end \in -1..MAXHUNKSIZE - 1
                       /\ h.max = MAXHUNKSIZE \/ (h.ptrn <= h.end /\ h.end >= 0)
  /\ pc = "normal" => /\ h.ptrn >= 0 /\ h.repl >= 0 /\ h.end = h.ptrn + 1 + h.repl
                      /\ fill \in 1..MAXHUNKSIZE
  /\ pc \in {"read", "locate", "apply"} => FitsRoom(h)

SwitchNames == {"filec", "file", "out", "rej", "ext", "type", "reverse", "loose", "defines"}

TextsOK ==
  /\ input \in Seq(Written) /\ out \in Seq(Written) /\ rej \in Seq(Written)
  /\ mv.from \in Seq(Written)
  /\ \A p \in DOMAIN disk : disk[p] \in Seq(Written)
NumbersOK ==
  /\ pos \in Nat \ {0} /\ base \in Nat \ {0}
  /\ seen.cmd \in Nat /\ (pc = "intuit" /\ seen.was => pos > 1)
  /\ frozen \in Nat /\ offset \in Int /\ fill \in Int
  /\ at \in [old : Int, new : Int, def : Int, where : Int]
PatchTypes ==
  /\ job \in Jobs /\ DOMAIN sw = SwitchNames
  /\ TextsOK /\ NumbersOK
  /\ h \in HunkType /\ HunkFits
  /\ applied \in Seq([where : Int, hunk : HunkType])

(***************************************************************************)
(* The least element of a set, which Min() is.                             *)
(***************************************************************************)

\* A set of integers that no element is below i has a least element.
LEMMA LeastInteger ==
  ASSUME NEW S, S \subseteq Int, S # {}, NEW i \in Int, \A j \in S : i <= j
  PROVE  Min(S) \in S /\ \A j \in S : Min(S) <= j
<1> DEFINE T == {n \in Nat : i + n \in S}
<1>1. T \subseteq Nat /\ T # {}
  <2>1. PICK j \in S : TRUE
    OBVIOUS
  <2>2. j - i \in Nat /\ i + (j - i) = j
    OBVIOUS
  <2> QED
    BY <2>1, <2>2
<1>2. PICK n \in T : \A m \in T : <<m, n>> \notin OpToRel(<, Nat)
  <2> HIDE DEF T
  <2> QED
    BY <1>1, NatLessThanWellFounded, WFMin
<1>3. i + n \in S /\ \A j \in S : i + n <= j
  <2>1. ASSUME NEW j \in S PROVE i + n <= j
    <3>1. j - i \in T
      <4>1. j - i \in Nat /\ i + (j - i) = j
        OBVIOUS
      <4> QED
        BY <4>1
    <3>2. n \in Nat /\ j - i \in Nat
      BY <1>2, <3>1
    <3>3. ~(j - i < n)
      BY <1>2, <3>1, <3>2 DEF OpToRel
    <3> QED
      BY <3>2, <3>3
  <2> QED
    BY <2>1
<1> QED
  BY <1>3 DEF Min

\* Behind() finds the first line from i on that has another sign: there is one at the
\* latest behind the array (patch.c:1499-1502).
LEMMA BehindIsFirst ==
  ASSUME NEW hk, NEW i \in Int, i <= MAXHUNKSIZE, NEW signs, "none" \notin signs
  PROVE  /\ Behind(hk, i, signs) \in i..MAXHUNKSIZE
         /\ Sign(hk, Behind(hk, i, signs)) \notin signs
         /\ \A j \in i..Behind(hk, i, signs) - 1 : Sign(hk, j) \in signs
<1> DEFINE S == {j \in i..MAXHUNKSIZE : Sign(hk, j) \notin signs}
<1>1. MAXHUNKSIZE \in S
  BY RoomAssumption DEF Sign, Room
<1>2. S \subseteq Int /\ S # {} /\ \A j \in S : i <= j
  BY <1>1, RoomAssumption
<1>3. Min(S) \in S /\ \A j \in S : Min(S) <= j
  <2> HIDE DEF S
  <2> QED
    BY <1>2, LeastInteger
<1>4. Min(S) = Behind(hk, i, signs)
  BY DEF Behind
<1>5. ASSUME NEW j \in i..Min(S) - 1 PROVE Sign(hk, j) \in signs
  BY <1>3, RoomAssumption
<1> QED
  BY <1>3, <1>4, <1>5

\* locate_hunk() returns a line at which the hunk fits, or 0 (patch.c:1353-1392).
LEMMA WhereIsFit ==
  ASSUME NEW hk, NEW file, NEW guess \in Int, NEW loose
  PROVE  LET w == Where(hk, file, guess, loose) IN
           w \in Int /\ (w # 0 => hk.ptrn = 0 \/ Matches(hk, file, w, loose))
<1> DEFINE S == Hits(hk, file, guess, loose)
           o == Min(S)
<1>1. CASE hk.ptrn = 0 \/ (guess <= Len(file) /\ Matches(hk, file, guess, loose))
  BY <1>1 DEF Where
<1>2. CASE ~(hk.ptrn = 0 \/ (guess <= Len(file) /\ Matches(hk, file, guess, loose)))
  <2>1. CASE S = {}
    BY <1>2, <2>1 DEF Where
  <2>2. CASE S # {}
    <3>1. S \subseteq Int /\ \A j \in S : 1 <= j
      BY DEF Hits
    <3>2. o \in S
      <4>1. PICK i \in Int : i = 1
        OBVIOUS
      <4>2. \A j \in S : i <= j
        BY <3>1, <4>1
      <4> HIDE DEF S
      <4> QED
        BY <2>2, <3>1, <4>2, LeastInteger
    <3>3. o \in Int /\ (\/ Matches(hk, file, guess + o, loose)
                       \/ Matches(hk, file, guess - o, loose))
      BY <3>1, <3>2 DEF Hits
    <3>4. Where(hk, file, guess, loose) = Nearest(hk, file, guess, o, loose)
      BY <1>2, <2>2 DEF Where
    <3> HIDE DEF o
    <3> QED
      BY <3>3, <3>4 DEF Nearest
  <2> QED
    BY <2>1, <2>2
<1> QED
  BY <1>1, <1>2
-------------------------------------------------------------------------------
(***************************************************************************)
(* Hunks keep their type.                                                  *)
(***************************************************************************)

\* A record that has the fields of a hunk, each of its type, is one.
HunkNames == {"first", "newfirst", "ptrn", "repl", "end", "max", "dash", "c", "t"}
LEMMA IsHunk ==
  ASSUME NEW p, DOMAIN p = HunkNames, p = [x \in DOMAIN p |-> p[x]],
         p.first \in Int, p.newfirst \in Int, p.ptrn \in Int, p.repl \in Int, p.end \in Int,
         p.max \in Int, p.dash \in Nat, p.c \in [Room -> Signs], p.t \in [Room -> HunkTexts]
  PROVE  p \in HunkType
BY DEF HunkType, HunkNames
LEMMA HunkFields ==
  ASSUME NEW hk \in HunkType
  PROVE  /\ DOMAIN hk = HunkNames
         /\ hk.first \in Int /\ hk.newfirst \in Int /\ hk.ptrn \in Int /\ hk.repl \in Int
         /\ hk.end \in Int /\ hk.max \in Int /\ hk.dash \in Nat
         /\ hk.c \in [Room -> Signs] /\ hk.t \in [Room -> HunkTexts]
BY DEF HunkType, HunkNames

\* Texts and signs of every kind of line are those of a hunk.
LEMMA SignsAndTexts ==
  /\ LineKinds \subseteq Signs /\ {"*", "=", "-", "+", " ", "\n"} \subseteq Signs
  /\ NULL \in HunkTexts /\ "" \in HunkTexts /\ Freed \in HunkTexts /\ Texts \subseteq HunkTexts
  /\ HunkTexts \subseteq Written
BY DEF Signs, LineKinds, HunkTexts, Written

\* A line is put into a hunk, at its end or where it belongs.
LEMMA PutKeeps ==
  ASSUME NEW hk \in HunkType, NEW i \in Room, NEW s \in Signs, NEW x \in HunkTexts
  PROVE  /\ Put(hk, i, s, x) \in HunkType
         /\ Put(hk, i, s, x).end = hk.end /\ Put(hk, i, s, x).ptrn = hk.ptrn
         /\ Put(hk, i, s, x).repl = hk.repl /\ Put(hk, i, s, x).max = hk.max
BY DEF Put, HunkType

\* It becomes the next one.
LEMMA PutNextKeeps ==
  ASSUME NEW hk \in HunkType, hk.end + 1 \in Room, NEW s \in Signs, NEW x \in HunkTexts
  PROVE  LET p == PutNext(hk, s, x) IN
           /\ p \in HunkType /\ p.end = hk.end + 1 /\ p.ptrn = hk.ptrn /\ p.repl = hk.repl
           /\ p.max = hk.max
<1>1. PICK q : q = Put(hk, hk.end + 1, s, x)
  OBVIOUS
<1>2. q \in HunkType /\ q.end = hk.end /\ q.ptrn = hk.ptrn /\ q.repl = hk.repl /\ q.max = hk.max
  BY <1>1, PutKeeps
<1>3. PutNext(hk, s, x) = [q EXCEPT !.end = @ + 1]
  BY <1>1 DEF PutNext
<1> QED
  BY <1>2, <1>3 DEF HunkType

\* another_hunk() begins with an empty hunk.
LEMMA FreedIsHunk ==
  ASSUME NEW hk \in HunkType
  PROVE  LET p == LinesFreed(hk) IN p \in HunkType /\ p.end = -1 /\ p.max = MAXHUNKSIZE
<1>1. PICK p : p = LinesFreed(hk)
  OBVIOUS
<1>2. PICK t : t = [i \in Room |-> IF i <= hk.end THEN Freed ELSE hk.t[i]]
  OBVIOUS
<1>3. t \in [Room -> HunkTexts]
  <2>1. ASSUME NEW i \in Room PROVE t[i] \in HunkTexts
    <3>1. t[i] = Freed \/ t[i] = hk.t[i]
      BY <1>2
    <3> QED
      BY <3>1, HunkFields, SignsAndTexts
  <2> QED
    BY <1>2, <2>1
<1>4. p = [hk EXCEPT !.end = -1, !.max = MAXHUNKSIZE, !.dash = 0, !.t = t]
  BY <1>1, <1>2 DEF LinesFreed
<1>5. /\ DOMAIN p = HunkNames /\ p.end = -1 /\ p.max = MAXHUNKSIZE /\ p.dash = 0 /\ p.t = t
      /\ p.first = hk.first /\ p.newfirst = hk.newfirst /\ p.ptrn = hk.ptrn
      /\ p.repl = hk.repl /\ p.c = hk.c
  BY <1>4, HunkFields DEF HunkNames
<1>6. p = [x \in DOMAIN p |-> p[x]]
  BY <1>4
<1>7. MAXHUNKSIZE \in Int
  BY RoomAssumption
<1> QED
  BY <1>1, <1>3, <1>5, <1>6, <1>7, HunkFields, IsHunk

\* The first hunk, and re_patch().
LEMMA FirstIsHunk == NoHunk \in HunkType
<1>1. PICK c, t : c = [i \in Room |-> "none"] /\ t = [i \in Room |-> NULL]
  OBVIOUS
<1>2. c \in [Room -> Signs] /\ t \in [Room -> HunkTexts]
  BY <1>1, SignsAndTexts DEF Signs
<1>3. NoHunk = [first |-> 0, newfirst |-> 0, ptrn |-> 0, repl |-> 0, end |-> -1, max |-> 0,
                dash |-> 0, c |-> c, t |-> t]
  BY <1>1 DEF NoHunk
<1> QED
  BY <1>2, <1>3 DEF HunkType
LEMMA ClearedIsHunk ==
  ASSUME NEW hk \in HunkType
  PROVE  Cleared(hk) \in HunkType
<1>1. PICK p : p = Cleared(hk)
  OBVIOUS
<1>2. /\ DOMAIN p = HunkNames /\ p.first = 0 /\ p.newfirst = 0 /\ p.ptrn = 0 /\ p.repl = 0
      /\ p.end = -1 /\ p.max = 0 /\ p.dash = hk.dash /\ p.c = hk.c /\ p.t = hk.t
  BY <1>1, HunkFields DEF Cleared, HunkNames
<1>3. p = [x \in DOMAIN p |-> p[x]]
  BY <1>1 DEF Cleared
<1> QED
  BY <1>1, <1>2, <1>3, HunkFields, IsHunk

\* The lines of a hunk that fits into p_line, or from behind it.
LEMMA LinesAreTexts ==
  ASSUME NEW hk \in HunkType, hk.end < MAXHUNKSIZE
  PROVE  /\ \A i \in Int : Line(hk, i) \in HunkTexts
         /\ \A i, j \in Int : Lines(hk, i, j) \in Seq(HunkTexts)
<1>1. ASSUME NEW i \in Int PROVE Line(hk, i) \in HunkTexts
  <2>1. CASE i \in 0..hk.end
    <3>1. PICK e \in Int : e = hk.end
      BY HunkFields
    <3>2. i \in Room
      BY <2>1, <3>1, RoomAssumption DEF Room
    <3> QED
      BY <2>1, <3>2, HunkFields DEF Line
  <2>2. CASE i \notin 0..hk.end
    BY <2>2, SignsAndTexts DEF Line
  <2> QED
    BY <2>1, <2>2
<1>2. ASSUME NEW i \in Int, NEW j \in Int PROVE Lines(hk, i, j) \in Seq(HunkTexts)
  <2>1. \A n \in 1..j - i : Line(hk, i + n - 1) \in HunkTexts
    BY <1>1
  <2>2. PICK m \in Int : m = j - i
    OBVIOUS
  <2>3. [n \in 1..m |-> Line(hk, i + n - 1)] \in Seq(HunkTexts)
    BY <2>1, <2>2
  <2> QED
    BY <2>2, <2>3 DEF Lines
<1> QED
  BY <1>1, <1>2

\* Where pch_swap() takes a line from is inside of the hunk (patch.c:887-952).
LEMMA SourceInRoom ==
  ASSUME NEW hk \in HunkType, FitsRoom(hk), CanSwap(hk), NEW n \in Room, n <= hk.end
  PROVE  Source(hk, n) \in Room
<1>1. NewHeader(hk) \in Room /\ Blank(hk) \in {0, 1} /\ (Blank(hk) = 1 => hk.ptrn + 1 \in Room)
  BY DEF CanSwap, Sign, Blank
<1>2. PICK a \in Int, b \in Int, e \in Int, w \in Int :
        a = NewHeader(hk) /\ b = Blank(hk) /\ e = hk.end /\ w = hk.ptrn
  BY <1>1, HunkFields DEF Room
<1>3. /\ a \in 0..MAXHUNKSIZE - 1 /\ b \in {0, 1} /\ (b = 1 => w + 1 \in 0..MAXHUNKSIZE - 1)
      /\ a = w + 1 + b /\ NewLength(hk) = e - a + 1 /\ w < MAXHUNKSIZE /\ e < MAXHUNKSIZE
      /\ n \in 0..MAXHUNKSIZE - 1 /\ n <= e
  BY <1>1, <1>2 DEF FitsRoom, Room, NewHeader, NewLength
<1>4. CASE n < e - a + 1
  <2>1. Source(hk, n) = a + n
    BY <1>2, <1>3, <1>4 DEF Source
  <2> QED
    BY <1>3, <1>4, <2>1, RoomAssumption DEF Room
<1>5. CASE ~(n < e - a + 1) /\ n < e - a + 1 + b
  <2>1. Source(hk, n) = w + 1
    BY <1>2, <1>3, <1>5 DEF Source
  <2> QED
    BY <1>3, <1>5, <2>1, RoomAssumption DEF Room
<1>6. CASE ~(n < e - a + 1) /\ ~(n < e - a + 1 + b)
  <2>1. Source(hk, n) = n - (e - a + 1) - b
    BY <1>2, <1>3, <1>6 DEF Source
  <2>2. n - (e - a + 1) - b <= w /\ n - (e - a + 1) - b >= 0
    BY <1>3, <1>6
  <2> QED
    BY <1>3, <2>1, <2>2, RoomAssumption DEF Room
<1> QED
  BY <1>4, <1>5, <1>6

\* A sign that is turned is a sign.
LEMMA TurnedIsSign == \A s \in Signs : \A b : Turned(s, b) \in Signs
BY SignsAndTexts DEF Turned

\* pch_swap() turns a hunk into one, and leaves it inside of p_line.
LEMMA SwappedIsHunk ==
  ASSUME NEW hk \in HunkType, FitsRoom(hk), CanSwap(hk)
  PROVE  LET p == Swapped(hk) IN p \in HunkType /\ FitsRoom(p) /\ p.end = hk.end
<1>1. PICK c, t :
        /\ c = [n \in Room |-> IF n > hk.end THEN hk.c[n]
                               ELSE Turned(hk.c[Source(hk, n)], n < NewLength(hk))]
        /\ t = [n \in Room |-> IF n > hk.end THEN hk.t[n] ELSE hk.t[Source(hk, n)]]
  OBVIOUS
<1>2. ASSUME NEW n \in Room PROVE c[n] \in Signs /\ t[n] \in HunkTexts
  <2>1. PICK e \in Int : e = hk.end
    BY HunkFields
  <2>2. CASE n > hk.end
    BY <1>1, <2>2, HunkFields
  <2>3. CASE ~(n > hk.end)
    <3>1. n <= hk.end
      BY <2>1, <2>3 DEF Room
    <3>2. Source(hk, n) \in Room
      BY <3>1, SourceInRoom
    <3>3. hk.c[Source(hk, n)] \in Signs /\ hk.t[Source(hk, n)] \in HunkTexts
      BY <3>2, HunkFields
    <3>4. /\ c[n] = Turned(hk.c[Source(hk, n)], n < NewLength(hk))
          /\ t[n] = hk.t[Source(hk, n)]
      BY <1>1, <2>3
    <3> QED
      BY <3>3, <3>4, TurnedIsSign
  <2> QED
    BY <2>2, <2>3
<1>3. c \in [Room -> Signs] /\ t \in [Room -> HunkTexts]
  BY <1>1, <1>2
<1>4. PICK p : p = Swapped(hk)
  OBVIOUS
<1>5. p = [hk EXCEPT !.first = hk.newfirst, !.newfirst = hk.first,
                     !.ptrn = hk.repl, !.repl = hk.ptrn, !.c = c, !.t = t]
  BY <1>1, <1>4 DEF Swapped
<1>6. /\ DOMAIN p = HunkNames /\ p.first = hk.newfirst /\ p.newfirst = hk.first
      /\ p.ptrn = hk.repl /\ p.repl = hk.ptrn /\ p.end = hk.end /\ p.max = hk.max
      /\ p.dash = hk.dash /\ p.c = c /\ p.t = t
  BY <1>5, HunkFields DEF HunkNames
<1>7. p = [x \in DOMAIN p |-> p[x]]
  BY <1>5
<1>8. p \in HunkType
  BY <1>3, <1>6, <1>7, HunkFields, IsHunk
<1> QED
  BY <1>4, <1>6, <1>8 DEF FitsRoom

-------------------------------------------------------------------------------
(***************************************************************************)
(* Every step keeps the types.                                             *)
(***************************************************************************)

\* A step that touches neither texts nor hunks, and begins to read none.
NoHunkStep ==
  /\ UNCHANGED <<job, input, out, rej, mv, disk, h, applied>>
  /\ UNCHANGED <<frozen, offset, fill, at>>
  /\ pc' \notin {"context", "normal", "read", "locate", "apply"}

\* It keeps the types if it keeps those of the rest.
LEMMA NoHunkKeeps ==
  ASSUME PatchTypes, NoHunkStep, DOMAIN sw' = SwitchNames,
         pos' \in Nat \ {0}, base' \in Nat \ {0}, seen'.cmd \in Nat,
         pc' = "intuit" /\ seen'.was => pos' > 1
  PROVE  PatchTypes'
<1>1. TextsOK'
  BY DEF PatchTypes, NoHunkStep, TextsOK
<1>2. NumbersOK'
  BY DEF PatchTypes, NoHunkStep, NumbersOK
<1>3. HunkFits'
  BY DEF NoHunkStep, HunkFits
<1> QED
  BY <1>1, <1>2, <1>3 DEF PatchTypes, NoHunkStep

\* get_some_switches() sets all of the switches.
LEMMA SettingsAreAll == DOMAIN Settings = SwitchNames
BY DEF Settings, SwitchNames

\* The patch is a sequence of the lines JobsAssumption tells of.
LEMMA PatchLines ==
  ASSUME job \in Jobs
  PROVE  /\ Len(Patch) \in Nat
         /\ \A i \in Nat \ {0} : i <= Len(Patch) =>
              /\ Patch[i].k \in LineKinds
              /\ Patch[i].k \in TextKinds => Patch[i].t \in Texts
              /\ Patch[i].k \in RangeKinds =>
                   /\ Patch[i].f \in Nat /\ Patch[i].l \in Nat /\ Patch[i].f <= Patch[i].l + 1
              /\ Patch[i].k = "cmd" =>
                   /\ Patch[i].nf \in Nat /\ Patch[i].nl \in Nat
                   /\ NewFirst(Patch[i]) <= Patch[i].nl + 1
<1>1. Len(Patch) \in Nat
  BY JobsAssumption DEF Patch
<1>2. ASSUME NEW i \in Nat \ {0}, i <= Len(Patch) PROVE i \in 1..Len(Patch)
  BY <1>1, <1>2
<1> QED
  BY <1>1, <1>2, JobsAssumption DEF Patch

\* Looking for a patch in the patch file, and for the file to patch.
LEMMA LookingKeepsTypes ==
  ASSUME PatchTypes, Start \/ AnotherPatch \/ IntuitLine \/ IntuitDeletes \/ AskForFile
  PROVE  PatchTypes'
<1> USE DEF At, Go, moving, history, counts, temporary, text, intuition, reader, settings,
            NoHunkStep
<1>0. /\ DOMAIN sw = SwitchNames /\ pos \in Nat \ {0} /\ base \in Nat \ {0}
      /\ seen.cmd \in Nat /\ (pc = "intuit" /\ seen.was => pos > 1)
  BY DEF PatchTypes, NumbersOK
<1>1. CASE Start
  <2>1. NoHunkStep /\ pc' = "another"
    BY <1>1 DEF Start
  <2>2. DOMAIN sw' = SwitchNames
    BY <1>1, SettingsAreAll DEF Start, TakeSwitches
  <2> QED
    BY <1>0, <1>1, <2>1, <2>2, NoHunkKeeps DEF Start
<1>2. CASE AnotherPatch
  <2>1. NoHunkStep /\ pos' = base /\ base' = base /\ sw' = sw
    BY <1>2 DEF AnotherPatch
  <2>2. seen'.cmd = 0 /\ ~seen'.was
    BY <1>2 DEF AnotherPatch
  <2> QED
    BY <1>0, <2>1, <2>2, NoHunkKeeps
<1>3. CASE IntuitLine
  <2>1. /\ NoHunkStep /\ base' = base /\ DOMAIN sw' = DOMAIN sw
        /\ pc = "intuit" /\ pc' \in {"ask", "open", "intuit"}
    BY <1>3 DEF IntuitLine, Intuited
  <2>2. seen'.cmd \in Nat
    <3>1. DOMAIN seen' = DOMAIN seen
      BY <1>3 DEF IntuitLine
    <3> QED
      BY <1>0, <1>3, <3>1 DEF IntuitLine
  <2>3. CASE Looks(Patch[pos]) = "none"
    <3>1. pos' = pos + 1
      BY <1>3, <2>3 DEF IntuitLine
    <3> QED
      BY <1>0, <2>1, <2>2, <3>1, NoHunkKeeps
  <2>4. CASE Looks(Patch[pos]) # "none"
    <3>1. /\ pos' = FirstLine(Looks(Patch[pos])) /\ pc' # "intuit"
      BY <1>3, <2>4 DEF IntuitLine, Intuited
    <3>2. FirstLine(Looks(Patch[pos])) \in Nat \ {0}
      BY <1>0, <2>1, <2>4 DEF Looks, FirstLine
    <3> QED
      BY <1>0, <2>1, <2>2, <3>1, <3>2, NoHunkKeeps
  <2> QED
    BY <2>3, <2>4
<1>4. CASE IntuitDeletes
  <2>1. /\ NoHunkStep /\ base' = base /\ seen' = seen /\ DOMAIN sw' = DOMAIN sw
        /\ pc' # "intuit" /\ pos' = seen.cmd /\ seen.cmd > 0
    BY <1>4 DEF IntuitDeletes, Intuited, FirstLine
  <2> QED
    BY <1>0, <2>1, NoHunkKeeps
<1>5. CASE AskForFile
  <2>1. NoHunkStep /\ UNCHANGED <<pos, base, seen>> /\ DOMAIN sw' = DOMAIN sw /\ pc' = "open"
    BY <1>5 DEF AskForFile
  <2> QED
    BY <1>0, <2>1, NoHunkKeeps
<1> QED
  BY <1>1, <1>2, <1>3, <1>4, <1>5

\* Steps that move on without touching anything, or end the program.
LEMMA MovingOnKeepsTypes ==
  ASSUME PatchTypes,
         \/ PatchAnyway \/ DoNotPatch \/ PatchDone \/ ToStdout \/ CannotOpen \/ BadArguments
         \/ NoMorePatches \/ BadContext \/ Overrun \/ BadNormal \/ CannotSwap \/ Interrupt
         \/ Kill \/ UNCHANGED vars
  PROVE  PatchTypes'
<1> USE DEF At, Go, moving, history, counts, temporary, text, intuition, reader, settings
<1>0. /\ DOMAIN sw = SwitchNames /\ pos \in Nat \ {0} /\ base \in Nat \ {0}
      /\ seen.cmd \in Nat /\ (pc = "intuit" /\ seen.was => pos > 1)
  BY DEF PatchTypes, NumbersOK
<1>1. CASE PatchAnyway \/ PatchDone
  <2>1. NoHunkStep /\ UNCHANGED <<sw, pos, base, seen>> /\ pc' # "intuit"
    BY <1>1 DEF PatchAnyway, PatchDone, NoHunkStep
  <2> QED
    BY <1>0, <2>1, NoHunkKeeps
<1>2. CASE MoveStep("moved") /\ UNCHANGED disk
  <2>1. NoHunkStep /\ UNCHANGED <<sw, pos, base, seen>> /\ pc' # "intuit"
    BY <1>2 DEF MoveStep, NoHunkStep
  <2> QED
    BY <1>0, <2>1, NoHunkKeeps
<1>3. CASE UNCHANGED vars \/ \E how : Ends(how)
  <2>1. /\ UNCHANGED <<job, input, out, rej, mv, disk, h, applied, frozen, offset, fill, at>>
        /\ UNCHANGED <<sw, pos, base, seen, pc>>
    BY <1>3 DEF Ends, vars
  <2> QED
    BY <2>1 DEF PatchTypes, TextsOK, NumbersOK, HunkFits
<1>4. \/ (\E how : Ends(how)) \/ UNCHANGED vars
      \/ PatchAnyway \/ PatchDone \/ (MoveStep("moved") /\ UNCHANGED disk)
  BY DEF DoNotPatch, ToStdout, CannotOpen, BadArguments, NoMorePatches, BadContext,
         Overrun, BadNormal, CannotSwap, Interrupt, Kill
<1> QED
  BY <1>1, <1>2, <1>3, <1>4

\* A step that touches no hunk, and begins to read none.
NoReading ==
  /\ UNCHANGED <<job, h, offset, fill, at>>
  /\ pc' \notin {"intuit", "context", "normal", "read", "locate", "apply"}

\* It keeps the types if it keeps those of the rest.
LEMMA NoReadingKeeps ==
  ASSUME PatchTypes, NoReading, DOMAIN sw' = SwitchNames, TextsOK',
         pos' \in Nat \ {0}, base' \in Nat \ {0}, seen'.cmd \in Nat, frozen' \in Nat,
         applied' \in Seq([where : Int, hunk : HunkType])
  PROVE  PatchTypes'
<1>1. NumbersOK'
  BY DEF PatchTypes, NoReading, NumbersOK
<1>2. HunkFits'
  BY DEF NoReading, HunkFits
<1> QED
  BY <1>1, <1>2 DEF PatchTypes, NoReading

\* A part of a text is a text.
LEMMA PartIsText ==
  ASSUME NEW S, NEW s \in Seq(S), NEW m \in Nat, NEW n \in Int, m > 0, n <= Len(s)
  PROVE  SubSeq(s, m, n) \in Seq(S)
<1>1. Len(s) \in Nat
  OBVIOUS
<1>2. \A i \in m..n : s[i] \in S
  BY <1>1, ElementOfSeq
<1> QED
  BY <1>2, SubSeqProperties

\* What ed makes of a text is one (do_ed_script(), patch.c:1255-1297).
LEMMA EditIsText ==
  ASSUME NEW lines \in Seq(Written), NEW insert \in Seq(Written), NEW cmd,
         cmd.f \in Nat, cmd.l \in Nat, cmd.f <= cmd.l + 1
  PROVE  Edit(lines, cmd, insert) \in Seq(Written)
<1>1. CASE cmd.l > Len(lines)
  BY <1>1 DEF Edit
<1>2. CASE ~(cmd.l > Len(lines))
  <2>1. PICK f \in Nat, l \in Nat, n \in Nat : f = cmd.f /\ l = cmd.l /\ n = Len(lines)
    OBVIOUS
  <2>2. l <= n /\ f - 1 <= n /\ f - 1 \in Int /\ l + 1 \in Nat /\ l + 1 > 0
    BY <1>2, <2>1
  <2>3. PICK e \in Int : e = (IF cmd.op = "a" THEN l ELSE f - 1) /\ e <= n
    BY <2>2
  <2>4. SubSeq(lines, 1, e) \in Seq(Written) /\ SubSeq(lines, l + 1, n) \in Seq(Written)
    BY <2>1, <2>2, <2>3, PartIsText
  <2>5. Edit(lines, cmd, insert) = SubSeq(lines, 1, e) \o insert \o SubSeq(lines, l + 1, n)
    BY <1>2, <2>1, <2>3 DEF Edit
  <2> QED
    BY <2>4, <2>5, ConcatProperties
<1> QED
  BY <1>1, <1>2

\* The text of a command of an ed script ends in the patch, or with it.
LEMMA TextEndIsFirst ==
  ASSUME job \in Jobs, pos \in Nat \ {0}, pos <= Len(Patch)
  PROVE  TextEnd \in pos + 1..Len(Patch) + 1
<1> DEFINE S == {i \in pos + 1..Len(Patch) + 1 : i > Len(Patch) \/ Patch[i].k = "."}
<1>1. Len(Patch) + 1 \in S
  BY PatchLines
<1>2. S \subseteq Int /\ S # {} /\ \A i \in S : pos + 1 <= i
  BY <1>1
<1>3. PICK first \in Int : first = pos + 1
  OBVIOUS
<1>4. Min(S) \in S
  <2> HIDE DEF S
  <2> QED
    BY <1>2, <1>3, LeastInteger
<1> QED
  BY <1>4 DEF TextEnd

\* So it is a text.
LEMMA TextLinesAreText ==
  ASSUME job \in Jobs, pos \in Nat \ {0}, pos <= Len(Patch)
  PROVE  TextLines \in Seq(Written)
<1>1. PICK n \in Int : n = TextEnd - pos - 1
  BY TextEndIsFirst, PatchLines
<1>2. n \in Nat /\ pos + n <= Len(Patch)
  BY <1>1, TextEndIsFirst, PatchLines
<1>3. ASSUME NEW i \in 1..n
      PROVE  (IF Patch[pos + i].k = "other" THEN Patch[pos + i].t ELSE NULL) \in Written
  <2>1. pos + i \in Nat \ {0} /\ pos + i <= Len(Patch)
    BY <1>2, PatchLines
  <2>2. Patch[pos + i].k = "other" => Patch[pos + i].t \in Texts
    BY <2>1, PatchLines DEF TextKinds
  <2> QED
    BY <2>2, SignsAndTexts
<1>4. [i \in 1..n |-> IF Patch[pos + i].k = "other" THEN Patch[pos + i].t ELSE NULL]
        \in Seq(Written)
  BY <1>2, <1>3
<1> QED
  BY <1>1, <1>4 DEF TextLines

\* Opening the files, and what ed does.
LEMMA OpeningKeepsTypes ==
  ASSUME PatchTypes, OpenFiles \/ EdCommand \/ EdDone
  PROVE  PatchTypes'
<1> USE DEF At, Go, moving, history, counts, temporary, text, intuition, reader, settings,
            NoReading
<1>0. /\ job \in Jobs /\ DOMAIN sw = SwitchNames /\ pos \in Nat \ {0} /\ base \in Nat \ {0}
      /\ seen.cmd \in Nat /\ frozen \in Nat /\ applied \in Seq([where : Int, hunk : HunkType])
      /\ TextsOK
  BY DEF PatchTypes, NumbersOK
<1>1. CASE OpenFiles
  <2>1. /\ NoReading /\ DOMAIN sw' = DOMAIN sw /\ UNCHANGED <<pos, base, seen, frozen>>
        /\ applied' = <<>>
    BY <1>1 DEF OpenFiles
  <2>2. disk[<<sw.file>>] \in Seq(Written)
    BY <1>0, <1>1 DEF OpenFiles, TextsOK
  <2>3. Scanned(disk[<<sw.file>>]) \in Seq(Written)
    <3>1. "" \in Written
      BY SignsAndTexts
    <3>2. PICK x \in Written : x = ""
      BY <3>1
    <3>3. <<x>> \in Seq(Written)
      OBVIOUS
    <3> QED
      BY <2>2, <3>2, <3>3 DEF Scanned
  <2>4. input' \in Seq(Written) /\ out' = <<>> /\ rej' = <<>> /\ mv' = mv /\ disk' = disk
    BY <1>1, <2>2, <2>3 DEF OpenFiles
  <2>5. TextsOK'
    BY <1>0, <2>4 DEF TextsOK
  <2> QED
    BY <1>0, <2>1, <2>5, NoReadingKeeps
<1>2. CASE EdCommand
  <2>1. /\ NoReading /\ UNCHANGED <<sw, base, seen, frozen, applied, out, rej, mv, disk>>
    BY <1>2 DEF EdCommand
  <2>2. pos <= Len(Patch) /\ Patch[pos].k = "cmd"
    BY <1>2 DEF EdCommand, NextLine
  <2>3. Patch[pos].f \in Nat /\ Patch[pos].l \in Nat /\ Patch[pos].f <= Patch[pos].l + 1
    BY <1>0, <2>2, PatchLines DEF RangeKinds
  <2>4. TextLines \in Seq(Written) /\ <<>> \in Seq(Written) /\ input \in Seq(Written)
    BY <1>0, <2>2, TextLinesAreText DEF TextsOK
  <2>5. input' \in Seq(Written)
    BY <1>2, <2>3, <2>4, EditIsText DEF EdCommand
  <2>6. Min({TextEnd, Len(Patch)}) \in Nat
    <3>1. PICK z \in Int : z = 0
      OBVIOUS
    <3>2. PICK S : S = {TextEnd, Len(Patch)}
      OBVIOUS
    <3>3. S \subseteq Nat
      BY <1>0, <2>2, <3>2, TextEndIsFirst, PatchLines
    <3>4. S \subseteq Int /\ S # {} /\ \A i \in S : z <= i
      BY <3>1, <3>2, <3>3
    <3>5. Min(S) \in S
      BY <3>4, LeastInteger
    <3> QED
      BY <3>2, <3>3, <3>5
  <2>7. pos' \in Nat \ {0}
    BY <1>0, <1>2, <2>6 DEF EdCommand
  <2>8. TextsOK'
    BY <1>0, <2>1, <2>5 DEF TextsOK
  <2> QED
    BY <1>0, <2>1, <2>7, <2>8, NoReadingKeeps
<1>3. CASE EdDone
  <2>1. /\ NoReading /\ UNCHANGED <<sw, pos, seen, frozen, applied, input, out, rej, disk>>
        /\ mv'.from = input /\ base' = pos
    BY <1>3 DEF EdDone
  <2>2. TextsOK'
    BY <1>0, <2>1 DEF TextsOK
  <2> QED
    BY <1>0, <2>1, <2>2, NoReadingKeeps
<1> QED
  BY <1>1, <1>2, <1>3

\* What copy_till() adds to a text is one, read from memory or not (patch.c:1577-1591).
LEMMA CopyIsText ==
  ASSUME out \in Seq(Written), input \in Seq(Written), frozen \in Nat, NEW line \in Int
  PROVE  CopiedTill(line) \in Seq(Written)
<1>1. ASSUME NEW i \in Int PROVE Dumped(i) \in Written
  <2>1. CASE i \in 1..Len(input)
    BY <2>1, ElementOfSeq DEF Dumped
  <2>2. CASE i \notin 1..Len(input)
    BY <2>2, SignsAndTexts DEF Dumped
  <2> QED
    BY <2>1, <2>2
<1>2. PICK m \in Int : m = line - frozen
  OBVIOUS
<1>3. \A n \in 1..m : Dumped(frozen + n) \in Written
  BY <1>1
<1>4. [n \in 1..m |-> Dumped(frozen + n)] \in Seq(Written)
  BY <1>2, <1>3
<1> QED
  BY <1>2, <1>4, ConcatProperties DEF CopiedTill

\* The file is complete, and put in place; then come the rejects, and the next patch.
LEMMA MovingKeepsTypes ==
  ASSUME PatchTypes, SpewOutput \/ BackUp \/ CannotBackUp \/ Unlink \/ Install \/ CannotCreate
                     \/ CutShort \/ MoveRejects
  PROVE  PatchTypes'
<1> USE DEF At, Go, moving, history, counts, temporary, text, intuition, reader, settings,
            NoReading
<1>0. /\ job \in Jobs /\ DOMAIN sw = SwitchNames /\ pos \in Nat \ {0} /\ base \in Nat \ {0}
      /\ seen.cmd \in Nat /\ frozen \in Nat /\ applied \in Seq([where : Int, hunk : HunkType])
      /\ TextsOK
  BY DEF PatchTypes, NumbersOK
<1>1. CASE SpewOutput
  <2>1. /\ NoReading /\ UNCHANGED <<sw, pos, base, seen, applied, input, rej, disk>>
        /\ mv'.from = out' /\ out' = CopiedTill(Len(input)) /\ frozen' = FrozenAt(Len(input))
    BY <1>1 DEF SpewOutput
  <2>2. Len(input) \in Nat
    BY <1>0 DEF TextsOK
  <2>3. out' \in Seq(Written)
    BY <1>0, <2>1, <2>2, CopyIsText DEF TextsOK
  <2>4. frozen' \in Nat
    BY <1>0, <2>1, <2>2 DEF FrozenAt
  <2>5. TextsOK'
    BY <1>0, <2>1, <2>3 DEF TextsOK
  <2> QED
    BY <1>0, <2>1, <2>4, <2>5, NoReadingKeeps
<1>2. ASSUME NEW label \in {"unlink", "install", "moved"}, MoveStep(label), pc # "intuit",
             \A p \in DOMAIN disk' : disk'[p] \in Seq(Written)
      PROVE  PatchTypes'
  <2>1. NoReading /\ UNCHANGED <<sw, pos, base, seen, frozen, applied, input, out, rej, mv>>
    BY <1>2 DEF MoveStep
  <2>2. TextsOK'
    BY <1>0, <1>2, <2>1 DEF TextsOK
  <2> QED
    BY <1>0, <2>1, <2>2, NoReadingKeeps
<1>3. /\ \A p \in DOMAIN disk : disk[p] \in Seq(Written)
      /\ mv.from \in Seq(Written)
  BY <1>0 DEF TextsOK
<1>4. \A b : \A p \in DOMAIN Without(b) : Without(b)[p] \in Seq(Written)
  BY <1>3 DEF Without
<1>5. ASSUME NEW b, NEW x \in Seq(Written)
      PROVE  \A p \in DOMAIN With(b, x) : With(b, x)[p] \in Seq(Written)
  BY <1>3, <1>5 DEF With
<1>6. CASE BackUp
  <2>1. PICK label \in {"unlink", "install", "moved"} : MoveStep(label)
    BY <1>6 DEF BackUp
  <2>2. disk' = disk \/ (There /\ disk' = With(Backup, disk[mv.to]))
    BY <1>6 DEF BackUp
  <2>3. \A p \in DOMAIN disk' : disk'[p] \in Seq(Written)
    BY <1>3, <1>5, <2>2 DEF There
  <2> QED
    BY <1>2, <1>6, <2>1, <2>3 DEF BackUp
<1>7. CASE CannotBackUp \/ Unlink
  <2>1. PICK label \in {"unlink", "install", "moved"} : MoveStep(label)
    BY <1>7 DEF CannotBackUp, Unlink
  <2> QED
    BY <1>2, <1>4, <1>7, <2>1 DEF CannotBackUp, Unlink
<1>8. CASE Install
  BY <1>2, <1>3, <1>5, <1>8 DEF Install
<1>9. CASE CannotCreate
  BY <1>2, <1>3, <1>9 DEF CannotCreate
<1>10. CASE MoveRejects
  <2>1. /\ NoReading /\ UNCHANGED <<sw, pos, base, seen, frozen, applied, input, out, rej, disk>>
        /\ mv'.from = rej
    BY <1>10 DEF MoveRejects
  <2>2. TextsOK'
    BY <1>0, <2>1 DEF TextsOK
  <2> QED
    BY <1>0, <2>1, <2>2, NoReadingKeeps
<1>11. CASE CutShort
  <2>1. /\ NoReading
        /\ UNCHANGED <<sw, pos, base, seen, frozen, applied, input, out, rej, mv>>
    BY <1>11 DEF CutShort
  <2>2. PICK n \in 0..Len(mv.from) : disk' = With(mv.to, SubSeq(mv.from, 1, n))
    BY <1>11 DEF CutShort
  <2>3. n \in Int /\ n <= Len(mv.from) /\ 1 \in Nat /\ 1 > 0
    BY <2>2, <1>3
  <2>4. SubSeq(mv.from, 1, n) \in Seq(Written)
    BY <2>3, <1>3, PartIsText
  <2>5. TextsOK'
    BY <1>0, <1>5, <2>1, <2>2, <2>4 DEF TextsOK
  <2> QED
    BY <1>0, <2>1, <2>5, NoReadingKeeps
<1> QED
  BY <1>1, <1>6, <1>7, <1>8, <1>9, <1>10, <1>11

\* The next patch begins with nothing read.
LEMMA NextPatchKeepsTypes ==
  ASSUME PatchTypes, NextPatch
  PROVE  PatchTypes'
<1> USE DEF NextPatch, At, Go, moving, history, counts, temporary, text, intuition, reader,
            settings
<1>1. /\ UNCHANGED <<job, pos, base, seen, fill, at, applied, out, rej, mv, disk>>
      /\ input' = <<>> /\ frozen' = 0 /\ offset' = 0 /\ h' = Cleared(h) /\ pc' = "another"
  OBVIOUS
<1>2. DOMAIN sw' = SwitchNames
  BY SettingsAreAll DEF TakeSwitches
<1>3. TextsOK'
  BY <1>1 DEF PatchTypes, TextsOK
<1>4. NumbersOK'
  BY <1>1 DEF PatchTypes, NumbersOK
<1>5. h' \in HunkType /\ HunkFits'
  BY <1>1, ClearedIsHunk DEF PatchTypes, HunkFits
<1> QED
  BY <1>1, <1>2, <1>3, <1>4, <1>5 DEF PatchTypes

-------------------------------------------------------------------------------
(***************************************************************************)
(* Reading a hunk: it fits into p_line once both of its headers are there. *)
(***************************************************************************)

\* A step of another_hunk() touches the hunk and the place in the patch file.
Reads ==
  /\ UNCHANGED <<job, sw, input, out, rej, mv, disk, applied, seen, frozen, offset, at>>
  /\ pc' # "intuit"

\* It keeps the types if it keeps those of the hunk.
LEMMA ReadsKeeps ==
  ASSUME PatchTypes, Reads, pos' \in Nat \ {0}, base' \in Nat \ {0}, fill' \in Int,
         h' \in HunkType, HunkFits'
  PROVE  PatchTypes'
<1>1. TextsOK' /\ NumbersOK'
  BY DEF PatchTypes, Reads, TextsOK, NumbersOK
<1> QED
  BY <1>1 DEF PatchTypes, Reads

\* A hunk with a header of the old part is one, and so is one with a header of the new
\* part; the last line says how long the new part is.
LEMMA HeadersKeep ==
  ASSUME NEW hk \in HunkType, NEW i \in Int, NEW j \in Int, NEW k \in Int, NEW d \in Nat
  PROVE  /\ [hk EXCEPT !.first = i, !.ptrn = j] \in HunkType
         /\ [hk EXCEPT !.newfirst = i, !.dash = d, !.max = k] \in HunkType
         /\ [hk EXCEPT !.repl = i] \in HunkType
<1>1. PICK p : p = [hk EXCEPT !.first = i, !.ptrn = j]
  OBVIOUS
<1>2. PICK q : q = [hk EXCEPT !.newfirst = i, !.dash = d, !.max = k]
  OBVIOUS
<1>3. PICK r : r = [hk EXCEPT !.repl = i]
  OBVIOUS
<1>4. /\ DOMAIN p = HunkNames /\ p = [x \in DOMAIN p |-> p[x]] /\ p.first = i
      /\ p.newfirst = hk.newfirst /\ p.ptrn = j /\ p.repl = hk.repl /\ p.end = hk.end
      /\ p.max = hk.max /\ p.dash = hk.dash /\ p.c = hk.c /\ p.t = hk.t
  BY <1>1, HunkFields DEF HunkNames
<1>5. /\ DOMAIN q = HunkNames /\ q = [x \in DOMAIN q |-> q[x]] /\ q.first = hk.first
      /\ q.newfirst = i /\ q.ptrn = hk.ptrn /\ q.repl = hk.repl /\ q.end = hk.end
      /\ q.max = k /\ q.dash = d /\ q.c = hk.c /\ q.t = hk.t
  BY <1>2, HunkFields DEF HunkNames
<1>6. /\ DOMAIN r = HunkNames /\ r = [x \in DOMAIN r |-> r[x]] /\ r.first = hk.first
      /\ r.newfirst = hk.newfirst /\ r.ptrn = hk.ptrn /\ r.repl = i /\ r.end = hk.end
      /\ r.max = hk.max /\ r.dash = hk.dash /\ r.c = hk.c /\ r.t = hk.t
  BY <1>3, HunkFields DEF HunkNames
<1>7. p \in HunkType
  BY <1>4, HunkFields, IsHunk
<1>8. q \in HunkType
  BY <1>5, HunkFields, IsHunk
<1>9. r \in HunkType
  BY <1>6, HunkFields, IsHunk
<1> QED
  BY <1>1, <1>2, <1>3, <1>7, <1>8, <1>9

\* What is read next of a hunk of a context diff: beyond the end of the patch it is a
\* blank line of context.
LEMMA HunkLineIs ==
  ASSUME job \in Jobs, pos \in Nat \ {0}
  PROVE  /\ HunkLine.k \in Signs
         /\ HunkLine.k \in {" ", "+", "-", "!"} => HunkLine.t \in HunkTexts
         /\ HunkLine.k \in {"***", "---", "bare"} =>
              HunkLine.f \in Nat /\ HunkLine.l \in Nat /\ HunkLine.f <= HunkLine.l + 1
<1>1. CASE pos <= Len(Patch)
  <2>1. HunkLine = Patch[pos]
    BY <1>1 DEF HunkLine
  <2> QED
    BY <1>1, <2>1, PatchLines, SignsAndTexts DEF TextKinds, RangeKinds
<1>2. CASE ~(pos <= Len(Patch))
  <2>1. HunkLine.k = " " /\ HunkLine.t = ""
    BY <1>2 DEF HunkLine
  <2> QED
    BY <2>1, SignsAndTexts
<1> QED
  BY <1>1, <1>2

\* The lines of a context diff (patch.c:1463-1572).
LEMMA ContextKeepsTypes ==
  ASSUME PatchTypes, OldHeader \/ NewHeaderLine \/ HunkText \/ HunkBlank
  PROVE  PatchTypes'
<1>0. /\ job \in Jobs /\ pos \in Nat \ {0} /\ base \in Nat \ {0} /\ fill \in Int /\ h \in HunkType
      /\ HunkFits
  BY DEF PatchTypes, NumbersOK
<1>1. ASSUME NEW hk, Takes(hk), pc = "context"
      PROVE  /\ Reads /\ h' = hk /\ pos' = pos + 1 /\ base' = base /\ fill' = fill
             /\ pc' = "context"
  BY <1>1 DEF Takes, Reads, moving, history, counts, temporary, text, intuition, settings
<1>2. ASSUME NEW hk \in HunkType, Takes(hk), pc = "context", hk.end \in -1..MAXHUNKSIZE - 1,
             hk.max = MAXHUNKSIZE \/ (hk.ptrn <= hk.end /\ hk.end >= 0)
      PROVE  PatchTypes'
  <2>1. /\ Reads /\ h' = hk /\ pos' = pos + 1 /\ base' = base /\ fill' = fill
        /\ pc' = "context"
    BY <1>1, <1>2
  <2>2. HunkFits'
    BY <1>2, <2>1 DEF HunkFits
  <2> QED
    BY <1>0, <1>2, <2>1, <2>2, ReadsKeeps
<1>3. PICK e \in Int, w \in Int, m \in Int : e = h.end /\ w = h.ptrn /\ m = h.max
  BY <1>0, HunkFields
<1>4. /\ pc = "context" /\ h.end + 1 \in Room /\ e + 1 \in 0..MAXHUNKSIZE - 1
      /\ m = MAXHUNKSIZE \/ (w <= e /\ e >= 0)
  BY <1>0, <1>3 DEF OldHeader, NewHeaderLine, HunkText, HunkBlank, ReadingContext, At,
                   HunkFits, Room
<1>5. CASE OldHeader
  <2>1. HunkLine.k = "***" /\ e = -1
    BY <1>3, <1>5 DEF OldHeader, ReadingContext
  <2>2. PICK f \in Int, n \in Int : f = HunkLine.f /\ n = HunkLine.l - HunkLine.f + 1
    BY <1>0, <2>1, HunkLineIs
  <2>3. PICK p : p = PutNext(h, "*", NULL)
    OBVIOUS
  <2>4. p \in HunkType /\ p.end = e + 1 /\ p.max = m
    BY <1>0, <1>3, <1>4, <2>3, PutNextKeeps, SignsAndTexts
  <2>5. PICK q : q = [p EXCEPT !.first = f, !.ptrn = n]
    OBVIOUS
  <2>6. q \in HunkType /\ q.end = e + 1 /\ q.max = m
    BY <2>4, <2>5, HeadersKeep, HunkFields, ZenonT(30) DEF HunkNames
  <2>7. Takes(q)
    BY <1>5, <2>2, <2>3, <2>5 DEF OldHeader
  <2>8. q.end \in -1..MAXHUNKSIZE - 1 /\ q.max = MAXHUNKSIZE
    BY <1>4, <2>1, <2>6
  <2> QED
    BY <1>2, <1>4, <2>6, <2>7, <2>8
<1>6. CASE NewHeaderLine
  <2>1. HunkLine.k \in {"---", "bare"} /\ e \in {w, w + 1}
    BY <1>3, <1>6 DEF NewHeaderLine, ReadingContext
  <2>2. PICK f \in Int, n \in Int : f = HunkLine.f /\ n = HunkLine.l - HunkLine.f + 1 + e + 1
    <3>1. HunkLine.f \in Nat /\ HunkLine.l \in Nat
      BY <1>0, <2>1, HunkLineIs
    <3> QED
      BY <3>1
  <2>3. PICK p : p = PutNext(h, "=", NULL)
    OBVIOUS
  <2>4. p \in HunkType /\ p.end = e + 1 /\ p.ptrn = w
    BY <1>0, <1>3, <1>4, <2>3, PutNextKeeps, SignsAndTexts
  <2>5. PICK q : q = [p EXCEPT !.newfirst = f, !.dash = e + 1, !.max = n]
    OBVIOUS
  <2>6. e + 1 \in Nat
    BY <1>4
  <2>7. q \in HunkType /\ q.end = e + 1 /\ q.ptrn = w
    BY <2>4, <2>5, <2>6, HeadersKeep, HunkFields DEF HunkNames
  <2>8. Takes(q)
    BY <1>3, <1>6, <2>2, <2>3, <2>5 DEF NewHeaderLine
  <2>9. q.end \in -1..MAXHUNKSIZE - 1 /\ q.ptrn <= q.end /\ q.end >= 0
    BY <1>4, <2>1, <2>7
  <2> QED
    BY <1>2, <1>4, <2>7, <2>8, <2>9
<1>7. ASSUME NEW s \in Signs, NEW x \in HunkTexts, Takes(PutNext(h, s, x))
      PROVE  PatchTypes'
  <2>1. PICK p : p = PutNext(h, s, x)
    OBVIOUS
  <2>2. p \in HunkType /\ p.end = e + 1 /\ p.ptrn = w /\ p.max = m
    BY <1>0, <1>3, <1>4, <2>1, PutNextKeeps
  <2>3. p.end \in -1..MAXHUNKSIZE - 1 /\ (p.max = MAXHUNKSIZE \/ (p.ptrn <= p.end /\ p.end >= 0))
    BY <1>4, <2>2
  <2> QED
    BY <1>2, <1>4, <1>7, <2>1, <2>2, <2>3
<1>8. CASE HunkText
  <2>1. HunkLine.k \in {" ", "+", "-", "!"} /\ Takes(PutNext(h, HunkLine.k, HunkLine.t))
    BY <1>8 DEF HunkText, ReadingContext
  <2> QED
    BY <1>0, <1>7, <2>1, HunkLineIs
<1>9. CASE HunkBlank
  <2>1. Takes(PutNext(h, IF h.end = h.ptrn THEN "\n" ELSE " ", ""))
    BY <1>9 DEF HunkBlank
  <2>2. (IF h.end = h.ptrn THEN "\n" ELSE " ") \in Signs /\ "" \in HunkTexts
    BY SignsAndTexts
  <2> QED
    BY <1>7, <2>1, <2>2
<1> QED
  BY <1>5, <1>6, <1>8, <1>9

\* A hunk of a context diff begins, and ends.
LEMMA ContextFrameKeepsTypes ==
  ASSUME PatchTypes, NoMoreHunks \/ ContextHunk \/ ContextEnds
  PROVE  PatchTypes'
<1> USE DEF At, Go, Reads, moving, history, counts, temporary, text, intuition, reader, settings
<1>0. /\ job \in Jobs /\ pos \in Nat \ {0} /\ base \in Nat \ {0} /\ fill \in Int /\ h \in HunkType
      /\ HunkFits
  BY DEF PatchTypes, NumbersOK
<1>1. CASE NoMoreHunks
  <2>1. Reads /\ h' = LinesFreed(h) /\ pos' = pos /\ base' = pos /\ fill' = fill /\ pc' = "spew"
    BY <1>1 DEF NoMoreHunks
  <2>2. h' \in HunkType /\ HunkFits'
    BY <1>0, <2>1, FreedIsHunk DEF HunkFits
  <2> QED
    BY <1>0, <2>1, <2>2, ReadsKeeps
<1>2. CASE ContextHunk
  <2>1. /\ Reads /\ h' = LinesFreed(h) /\ pos' = pos + 1 /\ base' = base /\ fill' = fill
        /\ pc' = "context"
    BY <1>2 DEF ContextHunk
  <2>2. h' \in HunkType /\ h'.end = -1 /\ h'.max = MAXHUNKSIZE
    BY <1>0, <2>1, FreedIsHunk
  <2>3. HunkFits'
    BY <2>1, <2>2, RoomAssumption DEF HunkFits
  <2> QED
    BY <1>0, <2>1, <2>2, <2>3, ReadsKeeps
<1>3. CASE ContextEnds
  <2>1. CASE h.ptrn = 0
    <3>1. Ends("fatal")
      BY <1>3, <2>1 DEF ContextEnds
    <3>2. /\ UNCHANGED <<job, sw, input, out, rej, mv, disk, applied, seen, frozen, offset, at>>
          /\ UNCHANGED <<h, pos, base, fill, pc>>
      BY <3>1 DEF Ends
    <3> QED
      BY <3>2 DEF PatchTypes, TextsOK, NumbersOK, HunkFits
  <2>2. CASE h.ptrn # 0
    <3>1. /\ Reads /\ h' = [h EXCEPT !.repl = h.end - h.dash] /\ pc' = "read"
          /\ UNCHANGED <<pos, base, fill>>
      BY <1>3, <2>2 DEF ContextEnds
    <3>2. PICK e \in Int, w \in Int, m \in Int, d \in Nat, r \in Int :
            e = h.end /\ w = h.ptrn /\ m = h.max /\ d = h.dash /\ r = e - d
      BY <1>0, HunkFields
    <3>3. /\ e >= m /\ e \in -1..MAXHUNKSIZE - 1
          /\ m = MAXHUNKSIZE \/ (w <= e /\ e >= 0)
      BY <1>0, <1>3, <3>2 DEF ContextEnds, HunkFits
    <3>4. w < MAXHUNKSIZE /\ r < MAXHUNKSIZE /\ e < MAXHUNKSIZE
      BY <3>2, <3>3, RoomAssumption
    <3>5. h' \in HunkType /\ h'.repl = r /\ h'.ptrn = w /\ h'.end = e
      BY <1>0, <3>1, <3>2, HeadersKeep, HunkFields DEF HunkNames
    <3>6. HunkFits'
      BY <3>1, <3>4, <3>5 DEF HunkFits, FitsRoom
    <3> QED
      BY <1>0, <3>1, <3>5, <3>6, ReadsKeeps
  <2> QED
    BY <2>1, <2>2
<1> QED
  BY <1>1, <1>2, <1>3

\* The hunk that a command of a normal diff announces.
LEMMA AnnouncedIsHunk ==
  ASSUME NEW hk \in HunkType, NEW cmd, cmd.f \in Nat, cmd.l \in Nat, cmd.f <= cmd.l + 1,
         cmd.nf \in Nat, cmd.nl \in Nat, NewFirst(cmd) <= cmd.nl + 1
  PROVE  LET p == Announced(cmd, hk) IN
           p \in HunkType /\ p.ptrn >= 0 /\ p.repl >= 0 /\ p.end = p.ptrn + 1 + p.repl
<1>1. PICK f \in Int, n \in Int, old \in Nat, new \in Nat :
        /\ f = IF cmd.op = "a" THEN cmd.f + 1 ELSE cmd.f
        /\ n = NewFirst(cmd)
        /\ old = OldCount(cmd)
        /\ new = NewCount(cmd)
  <2>1. PICK x \in Int, y \in Nat : x = cmd.f /\ y = cmd.l - cmd.f + 1
    OBVIOUS
  <2>2. PICK z \in Int : z = NewFirst(cmd)
    BY DEF NewFirst
  <2>3. PICK u \in Nat : u = cmd.nl - z + 1
    BY <2>2
  <2>4. (IF cmd.op = "a" THEN x + 1 ELSE x) \in Int
    OBVIOUS
  <2>5. OldCount(cmd) \in Nat
    BY <2>1 DEF OldCount
  <2>6. NewCount(cmd) \in Nat
    BY <2>2, <2>3 DEF NewCount
  <2> QED
    BY <2>1, <2>2, <2>4, <2>5, <2>6
<1>2. PICK q : q = Put(hk, 0, "*", NULL)
  OBVIOUS
<1>3. q \in HunkType
  <2>1. PICK i \in Room : i = 0
    BY RoomAssumption DEF Room
  <2>2. Put(hk, i, "*", NULL) \in HunkType
    BY PutKeeps, SignsAndTexts
  <2> QED
    BY <1>2, <2>1, <2>2
<1>4. PICK p : p = [q EXCEPT !.first = f, !.newfirst = n, !.ptrn = old, !.repl = new,
                             !.end = old + 1 + new]
  OBVIOUS
<1>5. p = Announced(cmd, hk)
  BY <1>1, <1>2, <1>4 DEF Announced
<1>6. PICK e \in Int : e = old + 1 + new
  OBVIOUS
<1>7. /\ DOMAIN p = HunkNames /\ p = [x \in DOMAIN p |-> p[x]] /\ p.first = f
      /\ p.newfirst = n /\ p.ptrn = old /\ p.repl = new /\ p.end = e
      /\ p.max = q.max /\ p.dash = q.dash /\ p.c = q.c /\ p.t = q.t
  BY <1>3, <1>4, <1>6, HunkFields DEF HunkNames
<1>8. p \in HunkType
  BY <1>3, <1>7, HunkFields, IsHunk
<1> QED
  BY <1>5, <1>6, <1>7, <1>8

\* The lines of a normal diff (patch.c:1594-1715).
LEMMA NormalKeepsTypes ==
  ASSUME PatchTypes, NormalHunk \/ NormalLine \/ NormalEnds
  PROVE  PatchTypes'
<1> USE DEF At, Go, Reads, moving, history, counts, temporary, text, intuition, reader, settings
<1>0. /\ job \in Jobs /\ pos \in Nat \ {0} /\ base \in Nat \ {0} /\ fill \in Int /\ h \in HunkType
      /\ HunkFits
  BY DEF PatchTypes, NumbersOK
<1>1. CASE NormalHunk
  <2>1. /\ Reads /\ h' = Announced(Patch[pos], LinesFreed(h)) /\ pos' = pos + 1 /\ base' = base
        /\ fill' = 1 /\ pc' = "normal" /\ pos <= Len(Patch) /\ Patch[pos].k = "cmd"
    BY <1>1 DEF NormalHunk, NextLine
  <2>2. /\ Patch[pos].f \in Nat /\ Patch[pos].l \in Nat /\ Patch[pos].f <= Patch[pos].l + 1
        /\ Patch[pos].nf \in Nat /\ Patch[pos].nl \in Nat /\ NewFirst(Patch[pos]) <= Patch[pos].nl + 1
    BY <1>0, <2>1, PatchLines DEF RangeKinds
  <2>3. /\ h' \in HunkType /\ h'.ptrn >= 0 /\ h'.repl >= 0
        /\ h'.end = h'.ptrn + 1 + h'.repl
    BY <1>0, <2>1, <2>2, FreedIsHunk, AnnouncedIsHunk
  <2>4. HunkFits'
    BY <2>1, <2>3, RoomAssumption DEF HunkFits
  <2> QED
    BY <1>0, <2>1, <2>3, <2>4, ReadsKeeps
<1>2. CASE NormalLine
  <2>1. /\ Reads /\ base' = base /\ fill' = fill + 1 /\ pc = "normal" /\ pc' = "normal"
        /\ fill \in Room /\ pos' \in {pos, pos + 1}
    BY <1>2 DEF NormalLine
  <2>2. ASSUME Wanted = {"<"} \/ Wanted = {">"}
        PROVE  Patch[pos].t \in HunkTexts
    <3>1. NextLine \in {"<", ">"}
      BY <1>2, <2>2 DEF NormalLine
    <3>2. pos <= Len(Patch) /\ Patch[pos].k \in {"<", ">"}
      BY <3>1 DEF NextLine
    <3> QED
      BY <1>0, <3>2, PatchLines, SignsAndTexts DEF TextKinds
  <2>3. PICK s \in Signs, x \in HunkTexts : h' = Put(h, fill, s, x)
    <3>1. CASE fill <= h.ptrn
      <4>1. Wanted = {"<"} /\ h' = Put(h, fill, "-", Patch[pos].t)
        BY <1>2, <3>1 DEF Wanted, NormalLine
      <4> QED
        BY <2>2, <4>1, SignsAndTexts
    <3>2. CASE ~(fill <= h.ptrn) /\ fill = h.ptrn + 1
      <4>1. h' = Put(h, fill, "=", NULL)
        BY <1>2, <3>2 DEF NormalLine
      <4> QED
        BY <4>1, SignsAndTexts
    <3>3. CASE ~(fill <= h.ptrn) /\ fill # h.ptrn + 1
      <4>1. Wanted = {">"} /\ h' = Put(h, fill, "+", Patch[pos].t)
        BY <1>2, <3>3 DEF Wanted, NormalLine
      <4> QED
        BY <2>2, <4>1, SignsAndTexts
    <3> QED
      BY <3>1, <3>2, <3>3
  <2>4. /\ h' \in HunkType /\ h'.end = h.end /\ h'.ptrn = h.ptrn /\ h'.repl = h.repl
    BY <1>0, <2>1, <2>3, PutKeeps
  <2>5. fill + 1 \in 1..MAXHUNKSIZE
    BY <2>1, RoomAssumption DEF Room
  <2>6. HunkFits'
    BY <1>0, <2>1, <2>4, <2>5 DEF HunkFits
  <2> QED
    BY <1>0, <2>1, <2>4, <2>6, ReadsKeeps
<1>3. CASE NormalEnds
  <2>1. Reads /\ UNCHANGED <<pos, base, fill, h>> /\ pc = "normal" /\ pc' = "read"
    BY <1>3 DEF NormalEnds
  <2>2. PICK e \in Int, w \in Int, r \in Int : e = h.end /\ w = h.ptrn /\ r = h.repl
    BY <1>0, HunkFields
  <2>3. fill > e /\ fill \in 1..MAXHUNKSIZE /\ w >= 0 /\ r >= 0 /\ e = w + 1 + r
    BY <1>0, <1>3, <2>1, <2>2 DEF NormalEnds, HunkFits
  <2>4. w < MAXHUNKSIZE /\ r < MAXHUNKSIZE /\ e < MAXHUNKSIZE
    BY <2>2, <2>3, RoomAssumption
  <2>5. HunkFits'
    BY <2>1, <2>2, <2>4 DEF HunkFits, FitsRoom
  <2> QED
    BY <1>0, <2>1, <2>5, ReadsKeeps
<1> QED
  BY <1>1, <1>2, <1>3

-------------------------------------------------------------------------------
(***************************************************************************)
(* Placing a hunk, and applying it.                                        *)
(***************************************************************************)

\* Where a hunk is looked for is a line number, and so is where it is found.
LEMMA LocatedIsInt ==
  ASSUME NEW hk \in HunkType, offset \in Int
  PROVE  Guess(hk) \in Int /\ Located(hk) \in Int
<1>1. PICK g \in Int : g = Guess(hk)
  BY HunkFields DEF Guess
<1>2. Where(hk, input, g, sw.loose) \in Int
  BY WhereIsFit
<1> QED
  BY <1>1, <1>2 DEF Located

\* apply_hunk() starts with a hunk that fits.
LEMMA FitsAtKeepsTypes ==
  ASSUME PatchTypes, NEW w \in Int, NEW hk \in HunkType, FitsRoom(hk), FitsAt(w, hk),
         DOMAIN sw' = DOMAIN sw
  PROVE  PatchTypes'
<1> USE DEF At, Go, moving, counts, temporary, intuition, reader
<1>0. /\ TextsOK /\ NumbersOK /\ offset \in Int
      /\ applied \in Seq([where : Int, hunk : HunkType])
  BY DEF PatchTypes, NumbersOK
<1>1. /\ UNCHANGED <<job, disk, input, out, rej, mv>>
      /\ UNCHANGED <<pos, base, seen, frozen, fill>> /\ pc' = "apply" /\ h' = hk
  BY DEF FitsAt
<1>2. offset' \in Int
  <2>1. PICK g \in Int : g = Guess(hk)
    BY <1>0, LocatedIsInt
  <2>2. offset' = IF w = g THEN offset ELSE w - g
    BY <2>1 DEF FitsAt
  <2> QED
    BY <1>0, <2>1, <2>2
<1>3. at' \in [old : Int, new : Int, def : Int, where : Int]
  <2>1. PICK i \in Int : i = hk.ptrn + 1
    BY HunkFields
  <2>2. i <= MAXHUNKSIZE
    BY <2>1, HunkFields, RoomAssumption DEF FitsRoom
  <2>3. PICK signs : signs = {"=", "\n"}
    OBVIOUS
  <2>4. Behind(hk, i, signs) \in Int
    <3>1. "none" \notin {"=", "\n"}
      OBVIOUS
    <3> QED
      BY <2>2, <2>3, <3>1, BehindIsFirst, RoomAssumption
  <2>5. PICK n \in Int, v \in Int : n = Behind(hk, i, signs) /\ v = w - 1
    BY <2>4
  <2>6. at' = [old |-> 1, new |-> n, def |-> 0, where |-> v]
    BY <2>1, <2>3, <2>5 DEF FitsAt
  <2> QED
    BY <2>6
<1>4. applied' \in Seq([where : Int, hunk : HunkType])
  <2>1. applied' = Append(applied, [where |-> w, hunk |-> hk])
    BY DEF FitsAt
  <2>2. [where |-> w, hunk |-> hk] \in [where : Int, hunk : HunkType]
    OBVIOUS
  <2> QED
    BY <1>0, <2>1, <2>2, AppendProperties
<1>5. HunkFits'
  BY <1>1 DEF HunkFits, FitsRoom
<1>6. TextsOK' /\ NumbersOK'
  BY <1>0, <1>1, <1>2, <1>3 DEF TextsOK, NumbersOK
<1> QED
  BY <1>1, <1>4, <1>5, <1>6 DEF PatchTypes

\* The record abort_hunk() leaves (patch.c:1394-1449).
LEMMA RejectIsWritten ==
  ASSUME NEW hk \in HunkType, hk.end < MAXHUNKSIZE, NEW i \in Int, NEW j \in Int
  PROVE  [old |-> i, new |-> j, lines |-> Lines(hk, 0, hk.end + 1),
          signs |-> [n \in 1..hk.end + 1 |-> hk.c[n - 1]]] \in Written
<1>1. PICK e \in Int, m \in Int, z \in Int : e = hk.end /\ m = e + 1 /\ z = 0
  BY HunkFields
<1>2. Lines(hk, z, m) \in Seq(HunkTexts)
  BY LinesAreTexts
<1>3. \A n \in 1..m : hk.c[n - 1] \in Signs
  <2>1. \A n \in 1..m : n - 1 \in Room
    BY <1>1, RoomAssumption DEF Room
  <2> QED
    BY <2>1, HunkFields
<1>4. [n \in 1..m |-> hk.c[n - 1]] \in Seq(Signs)
  BY <1>3
<1>5. [old |-> i, new |-> j, lines |-> Lines(hk, z, m), signs |-> [n \in 1..m |-> hk.c[n - 1]]]
        \in Rejects
  BY <1>2, <1>4 DEF Rejects
<1> QED
  BY <1>1, <1>5 DEF Written

\* The hunk is complete, and is located or rejected (patch.c:565-619).
LEMMA PlacingKeepsTypes ==
  ASSUME PatchTypes, HunkIsRead \/ LocateHunk \/ DetectReversed \/ RejectHunk
  PROVE  PatchTypes'
<1> USE DEF At, Go, moving, history, counts, temporary, text, intuition, reader, settings
<1>0. /\ h \in HunkType /\ HunkFits /\ TextsOK /\ NumbersOK /\ offset \in Int
      /\ pos \in Nat \ {0} /\ base \in Nat \ {0} /\ fill \in Int
      /\ applied \in Seq([where : Int, hunk : HunkType])
  BY DEF PatchTypes, NumbersOK
<1>1. FitsRoom(h) /\ (CanSwap(h) => Swapped(h) \in HunkType /\ FitsRoom(Swapped(h)))
  BY <1>0, SwappedIsHunk DEF HunkFits, HunkIsRead, LocateHunk, DetectReversed, RejectHunk
<1>2. CASE HunkIsRead
  <2>1. CASE sw.reverse /\ ~CanSwap(h)
    <3>1. Ends("asserted")
      BY <1>2, <2>1 DEF HunkIsRead
    <3>2. /\ UNCHANGED <<job, sw, input, out, rej, mv, disk, applied, seen, frozen, offset, at>>
          /\ UNCHANGED <<h, pos, base, fill, pc>>
      BY <3>1 DEF Ends
    <3> QED
      BY <3>2 DEF PatchTypes, TextsOK, NumbersOK, HunkFits
  <2>2. CASE ~(sw.reverse /\ ~CanSwap(h))
    <3>1. Reads /\ UNCHANGED <<pos, base, fill>> /\ pc' = "locate"
      BY <1>2, <2>2 DEF HunkIsRead, Reads
    <3>2. h' \in HunkType /\ FitsRoom(h')
      BY <1>0, <1>1, <1>2, <2>2 DEF HunkIsRead
    <3>3. HunkFits'
      BY <3>1, <3>2 DEF HunkFits, FitsRoom
    <3> QED
      BY <1>0, <3>1, <3>2, <3>3, ReadsKeeps
  <2> QED
    BY <2>1, <2>2
<1>3. CASE LocateHunk
  BY <1>0, <1>1, <1>3, LocatedIsInt, FitsAtKeepsTypes DEF LocateHunk
<1>4. CASE DetectReversed
  <2>1. /\ FitsAt(Located(Swapped(h)), Swapped(h)) /\ CanSwap(h)
        /\ DOMAIN sw' = DOMAIN sw
    BY <1>4 DEF DetectReversed
  <2> QED
    BY <1>0, <1>1, <2>1, LocatedIsInt, FitsAtKeepsTypes
<1>5. CASE RejectHunk
  <2>1. /\ UNCHANGED <<job, sw, disk, input, out, mv, applied>> /\ pc' = "hunk"
        /\ UNCHANGED <<pos, base, seen, frozen, fill, offset, at>> /\ h' = SwappedBack(h)
        /\ rej' = Append(rej, [old |-> Guess(h), new |-> h.newfirst + offset,
                               lines |-> Lines(h', 0, h.end + 1),
                               signs |-> [n \in 1..h.end + 1 |-> h'.c[n - 1]]])
    BY <1>5 DEF RejectHunk
  <2>2. h' \in HunkType /\ h'.end = h.end
    <3>1. CASE hunk = 1
      <4>1. CanSwap(h) /\ CanSwap(Swapped(h))
        BY <1>5, <3>1 DEF RejectHunk, SwapsFail
      <4>2. PICK s \in HunkType : s = Swapped(h) /\ FitsRoom(s) /\ s.end = h.end
        BY <1>0, <1>1, <4>1, SwappedIsHunk
      <4>3. Swapped(s) \in HunkType /\ Swapped(s).end = s.end
        BY <4>1, <4>2, SwappedIsHunk
      <4> QED
        BY <2>1, <3>1, <4>2, <4>3 DEF SwappedBack
    <3>2. CASE hunk # 1
      BY <1>0, <2>1, <3>2 DEF SwappedBack
    <3> QED
      BY <3>1, <3>2
  <2>3. PICK r : r = [old |-> Guess(h), new |-> h.newfirst + offset,
                      lines |-> Lines(h', 0, h'.end + 1),
                      signs |-> [n \in 1..h'.end + 1 |-> h'.c[n - 1]]]
    OBVIOUS
  <2>4. r \in Written
    <3>1. PICK g \in Int, n \in Int : g = Guess(h) /\ n = h.newfirst + offset
      BY <1>0, LocatedIsInt, HunkFields
    <3>2. h'.end < MAXHUNKSIZE
      BY <1>1, <2>2 DEF FitsRoom
    <3>3. PICK hk \in HunkType : hk = h'
      BY <2>2
    <3> QED
      BY <2>3, <3>1, <3>2, <3>3, RejectIsWritten
  <2>5. rej' = Append(rej, r)
    BY <2>1, <2>2, <2>3
  <2>6. TextsOK' /\ NumbersOK' /\ HunkFits'
    BY <1>0, <2>1, <2>4, <2>5, AppendProperties DEF TextsOK, NumbersOK, HunkFits
  <2> QED
    BY <2>1, <2>2, <2>6 DEF PatchTypes
<1> QED
  BY <1>2, <1>3, <1>4, <1>5

\* The marks of -D and the lines of a hunk are texts.
LEMMA MarksAreText ==
  ASSUME NEW version
  PROVE  /\ Marks(version) \in Seq(Written)
         /\ DefAfter(version) \in {0, -1, 1, 2, at.def}
         /\ IfDefines(<<"#endif">>) \in Seq(Written) /\ <<"#endif">> \in Seq(Written)
<1>1. {"#ifdef", "#ifndef", "#else", "#endif"} \subseteq Written
  BY DEF Written
<1>2. /\ <<"#ifdef">> \in Seq(Written) /\ <<"#ifndef">> \in Seq(Written)
      /\ <<"#else">> \in Seq(Written) /\ <<"#endif">> \in Seq(Written) /\ <<>> \in Seq(Written)
  BY <1>1
<1>3. Marks(version) \in Seq(Written) /\ IfDefines(<<"#endif">>) \in Seq(Written)
  BY <1>2 DEF Marks, IfDefines
<1>4. DefAfter(version) \in {0, -1, 1, 2, at.def}
  BY DEF DefAfter
<1> QED
  BY <1>2, <1>3, <1>4

\* The lines of a hunk that is applied are texts, under -D and without.
LEMMA HunkIsText ==
  ASSUME PatchTypes, pc = "apply", NEW i \in Int, NEW j \in Int
  PROVE  /\ <<Line(h, i)>> \in Seq(Written) /\ Lines(h, i, j) \in Seq(Written)
         /\ IfDefines(<<Line(h, i)>>) \in Seq(Written)
         /\ IfDefines(<<"#ifndef">> \o Lines(h, i, j) \o <<"#else">>) \in Seq(Written)
<1>1. h \in HunkType /\ h.end < MAXHUNKSIZE
  BY DEF PatchTypes, HunkFits, FitsRoom
<1>2. Line(h, i) \in Written /\ Lines(h, i, j) \in Seq(Written)
  <2>1. Line(h, i) \in HunkTexts /\ Lines(h, i, j) \in Seq(HunkTexts)
    BY <1>1, LinesAreTexts
  <2> QED
    BY <2>1, SignsAndTexts, SeqMonotonic
<1>3. <<Line(h, i)>> \in Seq(Written) /\ <<>> \in Seq(Written)
  BY <1>2
<1>4. <<"#ifndef">> \in Seq(Written) /\ <<"#else">> \in Seq(Written)
  <2>1. "#ifndef" \in Written /\ "#else" \in Written
    BY DEF Written
  <2> QED
    BY <2>1
<1>5. <<"#ifndef">> \o Lines(h, i, j) \o <<"#else">> \in Seq(Written)
  BY <1>2, <1>4, ConcatProperties
<1> QED
  BY <1>2, <1>3, <1>5 DEF IfDefines

\* Texts can be put together.
LEMMA TextsAdd ==
  ASSUME NEW a \in Seq(Written), NEW b \in Seq(Written), NEW c \in Seq(Written)
  PROVE  a \o b \in Seq(Written) /\ a \o b \o c \in Seq(Written)
BY ConcatProperties

\* A step of apply_hunk() adds a text to the output, and moves on in the hunk.
LEMMA ChangeKeepsTypes ==
  ASSUME PatchTypes, pc = "apply", pc' \in {"apply", "hunk"}, NEW lines \in Seq(Written),
         NEW skip \in Nat, NEW next \in [old : Int, new : Int, def : Int, where : Int],
         Change(lines, skip, next)
  PROVE  PatchTypes'
<1>1. /\ UNCHANGED <<job, sw, disk, input, rej, mv, applied>>
      /\ UNCHANGED <<pos, base, seen, fill, offset, h>>
      /\ out' = CopiedTill(Here) \o lines /\ frozen' = FrozenAt(Here) + skip /\ at' = next
  BY DEF Change, settings, reader, intuition, moving
<1>2. TextsOK /\ NumbersOK /\ frozen \in Nat /\ at \in [old : Int, new : Int, def : Int, where : Int]
  BY DEF PatchTypes, NumbersOK
<1>3. PICK here \in Int : here = Here
  BY <1>2 DEF Here
<1>4. out' \in Seq(Written)
  <2>1. CopiedTill(here) \in Seq(Written)
    BY <1>2, CopyIsText DEF TextsOK
  <2> QED
    BY <1>1, <1>3, <2>1, TextsAdd
<1>5. frozen' \in Nat
  <2>1. PICK f \in Nat : f = FrozenAt(here)
    BY <1>2 DEF FrozenAt
  <2> QED
    BY <1>1, <1>3, <2>1
<1>6. TextsOK' /\ NumbersOK'
  BY <1>1, <1>2, <1>4, <1>5 DEF TextsOK, NumbersOK
<1>7. HunkFits'
  BY <1>1 DEF PatchTypes, HunkFits
<1> QED
  BY <1>1, <1>6, <1>7 DEF PatchTypes

\* The lines of a hunk are applied (patch.c:743-852).
LEMMA ApplyingKeepsTypes ==
  ASSUME PatchTypes, DeleteLine \/ InsertLine \/ ReplaceLines \/ KeepLine \/ OutOfSync \/ FinishHunk
  PROVE  PatchTypes'
<1>0. /\ pc = "apply" /\ h \in HunkType /\ FitsRoom(h)
      /\ at \in [old : Int, new : Int, def : Int, where : Int]
  BY DEF PatchTypes, HunkFits, NumbersOK, DeleteLine, InsertLine, ReplaceLines, KeepLine,
         OutOfSync, FinishHunk, Applying, At
<1>1. PICK o \in Int, n \in Int, d \in Int, e \in Int, w \in Int :
        o = at.old /\ n = at.new /\ d = at.def /\ e = h.end /\ w = h.ptrn
  BY <1>0, HunkFields
<1>2. /\ DefAfter("old") \in Int /\ DefAfter("new") \in Int
      /\ Marks("old") \in Seq(Written) /\ Marks("new") \in Seq(Written)
  <2>1. 0 \in Int /\ -1 \in Int /\ 1 \in Int /\ 2 \in Int
    OBVIOUS
  <2> QED
    BY <1>1, <2>1, MarksAreText
<1>3. ASSUME NEW p, DOMAIN p = DOMAIN at, p = [x \in DOMAIN p |-> p[x]], p.where = at.where,
             p.old \in Int, p.new \in Int, p.def \in Int
      PROVE  p \in [old : Int, new : Int, def : Int, where : Int]
  <2>1. DOMAIN at = {"old", "new", "def", "where"} /\ at.where \in Int
    BY <1>0
  <2> QED
    BY <1>3, <2>1
<1>4. CASE DeleteLine
  <2>1. PICK lines : lines = Marks("old") \o IfDefines(<<Line(h, at.old)>>)
    OBVIOUS
  <2>2. lines \in Seq(Written)
    BY <1>0, <1>1, <1>2, <2>1, HunkIsText, TextsAdd
  <2>3. PICK k \in Int, i \in Int : k = DefAfter("old") /\ i = o + 1
    BY <1>2
  <2>4. PICK next : next = [at EXCEPT !.old = i, !.def = k]
    OBVIOUS
  <2>5. next \in [old : Int, new : Int, def : Int, where : Int]
    BY <1>0, <2>4
  <2>6. Change(lines, 1, next) /\ pc' = pc
    BY <1>1, <1>4, <2>1, <2>3, <2>4 DEF DeleteLine
  <2> QED
    BY <1>0, <2>2, <2>5, <2>6, ChangeKeepsTypes
<1>5. CASE InsertLine
  <2>1. PICK lines : lines = Marks("new") \o <<Line(h, at.new)>>
    OBVIOUS
  <2>2. lines \in Seq(Written)
    BY <1>0, <1>1, <1>2, <2>1, HunkIsText, TextsAdd
  <2>3. PICK k \in Int, i \in Int : k = DefAfter("new") /\ i = n + 1
    BY <1>2
  <2>4. PICK next : next = [at EXCEPT !.new = i, !.def = k]
    OBVIOUS
  <2>5. next \in [old : Int, new : Int, def : Int, where : Int]
    BY <1>0, <2>4
  <2>6. Change(lines, 0, next) /\ pc' = pc
    BY <1>1, <1>5, <2>1, <2>3, <2>4 DEF InsertLine
  <2> QED
    BY <1>0, <2>2, <2>5, <2>6, ChangeKeepsTypes
<1>6. CASE ReplaceLines
  <2>1. o <= w /\ w < MAXHUNKSIZE /\ Sign(h, n) = "!"
    BY <1>0, <1>1, <1>6 DEF ReplaceLines, Applying, New, FitsRoom
  <2>2. n \in Room
    BY <2>1 DEF Sign
  <2>3. PICK bang : bang = {"!"}
    OBVIOUS
  <2>4. Behind(h, o, bang) \in o..MAXHUNKSIZE /\ Behind(h, n, bang) \in n..MAXHUNKSIZE
    <3>1. o <= MAXHUNKSIZE /\ n <= MAXHUNKSIZE
      BY <2>1, <2>2, RoomAssumption DEF Room
    <3>2. "none" \notin {"!"}
      OBVIOUS
    <3> QED
      BY <2>3, <3>1, <3>2, BehindIsFirst
  <2>5. PICK u \in Int, v \in Int : u = Behind(h, o, bang) /\ v = Behind(h, n, bang) /\ u >= o
    BY <2>4, RoomAssumption
  <2>6. PICK lines :
          lines = IfDefines(<<"#ifndef">> \o Lines(h, o, u) \o <<"#else">>)
                    \o Lines(h, n, v) \o IfDefines(<<"#endif">>)
    OBVIOUS
  <2>7. lines \in Seq(Written)
    BY <1>0, <2>6, HunkIsText, MarksAreText, TextsAdd
  <2>8. PICK next : next = [at EXCEPT !.old = u, !.new = v, !.def = 0]
    OBVIOUS
  <2>9. next \in [old : Int, new : Int, def : Int, where : Int]
    <3>1. /\ DOMAIN next = DOMAIN at /\ next.where = at.where
          /\ next.old = u /\ next.new = v /\ next.def = 0
      BY <1>0, <2>8
    <3>2. next = [x \in DOMAIN next |-> next[x]]
      BY <2>8
    <3> QED
      BY <1>3, <3>1, <3>2
  <2>10. PICK skip \in Nat : skip = u - o
    BY <2>5
  <2>11. Change(lines, skip, next) /\ pc' = pc
    BY <1>1, <1>6, <2>3, <2>5, <2>6, <2>8, <2>10 DEF ReplaceLines
  <2> QED
    BY <1>0, <2>7, <2>9, <2>11, ChangeKeepsTypes
<1>7. CASE KeepLine \/ OutOfSync
  <2>1. /\ UNCHANGED <<job, sw, disk, input, out, rej, mv, applied>>
        /\ UNCHANGED <<pos, base, seen, frozen, fill, offset, h, pc>>
        /\ at' \in {at, [at EXCEPT !.old = @ + 1, !.new = @ + 1]}
    BY <1>7 DEF KeepLine, OutOfSync, moving, history, counts, temporary, text, intuition,
                reader, settings
  <2>2. at' \in [old : Int, new : Int, def : Int, where : Int]
    <3>1. PICK i \in Int, j \in Int : i = o + 1 /\ j = n + 1
      OBVIOUS
    <3>2. PICK next : next = [at EXCEPT !.old = i, !.new = j]
      OBVIOUS
    <3>3. /\ DOMAIN next = DOMAIN at /\ next.where = at.where
          /\ next.old = i /\ next.new = j /\ next.def = d
      BY <1>0, <1>1, <3>2
    <3>4. next = [x \in DOMAIN next |-> next[x]]
      BY <3>2
    <3>5. next \in [old : Int, new : Int, def : Int, where : Int]
      BY <1>3, <3>3, <3>4
    <3>6. at' \in {at, next}
      BY <1>1, <2>1, <3>1, <3>2
    <3> QED
      BY <1>0, <3>5, <3>6
  <2> QED
    BY <2>1, <2>2 DEF PatchTypes, TextsOK, NumbersOK, HunkFits
<1>8. CASE FinishHunk
  <2>1. PICK more \in BOOLEAN : more = (at.new <= h.end /\ New = "+")
    OBVIOUS
  <2>2. ASSUME NEW def, NEW x, x = (IF sw.defines /\ def # 0 THEN <<"#endif">> ELSE <<>>)
        PROVE  x \in Seq(Written)
    BY <2>2, MarksAreText
  <2>3. CASE more
    <3>1. n <= e /\ e < MAXHUNKSIZE
      BY <1>0, <1>1, <2>1, <2>3 DEF FitsRoom
    <3>2. PICK plus : plus = {"+"}
      OBVIOUS
    <3>3. Behind(h, n, plus) \in n..MAXHUNKSIZE
      <4>1. "none" \notin {"+"}
        OBVIOUS
      <4> QED
        BY <3>1, <3>2, <4>1, BehindIsFirst, RoomAssumption
    <3>4. PICK S : S = {Behind(h, n, plus), e + 1}
      OBVIOUS
    <3>5. PICK v \in Int : v = Min(S)
      <4>1. S \subseteq Int /\ S # {} /\ \A j \in S : n <= j
        BY <3>1, <3>3, <3>4, RoomAssumption
      <4> QED
        BY <4>1, LeastInteger
    <3>6. PICK close : close = IF sw.defines /\ DefAfter("new") # 0 THEN <<"#endif">> ELSE <<>>
      OBVIOUS
    <3>7. PICK lines : lines = Marks("new") \o Lines(h, n, v) \o close
      OBVIOUS
    <3>8. lines \in Seq(Written)
      BY <1>0, <1>2, <2>2, <3>6, <3>7, HunkIsText, TextsAdd
    <3>9. Change(lines, 0, at) /\ pc' = "hunk"
      BY <1>1, <1>8, <2>1, <2>3, <3>2, <3>4, <3>5, <3>6, <3>7 DEF FinishHunk
    <3> QED
      BY <1>0, <3>8, <3>9, ChangeKeepsTypes
  <2>4. CASE ~more
    <3>1. PICK close : close = IF sw.defines /\ at.def # 0 THEN <<"#endif">> ELSE <<>>
      OBVIOUS
    <3>2. /\ UNCHANGED <<job, sw, disk, input, rej, mv, applied>> /\ pc' = "hunk"
          /\ UNCHANGED <<pos, base, seen, frozen, fill, offset, h, at>>
          /\ out' = out \o close
      BY <1>8, <2>1, <2>4, <3>1 DEF FinishHunk, moving, counts, text, intuition, reader, settings
    <3>3. out' \in Seq(Written)
      BY <2>2, <3>1, <3>2, TextsAdd DEF PatchTypes, TextsOK
    <3> QED
      BY <3>2, <3>3 DEF PatchTypes, TextsOK, NumbersOK, HunkFits
  <2> QED
    BY <2>1, <2>3, <2>4
<1> QED
  BY <1>4, <1>5, <1>6, <1>7, <1>8

\* Every step keeps the types.
LEMMA TypesStep ==
  ASSUME PatchTypes, [Next]_vars
  PROVE  PatchTypes'
<1>1. CASE User \/ Disk \/ Ended \/ UNCHANGED vars
  BY <1>1, LookingKeepsTypes, MovingOnKeepsTypes, MovingKeepsTypes DEF User, Disk, Ended
<1>2. CASE Program
  BY <1>2, LookingKeepsTypes, MovingOnKeepsTypes, OpeningKeepsTypes, MovingKeepsTypes,
     NextPatchKeepsTypes, ContextKeepsTypes, ContextFrameKeepsTypes, NormalKeepsTypes,
     PlacingKeepsTypes, ApplyingKeepsTypes DEF Program
<1> QED
  BY <1>1, <1>2 DEF Next

\* The program starts with them.
LEMMA TypesInit == Init => PatchTypes
<1> SUFFICES ASSUME Init PROVE PatchTypes
  OBVIOUS
<1>1. job \in Jobs /\ DOMAIN sw = SwitchNames
  BY DEF Init, NoSwitches, SwitchNames
<1>2. TextsOK
  <2>1. \A p \in DOMAIN disk : disk[p] \in Seq(Written)
    <3>1. \A f \in DOMAIN job.texts : job.texts[f] \in Seq(Texts)
      BY <1>1, JobsAssumption
    <3>2. \A f \in DOMAIN job.texts : job.texts[f] \in Seq(Written)
      BY <3>1, SignsAndTexts, SeqMonotonic
    <3> QED
      BY <3>2 DEF Init
  <2>2. input = <<>> /\ out = <<>> /\ rej = <<>> /\ mv.from = <<>>
    BY DEF Init
  <2> QED
    BY <2>1, <2>2 DEF TextsOK
<1>3. NumbersOK
  BY DEF Init, NumbersOK
<1>4. h \in HunkType /\ HunkFits
  BY FirstIsHunk DEF Init, HunkFits
<1>5. applied \in Seq([where : Int, hunk : HunkType])
  BY DEF Init
<1> QED
  BY <1>1, <1>2, <1>3, <1>4, <1>5 DEF PatchTypes

-------------------------------------------------------------------------------
(***************************************************************************)
(* Texts that are put together.                                            *)
(***************************************************************************)

\* f puts the first n of the texts s together, as FlattenSeq() does.
IsFlat(f, s, n) == f = [i \in 1..n |-> IF i = 1 THEN s[i] ELSE f[i - 1] \o s[i]]

\* Two such functions agree as far as their texts do.
LEMMA FlatsAgree ==
  ASSUME NEW s, NEW r, NEW n \in Nat, NEW m \in Nat, NEW f, NEW g, IsFlat(f, s, n), IsFlat(g, r, m),
         NEW k \in Nat, k <= n, k <= m, \A i \in 1..k : s[i] = r[i]
  PROVE  \A i \in 1..k : f[i] = g[i]
<1> DEFINE S == {i \in 1..k : f[i] # g[i]}
<1> SUFFICES ASSUME S # {} PROVE FALSE
  OBVIOUS
<1>1. PICK j \in S : \A i \in S : j <= i
  <2>1. PICK one \in Int : one = 1
    OBVIOUS
  <2>2. S \subseteq Int /\ \A i \in S : one <= i
    BY <2>1
  <2> HIDE DEF S
  <2> QED
    BY <2>2, LeastInteger
<1>2. j \in 1..k /\ f[j] # g[j] /\ j \in 1..n /\ j \in 1..m
  OBVIOUS
<1>3. j # 1 => j - 1 \in 1..k /\ f[j - 1] = g[j - 1]
  BY <1>1, <1>2
<1>4. f[j] = (IF j = 1 THEN s[j] ELSE f[j - 1] \o s[j])
  BY <1>2 DEF IsFlat
<1>5. g[j] = (IF j = 1 THEN r[j] ELSE g[j - 1] \o r[j])
  BY <1>2 DEF IsFlat
<1> QED
  BY <1>2, <1>3, <1>4, <1>5

\* There is such a function.
LEMMA FlatsExist ==
  ASSUME NEW s, NEW n \in Nat
  PROVE  \E f : IsFlat(f, s, n)
<1> DEFINE S == {m \in Nat : ~ \E f : IsFlat(f, s, m)}
<1> SUFFICES ASSUME S # {} PROVE FALSE
  OBVIOUS
<1>1. PICK m \in S : \A i \in S : m <= i
  <2>1. PICK zero \in Int : zero = 0
    OBVIOUS
  <2>2. S \subseteq Int /\ \A i \in S : zero <= i
    BY <2>1
  <2> HIDE DEF S
  <2> QED
    BY <2>2, LeastInteger
<1>2. m \in Nat /\ ~ \E f : IsFlat(f, s, m)
  OBVIOUS
<1>3. m # 0
  <2>1. IsFlat(<<>>, s, 0)
    BY DEF IsFlat
  <2> QED
    BY <1>2, <2>1
<1>4. PICK f : IsFlat(f, s, m - 1)
  BY <1>1, <1>2, <1>3
<1>5. PICK g : g = [i \in 1..m |-> IF i < m THEN f[i]
                                  ELSE IF i = 1 THEN s[i] ELSE f[i - 1] \o s[i]]
  OBVIOUS
<1>6. ASSUME NEW i \in 1..m PROVE g[i] = IF i = 1 THEN s[i] ELSE g[i - 1] \o s[i]
  <2>1. CASE i < m
    <3>1. i \in 1..m - 1 /\ g[i] = f[i]
      BY <1>2, <1>5, <2>1
    <3>2. f[i] = IF i = 1 THEN s[i] ELSE f[i - 1] \o s[i]
      BY <1>4, <3>1 DEF IsFlat
    <3>3. i # 1 => g[i - 1] = f[i - 1]
      BY <1>2, <1>5, <2>1
    <3> QED
      BY <3>1, <3>2, <3>3
  <2>2. CASE ~(i < m)
    <3>1. g[i] = IF i = 1 THEN s[i] ELSE f[i - 1] \o s[i]
      BY <1>5, <2>2
    <3>2. i # 1 => g[i - 1] = f[i - 1]
      BY <1>2, <1>5, <2>2
    <3> QED
      BY <3>1, <3>2
  <2> QED
    BY <2>1, <2>2
<1>7. DOMAIN g = 1..m /\ g = [i \in DOMAIN g |-> g[i]]
  BY <1>5
<1>8. IsFlat(g, s, m)
  BY <1>6, <1>7 DEF IsFlat
<1> QED
  BY <1>2, <1>8

\* FlattenSeq() is the last value of one.
LEMMA FlattenIs ==
  ASSUME NEW s, Len(s) \in Nat \ {0}
  PROVE  \E f : IsFlat(f, s, Len(s)) /\ FlattenSeq(s) = f[Len(s)]
<1> DEFINE F == CHOOSE f : IsFlat(f, s, Len(s))
<1>1. IsFlat(F, s, Len(s))
  BY FlatsExist
<1>2. FlattenSeq(s) = F[Len(s)]
  BY DEF FlattenSeq, IsFlat
<1> QED
  BY <1>1, <1>2

\* The last of them is added behind the others.
LEMMA FlatAt ==
  ASSUME NEW s, NEW n \in Nat, NEW f, IsFlat(f, s, n), NEW i \in 1..n
  PROVE  f[i] = IF i = 1 THEN s[i] ELSE f[i - 1] \o s[i]
BY DEF IsFlat

\* Putting one text more together adds it behind the others.
LEMMA FlattenOneMore ==
  ASSUME NEW s, NEW r, NEW m \in Nat, NEW n \in Nat, Len(s) = m, Len(r) = n, n = m + 1,
         \A i \in 1..m : s[i] = r[i]
  PROVE  /\ m # 0 => FlattenSeq(r) = FlattenSeq(s) \o r[n]
         /\ m = 0 => FlattenSeq(r) = r[1] /\ FlattenSeq(s) = s
<1>1. PICK g : IsFlat(g, r, n) /\ FlattenSeq(r) = g[n]
  <2>1. Len(r) \in Nat \ {0}
    OBVIOUS
  <2>2. PICK g : IsFlat(g, r, Len(r)) /\ FlattenSeq(r) = g[Len(r)]
    BY <2>1, FlattenIs
  <2> QED
    BY <2>2
<1>2. g[n] = IF n = 1 THEN r[n] ELSE g[n - 1] \o r[n]
  <2>1. n \in 1..n
    OBVIOUS
  <2> QED
    BY <1>1, <2>1, FlatAt
<1>3. CASE m = 0
  BY <1>1, <1>2, <1>3 DEF FlattenSeq
<1>4. CASE m # 0
  <2>1. PICK f : IsFlat(f, s, m) /\ FlattenSeq(s) = f[m]
    <3>1. Len(s) \in Nat \ {0}
      BY <1>4
    <3>2. PICK f : IsFlat(f, s, Len(s)) /\ FlattenSeq(s) = f[Len(s)]
      BY <3>1, FlattenIs
    <3> QED
      BY <3>2
  <2>2. \A i \in 1..m : f[i] = g[i]
    <3>1. m <= n /\ m <= m
      OBVIOUS
    <3> QED
      BY <1>1, <2>1, <3>1, FlatsAgree
  <2>3. f[m] = g[m]
    BY <1>4, <2>2
  <2>4. n # 1 /\ n - 1 = m
    BY <1>4
  <2>5. g[n] = g[m] \o r[n]
    BY <1>2, <2>4
  <2> QED
    BY <1>1, <1>4, <2>1, <2>3, <2>5
<1> QED
  BY <1>3, <1>4

\* Copying lines of the input leaves them in the output.
LEMMA CopyIsPart ==
  ASSUME out \in Seq(Written), input \in Seq(Written), frozen \in Nat, NEW line \in Nat,
         frozen <= line, line <= Len(input)
  PROVE  CopiedTill(line) = out \o SubSeq(input, frozen + 1, line)
<1>1. PICK m \in Nat, f \in Nat : m = line - frozen /\ f = frozen + 1
  OBVIOUS
<1>2. PICK a : a = [n \in 1..m |-> Dumped(frozen + n)]
  OBVIOUS
<1>3. PICK b : b = SubSeq(input, f, line)
  OBVIOUS
<1>4. ASSUME NEW n \in 1..m PROVE Dumped(frozen + n) = input[frozen + n] /\ frozen + n \in 1..Len(input)
  BY <1>1 DEF Dumped
<1>5. a \in Seq(Written) /\ Len(a) = m
  <2>1. \A n \in 1..m : Dumped(frozen + n) \in Written
    BY <1>4, ElementOfSeq
  <2> QED
    BY <1>2, <2>1
<1>6. b \in Seq(Written) /\ Len(b) = m /\ \A n \in 1..m : b[n] = input[f + n - 1]
  <2>1. f > 0 /\ line \in Int /\ (f <= line => line - f + 1 = m) /\ (f > line => m = 0)
        /\ line - f + 1 = m
    BY <1>1
  <2>2. \A i \in f..line : input[i] \in Written
    BY <1>1, ElementOfSeq
  <2> QED
    BY <1>3, <2>1, <2>2, SubSeqProperties
<1>7. \A n \in 1..m : a[n] = b[n]
  <2>1. ASSUME NEW n \in 1..m PROVE a[n] = b[n]
    <3>1. a[n] = input[frozen + n]
      BY <1>2, <1>4
    <3>2. f + n - 1 = frozen + n
      BY <1>1
    <3> QED
      BY <1>6, <3>1, <3>2
  <2> QED
    BY <2>1
<1>8. a = b
  BY <1>5, <1>6, <1>7, SeqEqual
<1> QED
  BY <1>1, <1>2, <1>3, <1>8 DEF CopiedTill

\* The lines of a hunk from one line to a second, and from there to a third.
LEMMA LinesMeet ==
  ASSUME NEW hk \in HunkType, hk.end < MAXHUNKSIZE, NEW i \in Int, NEW j \in Int, NEW k \in Int,
         i <= j, j <= k
  PROVE  Lines(hk, i, j) \o Lines(hk, j, k) = Lines(hk, i, k)
<1>1. PICK a : a = Lines(hk, i, j)
  OBVIOUS
<1>2. PICK b : b = Lines(hk, j, k)
  OBVIOUS
<1>3. PICK c : c = Lines(hk, i, k)
  OBVIOUS
<1>4. PICK m \in Nat, n \in Nat : m = j - i /\ n = k - j
  OBVIOUS
<1>5. /\ a \in Seq(HunkTexts) /\ Len(a) = m /\ \A x \in 1..m : a[x] = Line(hk, i + x - 1)
      /\ b \in Seq(HunkTexts) /\ Len(b) = n /\ \A x \in 1..n : b[x] = Line(hk, j + x - 1)
      /\ c \in Seq(HunkTexts) /\ Len(c) = m + n /\ \A x \in 1..m + n : c[x] = Line(hk, i + x - 1)
  <2>1. k - i = m + n
    BY <1>4
  <2> QED
    BY <1>1, <1>2, <1>3, <1>4, <2>1, LinesAreTexts DEF Lines
<1>6. /\ a \o b \in Seq(HunkTexts) /\ Len(a \o b) = m + n
      /\ \A x \in 1..m + n : (a \o b)[x] = IF x <= m THEN a[x] ELSE b[x - m]
  BY <1>5, ConcatProperties
<1>7. \A x \in 1..m + n : (a \o b)[x] = c[x]
  <2>1. ASSUME NEW x \in 1..m + n PROVE (a \o b)[x] = c[x]
    <3>1. CASE x <= m
      BY <1>4, <1>5, <1>6, <3>1
    <3>2. CASE ~(x <= m)
      <4>1. x - m \in 1..n /\ j + (x - m) - 1 = i + x - 1
        BY <1>4, <3>2
      <4> QED
        BY <1>5, <1>6, <3>2, <4>1
    <3> QED
      BY <3>1, <3>2
  <2> QED
    BY <2>1
<1>8. a \o b = c
  <2>1. PICK d : d = a \o b
    OBVIOUS
  <2> QED
    BY <1>5, <1>6, <1>7, <2>1, SeqEqual
<1> QED
  BY <1>1, <1>2, <1>3, <1>8

\* One line of it, and none.
LEMMA LinesOne ==
  ASSUME NEW hk, NEW i \in Int, NEW j \in Int
  PROVE  /\ j = i + 1 => Lines(hk, i, j) = <<Line(hk, i)>>
         /\ j <= i => Lines(hk, i, j) = <<>>
<1>1. PICK m \in Int : m = j - i
  OBVIOUS
<1>2. CASE j = i + 1
  <2>1. m = 1 /\ i + 1 - 1 = i
    BY <1>1, <1>2
  <2>2. [n \in 1..1 |-> Line(hk, i + n - 1)] = <<Line(hk, i)>>
    BY <2>1
  <2>3. Lines(hk, i, j) = [n \in 1..m |-> Line(hk, i + n - 1)]
    BY <1>1 DEF Lines
  <2> QED
    BY <1>2, <2>1, <2>2, <2>3
<1>3. CASE j <= i
  <2>1. m <= 0
    BY <1>1, <1>3
  <2> QED
    BY <1>1, <1>3, <2>1 DEF Lines
<1> QED
  BY <1>2, <1>3

\* Texts whose lines are alike.
Alike(a, b, loose) == Len(a) = Len(b) /\ \A i \in DOMAIN a : SameLine(a[i], b[i], loose)

\* A text is like itself, and texts that are alike stay so when lines are added that
\* are.
LEMMA AlikeItself == \A a, loose : Alike(a, a, loose)
BY DEF Alike, SameLine
LEMMA AlikeAdded ==
  ASSUME NEW a \in Seq(Written), NEW b \in Seq(Written), NEW c \in Seq(Written),
         NEW d \in Seq(Written), NEW loose, Alike(a, b, loose), Alike(c, d, loose)
  PROVE  Alike(a \o c, b \o d, loose)
<1>1. PICK m \in Nat, n \in Nat : m = Len(a) /\ n = Len(c) /\ m = Len(b) /\ n = Len(d)
  BY DEF Alike
<1>2. /\ \A i \in 1..m : SameLine(a[i], b[i], loose)
      /\ \A i \in 1..n : SameLine(c[i], d[i], loose)
  BY <1>1, LenProperties DEF Alike
<1>3. PICK x : x = a \o c
  OBVIOUS
<1>4. PICK y : y = b \o d
  OBVIOUS
<1>5. /\ x \in Seq(Written) /\ Len(x) = m + n
      /\ \A i \in 1..m + n : x[i] = IF i <= m THEN a[i] ELSE c[i - m]
  <2>1. /\ a \o c \in Seq(Written) /\ Len(a \o c) = Len(a) + Len(c)
        /\ \A i \in 1..Len(a) + Len(c) :
              (a \o c)[i] = IF i <= Len(a) THEN a[i] ELSE c[i - Len(a)]
    BY ConcatProperties
  <2> QED
    BY <1>1, <1>3, <2>1
<1>6. /\ y \in Seq(Written) /\ Len(y) = m + n
      /\ \A i \in 1..m + n : y[i] = IF i <= m THEN b[i] ELSE d[i - m]
  <2>1. /\ b \o d \in Seq(Written) /\ Len(b \o d) = Len(b) + Len(d)
        /\ \A i \in 1..Len(b) + Len(d) :
              (b \o d)[i] = IF i <= Len(b) THEN b[i] ELSE d[i - Len(b)]
    BY ConcatProperties
  <2> QED
    BY <1>1, <1>4, <2>1
<1>7. ASSUME NEW i \in 1..m + n PROVE SameLine(x[i], y[i], loose)
  <2>1. CASE i <= m
    <3>1. i \in 1..m /\ x[i] = a[i] /\ y[i] = b[i]
      BY <1>5, <1>6, <2>1
    <3> QED
      BY <1>2, <3>1
  <2>2. CASE ~(i <= m)
    <3>1. i - m \in 1..n /\ x[i] = c[i - m] /\ y[i] = d[i - m]
      BY <1>5, <1>6, <2>2
    <3> QED
      BY <1>2, <3>1
  <2> QED
    BY <2>1, <2>2
<1>8. DOMAIN x = 1..m + n
  BY <1>5, LenProperties
<1> QED
  BY <1>3, <1>4, <1>5, <1>6, <1>7, <1>8 DEF Alike

-------------------------------------------------------------------------------
(***************************************************************************)
(* The splice: what has become of the input so far.                        *)
(***************************************************************************)

\* The hunks applied, the text in front of the last one, and its new lines.
K == Len(applied)
Till == FlattenSeq([i \in 1..K |-> Piece(i - 1)])
LastNew == IF K = 0 THEN <<>> ELSE NewLines(applied[K].hunk)

\* The cases OutputIsSpliced speaks of.
Good == ~strayed /\ ~sw.defines /\ InOrder /\ AllBalanced

\* Between two hunks: the output and the lines not yet copied up to the end of the
\* last hunk are the file as it should be up to there.
Settled ==
  /\ Till \in Seq(Written)
  /\ frozen < Stops(K)
  /\ Alike(out \o SubSeq(input, frozen + 1, Stops(K) - 1), Till \o LastNew, sw.loose)

\* In a hunk whose old lines are done in front of line o, and whose new lines in front
\* of line n: the line of the input reached, and the new lines that are done.
Reached(o) == applied[K].where + o - 2
NewTill(hk, n) == IF n > hk.end THEN hk.end + 1 ELSE n

\* The two parts are in step: of two lines or changes that belong together both are
\* done, or neither.
InStep(hk, twin, o, n) == \A i \in Anchors(hk, OldPart(hk)) : i >= o <=> twin[i] >= n

\* Where apply_hunk() stands in the hunk: at the beginning of a change or outside of
\* one, in step.
Place(hk, o, n) ==
  /\ o \in 1..hk.ptrn + 1
  /\ n > NewHeader(hk) /\ (n <= hk.end + 1 \/ hk.end = NewHeader(hk))
  /\ Sign(hk, o) = "!" => Sign(hk, o - 1) # "!"
  /\ Sign(hk, n) = "!" => Sign(hk, n - 1) # "!"
  /\ \E twin \in [Anchors(hk, OldPart(hk)) -> Anchors(hk, NewPart(hk))] :
       IsTwin(hk, twin) /\ InStep(hk, twin, o, n)

\* What is written then.
TextTo(o, n) ==
  /\ frozen <= Reached(o)
  /\ Alike(out \o SubSeq(input, frozen + 1, Reached(o)),
           Till \o Lines(h, NewHeader(h) + 1, NewTill(h, n)), sw.loose)

\* The hunk in hand is the last of those applied, and fits there.
InHand ==
  /\ K > 0 /\ applied[K].hunk = h /\ at.where = applied[K].where - 1
  /\ h.ptrn = 0 \/ Matches(h, input, applied[K].where, sw.loose)
Amid == Till \in Seq(Written) /\ Place(h, at.old, at.new) /\ TextTo(at.old, at.new)

\* The invariant: it speaks of the text of the last patch, from opening its file until
\* its output is put in place.
SpliceInv ==
  /\ pc \in {"start", "another", "intuit", "ask", "open"} => frozen = 0
  /\ pc = "ed" => sw.type = "ed"
  /\ pc \in {"confirm", "hunk", "context", "normal", "read", "locate", "spew"} /\ Good => Settled
  /\ pc = "apply" => InHand
  /\ pc = "apply" /\ Good => Amid
  /\ pc = "backup" /\ ~mv.rejects /\ sw.type # "ed" /\ Good => SameText(out, Spliced)

-------------------------------------------------------------------------------
(***************************************************************************)
(* The two parts of a hunk stay in step.                                   *)
(***************************************************************************)

\* The header of the new part is a line of the hunk.
LEMMA HeaderIsInt ==
  ASSUME NEW hk \in HunkType
  PROVE  NewHeader(hk) \in Int /\ hk.ptrn + 1 <= NewHeader(hk)
<1>1. PICK w \in Int : w = hk.ptrn
  BY HunkFields
<1>2. Blank(hk) \in {0, 1}
  BY DEF Blank
<1> QED
  BY <1>1, <1>2 DEF NewHeader

\* What belongs together are lines of the two parts.
LEMMA AnchorsAreLines ==
  ASSUME NEW hk \in HunkType
  PROVE  /\ \A i \in Anchors(hk, OldPart(hk)) : i \in Int /\ 1 <= i /\ i <= hk.ptrn
         /\ \A j \in Anchors(hk, NewPart(hk)) : j \in Int /\ NewHeader(hk) < j /\ j <= hk.end
<1>1. PICK a \in Int, e \in Int, w \in Int : a = NewHeader(hk) /\ e = hk.end /\ w = hk.ptrn
  BY HeaderIsInt, HunkFields
<1>2. Anchors(hk, OldPart(hk)) \subseteq 1..w /\ Anchors(hk, NewPart(hk)) \subseteq a + 1..e
  BY <1>1 DEF Anchors, OldPart, NewPart
<1> QED
  BY <1>1, <1>2

\* Where both parts stand at the beginning of a change or at a line that stays, these
\* belong together.
LEMMA TwinsMeet ==
  ASSUME NEW hk \in HunkType,
         NEW twin \in [Anchors(hk, OldPart(hk)) -> Anchors(hk, NewPart(hk))], IsTwin(hk, twin),
         NEW o \in Anchors(hk, OldPart(hk)), NEW n \in Anchors(hk, NewPart(hk)),
         InStep(hk, twin, o, n)
  PROVE  twin[o] = n
<1>1. /\ Anchors(hk, OldPart(hk)) \subseteq Int /\ Anchors(hk, NewPart(hk)) \subseteq Int
  BY AnchorsAreLines
<1>2. PICK i \in Anchors(hk, OldPart(hk)) : twin[i] = n
  BY DEF IsTwin
<1>3. i \in Int /\ o \in Int /\ n \in Int /\ twin[o] \in Int
  BY <1>1
<1>4. i >= o /\ twin[o] >= n
  BY <1>2, <1>3 DEF InStep
<1>5. i > o => twin[o] < n
  BY <1>2, <1>3 DEF IsTwin
<1>6. i = o
  BY <1>3, <1>4, <1>5
<1> QED
  BY <1>2, <1>6

\* Both parts pass them, and what belongs to the change.
LEMMA StepOver ==
  ASSUME NEW hk \in HunkType,
         NEW twin \in [Anchors(hk, OldPart(hk)) -> Anchors(hk, NewPart(hk))], IsTwin(hk, twin),
         NEW o \in Anchors(hk, OldPart(hk)), NEW n \in Anchors(hk, NewPart(hk)),
         InStep(hk, twin, o, n), NEW u \in Int, NEW v \in Int, o < u, n < v,
         \A i \in o + 1..u - 1 : i \notin Anchors(hk, OldPart(hk)),
         \A j \in n + 1..v - 1 : j \notin Anchors(hk, NewPart(hk))
  PROVE  InStep(hk, twin, u, v)
<1>1. /\ Anchors(hk, OldPart(hk)) \subseteq Int /\ Anchors(hk, NewPart(hk)) \subseteq Int
  BY AnchorsAreLines
<1>2. twin[o] = n
  BY TwinsMeet
<1>3. ASSUME NEW i \in Anchors(hk, OldPart(hk)) PROVE i >= u <=> twin[i] >= v
  <2>1. /\ i \in Int /\ o \in Int /\ n \in Int /\ twin[i] \in Int
        /\ twin[i] \in Anchors(hk, NewPart(hk))
    BY <1>1
  <2>2. (i >= o <=> twin[i] >= n) /\ (o < i => n < twin[i])
    BY <1>2 DEF InStep, IsTwin
  <2>3. i \notin o + 1..u - 1 /\ twin[i] \notin n + 1..v - 1
    BY <2>1
  <2>4. i = o => twin[i] = n
    BY <1>2
  <2> QED
    BY <2>1, <2>2, <2>3, <2>4
<1> QED
  BY <1>3 DEF InStep

\* A line that is deleted or inserted belongs to none.
LEMMA StepAside ==
  ASSUME NEW hk \in HunkType,
         NEW twin \in [Anchors(hk, OldPart(hk)) -> Anchors(hk, NewPart(hk))], IsTwin(hk, twin),
         NEW o \in Int, NEW n \in Int, InStep(hk, twin, o, n)
  PROVE  /\ o \notin Anchors(hk, OldPart(hk)) => InStep(hk, twin, o + 1, n)
         /\ n \notin Anchors(hk, NewPart(hk)) => InStep(hk, twin, o, n + 1)
<1>1. /\ Anchors(hk, OldPart(hk)) \subseteq Int /\ Anchors(hk, NewPart(hk)) \subseteq Int
  BY AnchorsAreLines
<1>2. ASSUME o \notin Anchors(hk, OldPart(hk)), NEW i \in Anchors(hk, OldPart(hk))
      PROVE  i >= o + 1 <=> twin[i] >= n
  <2>1. i \in Int /\ i # o /\ (i >= o <=> twin[i] >= n)
    BY <1>1, <1>2 DEF InStep
  <2>2. i >= o + 1 <=> i >= o
    BY <2>1
  <2> QED
    BY <2>1, <2>2
<1>3. ASSUME n \notin Anchors(hk, NewPart(hk)), NEW i \in Anchors(hk, OldPart(hk))
      PROVE  i >= o <=> twin[i] >= n + 1
  <2>1. twin[i] \in Int /\ twin[i] # n /\ (i >= o <=> twin[i] >= n)
    BY <1>1, <1>3 DEF InStep
  <2>2. twin[i] >= n + 1 <=> twin[i] >= n
    BY <2>1
  <2> QED
    BY <2>1, <2>2
<1> QED
  BY <1>2, <1>3 DEF InStep

\* When the old part is done, all that is left of the new part is added.
LEMMA OnlyAddedLeft ==
  ASSUME NEW hk \in HunkType, Balanced(hk),
         NEW twin \in [Anchors(hk, OldPart(hk)) -> Anchors(hk, NewPart(hk))], IsTwin(hk, twin),
         NEW n \in Int, NEW o \in Int, o = hk.ptrn + 1, InStep(hk, twin, o, n),
         n > NewHeader(hk), Sign(hk, n) = "!" => Sign(hk, n - 1) # "!"
  PROVE  \A j \in n..hk.end : Sign(hk, j) = "+"
<1>1. PICK a \in Int, e \in Int, w \in Int : a = NewHeader(hk) /\ e = hk.end /\ w = hk.ptrn
  BY HeaderIsInt, HunkFields
<1>2. ASSUME NEW j \in Anchors(hk, NewPart(hk)) PROVE j < n
  <2>1. PICK i \in Anchors(hk, OldPart(hk)) : twin[i] = j
    BY DEF IsTwin
  <2>2. i \in Int /\ i < o
    BY AnchorsAreLines, <1>1
  <2>3. i >= o <=> j >= n
    BY <2>1 DEF InStep
  <2>4. j \in Int
    BY AnchorsAreLines
  <2> QED
    BY <2>2, <2>3, <2>4
<1>3. ASSUME NEW j \in n..e, Sign(hk, j) # "!" \/ Sign(hk, j - 1) # "!"
      PROVE  Sign(hk, j) = "+"
  <2>1. j \in NewPart(hk) /\ ~(j < n)
    BY <1>1 DEF NewPart
  <2>2. j \notin Anchors(hk, NewPart(hk))
    BY <1>2, <2>1
  <2>3. Sign(hk, j) \in {" ", "+", "!"}
    BY <2>1 DEF Balanced
  <2> QED
    BY <1>3, <2>1, <2>2, <2>3 DEF Anchors
<1> DEFINE S == {j \in n..e : Sign(hk, j) # "+"}
<1>4. CASE S = {}
  BY <1>1, <1>4
<1>5. CASE S # {}
  <2>1. PICK m \in S : \A j \in S : m <= j
    <3>1. S \subseteq Int /\ \A j \in S : n <= j
      OBVIOUS
    <3> HIDE DEF S
    <3> QED
      BY <1>5, <3>1, LeastInteger
  <2>2. m \in n..e /\ Sign(hk, m) # "+"
    OBVIOUS
  <2>3. Sign(hk, m) = "!" /\ Sign(hk, m - 1) = "!"
    BY <1>3, <2>2
  <2>4. m # n
    BY <2>3
  <2>5. m - 1 \in n..e /\ ~(m <= m - 1)
    BY <2>2, <2>4
  <2>6. m - 1 \in S
    BY <2>3, <2>5
  <2> QED
    BY <2>1, <2>5, <2>6
<1> QED
  BY <1>4, <1>5
-------------------------------------------------------------------------------
(***************************************************************************)
(* What the file should be, hunk for hunk.                                 *)
(***************************************************************************)

\* The hunks applied and their places.
LEMMA HunksAre ==
  ASSUME PatchTypes
  PROVE  /\ K \in Nat /\ DOMAIN applied = 1..K
         /\ \A i \in 1..K : applied[i].where \in Int /\ applied[i].hunk \in HunkType
         /\ \A i \in 0..K : Stops(i) \in Int
         /\ Len(input) \in Nat /\ input \in Seq(Written)
<1>1. applied \in Seq([where : Int, hunk : HunkType])
  BY DEF PatchTypes
<1>2. K \in Nat /\ DOMAIN applied = 1..K
  BY <1>1, LenProperties DEF K
<1>3. \A i \in 1..K : applied[i].where \in Int /\ applied[i].hunk \in HunkType
  <2>1. \A i \in 1..K : applied[i] \in [where : Int, hunk : HunkType]
    BY <1>1, <1>2, ElementOfSeq DEF K
  <2> QED
    BY <2>1
<1>4. ASSUME NEW i \in 0..K PROVE Stops(i) \in Int
  <2>1. CASE i = 0
    BY <2>1 DEF Stops
  <2>2. CASE i # 0
    <3>1. i \in 1..K
      BY <1>2, <2>2
    <3>2. PICK w \in Int, o \in Int : w = applied[i].where /\ o = applied[i].hunk.ptrn
      BY <1>3, <3>1, HunkFields
    <3> QED
      BY <2>2, <3>2 DEF Stops
  <2> QED
    BY <2>1, <2>2
<1>5. input \in Seq(Written) /\ Len(input) \in Nat
  BY LenProperties DEF PatchTypes, TextsOK
<1> QED
  BY <1>2, <1>3, <1>4, <1>5

\* The new lines of a hunk are text.
LEMMA NewLinesAreText ==
  ASSUME NEW hk \in HunkType, Balanced(hk)
  PROVE  NewLines(hk) \in Seq(Written)
<1>1. hk.end < MAXHUNKSIZE
  <2>1. hk.end \in Room
    BY DEF Balanced
  <2> QED
    BY <2>1, RoomAssumption DEF Room
<1>2. PICK i \in Int, j \in Int : i = NewHeader(hk) + 1 /\ j = hk.end + 1
  BY HeaderIsInt, HunkFields
<1>3. Lines(hk, i, j) \in Seq(HunkTexts)
  BY <1>1, LinesAreTexts
<1> QED
  BY <1>2, <1>3, SignsAndTexts, SeqMonotonic DEF NewLines
LEMMA LastNewIsText ==
  ASSUME PatchTypes, AllBalanced
  PROVE  LastNew \in Seq(Written)
<1>1. CASE K = 0
  BY <1>1 DEF LastNew
<1>2. CASE K # 0
  <2>1. K \in 1..K
    BY <1>2, HunksAre
  <2>2. Balanced(applied[K].hunk) /\ applied[K].hunk \in HunkType
    BY <2>1, HunksAre DEF AllBalanced
  <2> QED
    BY <1>2, <2>2, NewLinesAreText DEF LastNew
<1> QED
  BY <1>1, <1>2

\* It ends with the new lines of the last hunk and the input from there on.
LEMMA SplicedIs ==
  ASSUME PatchTypes, AllBalanced, Till \in Seq(Written), Stops(K) >= 1
  PROVE  Spliced = (Till \o LastNew) \o SubSeq(input, Stops(K), Len(input))
<1>1. PICK m \in Nat, n \in Nat : m = K /\ n = m + 1
  BY HunksAre
<1>2. PICK s : s = [i \in 1..m |-> Piece(i - 1)]
  OBVIOUS
<1>3. PICK r : r = [i \in 1..n |-> Piece(i - 1)]
  OBVIOUS
<1>4. Till = FlattenSeq(s) /\ Spliced = FlattenSeq(r)
  BY <1>1, <1>2, <1>3 DEF Till, Spliced, K
<1>5. Len(s) = m /\ Len(r) = n /\ \A i \in 1..m : s[i] = r[i]
  BY <1>1, <1>2, <1>3
<1>6. /\ m # 0 => FlattenSeq(r) = FlattenSeq(s) \o r[n]
      /\ m = 0 => FlattenSeq(r) = r[1] /\ FlattenSeq(s) = s
  BY <1>1, <1>5, FlattenOneMore, ZenonT(30)
<1>7. PICK rest : rest = SubSeq(input, Stops(K), Len(input))
  OBVIOUS
<1>8. r[n] = LastNew \o rest
  <2>1. r[n] = Piece(m)
    BY <1>1, <1>3
  <2>2. Starts(m + 1) = Len(input) + 1 /\ Len(input) \in Nat
    BY <1>1, HunksAre DEF Starts, K
  <2>3. Starts(m + 1) - 1 = Len(input)
    BY <2>2
  <2> QED
    BY <1>1, <1>7, <2>1, <2>3 DEF Piece, LastNew
<1>9. rest \in Seq(Written) /\ LastNew \in Seq(Written)
  <2>1. PICK i \in Nat : i = Stops(K)
    BY <1>1, HunksAre
  <2> QED
    BY <1>7, <2>1, HunksAre, PartIsText, LastNewIsText
<1>10. CASE m # 0
  <2>1. (Till \o LastNew) \o rest = Till \o (LastNew \o rest)
    BY <1>9, ConcatAssociative
  <2> QED
    BY <1>4, <1>6, <1>7, <1>8, <1>10, <2>1
<1>11. CASE m = 0
  <2>1. s = <<>> /\ LastNew = <<>>
    BY <1>1, <1>2, <1>11 DEF LastNew
  <2>2. Till = <<>> /\ Spliced = <<>> \o rest
    BY <1>1, <1>4, <1>6, <1>8, <1>11, <2>1
  <2> QED
    BY <1>7, <1>9, <2>1, <2>2, ConcatEmptySeq, EmptySeq
<1> QED
  BY <1>10, <1>11

\* The next hunk ends what is in front of it.
LEMMA TillGrows ==
  ASSUME PatchTypes, AllBalanced, Till \in Seq(Written), Stops(K) >= 1, input' = input,
         NEW w \in Int, NEW hk \in HunkType, w <= Len(input) + 1,
         applied' = Append(applied, [where |-> w, hunk |-> hk])
  PROVE  /\ K' = K + 1 /\ applied'[K'] = [where |-> w, hunk |-> hk]
         /\ \A i \in 1..K : applied'[i] = applied[i]
         /\ Till' = (Till \o LastNew) \o SubSeq(input, Stops(K), w - 1)
         /\ Till' \in Seq(Written)
<1>1. PICK m \in Nat, n \in Nat : m = K /\ n = m + 1
  BY HunksAre
<1>2. /\ K' = n /\ applied'[n] = [where |-> w, hunk |-> hk]
      /\ \A i \in 1..m : applied'[i] = applied[i]
  <2>1. applied \in Seq([where : Int, hunk : HunkType])
    BY DEF PatchTypes
  <2> QED
    BY <1>1, <2>1, AppendProperties DEF K
<1>3. PICK s : s = [i \in 1..m |-> Piece(i - 1)]
  OBVIOUS
<1>4. PICK r : r = [i \in 1..n |-> Piece(i - 1)']
  OBVIOUS
<1>5. Till = FlattenSeq(s)
  BY <1>1, <1>3 DEF Till
<1>6. Till' = FlattenSeq(r)
  BY <1>2, <1>4 DEF Till
<1>7. ASSUME NEW i \in 0..m PROVE Stops(i)' = Stops(i) /\ (i # 0 => applied'[i] = applied[i])
  <2>1. i # 0 => i \in 1..m
    OBVIOUS
  <2>2. i # 0 => applied'[i] = applied[i]
    BY <1>2, <2>1
  <2> QED
    BY <2>2 DEF Stops
<1>8. ASSUME NEW i \in 1..m PROVE Starts(i)' = Starts(i)
  BY <1>1, <1>2 DEF Starts, K
<1>9. ASSUME NEW i \in 1..m PROVE s[i] = r[i]
  <2>1. i - 1 \in 0..m /\ i - 1 + 1 = i
    OBVIOUS
  <2>2. Stops(i - 1)' = Stops(i - 1) /\ Starts(i - 1 + 1)' = Starts(i - 1 + 1)
    BY <1>7, <1>8, <2>1
  <2>3. i - 1 # 0 => applied'[i - 1] = applied[i - 1]
    BY <1>7, <2>1
  <2>4. Piece(i - 1)' = Piece(i - 1)
    BY <2>2, <2>3 DEF Piece
  <2> QED
    BY <1>1, <1>3, <1>4, <2>4
<1>10. Len(s) = m /\ Len(r) = n
  BY <1>3, <1>4
<1>11. /\ m # 0 => FlattenSeq(r) = FlattenSeq(s) \o r[n]
       /\ m = 0 => FlattenSeq(r) = r[1] /\ FlattenSeq(s) = s
  BY <1>1, <1>9, <1>10, FlattenOneMore, ZenonT(30)
<1>12. PICK rest : rest = SubSeq(input, Stops(K), w - 1)
  OBVIOUS
<1>13. r[n] = LastNew \o rest
  <2>1. r[n] = Piece(m)'
    BY <1>1, <1>4
  <2>2. Starts(m + 1)' = w
    BY <1>1, <1>2 DEF Starts, K
  <2>3. m \in 0..m
    OBVIOUS
  <2>4. Stops(m)' = Stops(m) /\ (m # 0 => applied'[m] = applied[m])
    BY <1>7, <2>3
  <2> QED
    BY <1>1, <1>12, <2>1, <2>2, <2>4 DEF Piece, LastNew
<1>14. rest \in Seq(Written) /\ LastNew \in Seq(Written)
  <2>1. PICK i \in Nat, j \in Int : i = Stops(K) /\ j = w - 1
    BY <1>1, HunksAre
  <2>2. i > 0 /\ j <= Len(input)
    BY <2>1, HunksAre
  <2> QED
    BY <1>12, <2>1, <2>2, HunksAre, PartIsText, LastNewIsText
<1>15. Till' = (Till \o LastNew) \o rest
  <2>1. CASE m # 0
    <3>1. (Till \o LastNew) \o rest = Till \o (LastNew \o rest)
      BY <1>14, ConcatAssociative, SMTT(30)
    <3> QED
      BY <1>5, <1>6, <1>11, <1>13, <2>1, <3>1
  <2>2. CASE m = 0
    <3>1. s = <<>> /\ LastNew = <<>>
      BY <1>1, <1>3, <2>2 DEF LastNew
    <3>2. Till = <<>> /\ Till' = <<>> \o rest
      BY <1>1, <1>5, <1>6, <1>11, <1>13, <2>2, <3>1
    <3> QED
      BY <1>14, <3>1, <3>2, ConcatEmptySeq, EmptySeq
  <2> QED
    BY <2>1, <2>2
<1>16. Till' \in Seq(Written)
  BY <1>14, <1>15, TextsAdd
<1> QED
  BY <1>1, <1>2, <1>12, <1>15, <1>16

\* As long as no hunk is applied it stays.
LEMMA TillStays ==
  ASSUME UNCHANGED <<applied, input>>
  PROVE  /\ K' = K /\ Till' = Till /\ LastNew' = LastNew /\ Stops(K)' = Stops(K)
         /\ InOrder' = InOrder /\ AllBalanced' = AllBalanced
         /\ \A o : Reached(o)' = Reached(o)
<1>1. K' = K /\ LastNew' = LastNew /\ Stops(K)' = Stops(K) /\ \A o : Reached(o)' = Reached(o)
  BY DEF K, LastNew, Stops, Reached
<1>2. Till' = Till
  BY DEF Till, Piece, K, Stops, Starts
<1>3. InOrder' = InOrder /\ AllBalanced' = AllBalanced
  BY DEF InOrder, AllBalanced, Stops, Starts
<1> QED
  BY <1>1, <1>2, <1>3
-------------------------------------------------------------------------------
(***************************************************************************)
(* Between two hunks.                                                      *)
(***************************************************************************)

\* Three of them, in one order or the other.
LEMMA TextsChain ==
  ASSUME NEW a \in Seq(Written), NEW b \in Seq(Written), NEW c \in Seq(Written)
  PROVE  (a \o b) \o c = a \o (b \o c)
BY ConcatAssociative

\* The lines of the input up to line n are those up to line k and those behind it.
LEMMA AlikeUpTo ==
  ASSUME out \in Seq(Written), input \in Seq(Written), NEW f \in Nat, NEW k \in Nat, NEW n \in Nat,
         f <= k, k <= n, n <= Len(input), NEW a \in Seq(Written), NEW c \in Seq(Written), NEW loose,
         Alike(out \o SubSeq(input, f + 1, k), a, loose),
         Alike(SubSeq(input, k + 1, n), c, loose)
  PROVE  Alike(out \o SubSeq(input, f + 1, n), a \o c, loose)
<1>1. PICK i \in Nat, j \in Nat : i = f + 1 /\ j = k + 1
  OBVIOUS
<1>2. PICK x, y, z : x = SubSeq(input, i, k) /\ y = SubSeq(input, j, n) /\ z = SubSeq(input, i, n)
  OBVIOUS
<1>3. Len(input) \in Nat
  BY LenProperties
<1>4. x \in Seq(Written) /\ y \in Seq(Written)
  <2>1. k <= Len(input) /\ i > 0 /\ j > 0 /\ k \in Int /\ n \in Int
    BY <1>1, <1>3
  <2>2. SubSeq(input, i, k) \in Seq(Written)
    BY <2>1, PartIsText
  <2>3. SubSeq(input, j, n) \in Seq(Written)
    BY <2>1, PartIsText
  <2> QED
    BY <1>2, <2>2, <2>3
<1>5. x \o y = z
  <2>1. i \in 1..Len(input) + 1 /\ k \in i - 1..Len(input) /\ n \in k..Len(input)
    BY <1>1, <1>3
  <2>2. SubSeq(input, i, k) \o SubSeq(input, k + 1, n) = SubSeq(input, i, n)
    BY <2>1, ConcatAdjacentSubSeq
  <2> QED
    BY <1>1, <1>2, <2>2
<1>6. out \o x \in Seq(Written)
  BY <1>4, ConcatProperties
<1>7. Alike((out \o x) \o y, a \o c, loose)
  BY <1>1, <1>2, <1>4, <1>6, AlikeAdded
<1>8. (out \o x) \o y = out \o z
  <2>1. (out \o x) \o y = out \o (x \o y)
    BY <1>4, TextsChain, SMTT(30)
  <2> QED
    BY <1>5, <2>1
<1> QED
  BY <1>1, <1>2, <1>7, <1>8

\* The labels between two hunks.
Between == {"confirm", "hunk", "context", "normal", "read", "locate", "spew"}
Looking == {"start", "another", "intuit", "ask", "open"}

\* A step between two hunks that copies and applies nothing.
LEMMA NothingApplied ==
  ASSUME SpliceInv, UNCHANGED <<applied, input, frozen, out, sw, strayed>>,
         pc \in Between, pc' \in Between
  PROVE  SpliceInv'
<1>1. Good' = Good
  BY TillStays DEF Good
<1>2. Settled' = Settled
  <2>1. PICK t : t = out \o SubSeq(input, frozen + 1, Stops(K) - 1)
    OBVIOUS
  <2>2. (out \o SubSeq(input, frozen + 1, Stops(K) - 1))' = t
    BY <2>1, TillStays
  <2> QED
    BY <2>1, <2>2, TillStays DEF Settled
<1>3. Good => Settled
  BY DEF SpliceInv, Between
<1> QED
  BY <1>1, <1>2, <1>3 DEF SpliceInv, Between

\* Looking for a patch applies nothing.
LEMMA NothingOpened ==
  ASSUME SpliceInv, frozen' \in {0, frozen}, pc \in Looking \/ frozen' = 0, pc' \in Looking
  PROVE  SpliceInv'
BY DEF SpliceInv, Looking

\* A file is opened: none of it is copied.
LEMMA Opened ==
  ASSUME PatchTypes, SpliceInv, OpenFiles
  PROVE  SpliceInv'
<1>1. /\ applied' = <<>> /\ out' = <<>> /\ frozen' = 0 /\ sw'.type = sw.type
      /\ pc' \in {"ed", "confirm", "hunk"} /\ (pc' = "ed" => sw.type = "ed")
  <2>1. frozen = 0
    BY DEF SpliceInv, OpenFiles, At
  <2>2. sw' = [sw EXCEPT !.out = IF @ = NULL THEN sw.file ELSE @]
    BY DEF OpenFiles
  <2>3. sw'.type = sw.type
    BY <2>2 DEF PatchTypes, SwitchNames
  <2> QED
    BY <2>1, <2>3 DEF OpenFiles, Go
<1>2. K' = 0 /\ LastNew' = <<>> /\ Stops(K)' = 1
  BY <1>1 DEF K, LastNew, Stops
<1>3. Till' = <<>>
  <2>1. PICK s : s = [i \in 1..0 |-> Piece(i - 1)']
    OBVIOUS
  <2>2. Till' = FlattenSeq(s)
    BY <1>2, <2>1 DEF Till
  <2>3. s = <<>> /\ Len(s) = 0
    BY <2>1
  <2> QED
    BY <2>2, <2>3 DEF FlattenSeq
<1>4. SubSeq(input', 1, 0) = <<>>
  <2>1. PICK i \in Int, j \in Int : i = 1 /\ j = 0
    OBVIOUS
  <2> QED
    BY <2>1, SubSeqEmpty
<1>5. (out \o SubSeq(input, frozen + 1, Stops(K) - 1))' = <<>> \o <<>>
  BY <1>1, <1>2, <1>4
<1>6. Settled'
  <2>1. Till' \in Seq(Written)
    BY <1>3, EmptySeq
  <2>2. (Till \o LastNew)' = <<>> \o <<>>
    BY <1>2, <1>3
  <2>3. frozen' < Stops(K)'
    BY <1>1, <1>2
  <2> QED
    BY <1>5, <2>1, <2>2, <2>3, AlikeItself DEF Settled
<1> QED
  BY <1>1, <1>6 DEF SpliceInv

\* The rest of the input is copied (patch.c:854-893).
LEMMA Spewed ==
  ASSUME PatchTypes, SpliceInv, SpewOutput
  PROVE  SpliceInv'
<1>1. /\ UNCHANGED <<applied, input, sw, strayed>> /\ out' = CopiedTill(Len(input))
      /\ pc = "spew" /\ pc' = "backup"
  BY DEF SpewOutput, At, Go, settings
<1>2. ASSUME Good PROVE SameText(out, Spliced)'
  <2>1. Settled /\ AllBalanced /\ InOrder
    BY <1>1, <1>2 DEF SpliceInv, Good
  <2>2. PICK s \in Int, f \in Nat, e \in Nat : s = Stops(K) /\ f = frozen /\ e = Len(input)
    <3>1. K \in 0..K
      BY HunksAre
    <3> QED
      BY <3>1, HunksAre DEF PatchTypes, NumbersOK
  <2>3. f < s /\ s <= e + 1
    <3>1. K \in 0..Len(applied)
      BY HunksAre DEF K
    <3>2. Starts(K + 1) \in s..e + 1
      BY <2>1, <2>2, <3>1 DEF InOrder
    <3> QED
      BY <2>1, <2>2, <3>2 DEF Settled
  <2>4. Till \in Seq(Written) /\ LastNew \in Seq(Written) /\ out \in Seq(Written)
        /\ input \in Seq(Written)
    BY <2>1, LastNewIsText DEF Settled, PatchTypes, TextsOK
  <2>5. PICK k \in Nat : k = s - 1
    BY <2>3
  <2>6. PICK t \in Seq(Written) : t = Till \o LastNew
    BY <2>4, TextsAdd
  <2>7. Alike(out \o SubSeq(input, f + 1, k), t, sw.loose)
    BY <2>1, <2>2, <2>5, <2>6 DEF Settled
  <2>8. PICK c : c = SubSeq(input, s, e)
    OBVIOUS
  <2>9. c \in Seq(Written)
    <3>1. s \in Nat /\ s > 0
      BY <2>3
    <3> QED
      BY <2>2, <2>4, <2>8, <3>1, PartIsText
  <2>10. Alike(out \o SubSeq(input, f + 1, e), t \o c, sw.loose)
    <3>1. f <= k /\ k <= e /\ k + 1 = s
      BY <2>3, <2>5
    <3>2. Alike(SubSeq(input, k + 1, e), c, sw.loose)
      BY <2>8, <3>1, AlikeItself
    <3>3. e <= Len(input)
      BY <2>2
    <3> QED
      BY <2>4, <2>7, <2>9, <3>1, <3>2, <3>3, AlikeUpTo
  <2>11. out' = out \o SubSeq(input, f + 1, e)
    <3>1. frozen \in Nat /\ frozen <= e /\ e <= Len(input)
      BY <2>2, <2>3
    <3>2. CopiedTill(e) = out \o SubSeq(input, frozen + 1, e)
      BY <2>4, <3>1, CopyIsPart
    <3> QED
      BY <1>1, <2>2, <3>2
  <2>12. Spliced = t \o c
    <3>1. Stops(K) >= 1
      BY <2>2, <2>3
    <3> QED
      BY <2>1, <2>2, <2>4, <2>6, <2>8, <3>1, SplicedIs
  <2>13. Spliced' = Spliced
    BY <1>1 DEF Spliced, Piece, Starts, Stops
  <2>14. Alike(out', Spliced', sw'.loose)
    BY <1>1, <2>10, <2>11, <2>12, <2>13
  <2> QED
    BY <2>14 DEF Alike, SameText
<1>3. Good' = Good
  BY <1>1, TillStays DEF Good
<1> QED
  BY <1>1, <1>2, <1>3 DEF SpliceInv
-------------------------------------------------------------------------------
(***************************************************************************)
(* A hunk begins.                                                          *)
(***************************************************************************)

\* apply_hunk() starts with the new part at the first line behind its header
\* (patch.c:739-741); behind a hunk that has no new lines it starts anywhere.
LEMMA NewBegins ==
  ASSUME NEW hk \in HunkType, Balanced(hk), NEW n, n = Behind(hk, hk.ptrn + 1, {"=", "\n"})
  PROVE  /\ n \in Int /\ n > NewHeader(hk)
         /\ n = NewHeader(hk) + 1 \/ hk.end = NewHeader(hk)
         /\ Sign(hk, n - 1) \in {"=", "\n"}
<1>1. PICK a \in Int, e \in Int, w \in Nat, b \in {0, 1} :
        a = NewHeader(hk) /\ e = hk.end /\ w = hk.ptrn /\ b = Blank(hk)
  BY HeaderIsInt, HunkFields DEF Balanced, Blank
<1>2. a = w + 1 + b /\ a <= e /\ e <= MAXHUNKSIZE - 1
  <2>1. hk.end \in Room /\ NewHeader(hk) <= hk.end
    BY DEF Balanced
  <2> QED
    BY <1>1, <2>1, RoomAssumption DEF NewHeader, Room
<1>3. Sign(hk, a) = "=" /\ (b = 1 => Sign(hk, w + 1) = "\n")
  <2>1. CanSwap(hk)
    BY DEF Balanced
  <2>2. Sign(hk, a) = "="
    BY <1>1, <2>1 DEF CanSwap
  <2>3. b = 1 => Sign(hk, w + 1) = "\n"
    BY <1>1 DEF Blank
  <2> QED
    BY <2>2, <2>3
<1>4. PICK signs : signs = {"=", "\n"}
  OBVIOUS
<1>5. PICK i \in Int : i = w + 1
  OBVIOUS
<1>6. /\ n \in i..MAXHUNKSIZE /\ Sign(hk, n) \notin signs
      /\ \A j \in i..n - 1 : Sign(hk, j) \in signs
  <2>1. "none" \notin signs /\ i <= MAXHUNKSIZE
    BY <1>2, <1>4, <1>5, RoomAssumption
  <2>2. n = Behind(hk, i, signs)
    BY <1>1, <1>4, <1>5
  <2> QED
    BY <2>1, <2>2, BehindIsFirst
<1>7. n \in Int
  BY <1>6, RoomAssumption
<1>8. n # a /\ (b = 1 => n # i)
  BY <1>3, <1>4, <1>5, <1>6
<1>9. n > a
  BY <1>2, <1>5, <1>6, <1>7, <1>8, RoomAssumption
<1>10. n - 1 \in i..n - 1
  BY <1>2, <1>5, <1>7, <1>9
<1>11. Sign(hk, n - 1) \in signs
  BY <1>6, <1>10
<1>12. ASSUME a # e PROVE n = a + 1
  <2>1. PICK j \in Int : j = a + 1
    OBVIOUS
  <2>2. j \in NewPart(hk)
    BY <1>1, <1>2, <1>12, <2>1 DEF NewPart
  <2>3. Sign(hk, j) \in {" ", "+", "!"}
    BY <2>2 DEF Balanced
  <2>4. j \notin i..n - 1
    BY <1>4, <1>6, <2>3
  <2> QED
    BY <1>2, <1>5, <1>7, <1>9, <2>1, <2>4
<1> QED
  BY <1>1, <1>4, <1>7, <1>9, <1>11, <1>12

\* Nothing of it is done yet, and the two parts are in step.
LEMMA PlaceBegins ==
  ASSUME NEW hk \in HunkType, Balanced(hk), NEW n, n = Behind(hk, hk.ptrn + 1, {"=", "\n"})
  PROVE  Place(hk, 1, n) /\ Lines(hk, NewHeader(hk) + 1, NewTill(hk, n)) = <<>>
<1>1. /\ n \in Int /\ n > NewHeader(hk)
      /\ n = NewHeader(hk) + 1 \/ hk.end = NewHeader(hk)
      /\ Sign(hk, n - 1) \in {"=", "\n"}
  BY NewBegins
<1>2. PICK a \in Int, e \in Int, w \in Nat : a = NewHeader(hk) /\ e = hk.end /\ w = hk.ptrn /\ a <= e
  BY HeaderIsInt, HunkFields DEF Balanced
<1>3. Sign(hk, 0) = "*"
  BY DEF Balanced, CanSwap
<1>4. PICK twin \in [Anchors(hk, OldPart(hk)) -> Anchors(hk, NewPart(hk))] : IsTwin(hk, twin)
  BY DEF Balanced
<1>5. PICK one \in Int : one = 1
  OBVIOUS
<1>6. InStep(hk, twin, one, n)
  <2>1. ASSUME NEW i \in Anchors(hk, OldPart(hk)) PROVE i >= one /\ twin[i] >= n
    <3>1. i \in Int /\ 1 <= i /\ twin[i] \in Int /\ a < twin[i] /\ twin[i] <= e
      BY <1>2, AnchorsAreLines
    <3> QED
      BY <1>1, <1>2, <1>5, <3>1
  <2> QED
    BY <2>1 DEF InStep
<1>7. one \in 1..w + 1 /\ (n <= e + 1 \/ e = a) /\ one - 1 = 0
  BY <1>1, <1>2, <1>5
<1>8. Sign(hk, n - 1) # "!"
  BY <1>1
<1>9. Place(hk, one, n)
  BY <1>1, <1>2, <1>3, <1>4, <1>6, <1>7, <1>8 DEF Place
<1>10. Lines(hk, a + 1, NewTill(hk, n)) = <<>>
  <2>1. PICK i \in Int, j \in Int : i = a + 1 /\ j = NewTill(hk, n)
    BY <1>1, <1>2 DEF NewTill
  <2>2. j <= i
    BY <1>1, <1>2, <2>1 DEF NewTill
  <2> QED
    BY <2>1, <2>2, LinesOne
<1> QED
  BY <1>2, <1>5, <1>9, <1>10

\* The hunk is found, and its text is that of the file up to there.
LEMMA HunkBegins ==
  ASSUME PatchTypes, Good => Settled, NEW w \in Int, NEW hk \in HunkType, FitsAt(w, hk),
         hk.ptrn = 0 \/ Matches(hk, input, w, sw.loose),
         sw'.loose = sw.loose, sw'.defines = sw.defines
  PROVE  InHand' /\ (Good' => Amid')
<1>1. /\ h' = hk /\ applied' = Append(applied, [where |-> w, hunk |-> hk])
      /\ UNCHANGED <<input, frozen, out, strayed>>
      /\ at' = [old |-> 1, new |-> Behind(hk, hk.ptrn + 1, {"=", "\n"}), def |-> 0,
                where |-> w - 1]
  BY DEF FitsAt, temporary
<1>2. K \in Nat /\ K' = K + 1 /\ \A i \in 1..K : applied'[i] = applied[i]
  <2>1. applied \in Seq([where : Int, hunk : HunkType])
    BY DEF PatchTypes
  <2> QED
    BY <1>1, <2>1, HunksAre, AppendProperties DEF K
<1>3. applied'[K'] = [where |-> w, hunk |-> hk]
  <2>1. applied \in Seq([where : Int, hunk : HunkType])
    BY DEF PatchTypes
  <2>2. [where |-> w, hunk |-> hk] \in [where : Int, hunk : HunkType]
    OBVIOUS
  <2> QED
    BY <1>1, <1>2, <2>1, <2>2, AppendProperties DEF K
<1>4. InHand'
  <2>1. applied'[K'].hunk = hk /\ applied'[K'].where = w
    BY <1>3
  <2>2. K' > 0 /\ at'.where = w - 1
    BY <1>1, <1>2
  <2>3. hk.ptrn = 0 \/ Matches(hk, input', w, sw'.loose)
    BY <1>1
  <2> QED
    BY <1>1, <2>1, <2>2, <2>3 DEF InHand
<1>5. ASSUME Good' PROVE Amid'
  <2>1. PICK m \in Nat, s \in Int, f \in Nat, e \in Nat, p \in Int :
          m = K /\ s = Stops(K) /\ f = frozen /\ e = Len(input) /\ p = hk.ptrn
    <3>1. K \in 0..K
      BY <1>2
    <3> QED
      BY <1>2, <3>1, HunksAre, HunkFields DEF PatchTypes, NumbersOK
  <2>2. Len(applied') = m + 1 /\ Len(applied) = m
    BY <1>2, <2>1 DEF K
  <2>3. /\ \A i \in 0..m + 1 : Starts(i + 1)' \in Stops(i)'..Len(input') + 1
        /\ \A i \in 1..m + 1 : Balanced(applied'[i].hunk)
    <3>1. DOMAIN applied' = 1..m + 1
      BY <1>1, <2>2 DEF PatchTypes
    <3> QED
      BY <1>5, <2>2, <3>1 DEF Good, InOrder, AllBalanced
  <2>4. ASSUME NEW i \in 0..m PROVE Stops(i)' = Stops(i) /\ (i # 0 => applied'[i] = applied[i])
    <3>1. i # 0 => i \in 1..m
      OBVIOUS
    <3>2. i # 0 => applied'[i] = applied[i]
      BY <1>2, <2>1, <3>1
    <3> QED
      BY <3>2 DEF Stops
  <2>5. Balanced(hk) /\ Stops(m + 1)' = w + p /\ Starts(m + 1)' = w /\ Starts(m + 2)' = e + 1
    <3>1. m + 1 \in 1..m + 1 /\ m + 1 = K'
      BY <1>2, <2>1
    <3>2. applied'[m + 1] = [where |-> w, hunk |-> hk]
      BY <1>3, <3>1
    <3> QED
      BY <1>1, <2>1, <2>2, <2>3, <3>1, <3>2, SMTT(30) DEF Starts, Stops
  <2>6. s <= w /\ w + p <= e + 1 /\ p >= 0
    <3>1. m \in 0..m + 1 /\ m + 1 \in 0..m + 1 /\ m \in 0..m
      OBVIOUS
    <3>2. Starts(m + 1)' \in s..e + 1
      BY <1>1, <2>1, <2>3, <2>4, <3>1
    <3>3. Starts(m + 2)' \in w + p..e + 1
      <4>1. m + 1 + 1 = m + 2
        OBVIOUS
      <4> QED
        BY <1>1, <2>1, <2>3, <2>5, <3>1, <4>1
    <3>4. p >= 0
      <4>1. hk.ptrn \in Nat
        BY <2>5 DEF Balanced
      <4> QED
        BY <2>1, <4>1
    <3> QED
      BY <2>1, <2>5, <3>2, <3>3, <3>4
  <2>7. InOrder
    <3>1. ASSUME NEW i \in 0..m PROVE Starts(i + 1) \in Stops(i)..Len(input) + 1
      <4>1. CASE i = m
        <5>1. Starts(m + 1) = e + 1
          BY <2>1, <2>2 DEF Starts
        <5> QED
          BY <2>1, <2>6, <4>1, <5>1
      <4>2. CASE i # m
        <5>1. i \in 0..m + 1 /\ i + 1 \in 0..m /\ i + 1 # 0
          BY <4>2
        <5>2. applied'[i + 1] = applied[i + 1] /\ Stops(i)' = Stops(i)
          BY <2>4, <5>1
        <5>3. Starts(i + 1)' = Starts(i + 1)
          BY <2>2, <5>1, <5>2 DEF Starts
        <5> QED
          BY <1>1, <2>3, <5>1, <5>2, <5>3
      <4> QED
        BY <4>1, <4>2
    <3> QED
      BY <2>2, <3>1 DEF InOrder
  <2>8. AllBalanced
    <3>1. ASSUME NEW i \in 1..m PROVE Balanced(applied[i].hunk)
      <4>1. i \in 1..m + 1 /\ applied'[i] = applied[i]
        BY <1>2, <2>1
      <4> QED
        BY <2>3, <4>1
    <3> QED
      BY <2>1, <3>1, HunksAre DEF AllBalanced
  <2>9. Settled
    <3>1. ~strayed /\ ~sw.defines
      BY <1>1, <1>5 DEF Good
    <3> QED
      BY <2>7, <2>8, <3>1 DEF Good
  <2>10. s >= 1 /\ f < s
    BY <2>1, <2>9 DEF Settled
  <2>11. PICK k \in Nat, n \in Nat : k = s - 1 /\ n = w - 1
    BY <2>6, <2>10
  <2>12. /\ Till' = (Till \o LastNew) \o SubSeq(input, s, n)
         /\ Till' \in Seq(Written)
    <3>1. Till \in Seq(Written) /\ w <= Len(input) + 1
      BY <2>1, <2>6, <2>9 DEF Settled
    <3>2. Stops(K) >= 1 /\ input' = input
      BY <1>1, <2>1, <2>10
    <3> QED
      BY <1>1, <2>1, <2>8, <2>11, <3>1, <3>2, TillGrows
  <2>13. PICK t \in Seq(Written) : t = Till \o LastNew
    BY <2>8, <2>9, LastNewIsText, TextsAdd DEF Settled
  <2>14. PICK c \in Seq(Written) : c = SubSeq(input, s, n)
    <3>1. s \in Nat /\ s > 0 /\ n \in Int /\ n <= Len(input)
      BY <2>1, <2>6, <2>10, <2>11, SMTT(30)
    <3>2. input \in Seq(Written)
      BY HunksAre
    <3>3. SubSeq(input, s, n) \in Seq(Written)
      BY <3>1, <3>2, PartIsText
    <3> QED
      BY <3>3
  <2>15. Alike(out \o SubSeq(input, f + 1, n), t \o c, sw.loose)
    <3>1. Alike(out \o SubSeq(input, f + 1, k), t, sw.loose)
      BY <2>1, <2>9, <2>11, <2>13 DEF Settled
    <3>2. Alike(SubSeq(input, k + 1, n), c, sw.loose)
      <4>1. k + 1 = s
        BY <2>11
      <4> QED
        BY <2>14, <4>1, AlikeItself
    <3>3. f <= k /\ k <= n /\ n <= Len(input)
      BY <2>1, <2>6, <2>10, <2>11, SMTT(30)
    <3>4. out \in Seq(Written) /\ input \in Seq(Written)
      BY DEF PatchTypes, TextsOK
    <3> QED
      BY <3>1, <3>2, <3>3, <3>4, AlikeUpTo
  <2>16. Reached(1)' = n
    BY <1>3, <2>11 DEF Reached
  <2>17. PICK b : b = Behind(hk, hk.ptrn + 1, {"=", "\n"})
    OBVIOUS
  <2>18. Place(hk, 1, b) /\ Lines(hk, NewHeader(hk) + 1, NewTill(hk, b)) = <<>>
    BY <2>5, <2>17, PlaceBegins
  <2>19. at'.old = 1 /\ at'.new = b
    BY <1>1, <2>17
  <2>20. TextTo(1, b)'
    <3>1. t \o c = Till'
      BY <2>12, <2>13, <2>14
    <3>2. Till' \o <<>> = Till'
      BY <2>12, ConcatEmptySeq
    <3>3. f <= n
      BY <2>6, <2>10, <2>11
    <3> QED
      BY <1>1, <2>1, <2>15, <2>16, <2>18, <3>1, <3>2, <3>3 DEF TextTo
  <2> QED
    BY <1>1, <2>12, <2>18, <2>19, <2>20 DEF Amid
<1> QED
  BY <1>4, <1>5
-------------------------------------------------------------------------------
(***************************************************************************)
(* In a hunk.                                                              *)
(***************************************************************************)

\* apply_hunk() stands in front of the line of the input it has reached, inside of the
\* lines the hunk stands for.
LEMMA HunkInHand ==
  ASSUME PatchTypes, InHand, Good, Amid
  PROVE  /\ h \in HunkType /\ Balanced(h) /\ h.end < MAXHUNKSIZE
         /\ at.old \in Int /\ at.new \in Int /\ frozen \in Nat
         /\ Reached(at.old) \in Nat /\ Here = Reached(at.old) /\ frozen <= Reached(at.old)
         /\ \A i \in Int : Reached(i) = Reached(at.old) + (i - at.old)
         /\ Stops(K) = Reached(h.ptrn + 1) + 1 /\ Reached(h.ptrn + 1) <= Len(input)
         /\ Reached(at.old) <= Len(input) /\ K \in 1..K
         /\ NewTill(h, at.new) \in Int /\ NewHeader(h) + 1 <= NewTill(h, at.new)
<1>1. K \in 1..K /\ K \in 0..K
  BY HunksAre DEF InHand
<1>2. h \in HunkType /\ Balanced(h)
  BY <1>1, HunksAre DEF PatchTypes, Good, AllBalanced, InHand
<1>3. PICK x \in Int, o \in Int, n \in Int, w \in Int, e \in Int, a \in Int, f \in Nat, d \in Int :
        /\ x = applied[K].where /\ o = at.old /\ n = at.new /\ w = h.ptrn /\ e = h.end
        /\ a = NewHeader(h) /\ f = frozen /\ d = at.where
  BY <1>1, <1>2, HunksAre, HunkFields, HeaderIsInt DEF PatchTypes, NumbersOK
<1>4. a <= e /\ e < MAXHUNKSIZE
  <2>1. h.end \in Room /\ NewHeader(h) <= h.end
    BY <1>2 DEF Balanced
  <2> QED
    BY <1>3, <2>1, RoomAssumption DEF Room
<1>5. o \in 1..w + 1 /\ n > a
  BY <1>3 DEF Amid, Place
<1>6. \A i \in Int : Reached(i) = x + i - 2
  BY <1>3 DEF Reached
<1>7. f <= x + o - 2
  BY <1>3, <1>6 DEF Amid, TextTo
<1>8. d = x - 1
  BY <1>3 DEF InHand
<1>9. Here = x + o - 2
  BY <1>3, <1>8 DEF Here
<1>10. Stops(K) = x + w
  BY <1>1, <1>3 DEF Stops, InHand
<1>11. x + w <= Len(input) + 1
  <2>1. PICK k \in Int : k = K
    BY HunksAre
  <2>2. Starts(K + 1) = Len(input) + 1
    BY <2>1 DEF Starts, K
  <2>3. Starts(K + 1) \in Stops(K)..Len(input) + 1
    BY <1>1 DEF Good, InOrder, K
  <2> QED
    BY <1>3, <1>10, <2>2, <2>3, HunksAre
<1>12. NewTill(h, n) = IF n > e THEN e + 1 ELSE n
  BY <1>3 DEF NewTill
<1>13. w + 1 \in Int /\ Reached(w + 1) = x + w - 1
  BY <1>6
<1>14. Len(input) \in Nat
  BY HunksAre
<1>15. Reached(o) = x + o - 2 /\ x + o - 2 \in Nat
  BY <1>3, <1>6, <1>7
<1>16. \A i \in Int : Reached(i) = Reached(o) + (i - o)
  BY <1>6, <1>15
<1>17. Stops(K) = Reached(w + 1) + 1 /\ Reached(w + 1) <= Len(input) /\ Reached(o) <= Len(input)
  BY <1>5, <1>10, <1>11, <1>13, <1>14, <1>15
<1>18. NewTill(h, n) \in Int /\ a + 1 <= NewTill(h, n)
  BY <1>4, <1>5, <1>12
<1>19. Here = Reached(o) /\ f <= Reached(o)
  BY <1>7, <1>9, <1>15
<1> QED
  BY <1>1, <1>2, <1>3, <1>4, <1>15, <1>16, <1>17, <1>18, <1>19

\* What Change() adds to the output are the new lines up to line v.
LEMMA ChangedText ==
  ASSUME PatchTypes, InHand, Good, Amid, NEW lines, NEW skip \in Nat, NEW next, NEW v \in Int,
         Change(lines, skip, next), lines = Lines(h, NewTill(h, at.new), v),
         NewTill(h, at.new) <= v
  PROVE  /\ frozen' = Reached(at.old) + skip
         /\ Alike(out', Till \o Lines(h, NewHeader(h) + 1, v), sw.loose)
<1>1. out' = CopiedTill(Here) \o lines /\ frozen' = FrozenAt(Here) + skip
  BY DEF Change
<1>2. PICK i \in Int, j \in Int, r \in Nat :
        i = NewHeader(h) + 1 /\ j = NewTill(h, at.new) /\ r = Reached(at.old)
  BY HunkInHand, HeaderIsInt
<1>3. frozen \in Nat /\ frozen <= r /\ r <= Len(input) /\ i <= j /\ j <= v /\ Here = r
  BY <1>2, HunkInHand
<1>4. frozen' = r + skip
  BY <1>1, <1>3 DEF FrozenAt
<1>5. out \in Seq(Written) /\ input \in Seq(Written) /\ Till \in Seq(Written)
  BY DEF PatchTypes, TextsOK, Amid
<1>6. PICK c \in Seq(Written) : c = CopiedTill(r) /\ c = out \o SubSeq(input, frozen + 1, r)
  <2>1. CopiedTill(r) = out \o SubSeq(input, frozen + 1, r)
    BY <1>3, <1>5, CopyIsPart
  <2>2. CopiedTill(r) \in Seq(Written)
    BY <1>3, <1>5, CopyIsText
  <2> QED
    BY <2>1, <2>2
<1>7. PICK x, y : x = Lines(h, i, j) /\ y = Lines(h, j, v)
  OBVIOUS
<1>8. x \in Seq(Written) /\ y \in Seq(Written) /\ x \o y = Lines(h, i, v)
  <2>1. h \in HunkType /\ h.end < MAXHUNKSIZE
    BY HunkInHand
  <2>2. Lines(h, i, j) \in Seq(HunkTexts) /\ Lines(h, j, v) \in Seq(HunkTexts)
    BY <2>1, LinesAreTexts
  <2>3. Lines(h, i, j) \o Lines(h, j, v) = Lines(h, i, v)
    BY <1>3, <2>1, LinesMeet
  <2> QED
    BY <1>7, <2>2, <2>3, SignsAndTexts, SeqMonotonic
<1>9. Alike(c, Till \o x, sw.loose)
  BY <1>2, <1>6, <1>7 DEF Amid, TextTo
<1>10. Till \o x \in Seq(Written)
  BY <1>5, <1>8, TextsAdd
<1>11. Alike(c \o y, (Till \o x) \o y, sw.loose)
  BY <1>8, <1>9, <1>10, AlikeItself, AlikeAdded
<1>12. (Till \o x) \o y = Till \o (x \o y)
  BY <1>5, <1>8, TextsChain
<1> QED
  BY <1>1, <1>2, <1>3, <1>4, <1>6, <1>7, <1>8, <1>11, <1>12

\* Nothing else changes for it.
LEMMA ChangedFrame ==
  ASSUME NEW lines, NEW skip, NEW next, Change(lines, skip, next)
  PROVE  UNCHANGED <<applied, input, sw, h>> /\ at' = next
BY DEF Change, settings

\* The hunk stays in hand.
LEMMA StillInHand ==
  ASSUME InHand, UNCHANGED <<applied, input, sw, h>>, at'.where = at.where
  PROVE  InHand'
<1>1. K' = K
  BY DEF K
<1> QED
  BY <1>1 DEF InHand

\* A change is done, and both parts have moved on past it.
LEMMA ChangeIsDone ==
  ASSUME PatchTypes, InHand, Good, Amid, NEW lines, NEW skip \in Nat, NEW next,
         Change(lines, skip, next), next.old \in Int, next.old = at.old + skip,
         Place(h, next.old, next.new),
         NewTill(h, next.new) \in Int, NewTill(h, at.new) <= NewTill(h, next.new),
         lines = Lines(h, NewTill(h, at.new), NewTill(h, next.new))
  PROVE  Amid'
<1>1. PICK v \in Int : v = NewTill(h, next.new)
  OBVIOUS
<1>2. PICK t : t = Lines(h, NewHeader(h) + 1, v)
  OBVIOUS
<1>3. frozen' = Reached(at.old) + skip /\ Alike(out', Till \o t, sw.loose)
  BY <1>1, <1>2, ChangedText
<1>4. UNCHANGED <<applied, input, sw, h>> /\ at' = next
  BY ChangedFrame
<1>5. PICK r \in Int, o \in Int : r = Reached(at.old) /\ o = at.old
  BY HunkInHand
<1>6. Reached(next.old) = r + skip
  <2>1. Reached(next.old) = r + (next.old - o)
    BY <1>5, HunkInHand
  <2> QED
    BY <1>5, <2>1
<1>7. PICK p \in Int, q \in Int : p = r + skip + 1 /\ q = r + skip
  BY <1>5
<1>8. SubSeq(input, p, q) = <<>>
  BY <1>7, SubSeqEmpty
<1>9. out' \in Seq(Written)
  <2>1. out' = CopiedTill(Here) \o lines
    BY DEF Change
  <2>2. CopiedTill(r) \in Seq(Written)
    BY <1>5, CopyIsText, HunkInHand DEF PatchTypes, TextsOK
  <2>3. lines \in Seq(Written)
    <3>1. PICK j \in Int : j = NewTill(h, at.new)
      BY HunkInHand
    <3>2. Lines(h, j, v) \in Seq(HunkTexts)
      BY HunkInHand, LinesAreTexts
    <3> QED
      BY <1>1, <3>1, <3>2, SignsAndTexts, SeqMonotonic
  <2> QED
    BY <1>5, <2>1, <2>2, <2>3, HunkInHand, TextsAdd
<1>10. Alike(out' \o SubSeq(input, p, q), Till \o t, sw.loose)
  BY <1>3, <1>8, <1>9, ConcatEmptySeq
<1>11. Reached(next.old)' = q /\ frozen' = q
  BY <1>3, <1>4, <1>5, <1>6, <1>7, TillStays
<1>12. TextTo(next.old, next.new)'
  BY <1>1, <1>2, <1>4, <1>7, <1>10, <1>11, TillStays DEF TextTo
<1>13. Till' \in Seq(Written)
  BY <1>4, TillStays DEF Amid
<1> QED
  BY <1>4, <1>12, <1>13 DEF Amid

\* A line of the old part is left out (patch.c:758-772).
LEMMA LineDeleted ==
  ASSUME PatchTypes, InHand, Good, Amid, DeleteLine
  PROVE  InHand' /\ Amid'
<1>1. PICK o \in Int, n \in Int, w \in Int, e \in Int :
        o = at.old /\ n = at.new /\ w = h.ptrn /\ e = h.end
  BY HunkInHand, HunkFields
<1>2. PICK next : next = [at EXCEPT !.old = o + 1, !.def = DefAfter("old")]
  OBVIOUS
<1>3. next.old = o + 1 /\ next.new = n /\ next.where = at.where
  BY <1>1, <1>2 DEF PatchTypes, NumbersOK
<1>4. PICK j \in Int : j = NewTill(h, at.new)
  BY HunkInHand
<1>5. o <= w /\ Sign(h, o) = "-" /\ ~sw.defines
  BY <1>1 DEF DeleteLine, Applying, Old, Good
<1>6. Change(<<>>, 1, next)
  <2>1. Marks("old") \o IfDefines(<<Line(h, at.old)>>) = <<>>
    <3>1. Marks("old") = <<>> /\ IfDefines(<<Line(h, at.old)>>) = <<>>
      BY <1>5 DEF Marks, IfDefines
    <3> QED
      BY <3>1
  <2> QED
    BY <1>1, <1>2, <2>1 DEF DeleteLine
<1>7. <<>> = Lines(h, j, j)
  BY LinesOne
<1>8. Place(h, o + 1, n)
  <2>1. /\ o \in 1..w + 1 /\ n > NewHeader(h) /\ (n <= e + 1 \/ e = NewHeader(h))
        /\ Sign(h, n) = "!" => Sign(h, n - 1) # "!"
    BY <1>1 DEF Amid, Place
  <2>2. PICK twin \in [Anchors(h, OldPart(h)) -> Anchors(h, NewPart(h))] :
          IsTwin(h, twin) /\ InStep(h, twin, o, n)
    BY <1>1 DEF Amid, Place
  <2>3. o \notin Anchors(h, OldPart(h))
    BY <1>5 DEF Anchors
  <2>4. InStep(h, twin, o + 1, n)
    BY <2>2, <2>3, HunkInHand, StepAside
  <2>5. o + 1 \in 1..w + 1 /\ o + 1 - 1 = o
    BY <1>5, <2>1
  <2> QED
    BY <1>1, <1>5, <2>1, <2>2, <2>4, <2>5 DEF Place
<1>9. Amid'
  <2>1. PICK one \in Nat : one = 1
    OBVIOUS
  <2>2. next.old \in Int /\ next.old = at.old + one
    BY <1>1, <1>3, <2>1
  <2>3. NewTill(h, next.new) = j /\ j <= j
    BY <1>1, <1>3, <1>4
  <2> QED
    BY <1>3, <1>4, <1>6, <1>7, <1>8, <2>1, <2>2, <2>3, ChangeIsDone
<1>10. InHand'
  BY <1>3, <1>6, ChangedFrame, StillInHand
<1> QED
  BY <1>9, <1>10

\* A line of the new part is written (patch.c:773-789).
LEMMA LineInserted ==
  ASSUME PatchTypes, InHand, Good, Amid, InsertLine, ~strayed'
  PROVE  InHand' /\ Amid'
<1>1. PICK o \in Int, n \in Int, w \in Int, e \in Int :
        o = at.old /\ n = at.new /\ w = h.ptrn /\ e = h.end
  BY HunkInHand, HunkFields
<1>2. PICK next : next = [at EXCEPT !.new = n + 1, !.def = DefAfter("new")]
  OBVIOUS
<1>3. next.old = o /\ next.new = n + 1 /\ next.where = at.where
  BY <1>1, <1>2 DEF PatchTypes, NumbersOK
<1>4. n <= e /\ Sign(h, n) = "+" /\ ~sw.defines
  <2>1. ~(at.new > h.end)
    BY DEF InsertLine
  <2> QED
    BY <1>1, <2>1 DEF InsertLine, New, Good
<1>5. Change(<<Line(h, n)>>, 0, next)
  <2>1. Marks("new") \o <<Line(h, n)>> = <<Line(h, n)>>
    <3>1. Marks("new") = <<>>
      BY <1>4 DEF Marks
    <3>2. <<Line(h, n)>> \in Seq(Written)
      BY HunkIsText DEF InsertLine, Applying, At
    <3> QED
      BY <3>1, <3>2, ConcatEmptySeq
  <2> QED
    BY <1>1, <1>2, <2>1 DEF InsertLine
<1>6. NewTill(h, n) = n /\ NewTill(h, n + 1) = n + 1
  BY <1>1, <1>4 DEF NewTill
<1>7. <<Line(h, n)>> = Lines(h, n, n + 1)
  <2>1. PICK m \in Int : m = n + 1
    OBVIOUS
  <2> QED
    BY <2>1, LinesOne
<1>8. Place(h, o, n + 1)
  <2>1. /\ o \in 1..w + 1 /\ n > NewHeader(h)
        /\ Sign(h, o) = "!" => Sign(h, o - 1) # "!"
    BY <1>1 DEF Amid, Place
  <2>2. PICK twin \in [Anchors(h, OldPart(h)) -> Anchors(h, NewPart(h))] :
          IsTwin(h, twin) /\ InStep(h, twin, o, n)
    BY <1>1 DEF Amid, Place
  <2>3. n \notin Anchors(h, NewPart(h))
    BY <1>4 DEF Anchors
  <2>4. InStep(h, twin, o, n + 1)
    BY <2>2, <2>3, HunkInHand, StepAside
  <2>5. n + 1 > NewHeader(h) /\ n + 1 <= e + 1 /\ n + 1 - 1 = n
    BY <1>4, <2>1, HunkInHand, HeaderIsInt
  <2> QED
    BY <1>1, <1>4, <2>1, <2>2, <2>4, <2>5 DEF Place
<1>9. Amid'
  <2>1. PICK none \in Nat : none = 0
    OBVIOUS
  <2>2. next.old \in Int /\ next.old = at.old + none
    BY <1>1, <1>3, <2>1
  <2>3. NewTill(h, next.new) \in Int /\ NewTill(h, at.new) <= NewTill(h, next.new)
    BY <1>1, <1>3, <1>6
  <2> QED
    BY <1>1, <1>3, <1>5, <1>6, <1>7, <1>8, <2>1, <2>2, <2>3, ChangeIsDone
<1>10. InHand'
  BY <1>3, <1>5, ChangedFrame, StillInHand
<1> QED
  BY <1>9, <1>10

\* The line behind the old part is no line of a change.
LEMMA OldPartEnds ==
  ASSUME NEW hk \in HunkType, Balanced(hk), NEW i, i = hk.ptrn + 1
  PROVE  Sign(hk, i) # "!"
<1>1. CanSwap(hk)
  BY DEF Balanced
<1>2. PICK w \in Int : w = hk.ptrn
  BY HunkFields
<1>3. CASE Sign(hk, w + 1) = "\n"
  BY <1>2, <1>3
<1>4. CASE Sign(hk, w + 1) # "\n"
  <2>1. NewHeader(hk) = w + 1
    BY <1>2, <1>4 DEF NewHeader, Blank
  <2> QED
    BY <1>1, <1>2, <2>1 DEF CanSwap
<1> QED
  BY <1>3, <1>4

\* The lines of a change end where the sign does.
LEMMA ChangeEnds ==
  ASSUME NEW hk, NEW i \in Int, i < MAXHUNKSIZE, Sign(hk, i) = "!", NEW u, u = Behind(hk, i, {"!"})
  PROVE  /\ u \in Int /\ i < u /\ u <= MAXHUNKSIZE /\ Sign(hk, u) # "!"
         /\ \A j \in i..u - 1 : Sign(hk, j) = "!"
<1>1. PICK bang : bang = {"!"}
  OBVIOUS
<1>2. i <= MAXHUNKSIZE /\ "none" \notin bang /\ u = Behind(hk, i, bang)
  BY <1>1, RoomAssumption
<1>3. u \in i..MAXHUNKSIZE /\ Sign(hk, u) \notin bang /\ \A j \in i..u - 1 : Sign(hk, j) \in bang
  BY <1>2, BehindIsFirst
<1>4. Sign(hk, u) # "!" /\ \A j \in i..u - 1 : Sign(hk, j) = "!"
  BY <1>1, <1>3
<1>5. u # i
  BY <1>4
<1> QED
  BY <1>3, <1>4, <1>5, RoomAssumption

\* The lines of a change take the place of one another (patch.c:790-830).
LEMMA LinesReplaced ==
  ASSUME PatchTypes, pc = "apply", InHand, Good, Amid, ReplaceLines, ~strayed'
  PROVE  InHand' /\ Amid'
<1>1. PICK o \in Int, n \in Int, w \in Int, e \in Int, a \in Int :
        o = at.old /\ n = at.new /\ w = h.ptrn /\ e = h.end /\ a = NewHeader(h)
  BY HunkInHand, HunkFields, HeaderIsInt
<1>2. o <= w /\ Sign(h, o) = "!" /\ Sign(h, n) = "!" /\ ~sw.defines
  BY <1>1 DEF ReplaceLines, Applying, Old, New, Good
<1>3. h \in HunkType /\ Balanced(h)
  BY HunkInHand
<1>4. o < MAXHUNKSIZE /\ n < MAXHUNKSIZE
  <2>1. o \in Room /\ n \in Room
    BY <1>2 DEF Sign
  <2> QED
    BY <2>1, RoomAssumption DEF Room
<1>5. PICK bang : bang = {"!"}
  OBVIOUS
<1>6. PICK u, v : u = Behind(h, o, bang) /\ v = Behind(h, n, bang)
  OBVIOUS
<1>7. /\ u \in Int /\ o < u /\ Sign(h, u) # "!"
      /\ \A j \in o..u - 1 : Sign(h, j) = "!"
  BY <1>2, <1>4, <1>5, <1>6, ChangeEnds
<1>8. /\ v \in Int /\ n < v /\ Sign(h, v) # "!"
      /\ \A j \in n..v - 1 : Sign(h, j) = "!"
  BY <1>2, <1>4, <1>5, <1>6, ChangeEnds
<1>9. v <= e + 1 /\ n <= e
  <2>1. ~(v > e + 1)
    <3>1. ~(Behind(h, at.new, {"!"}) > h.end + 1)
      BY DEF ReplaceLines
    <3> QED
      BY <1>1, <1>5, <1>6, <3>1
  <2> QED
    BY <1>8, <2>1
<1>10. u <= w + 1
  <2>1. PICK i \in Int : i = w + 1
    OBVIOUS
  <2>2. Sign(h, i) # "!"
    BY <1>1, <1>3, <2>1, OldPartEnds
  <2>3. i \notin o..u - 1
    BY <1>7, <2>2
  <2> QED
    BY <1>2, <1>7, <2>1, <2>3
<1>11. PICK skip \in Nat : skip = u - o
  BY <1>7
<1>12. PICK next : next = [at EXCEPT !.old = u, !.new = v, !.def = 0]
  OBVIOUS
<1>13. next.old = u /\ next.new = v /\ next.where = at.where
  BY <1>12 DEF PatchTypes, NumbersOK
<1>14. PICK t : t = Lines(h, n, v)
  OBVIOUS
<1>15. Change(t, skip, next)
  <2>1. PICK x : x = IfDefines(<<"#ifndef">> \o Lines(h, at.old, u) \o <<"#else">>)
    OBVIOUS
  <2>2. x = <<>> /\ IfDefines(<<"#endif">>) = <<>>
    BY <1>2, <2>1 DEF IfDefines
  <2>3. t \in Seq(Written)
    BY <1>8, <1>14, HunkIsText
  <2>4. x \o t \o IfDefines(<<"#endif">>) = t
    BY <2>2, <2>3, ConcatEmptySeq
  <2>5. Change(x \o t \o IfDefines(<<"#endif">>), skip, next)
    BY <1>1, <1>5, <1>6, <1>11, <1>12, <1>14, <2>1 DEF ReplaceLines
  <2> QED
    BY <2>4, <2>5
<1>16. NewTill(h, n) = n /\ NewTill(h, v) = v
  BY <1>1, <1>8, <1>9 DEF NewTill
<1>17. Place(h, u, v)
  <2>1. /\ o \in 1..w + 1 /\ n > a
        /\ Sign(h, o - 1) # "!" /\ Sign(h, n - 1) # "!"
    BY <1>1, <1>2 DEF Amid, Place
  <2>2. PICK twin \in [Anchors(h, OldPart(h)) -> Anchors(h, NewPart(h))] :
          IsTwin(h, twin) /\ InStep(h, twin, o, n)
    BY <1>1 DEF Amid, Place
  <2>3. o \in OldPart(h) /\ n \in NewPart(h)
    BY <1>1, <1>2, <1>9, <2>1 DEF OldPart, NewPart
  <2>4. o \in Anchors(h, OldPart(h)) /\ n \in Anchors(h, NewPart(h))
    BY <1>2, <2>1, <2>3 DEF Anchors
  <2>5. ASSUME NEW i \in o + 1..u - 1 PROVE i \notin Anchors(h, OldPart(h))
    <3>1. i \in o..u - 1 /\ i - 1 \in o..u - 1
      BY <1>7
    <3> QED
      BY <1>7, <3>1 DEF Anchors
  <2>6. ASSUME NEW j \in n + 1..v - 1 PROVE j \notin Anchors(h, NewPart(h))
    <3>1. j \in n..v - 1 /\ j - 1 \in n..v - 1
      BY <1>8
    <3> QED
      BY <1>8, <3>1 DEF Anchors
  <2>7. InStep(h, twin, u, v)
    BY <1>3, <1>7, <1>8, <2>2, <2>4, <2>5, <2>6, StepOver
  <2>8. u \in 1..w + 1 /\ v > a /\ v <= e + 1
    BY <1>7, <1>8, <1>9, <1>10, <2>1
  <2> QED
    BY <1>1, <1>7, <1>8, <2>2, <2>7, <2>8 DEF Place
<1>18. Amid'
  <2>1. next.old \in Int /\ next.old = at.old + skip
    BY <1>1, <1>7, <1>11, <1>13
  <2>2. NewTill(h, next.new) \in Int /\ NewTill(h, at.new) <= NewTill(h, next.new)
    BY <1>1, <1>8, <1>13, <1>16
  <2> QED
    BY <1>1, <1>13, <1>14, <1>15, <1>16, <1>17, <2>1, <2>2, ChangeIsDone
<1>19. InHand'
  BY <1>13, <1>15, ChangedFrame, StillInHand
<1> QED
  BY <1>18, <1>19

\* A line that stays is the one the input has there (patch.c:832-841).
LEMMA LineKept ==
  ASSUME PatchTypes, pc = "apply", InHand, Good, Amid, KeepLine, ~strayed'
  PROVE  InHand' /\ Amid'
<1>1. PICK o \in Int, n \in Int, w \in Int, e \in Int, a \in Int, r \in Nat, f \in Nat :
        /\ o = at.old /\ n = at.new /\ w = h.ptrn /\ e = h.end /\ a = NewHeader(h)
        /\ r = Reached(at.old) /\ f = frozen
  BY HunkInHand, HunkFields, HeaderIsInt
<1>2. Sign(h, o) = " " /\ Sign(h, n) = " "
  BY <1>1 DEF KeepLine, Old, New
<1>3. o <= w /\ n <= e
  <2>1. at.old <= h.ptrn /\ ~(at.new > h.end)
    BY DEF KeepLine, Applying
  <2> QED
    BY <1>1, <2>1
<1>4. h \in HunkType /\ Balanced(h) /\ h.end < MAXHUNKSIZE /\ a >= 0
  <2>1. h \in HunkType /\ Balanced(h) /\ h.end < MAXHUNKSIZE
    BY HunkInHand
  <2>2. h.ptrn \in Nat
    BY <2>1 DEF Balanced
  <2> QED
    BY <1>1, <2>1, <2>2, HeaderIsInt
<1>5. PICK u \in Int, v \in Int : u = o + 1 /\ v = n + 1
  OBVIOUS
<1>6. PICK next : next = [at EXCEPT !.old = u, !.new = v]
  OBVIOUS
<1>7. next.old = u /\ next.new = v /\ next.where = at.where
  BY <1>6 DEF PatchTypes, NumbersOK
<1>8. UNCHANGED <<applied, input, sw, h, out, frozen>> /\ at' = next
  BY <1>1, <1>5, <1>6 DEF KeepLine, settings, text, temporary
<1>9. o \in 1..w + 1 /\ n > a
  BY <1>1 DEF Amid, Place
<1>10. PICK twin \in [Anchors(h, OldPart(h)) -> Anchors(h, NewPart(h))] :
         IsTwin(h, twin) /\ InStep(h, twin, o, n)
  BY <1>1 DEF Amid, Place
<1>11. o \in Anchors(h, OldPart(h)) /\ n \in Anchors(h, NewPart(h))
  <2>1. o \in OldPart(h) /\ n \in NewPart(h)
    BY <1>1, <1>3, <1>9 DEF OldPart, NewPart
  <2> QED
    BY <1>2, <2>1 DEF Anchors
<1>12. Place(h, u, v)
  <2>1. ASSUME NEW i \in o + 1..u - 1 PROVE i \notin Anchors(h, OldPart(h))
    BY <1>5
  <2>2. ASSUME NEW j \in n + 1..v - 1 PROVE j \notin Anchors(h, NewPart(h))
    BY <1>5
  <2>3. InStep(h, twin, u, v)
    <3>1. o < u /\ n < v
      BY <1>5
    <3> QED
      BY <1>4, <1>10, <1>11, <2>1, <2>2, <3>1, StepOver
  <2>4. u \in 1..w + 1 /\ v > a /\ v <= e + 1 /\ u - 1 = o /\ v - 1 = n
    BY <1>3, <1>5, <1>9
  <2> QED
    BY <1>1, <1>2, <1>10, <2>3, <2>4 DEF Place
<1>13. h.t[n] = h.t[o]
  BY <1>2, <1>4, <1>10, <1>11, TwinsMeet DEF IsTwin
<1>14. PICK k \in Nat : k = r + 1
  OBVIOUS
<1>15. k <= Len(input) /\ SameLine(input[k], h.t[o], sw.loose) /\ Reached(u) = k
  <2>1. PICK x \in Int : x = applied[K].where
    BY HunkInHand, HunksAre
  <2>2. x + o - 1 = k
    <3>1. r = x + o - 2
      BY <1>1, <2>1 DEF Reached
    <3> QED
      BY <1>14, <3>1
  <2>3. o \in 1..h.ptrn /\ h.ptrn # 0
    BY <1>1, <1>3, <1>9
  <2>4. Matches(h, input, x, sw.loose)
    BY <2>1, <2>3 DEF InHand
  <2>5. x + o - 1 \in 1..Len(input) /\ SameLine(input[x + o - 1], h.t[o], sw.loose)
    BY <2>3, <2>4 DEF Matches
  <2>6. Reached(u) = k
    BY <1>5, <2>1, <2>2 DEF Reached
  <2> QED
    BY <2>2, <2>5, <2>6, HunksAre
<1>16. PICK t \in Seq(Written) : t = Lines(h, n, v) /\ t = <<h.t[n]>>
  <2>1. Lines(h, n, v) = <<Line(h, n)>>
    BY <1>5, LinesOne
  <2>2. Line(h, n) = h.t[n]
    BY <1>1, <1>3, <1>4, <1>9 DEF Line
  <2>3. Lines(h, n, v) \in Seq(Written)
    BY HunkIsText
  <2> QED
    BY <2>1, <2>2, <2>3
<1>17. PICK s : s = Lines(h, a + 1, n)
  OBVIOUS
<1>18. s \in Seq(Written) /\ s \o t = Lines(h, a + 1, v)
  <2>1. PICK b \in Int : b = a + 1 /\ b <= n /\ n <= v
    BY <1>5, <1>9
  <2>2. Lines(h, b, n) \o Lines(h, n, v) = Lines(h, b, v)
    <3>1. h \in HunkType /\ h.end < MAXHUNKSIZE
      BY <1>4
    <3> QED
      BY <2>1, <3>1, LinesMeet
  <2>3. Lines(h, b, n) \in Seq(Written)
    BY <2>1, HunkIsText
  <2> QED
    BY <1>16, <1>17, <2>1, <2>2, <2>3
<1>19. out \in Seq(Written) /\ input \in Seq(Written) /\ Till \in Seq(Written)
  BY DEF PatchTypes, TextsOK, Amid
<1>20. Alike(SubSeq(input, r + 1, k), t, sw.loose)
  <2>1. PICK c : c = SubSeq(input, k, k)
    OBVIOUS
  <2>2. Len(c) = 1 /\ c[1] = input[k] /\ c \in Seq(Written)
    <3>1. \A i \in k..k : input[i] \in Written
      BY <1>14, <1>15, <1>19, ElementOfSeq
    <3>2. PICK p \in Int, q \in Int : p = k /\ q = k
      OBVIOUS
    <3>3. /\ SubSeq(input, p, q) \in Seq(Written)
          /\ Len(SubSeq(input, p, q)) = IF p <= q THEN q - p + 1 ELSE 0
          /\ \A i \in 1..q - p + 1 : SubSeq(input, p, q)[i] = input[p + i - 1]
      <4>1. \A i \in p..q : input[i] \in Written
        BY <3>1, <3>2
      <4> QED
        BY <4>1, SubSeqProperties
    <3>4. 1 \in 1..q - p + 1 /\ p + 1 - 1 = k /\ q - p + 1 = 1 /\ p <= q
      BY <3>2
    <3> QED
      BY <2>1, <3>2, <3>3, <3>4
  <2>3. SameLine(c[1], t[1], sw.loose) /\ Len(t) = 1
    BY <1>13, <1>15, <1>16, <2>2
  <2>4. DOMAIN c = 1..1
    BY <2>2, LenProperties
  <2>5. Alike(c, t, sw.loose)
    BY <2>2, <2>3, <2>4 DEF Alike
  <2> QED
    BY <1>14, <2>1, <2>5
<1>21. Alike(out \o SubSeq(input, f + 1, k), (Till \o s) \o t, sw.loose)
  <2>1. NewTill(h, n) = n
    BY <1>1, <1>3 DEF NewTill
  <2>2. Alike(out \o SubSeq(input, f + 1, r), Till \o s, sw.loose) /\ f <= r
    BY <1>1, <1>17, <2>1 DEF Amid, TextTo
  <2>3. Till \o s \in Seq(Written)
    BY <1>18, <1>19, TextsAdd
  <2>4. r <= k
    BY <1>14
  <2> QED
    BY <1>15, <1>19, <1>20, <2>2, <2>3, <2>4, AlikeUpTo
<1>22. TextTo(u, v)'
  <2>1. (Till \o s) \o t = Till \o Lines(h, a + 1, v)
    <3>1. (Till \o s) \o t = Till \o (s \o t)
      BY <1>16, <1>18, <1>19, TextsChain
    <3> QED
      BY <1>18, <3>1
  <2>2. NewTill(h, v) = v
    BY <1>1, <1>3, <1>5 DEF NewTill
  <2>3. f <= k
    BY <1>1, <1>14, HunkInHand
  <2>4. Reached(u)' = k
    BY <1>8, <1>15, TillStays
  <2> QED
    BY <1>1, <1>8, <1>21, <2>1, <2>2, <2>3, <2>4, TillStays DEF TextTo
<1>23. Amid'
  <2>1. Till' \in Seq(Written)
    BY <1>8, <1>19, TillStays
  <2> QED
    BY <1>7, <1>8, <1>12, <1>22, <2>1 DEF Amid
<1>24. InHand'
  BY <1>7, <1>8, StillInHand
<1> QED
  BY <1>23, <1>24

\* When the old part is done, so is the new one, but for lines that are added behind
\* it: they are written at once (patch.c:843-851).
LEMMA HunkFinished ==
  ASSUME PatchTypes, pc = "apply", InHand, Good, Amid, FinishHunk
  PROVE  Settled'
<1>1. PICK o \in Int, n \in Int, e \in Int, a \in Int, r \in Nat, f \in Nat :
        /\ o = at.old /\ n = at.new /\ e = h.end /\ a = NewHeader(h) /\ r = Reached(at.old)
        /\ f = frozen
  BY HunkInHand, HunkFields, HeaderIsInt
<1>2. h \in HunkType /\ Balanced(h) /\ f <= r /\ r <= Len(input)
  BY <1>1, HunkInHand
<1>3. o = h.ptrn + 1 /\ n > a
  <2>1. at.old > h.ptrn
    BY DEF FinishHunk
  <2>2. at.old \in 1..h.ptrn + 1 /\ n > a
    BY <1>1 DEF Amid, Place
  <2>3. PICK w \in Int : w = h.ptrn
    BY <1>2, HunkFields
  <2> QED
    BY <1>1, <2>1, <2>2, <2>3
<1>4. Stops(K) = r + 1
  BY <1>1, <1>3, HunkInHand
<1>5. \A j \in n..e : Sign(h, j) = "+"
  <2>1. PICK twin \in [Anchors(h, OldPart(h)) -> Anchors(h, NewPart(h))] :
          IsTwin(h, twin) /\ InStep(h, twin, o, n)
    BY <1>1 DEF Amid, Place
  <2>2. Sign(h, n) = "!" => Sign(h, n - 1) # "!"
    BY <1>1 DEF Amid, Place
  <2> QED
    BY <1>1, <1>2, <1>3, <2>1, <2>2, OnlyAddedLeft
<1>6. PICK t : t = Lines(h, a + 1, e + 1)
  OBVIOUS
<1>7. LastNew = t
  BY <1>1, <1>6 DEF LastNew, NewLines, InHand
<1>8. ~sw.defines /\ Till \in Seq(Written) /\ out \in Seq(Written)
  BY DEF Good, Amid, PatchTypes, TextsOK
<1>9. PICK p \in Int : p = r + 1
  OBVIOUS
<1>10. CASE at.new <= h.end /\ New = "+"
  <2>1. PICK plus : plus = {"+"}
    OBVIOUS
  <2>2. PICK b \in Int : b = Behind(h, n, plus) /\ b >= n /\ Sign(h, b) # "+"
    <3>1. n <= MAXHUNKSIZE /\ "none" \notin plus
      BY <1>1, <1>10, <2>1, HunkInHand, RoomAssumption
    <3>2. /\ Behind(h, n, plus) \in n..MAXHUNKSIZE
          /\ Sign(h, Behind(h, n, plus)) \notin plus
      BY <3>1, BehindIsFirst
    <3> QED
      BY <2>1, <3>2, RoomAssumption
  <2>3. b > e
    BY <1>5, <2>2
  <2>4. PICK v \in Int : v = e + 1
    OBVIOUS
  <2>5. Min({b, v}) = v
    <3>1. PICK S : S = {b, v}
      OBVIOUS
    <3>2. S \subseteq Int /\ S # {} /\ \A j \in S : n <= j
      BY <1>1, <1>10, <2>2, <2>4, <3>1
    <3>3. Min(S) \in S /\ \A j \in S : Min(S) <= j
      BY <3>2, LeastInteger
    <3> QED
      BY <2>3, <2>4, <3>1, <3>3
  <2>6. PICK y : y = Lines(h, n, v)
    OBVIOUS
  <2>7. Change(y, 0, at)
    <3>1. PICK close : close = IF sw.defines /\ DefAfter("new") # 0 THEN <<"#endif">> ELSE <<>>
      OBVIOUS
    <3>2. Change(Marks("new") \o y \o close, 0, at)
      BY <1>1, <1>10, <2>1, <2>2, <2>4, <2>5, <2>6, <3>1 DEF FinishHunk
    <3>3. close = <<>> /\ Marks("new") = <<>>
      BY <1>8, <3>1 DEF Marks
    <3>4. y \in Seq(Written)
      BY <2>6, HunkIsText
    <3>5. Marks("new") \o y \o close = y
      BY <3>3, <3>4, ConcatEmptySeq
    <3> QED
      BY <3>2, <3>5
  <2>8. NewTill(h, at.new) = n /\ n <= v
    BY <1>1, <1>10, <2>4 DEF NewTill
  <2>9. frozen' = r /\ Alike(out', Till \o t, sw.loose)
    <3>1. PICK none \in Nat : none = 0
      OBVIOUS
    <3>2. frozen' = Reached(at.old) + none /\ Alike(out', Till \o Lines(h, NewHeader(h) + 1, v), sw.loose)
      BY <1>1, <2>6, <2>7, <2>8, <3>1, ChangedText
    <3> QED
      BY <1>1, <1>6, <2>4, <3>1, <3>2
  <2>10. UNCHANGED <<applied, input, sw>>
    BY <2>7, ChangedFrame
  <2>11. SubSeq(input, p, r) = <<>>
    BY <1>9, SubSeqEmpty
  <2>12. out' \in Seq(Written)
    <3>1. FinishHunk => PatchTypes'
      BY ApplyingKeepsTypes
    <3> QED
      BY <3>1 DEF PatchTypes, TextsOK
  <2>13. Alike(out' \o SubSeq(input, p, r), Till \o t, sw.loose)
    BY <2>9, <2>11, <2>12, ConcatEmptySeq
  <2>14. Stops(K)' - 1 = r /\ frozen' < Stops(K)'
    BY <1>4, <2>9, <2>10, TillStays
  <2>15. Till' = Till /\ LastNew' = t
    BY <1>7, <2>10, TillStays
  <2> QED
    BY <1>8, <1>9, <2>9, <2>10, <2>13, <2>14, <2>15 DEF Settled
<1>11. CASE ~(at.new <= h.end /\ New = "+")
  <2>1. n > e
    <3>1. n <= e => Sign(h, n) = "+"
      BY <1>5
    <3> QED
      BY <1>1, <1>11, <3>1 DEF New
  <2>2. UNCHANGED <<applied, input, sw, frozen, h>> /\ out' = out
    <3>1. PICK close : close = IF sw.defines /\ at.def # 0 THEN <<"#endif">> ELSE <<>>
      OBVIOUS
    <3>2. UNCHANGED <<applied, input, sw, frozen, h>> /\ out' = out \o close
      BY <1>11, <3>1 DEF FinishHunk, settings, text
    <3>3. close = <<>>
      BY <1>8, <3>1
    <3> QED
      BY <1>8, <3>2, <3>3, ConcatEmptySeq
  <2>3. NewTill(h, at.new) = e + 1
    BY <1>1, <2>1 DEF NewTill
  <2>4. Alike(out \o SubSeq(input, f + 1, r), Till \o t, sw.loose)
    BY <1>1, <1>6, <2>3 DEF Amid, TextTo
  <2>5. Stops(K)' - 1 = r /\ frozen' < Stops(K)' /\ frozen' = f
    BY <1>1, <1>2, <1>4, <2>2, TillStays
  <2>6. Till' = Till /\ LastNew' = t
    BY <1>7, <2>2, TillStays
  <2> QED
    BY <1>8, <2>2, <2>4, <2>5, <2>6 DEF Settled
<1> QED
  BY <1>10, <1>11

-------------------------------------------------------------------------------
(***************************************************************************)
(* Every step keeps the invariant.                                         *)
(***************************************************************************)

\* A step that leaves the text and the hunk alone.
LEMMA NothingChanges ==
  ASSUME SpliceInv, strayed => strayed',
         UNCHANGED <<pc, frozen, sw, applied, input, out, at, h, mv>>
  PROVE  SpliceInv'
<1>1. Good' => Good
  BY TillStays DEF Good
<1>2. Settled' = Settled
  <2>1. PICK t : t = out \o SubSeq(input, frozen + 1, Stops(K) - 1)
    OBVIOUS
  <2>2. (out \o SubSeq(input, frozen + 1, Stops(K) - 1))' = t
    BY <2>1, TillStays
  <2> QED
    BY <2>1, <2>2, TillStays DEF Settled
<1>3. InHand' = InHand
  BY DEF InHand, K
<1>4. Amid' = Amid
  <2>1. PICK t, x : /\ t = out \o SubSeq(input, frozen + 1, Reached(at.old))
                    /\ x = Till \o Lines(h, NewHeader(h) + 1, NewTill(h, at.new))
    OBVIOUS
  <2>2. Reached(at.old)' = Reached(at.old) /\ Till' = Till
    BY DEF Reached, K, Till, Piece, Stops, Starts
  <2>3. /\ (out \o SubSeq(input, frozen + 1, Reached(at.old)))' = t
        /\ (Till \o Lines(h, NewHeader(h) + 1, NewTill(h, at.new)))' = x
    BY <2>1, <2>2
  <2>4. TextTo(at.old, at.new)' = TextTo(at.old, at.new)
    BY <2>1, <2>2, <2>3 DEF TextTo
  <2> QED
    BY <2>2, <2>4 DEF Amid
<1>5. SameText(out, Spliced)' = SameText(out, Spliced)
  BY DEF SameText, Spliced, Piece, Stops, Starts
<1> QED
  BY <1>1, <1>2, <1>3, <1>4, <1>5 DEF SpliceInv

\* Until the file is opened, and again when the output is put in place.
LEMMA OutsideKeepsSplice ==
  ASSUME PatchTypes, SpliceInv
  PROVE  /\ User => SpliceInv'
         /\ Disk => SpliceInv'
         /\ Start \/ BadArguments \/ AnotherPatch \/ NoMorePatches => SpliceInv'
         /\ IntuitLine \/ IntuitDeletes \/ CannotOpen \/ NextPatch => SpliceInv'
         /\ EdCommand \/ EdDone => SpliceInv'
         /\ BackUp \/ Unlink \/ Install \/ ToStdout \/ MoveRejects \/ PatchDone => SpliceInv'
<1> USE DEF At, Go, settings, text, temporary, moving, history, Ends, Between, Looking
<1>1. CASE Interrupt \/ Kill \/ DoNotPatch \/ BadArguments \/ NoMorePatches \/ CannotOpen
  BY <1>1, NothingChanges DEF Interrupt, Kill, DoNotPatch, BadArguments, NoMorePatches,
     CannotOpen
<1>2. CASE AskForFile \/ Start \/ AnotherPatch \/ IntuitDeletes
  BY <1>2, NothingOpened DEF AskForFile, Start, AnotherPatch, IntuitDeletes, Intuited
<1>3. CASE IntuitLine
  <2>1. pc = "intuit" /\ frozen' = frozen
    BY <1>3 DEF IntuitLine
  <2>2. pc' \in {"intuit", "ask", "open"}
    BY <1>3 DEF IntuitLine, Intuited
  <2> QED
    BY <2>1, <2>2, NothingOpened
<1>4. CASE NextPatch
  BY <1>4, NothingOpened DEF NextPatch
<1>5. CASE PatchAnyway
  BY <1>5, NothingApplied DEF PatchAnyway
<1>6. CASE EdCommand
  BY <1>6 DEF EdCommand, SpliceInv
<1>7. CASE EdDone
  BY <1>7 DEF EdDone, SpliceInv
<1>8. CASE Disk \/ BackUp \/ Unlink \/ Install \/ ToStdout \/ PatchDone
  <2>1. CASE UNCHANGED <<pc, frozen, sw, applied, input, out, at, h, mv, strayed>>
    BY <2>1, NothingChanges
  <2>2. CASE pc' \in {"unlink", "install", "moved", "next"}
    BY <2>2 DEF SpliceInv
  <2> QED
    BY <1>8, <2>1, <2>2 DEF Disk, CannotBackUp, CannotCreate, CutShort, BackUp, Unlink, Install,
       ToStdout, PatchDone, MoveStep
<1>9. CASE MoveRejects
  BY <1>9 DEF MoveRejects, SpliceInv
<1> QED
  BY <1>1, <1>2, <1>3, <1>4, <1>5, <1>6, <1>7, <1>8, <1>9 DEF User

\* While hunks are read, and rejected.
LEMMA ReadingKeepsSplice ==
  ASSUME PatchTypes, SpliceInv
  PROVE  /\ NoMoreHunks \/ ContextHunk \/ OldHeader \/ NewHeaderLine => SpliceInv'
         /\ HunkText \/ HunkBlank \/ BadContext \/ Overrun \/ ContextEnds => SpliceInv'
         /\ NormalHunk \/ NormalLine \/ BadNormal \/ NormalEnds => SpliceInv'
         /\ HunkIsRead \/ RejectHunk \/ CannotSwap => SpliceInv'
<1> USE DEF At, Go, settings, text, temporary, history, Ends, Between, Takes, ReadingContext
<1>1. CASE NoMoreHunks \/ ContextHunk \/ NormalHunk \/ NormalLine \/ NormalEnds \/ RejectHunk
  BY <1>1, NothingApplied
     DEF NoMoreHunks, ContextHunk, NormalHunk, NormalLine, NormalEnds, RejectHunk
<1>2. CASE OldHeader \/ NewHeaderLine \/ HunkText \/ HunkBlank
  BY <1>2, NothingApplied DEF OldHeader, NewHeaderLine, HunkText, HunkBlank
<1>3. CASE BadContext \/ Overrun \/ BadNormal \/ CannotSwap
  <2>1. UNCHANGED <<pc, frozen, sw, applied, input, out, at, h, mv, strayed>>
    BY <1>3 DEF BadContext, Overrun, BadNormal, CannotSwap, moving
  <2> QED
    BY <2>1, NothingChanges
<1>4. CASE ContextEnds
  BY <1>4, NothingApplied, NothingChanges DEF ContextEnds, moving
<1>5. CASE HunkIsRead
  BY <1>5, NothingApplied, NothingChanges DEF HunkIsRead, moving
<1> QED
  BY <1>1, <1>2, <1>3, <1>4, <1>5

\* Where a hunk is found, as it came or turned around.
LEMMA PlacingKeepsSplice ==
  ASSUME PatchTypes, SpliceInv
  PROVE  LocateHunk \/ DetectReversed => SpliceInv'
<1>1. ASSUME At("locate") PROVE (Good => Settled) /\ h \in HunkType /\ FitsRoom(h) /\ offset \in Int
  BY <1>1 DEF At, SpliceInv, PatchTypes, NumbersOK, HunkFits
<1>2. ASSUME NEW hk \in HunkType, offset \in Int, Located(hk) # 0
      PROVE  /\ Located(hk) \in Int
             /\ hk.ptrn = 0 \/ Matches(hk, input, Located(hk), sw.loose)
  <2>1. PICK g \in Int : g = Guess(hk)
    BY <1>2, LocatedIsInt
  <2>2. LET w == Where(hk, input, g, sw.loose) IN
          w \in Int /\ (w # 0 => hk.ptrn = 0 \/ Matches(hk, input, w, sw.loose))
    BY WhereIsFit
  <2>3. Located(hk) = Where(hk, input, g, sw.loose)
    BY <2>1 DEF Located
  <2> QED
    BY <1>2, <2>2, <2>3
<1>3. ASSUME NEW hk \in HunkType, NEW w, FitsAt(w, hk), InHand' /\ (Good' => Amid') PROVE SpliceInv'
  <2>1. pc' = "apply"
    BY <1>3 DEF FitsAt, Go
  <2> QED
    BY <1>3, <2>1 DEF SpliceInv
<1>4. CASE LocateHunk
  <2>1. At("locate") /\ Located(h) # 0 /\ FitsAt(Located(h), h) /\ sw' = sw
    BY <1>4 DEF LocateHunk
  <2>2. InHand' /\ (Good' => Amid')
    <3>1. PICK w \in Int : w = Located(h)
      BY <1>1, <1>2, <2>1
    <3>2. h.ptrn = 0 \/ Matches(h, input, w, sw.loose)
      BY <1>1, <1>2, <2>1, <3>1
    <3> QED
      BY <1>1, <2>1, <3>1, <3>2, HunkBegins
  <2> QED
    BY <1>1, <1>3, <2>1, <2>2
<1>5. CASE DetectReversed
  <2>1. PICK p : p = Swapped(h)
    OBVIOUS
  <2>2. At("locate") /\ Located(p) # 0 /\ FitsAt(Located(p), p) /\ CanSwap(h)
    BY <1>5, <2>1 DEF DetectReversed
  <2>3. p \in HunkType
    BY <1>1, <2>1, <2>2, SwappedIsHunk
  <2>4. sw'.loose = sw.loose /\ sw'.defines = sw.defines
    BY <1>5 DEF DetectReversed, PatchTypes, SwitchNames
  <2>5. InHand' /\ (Good' => Amid')
    <3>1. PICK w \in Int : w = Located(p)
      BY <1>1, <1>2, <2>2, <2>3
    <3>2. p.ptrn = 0 \/ Matches(p, input, w, sw.loose)
      BY <1>1, <1>2, <2>2, <2>3, <3>1
    <3> QED
      BY <1>1, <2>2, <2>3, <2>4, <3>1, <3>2, HunkBegins
  <2> QED
    BY <1>3, <2>2, <2>3, <2>5
<1> QED
  BY <1>4, <1>5

\* While one is applied.
LEMMA ApplyingKeepsSplice ==
  ASSUME PatchTypes, SpliceInv
  PROVE  /\ DeleteLine \/ InsertLine \/ ReplaceLines => SpliceInv'
         /\ KeepLine \/ OutOfSync \/ FinishHunk => SpliceInv'
<1>1. ASSUME pc = "apply" PROVE InHand /\ (Good => Amid)
  BY <1>1 DEF SpliceInv
<1>2. ASSUME UNCHANGED <<applied, input, sw>>, strayed => strayed', Good'
      PROVE  Good /\ ~strayed'
  BY <1>2, TillStays DEF Good
<1>3. CASE DeleteLine \/ InsertLine \/ ReplaceLines \/ KeepLine
  <2>1. /\ pc = "apply" /\ pc' = "apply" /\ UNCHANGED <<applied, input, sw, h>>
        /\ at'.where = at.where /\ (strayed => strayed')
    <3>1. CASE DeleteLine
      BY <3>1 DEF DeleteLine, Change, Applying, At, settings, PatchTypes, NumbersOK
    <3>2. CASE InsertLine
      BY <3>2 DEF InsertLine, Change, Applying, At, settings, PatchTypes, NumbersOK
    <3>3. CASE ReplaceLines
      <4>1. PICK u, v : at' = [at EXCEPT !.old = u, !.new = v, !.def = 0]
        BY <3>3 DEF ReplaceLines, Change
      <4>2. at'.where = at.where
        BY <4>1 DEF PatchTypes, NumbersOK
      <4> QED
        BY <3>3, <4>2 DEF ReplaceLines, Change, Applying, At, settings
    <3>4. CASE KeepLine
      BY <3>4 DEF KeepLine, Applying, At, settings, text, PatchTypes, NumbersOK
    <3> QED
      BY <1>3, <3>1, <3>2, <3>3, <3>4
  <2>2. InHand'
    BY <1>1, <2>1, StillInHand
  <2>3. ASSUME Good' PROVE Amid'
    <3>1. Good /\ Amid /\ InHand /\ ~strayed'
      BY <1>1, <1>2, <2>1, <2>3
    <3> QED
      BY <1>3, <2>1, <3>1, LineDeleted, LineInserted, LinesReplaced, LineKept
  <2> QED
    BY <2>1, <2>2, <2>3 DEF SpliceInv
<1>4. CASE OutOfSync
  <2>1. UNCHANGED <<pc, frozen, sw, applied, input, out, at, h, mv>> /\ (strayed => strayed')
    BY <1>4 DEF OutOfSync, settings, text, temporary, moving
  <2> QED
    BY <2>1, NothingChanges
<1>5. CASE FinishHunk
  <2>1. /\ pc = "apply" /\ pc' = "hunk" /\ UNCHANGED <<applied, input, sw, strayed>>
    BY <1>5 DEF FinishHunk, Change, At, settings, text
  <2>2. ASSUME Good' PROVE Settled'
    <3>1. Good /\ Amid /\ InHand
      BY <1>1, <1>2, <2>1, <2>2
    <3> QED
      BY <1>5, <2>1, <3>1, HunkFinished
  <2> QED
    BY <2>1, <2>2 DEF SpliceInv
<1> QED
  BY <1>3, <1>4, <1>5

\* So the invariant holds all along.
LEMMA SpliceStep ==
  ASSUME PatchTypes, SpliceInv, [Next]_vars
  PROVE  SpliceInv'
<1>1. CASE User \/ Disk
  BY <1>1, OutsideKeepsSplice
<1>2. CASE Ended \/ UNCHANGED vars
  BY <1>2, NothingChanges DEF Ended, vars, settings, text, temporary, moving, history
<1>3. CASE Program
  BY <1>3, OutsideKeepsSplice, ReadingKeepsSplice, PlacingKeepsSplice, ApplyingKeepsSplice,
     Opened, Spewed DEF Program
<1> QED
  BY <1>1, <1>2, <1>3 DEF Next
LEMMA SpliceInit == Init => SpliceInv
BY DEF Init, SpliceInv

\* The files, the output and the hunk hold texts and signs all along, and a hunk that has
\* been read fits into p_line (patch.c:895-1233).
THEOREM PatchTypesHold == Spec => []PatchTypes
BY TypesInit, TypesStep, PTL DEF Spec

\* Hunks that were found in the order of the file leave it with their new lines in
\* place of the old ones and every other line untouched: for any files and patches,
\* wherever the hunks were found, at any size of p_line, with and without -l and -R
\* (patch.c:728-893).
THEOREM OutputIsAsPatched == Spec => []OutputIsSpliced
<1>1. Init => PatchTypes /\ SpliceInv
  BY TypesInit, SpliceInit
<1>2. PatchTypes /\ SpliceInv /\ [Next]_vars => PatchTypes' /\ SpliceInv'
  BY TypesStep, SpliceStep
<1>3. PatchTypes /\ SpliceInv => OutputIsSpliced
  <2>1. ASSUME SpliceInv, Applied, AllBalanced, ~sw.defines, ~strayed, InOrder
        PROVE  SameText(out, Spliced)
    BY <2>1 DEF SpliceInv, Applied, At, Good
  <2> QED
    BY <2>1 DEF OutputIsSpliced
<1> QED
  BY <1>1, <1>2, <1>3, PTL DEF Spec
===============================================================================
