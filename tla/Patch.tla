--------------------------------- MODULE Patch ---------------------------------
(***************************************************************************)
(* patch (Larry_Wall_updated_diff/src/patch.c): one run of the program,    *)
(* from its arguments to its exit.  A step is one turn of a loop of the    *)
(* code, or a function that has none.  The user answers prompts, and may   *)
(* interrupt the program wherever it lets him, or kill it anywhere.        *)
(*                                                                         *)
(* A patch file is a sequence of lines.  A line is a record: k says how it *)
(* begins, the other fields what the program reads in it.                  *)
(***************************************************************************)
EXTENDS Hunk, SequencesExt, FiniteSets

CONSTANTS
  Files,      \* the names of files without a suffix
  Length,     \* the length of a name
  Jobs        \* the runs: what is on the disk, the patch file, the arguments

ASSUME LengthAssumption == Length \in [Files -> Nat]

\* How a line of a patch begins.  "***" and "---" are headers, of a file or of half
\* a hunk; "stars" is the line of stars in front of a hunk, "cmd" a command of a
\* normal diff or an ed script, "." the end of the text of such a command, "bare"
\* the line between the halves of a change of a normal diff.
LineKinds == {" ", "+", "-", "!", "\n", "stars", "***", "---", "bare", "cmd", "<", ">", ".",
          "Index", "Prereq", "other"}

\* Lines that have text, and lines that say from where to where: the range of no lines
\* ends in front of where it begins.
TextKinds == {" ", "+", "-", "!", "<", ">", "other"}
RangeKinds == {"***", "---", "bare", "cmd"}

\* The arguments; "+" begins those of the next patch.
Arguments == {"file", "-c", "-n", "-e", "-R", "-l", "-D", "-o", "-r", "-b", "+"}
MAXFILEC == 2

\* The lines a command of a normal diff names: in the new file it begins behind those a
\* deletion names, in the old one an addition without a range (2a4, not 2,3a4) has none.
\* Both ends of a range are the same when there is no comma, and only then.
NewFirst(cmd) == IF cmd.op = "d" THEN cmd.nf + 1 ELSE cmd.nf
OldCount(cmd) == IF cmd.op = "a" /\ cmd.l = cmd.f THEN 0 ELSE cmd.l - cmd.f + 1
NewCount(cmd) == cmd.nl - NewFirst(cmd) + 1

ASSUME JobsAssumption ==
  \A j \in Jobs :
    /\ DOMAIN j.texts \subseteq Files /\ \A f \in DOMAIN j.texts : j.texts[f] \in Seq(Texts)
    /\ Len(j.patch) \in Nat
    /\ \A i \in 1..Len(j.patch) :
         LET line == j.patch[i] IN
           /\ line.k \in LineKinds
           /\ line.k \in TextKinds => line.t \in Texts
           /\ line.k \in RangeKinds => line.f \in Nat /\ line.l \in Nat /\ line.f <= line.l + 1
           /\ line.k = "cmd" => line.nf \in Nat /\ line.nl \in Nat /\ NewFirst(line) <= line.nl + 1
    /\ \A i \in DOMAIN j.args : j.args[i].k \in Arguments

VARIABLES
  job,       \* the run, an element of Jobs
  status,    \* "running", or how it ended
  pc,        \* what the program does next
  sigs,      \* what SIGHUP and SIGINT do: "exit" or "ignored"
  disk,      \* the files that are there, and the text of each
  sw,        \* what the switches set, filearg[0], outname, diff_type among it
  args,      \* the arguments not yet read
  pos, base, \* where the patch file is read, and p_base
  seen,      \* intuit_diff_type()'s locals
  revision,  \* the word of a Prereq: line
  input,     \* the lines of the input file
  frozen,    \* last_frozen_line
  offset,    \* last_offset
  h, fill,   \* the hunk, and the line of it read next
  at,        \* apply_hunk()'s locals
  hunk, failed,
  out, rej,  \* the temporary files
  mv,        \* move_file()'s arguments
  kept,      \* history: the files move_file() could not install, or not as a whole
  applied,   \* history: the hunks of this patch and where they were applied
  strayed,   \* history: apply_hunk() went by signs behind the end of the hunk
  garbled    \* history: "misordered hunks! output will be garbled."

reader == <<pos, base>>
intuition == <<seen, revision>>
settings == <<sw, args>>
text == <<input, frozen, offset>>
temporary == <<out, rej>>
counts == <<hunk, failed>>
moving == <<mv, kept>>
history == <<applied, strayed, garbled>>
vars == <<job, status, pc, sigs, disk, settings, reader, intuition, text, h, fill, at,
          counts, temporary, moving, history>>

Patch == job.patch
NoSwitches == [filec |-> 0, file |-> NULL, out |-> NULL, rej |-> NULL, ext |-> "orig",
               type |-> "none", reverse |-> FALSE, loose |-> FALSE, defines |-> FALSE]

\* get_some_switches() reads the arguments up to the next "+"; where two of them say
\* the same, the last one counts, but the first file is the one to be patched.
ListEnd == Min({i \in 1..Len(args) + 1 : i > Len(args) \/ args[i].k = "+"})
Given(kinds) == {i \in 1..ListEnd - 1 : args[i].k \in kinds}
LastOf(kind, otherwise) == IF Given({kind}) = {} THEN otherwise ELSE args[Max(Given({kind}))].v
TypeArguments == {"-c", "-n", "-e"}
TypeGiven == LET k == args[Max(Given(TypeArguments))].k IN
  IF k = "-c" THEN "context" ELSE IF k = "-n" THEN "normal" ELSE "ed"

\* reinitialize_almost_everything(): only -b, -l and -D stay from the patch before.
Settings ==
  [filec   |-> Cardinality(Given({"file"})),
   file    |-> IF Given({"file"}) = {} THEN NULL ELSE args[Min(Given({"file"}))].v,
   out     |-> LastOf("-o", NULL),
   rej     |-> LastOf("-r", NULL),
   ext     |-> LastOf("-b", sw.ext),
   type    |-> IF Given(TypeArguments) = {} THEN "none" ELSE TypeGiven,
   reverse |-> Given({"-R"}) # {},
   loose   |-> sw.loose \/ Given({"-l"}) # {},
   defines |-> sw.defines \/ Given({"-D"}) # {}]
TakeSwitches == sw' = Settings /\ args' = SubSeq(args, ListEnd + 1, Len(args))

Init ==
  /\ job \in Jobs
  /\ status = "running" /\ pc = "start"
  /\ sigs = "exit"                                   \* set_signals()
  /\ disk = [p \in {<<f>> : f \in DOMAIN job.texts} |-> job.texts[p[1]]]
  /\ sw = NoSwitches /\ args = job.args
  /\ pos = 1 /\ base = 1
  /\ seen = [cmd |-> 0, was |-> FALSE, old |-> NULL, noarg |-> FALSE]
  /\ revision = NULL
  /\ input = <<>> /\ frozen = 0 /\ offset = 0
  /\ h = NoHunk /\ fill = 0
  /\ at = [old |-> 1, new |-> 1, def |-> 0, where |-> 0]
  /\ hunk = 0 /\ failed = 0
  /\ out = <<>> /\ rej = <<>>
  /\ mv = [from |-> <<>>, to |-> <<>>, rejects |-> FALSE] /\ kept = {}
  /\ applied = <<>> /\ strayed = FALSE /\ garbled = FALSE

At(label) == status = "running" /\ pc = label
Go(label) == pc' = label /\ UNCHANGED <<job, status>>

\* The program ends, and removes its temporary files.
Ends(how) ==
  /\ status' = how
  /\ UNCHANGED <<job, pc, sigs, disk, settings, reader, intuition, text, h, fill, at, counts,
                 temporary, moving, history>>

\* Variant: the files are moved with the signals on.
LeaveSignals == sigs' = sigs
IgnoreSignals == sigs' = "ignored"

Interrupt == status = "running" /\ sigs = "exit" /\ Ends("interrupted")

\* Every other signal that ends a process does so at once, and leaves the temporary files.
Kill == status = "running" /\ Ends("killed")

\* How the next line of the patch begins.
NextLine == IF pos <= Len(Patch) THEN Patch[pos].k ELSE "eof"

Start ==
  /\ At("start")
  /\ Settings.filec <= MAXFILEC
  /\ TakeSwitches
  /\ Go("another")
  /\ UNCHANGED <<sigs, disk, reader, intuition, text, h, fill, at, counts, temporary, moving,
                 history>>

\* Only the first arguments may name the patch file.
BadArguments ==
  /\ \/ At("start") /\ Settings.filec > MAXFILEC
     \/ At("next") /\ Settings.filec >= MAXFILEC
  /\ Ends("fatal")

-------------------------------------------------------------------------------
(***************************************************************************)
(* there_is_another_patch() and intuit_diff_type().                        *)
(***************************************************************************)

AnotherPatch ==
  /\ At("another")
  /\ base = 1 \/ base <= Len(Patch)
  /\ pos' = base
  /\ seen' = [cmd |-> 0, was |-> FALSE, old |-> NULL, noarg |-> sw.file = NULL]
  /\ Go("intuit")
  /\ UNCHANGED <<sigs, disk, settings, base, revision, text, h, fill, at, counts, temporary,
                 moving, history>>

NoMorePatches ==
  /\ \/ At("another") /\ base # 1 /\ base > Len(Patch)
     \/ At("intuit") /\ pos > Len(Patch) /\ seen.cmd = 0
  /\ Ends("exited")

\* fetchname(): NULL unless the file is there.
Existing(name) ==
  IF name \in Files /\ <<name>> \in DOMAIN disk THEN name ELSE NULL

Shorter(old, new) ==
  IF old # NULL /\ (new = NULL \/ Length[old] < Length[new]) THEN old ELSE new

\* filearg[0] after a line, if no argument named the file.
Named(line) ==
  IF ~seen.noarg THEN sw.file
  ELSE CASE line.k = "Index" -> Existing(line.name)
         [] line.k = "---" /\ (seen.old # NULL \/ Existing(line.name) # NULL)
                        -> Shorter(seen.old, Existing(line.name))
         [] OTHER       -> sw.file

MayBe(type) == sw.type \in {"none", type}
Looks(line) ==
  IF MayBe("ed") /\ seen.cmd > 0 /\ line.k = "." THEN "ed"
  ELSE IF MayBe("context") /\ line.k = "stars" THEN "context"
  ELSE IF MayBe("normal") /\ seen.was /\ line.k \in {"<", ">"} THEN "normal"
  ELSE "none"
FirstLine(type) ==
  IF type = "ed" THEN seen.cmd ELSE IF type = "context" THEN pos ELSE pos - 1

\* The type is known: skip_to() its first line.
Intuited(type, file) ==
  /\ sw' = [sw EXCEPT !.type = type, !.file = file]
  /\ pos' = FirstLine(type)
  /\ Go(IF file = NULL THEN "ask" ELSE "open")

IntuitLine ==
  /\ At("intuit") /\ pos <= Len(Patch)
  /\ LET line == Patch[pos] IN
       /\ seen' = [seen EXCEPT !.was = line.k = "cmd",
                     !.cmd = IF @ = 0 /\ line.k = "cmd" THEN pos ELSE @,
                     !.old = IF line.k = "***" THEN Existing(line.name) ELSE @]
       /\ revision' = IF line.k = "Prereq" THEN line.t ELSE revision
       /\ IF Looks(line) # "none" THEN Intuited(Looks(line), Named(line))
          ELSE /\ pos' = pos + 1 /\ sw' = [sw EXCEPT !.file = Named(line)]
               /\ UNCHANGED <<job, status, pc>>
  /\ UNCHANGED <<sigs, disk, args, base, text, h, fill, at, counts, temporary, moving, history>>

\* A patch that has only commands is an ed script, whatever the switches say.
IntuitDeletes ==
  /\ At("intuit") /\ pos > Len(Patch) /\ seen.cmd > 0
  /\ Intuited("ed", sw.file)
  /\ UNCHANGED <<sigs, disk, args, base, intuition, text, h, fill, at, counts, temporary,
                 moving, history>>

AskForFile ==
  /\ At("ask")
  /\ \E f \in Files \cup {NULL} : sw' = [sw EXCEPT !.file = Existing(f)]
  /\ Go("open")
  /\ UNCHANGED <<sigs, disk, args, reader, intuition, text, h, fill, at, counts, temporary,
                 moving, history>>

-------------------------------------------------------------------------------
(***************************************************************************)
(* Opening the files: orig_main(), scan_input(), plan_a().                 *)
(***************************************************************************)

\* A file that does not end in a newline gets one; so does an empty file.
Scanned(lines) == IF lines = <<>> THEN <<"">> ELSE lines

\* rev_in_string() wants white space in front of the word.
Carries(lines) == \E i \in 2..Len(lines) : lines[i] = revision

OpenFiles ==
  /\ At("open")
  /\ <<sw.file>> \in DOMAIN disk
  /\ sw' = [sw EXCEPT !.out = IF @ = NULL THEN sw.file ELSE @]
  /\ out' = <<>> /\ rej' = <<>>
  /\ input' = IF sw.type = "ed" THEN disk[<<sw.file>>] ELSE Scanned(disk[<<sw.file>>])
  /\ hunk' = 0 /\ failed' = 0
  /\ applied' = <<>> /\ UNCHANGED <<strayed, garbled>>
  /\ Go(IF sw.type = "ed" THEN "ed"
        ELSE IF revision # NULL /\ ~Carries(input') THEN "confirm" ELSE "hunk")
  /\ UNCHANGED <<sigs, disk, args, reader, intuition, frozen, offset, h, fill, at, moving>>

CannotOpen ==
  /\ At("open")
  /\ <<sw.file>> \notin DOMAIN disk
  /\ Ends("fatal")

\* "This file doesn't appear to be the ... version--patch anyway?"
PatchAnyway ==
  /\ At("confirm")
  /\ Go("hunk")
  /\ UNCHANGED <<sigs, disk, settings, reader, intuition, text, h, fill, at, counts, temporary,
                 moving, history>>
DoNotPatch == At("confirm") /\ Ends("fatal")

-------------------------------------------------------------------------------
(***************************************************************************)
(* An ed script is handed to ed.                                           *)
(***************************************************************************)

\* What ed makes of one command; a command that names lines the file lacks fails, and
\* lines are added behind the last one that is named.
Edit(lines, cmd, insert) ==
  IF cmd.l > Len(lines) THEN lines
  ELSE SubSeq(lines, 1, IF cmd.op = "a" THEN cmd.l ELSE cmd.f - 1)
       \o insert \o SubSeq(lines, cmd.l + 1, Len(lines))

\* The text of a command ends at a "." or with the patch.
TextEnd == Min({i \in pos + 1..Len(Patch) + 1 : i > Len(Patch) \/ Patch[i].k = "."})
\* A line of a diff that is taken for text is one, sign and all: NULL stands for it.
TextLines ==
  [i \in 1..TextEnd - pos - 1 |-> IF Patch[pos + i].k = "other" THEN Patch[pos + i].t ELSE NULL]

EdCommand ==
  /\ At("ed") /\ NextLine = "cmd"
  /\ IF Patch[pos].op = "d"
       THEN input' = Edit(input, Patch[pos], <<>>) /\ pos' = pos + 1
       ELSE input' = Edit(input, Patch[pos], TextLines) /\ pos' = Min({TextEnd, Len(Patch)}) + 1
  /\ UNCHANGED <<job, status, pc, sigs, disk, settings, base, intuition, frozen, offset, h,
                 fill, at, counts, temporary, moving, history>>

EdDone ==
  /\ At("ed") /\ NextLine # "cmd"
  /\ base' = pos
  /\ mv' = [from |-> input, to |-> <<sw.out>>, rejects |-> FALSE] /\ UNCHANGED kept
  /\ IgnoreSignals
  /\ Go("backup")
  /\ UNCHANGED <<disk, settings, pos, intuition, text, h, fill, at, counts, temporary, history>>

-------------------------------------------------------------------------------
(***************************************************************************)
(* another_hunk(): a context diff.                                         *)
(***************************************************************************)

NoMoreHunks ==
  /\ At("hunk")
  /\ NextLine # (IF sw.type = "context" THEN "stars" ELSE "cmd")
  /\ base' = pos /\ UNCHANGED pos                    \* next_intuit_at()
  /\ h' = LinesFreed(h)
  /\ Go("spew")
  /\ UNCHANGED <<sigs, disk, settings, intuition, text, fill, at, counts, temporary, moving,
                 history>>

ContextHunk ==
  /\ At("hunk") /\ sw.type = "context" /\ NextLine = "stars"
  /\ pos' = pos + 1
  /\ h' = LinesFreed(h)
  /\ Go("context")
  /\ UNCHANGED <<sigs, disk, settings, base, intuition, text, fill, at, counts, temporary,
                 moving, history>>

\* At the end of the patch up to three blank lines are supposed to be missing.
Chopped == pos > Len(Patch) /\ h.max - h.end < 4
HunkLine == IF pos <= Len(Patch) THEN Patch[pos] ELSE [k |-> " ", t |-> ""]

ReadingContext(kinds) ==
  /\ At("context") /\ h.end < h.max
  /\ pos <= Len(Patch) \/ Chopped
  /\ HunkLine.k \in kinds
  /\ h.end + 1 \in Room

\* The line becomes the next one of the hunk.
Takes(hk) ==
  /\ h' = hk
  /\ pos' = pos + 1
  /\ UNCHANGED <<job, status, pc, sigs, disk, settings, base, intuition, text, fill, at,
                 counts, temporary, moving, history>>

OldHeader ==
  /\ ReadingContext({"***"})
  /\ h.end = -1
  /\ Takes([PutNext(h, "*", NULL) EXCEPT
              !.first = HunkLine.f, !.ptrn = HunkLine.l - HunkLine.f + 1])

NewHeaderLine ==
  /\ ReadingContext({"---", "bare"})
  /\ h.end \in {h.ptrn, h.ptrn + 1}
  /\ Takes([PutNext(h, "=", NULL) EXCEPT
              !.newfirst = HunkLine.f, !.dash = h.end + 1,
              !.max = HunkLine.l - HunkLine.f + 1 + h.end + 1])

HunkText ==
  /\ ReadingContext({" ", "+", "-", "!"})
  /\ Takes(PutNext(h, HunkLine.k, HunkLine.t))

\* A blank line stands for a line of context, unless the old part is complete.
HunkBlank ==
  /\ ReadingContext({"\n"})
  /\ Takes(PutNext(h, IF h.end = h.ptrn THEN "\n" ELSE " ", ""))

BadContext ==
  /\ At("context") /\ h.end < h.max
  /\ \/ pos > Len(Patch) /\ ~Chopped
     \/ HunkLine.k \notin {" ", "+", "-", "!", "\n", "***", "---", "bare"}
     \/ HunkLine.k = "***" /\ h.end # -1
     \/ HunkLine.k \in {"---", "bare"} /\ h.end \notin {h.ptrn, h.ptrn + 1}
  /\ Ends("fatal")

\* p_max is the first line too many, p_line[MAXHUNKSIZE] is behind the array.
Overrun ==
  /\ \/ At("context") /\ h.end < h.max /\ h.end + 1 \notin Room
     \/ At("normal") /\ fill <= h.end /\ fill \notin Room
  /\ Ends("overrun")

ContextEnds ==
  /\ At("context") /\ h.end >= h.max
  /\ IF h.ptrn = 0 THEN Ends("fatal")                \* "No --- found in patch"
     ELSE /\ h' = [h EXCEPT !.repl = h.end - h.dash]
          /\ Go("read")
          /\ UNCHANGED <<sigs, disk, settings, reader, intuition, text, fill, at, counts,
                         temporary, moving, history>>

-------------------------------------------------------------------------------
(***************************************************************************)
(* another_hunk(): a normal diff is made to look like a context diff.      *)
(***************************************************************************)

\* Variant: lines are added in front of the line the command names.
InsertedBefore(cmd, hk) ==
  [Put(hk, 0, "*", NULL) EXCEPT
     !.first = cmd.f,
     !.newfirst = NewFirst(cmd),
     !.ptrn = OldCount(cmd), !.repl = NewCount(cmd),
     !.end = OldCount(cmd) + 1 + NewCount(cmd)]
\* The hunk a command announces: its lines are still to be read.
Announced(cmd, hk) ==
  [Put(hk, 0, "*", NULL) EXCEPT
     !.first = IF cmd.op = "a" THEN cmd.f + 1 ELSE cmd.f,
     !.newfirst = NewFirst(cmd),
     !.ptrn = OldCount(cmd), !.repl = NewCount(cmd),
     !.end = OldCount(cmd) + 1 + NewCount(cmd)]

NormalHunk ==
  /\ At("hunk") /\ sw.type = "normal" /\ NextLine = "cmd"
  /\ h' = Announced(Patch[pos], LinesFreed(h))
  /\ fill' = 1
  /\ pos' = pos + 1
  /\ Go("normal")
  /\ UNCHANGED <<sigs, disk, settings, base, intuition, text, at, counts, temporary, moving,
                 history>>

\* The command the hunk was announced by, when its old lines have been read.
HunkCommand == Patch[pos - fill]

\* How the line that is read next must begin; the header of the new part is read
\* in a change only.
Wanted ==
  IF fill <= h.ptrn THEN {"<"}
  ELSE IF fill # h.ptrn + 1 THEN {">"}
  ELSE IF HunkCommand.op = "c" THEN {"bare", "---", "-"} ELSE {}

NormalLine ==
  /\ At("normal") /\ fill <= h.end /\ fill \in Room
  /\ IF Wanted = {} THEN pos' = pos ELSE NextLine \in Wanted /\ pos' = pos + 1
  /\ h' = IF fill <= h.ptrn THEN Put(h, fill, "-", Patch[pos].t)
          ELSE IF fill = h.ptrn + 1 THEN Put(h, fill, "=", NULL)
          ELSE Put(h, fill, "+", Patch[pos].t)
  /\ fill' = fill + 1
  /\ UNCHANGED <<job, status, pc, sigs, disk, settings, base, intuition, text, at, counts,
                 temporary, moving, history>>

BadNormal ==
  /\ At("normal") /\ fill <= h.end /\ fill \in Room
  /\ Wanted # {} /\ NextLine \notin Wanted
  /\ Ends("fatal")

NormalEnds ==
  /\ At("normal") /\ fill > h.end
  /\ Go("read")
  /\ UNCHANGED <<sigs, disk, settings, reader, intuition, text, h, fill, at, counts, temporary,
                 moving, history>>

-------------------------------------------------------------------------------
(***************************************************************************)
(* orig_main(): where the hunk goes.                                       *)
(***************************************************************************)

\* With -R every hunk is swapped as soon as it is read.
HunkIsRead ==
  /\ At("read")
  /\ IF sw.reverse /\ ~CanSwap(h) THEN Ends("asserted")
     ELSE /\ h' = IF sw.reverse THEN Swapped(h) ELSE h
          /\ hunk' = hunk + 1
          /\ Go("locate")
          /\ UNCHANGED <<sigs, disk, settings, reader, intuition, text, fill, at, failed,
                         temporary, moving, history>>

Guess(hk) == hk.first + offset
Located(hk) == Where(hk, input, Guess(hk), sw.loose)

\* The hunk hk fits at line w: apply_hunk() starts there.  last_offset becomes the
\* distance from the guess, which the last offset is part of.
FitsAt(w, hk) ==
  /\ h' = hk
  /\ offset' = IF w = Guess(hk) THEN offset ELSE w - Guess(hk)
  /\ at' = [old |-> 1, new |-> Behind(hk, hk.ptrn + 1, {"=", "\n"}), def |-> 0, where |-> w - 1]
  /\ applied' = Append(applied, [where |-> w, hunk |-> hk])
  /\ Go("apply")
  /\ UNCHANGED <<sigs, disk, args, reader, intuition, input, frozen, fill, counts, temporary,
                 moving, strayed, garbled>>

LocateHunk ==
  /\ At("locate")
  /\ Located(h) # 0
  /\ FitsAt(Located(h), h)
  /\ UNCHANGED sw

\* The first hunk does not fit, but does when it is swapped: "reversed (or
\* previously applied) patch detected!"
DetectReversed ==
  /\ At("locate")
  /\ Located(h) = 0 /\ hunk = 1 /\ CanSwap(h)
  /\ Located(Swapped(h)) # 0
  /\ FitsAt(Located(Swapped(h)), Swapped(h))
  /\ sw' = [sw EXCEPT !.reverse = ~@]

\* Variant: it is left the way it was tried last.
LeftSwapped(hk) == IF hunk = 1 THEN Swapped(hk) ELSE hk
\* The first hunk is swapped to see whether it fits that way, and swapped back.
SwappedBack(hk) == IF hunk = 1 THEN Swapped(Swapped(hk)) ELSE hk
SwapsFail(hk) ==
  hunk = 1 /\ (~CanSwap(hk) \/ (Located(Swapped(hk)) = 0 /\ ~CanSwap(Swapped(hk))))

\* Variant: it is swapped and tried until it fits.
TryAgain ==
  /\ At("locate")
  /\ Located(h) = 0 /\ ~SwapsFail(h)
  /\ hunk = 1 => Located(Swapped(h)) = 0
  /\ h' = Swapped(h)
  /\ UNCHANGED <<job, status, pc, sigs, disk, settings, reader, intuition, text, fill, at,
                 counts, temporary, moving, history>>
\* abort_hunk(): the hunk goes to the reject file, with the lines it was tried at.
RejectHunk ==
  /\ At("locate")
  /\ Located(h) = 0 /\ ~SwapsFail(h)
  /\ hunk = 1 => Located(Swapped(h)) = 0
  /\ h' = SwappedBack(h)
  /\ rej' = Append(rej, [old |-> Guess(h), new |-> h.newfirst + offset,
                         lines |-> Lines(h', 0, h.end + 1),
                         signs |-> [n \in 1..h.end + 1 |-> h'.c[n - 1]]])
  /\ failed' = failed + 1
  /\ Go("hunk")
  /\ UNCHANGED <<sigs, disk, settings, reader, intuition, text, fill, at, hunk, out, moving,
                 history>>

CannotSwap ==
  /\ At("locate")
  /\ Located(h) = 0 /\ SwapsFail(h)
  /\ Ends("asserted")

-------------------------------------------------------------------------------
(***************************************************************************)
(* apply_hunk().                                                           *)
(***************************************************************************)

\* copy_till(), dump_line(): what is printed behind the end of the input is whatever
\* follows in memory.
Dumped(i) == IF i \in 1..Len(input) THEN input[i] ELSE Freed
CopiedTill(line) == out \o [n \in 1..(line - frozen) |-> Dumped(frozen + n)]
FrozenAt(line) == IF frozen < line THEN line ELSE frozen

Old == Sign(h, at.old)
New == Sign(h, at.new)
Here == at.where + at.old - 1
Applying == At("apply") /\ at.old <= h.ptrn

\* The text is copied up to the change; then come lines, and skip lines of the input
\* are left out.
Change(lines, skip, next) ==
  /\ out' = CopiedTill(Here) \o lines
  /\ frozen' = FrozenAt(Here) + skip
  /\ garbled' = (garbled \/ frozen > Here)
  /\ at' = next
  /\ UNCHANGED <<job, status, sigs, disk, settings, reader, intuition, input, offset, h, fill,
                 counts, rej, moving, applied>>

\* The lines of -D in front of text of one version: def is 0 outside, -1 behind
\* #ifndef, 1 behind #ifdef and 2 behind #else.
\* Variant: the branch of the new text is not begun.
NoElse(version) ==
  IF sw.defines /\ at.def = 0 THEN <<IF version = "old" THEN "#ifndef" ELSE "#ifdef">> ELSE <<>>
Marks(version) ==
  IF ~sw.defines THEN <<>>
  ELSE IF at.def = 0 THEN <<IF version = "old" THEN "#ifndef" ELSE "#ifdef">>
  ELSE IF at.def = (IF version = "old" THEN 1 ELSE -1) THEN <<"#else">>
  ELSE <<>>
DefAfter(version) ==
  IF ~sw.defines THEN 0
  ELSE IF at.def = 0 THEN (IF version = "old" THEN -1 ELSE 1)
  ELSE IF at.def = (IF version = "old" THEN 1 ELSE -1) THEN 2 ELSE at.def
IfDefines(lines) == IF sw.defines THEN lines ELSE <<>>

DeleteLine ==
  /\ Applying /\ Old = "-"
  /\ Change(Marks("old") \o IfDefines(<<Line(h, at.old)>>), 1,
            [at EXCEPT !.old = @ + 1, !.def = DefAfter("old")])
  /\ UNCHANGED <<pc, strayed>>

InsertLine ==
  /\ Applying /\ Old # "-" /\ New = "+"
  /\ Change(Marks("new") \o <<Line(h, at.new)>>, 0,
            [at EXCEPT !.new = @ + 1, !.def = DefAfter("new")])
  /\ strayed' = (strayed \/ at.new > h.end)
  /\ UNCHANGED pc

\* All lines marked ! at once; those of the new part end where a sign differs, and
\* the sign behind the hunk may be an earlier hunk's.
ReplaceLines ==
  /\ Applying /\ Old = "!" /\ New = "!"
  /\ LET o == Behind(h, at.old, {"!"})
         n == Behind(h, at.new, {"!"}) IN
       /\ Change(IfDefines(<<"#ifndef">> \o Lines(h, at.old, o) \o <<"#else">>)
                   \o Lines(h, at.new, n) \o IfDefines(<<"#endif">>),
                 o - at.old, [at EXCEPT !.old = o, !.new = n, !.def = 0])
       /\ strayed' = (strayed \/ n > h.end + 1)
  /\ UNCHANGED pc

KeepLine ==
  /\ Applying /\ Old = " " /\ New = " "
  /\ at' = [at EXCEPT !.old = @ + 1, !.new = @ + 1]
  /\ strayed' = (strayed \/ at.new > h.end)
  /\ UNCHANGED <<job, status, pc, sigs, disk, settings, reader, intuition, text, h, fill,
                 counts, temporary, moving, applied, garbled>>

\* "Out-of-sync patch"
OutOfSync ==
  /\ Applying /\ Old # "-" /\ New # "+"
  /\ New # Old \/ Old \notin {"!", " "}
  /\ status' = (IF New # Old THEN "fatal" ELSE "asserted")
  /\ strayed' = (strayed \/ at.new > h.end)
  /\ UNCHANGED <<job, pc, sigs, disk, settings, reader, intuition, text, h, fill, at, counts,
                 temporary, moving, applied, garbled>>

\* The old part is done: lines may follow that are added behind it.
FinishHunk ==
  /\ At("apply") /\ at.old > h.ptrn
  /\ LET more == at.new <= h.end /\ New = "+"
         n == Min({Behind(h, at.new, {"+"}), h.end + 1})
         def == IF more THEN DefAfter("new") ELSE at.def
         close == IF sw.defines /\ def # 0 THEN <<"#endif">> ELSE <<>> IN
       IF more
         THEN Change(Marks("new") \o Lines(h, at.new, n) \o close, 0, at)
         ELSE /\ out' = out \o close
              /\ UNCHANGED <<job, status, sigs, disk, settings, reader, intuition, text, h, fill,
                             at, counts, rej, moving, applied, garbled>>
  /\ pc' = "hunk"
  /\ UNCHANGED strayed

-------------------------------------------------------------------------------
(***************************************************************************)
(* The end of a patch: spew_output(), move_file(), the next argument list. *)
(***************************************************************************)

SpewOutput ==
  /\ At("spew")
  /\ out' = CopiedTill(Len(input))
  /\ frozen' = FrozenAt(Len(input))
  /\ garbled' = (garbled \/ frozen > Len(input))
  /\ mv' = [from |-> out', to |-> <<sw.out>>, rejects |-> FALSE]
  /\ IgnoreSignals
  /\ Go("backup")
  /\ UNCHANGED <<disk, settings, reader, intuition, input, offset, h, fill, at, counts, rej,
                 kept, applied, strayed>>

MoveStep(label) ==
  /\ Go(label)
  /\ UNCHANGED <<sigs, settings, reader, intuition, text, h, fill, at, counts, temporary,
                 history, mv>>

There == mv.to \in DOMAIN disk
Without(path) == [p \in DOMAIN disk \ {path} |-> disk[p]]
With(path, lines) == [p \in DOMAIN disk \cup {path} |-> IF p = path THEN lines ELSE disk[p]]

Backup == Append(mv.to, sw.ext)

\* Output to "-" is written to stdout; write() is expected to answer 1.
ToStdout ==
  /\ At("backup") /\ mv.to = <<"-">>
  /\ IF mv.from \in {<<>>, <<"">>} THEN MoveStep("moved") /\ UNCHANGED <<disk, kept>>
     ELSE Ends("fatal")

\* Variant: the link to the backup name is forgotten.
NoBackUp ==
  /\ At("backup") /\ mv.to # <<"-">>
  /\ MoveStep(IF There THEN "unlink" ELSE "install")
  /\ UNCHANGED <<disk, kept>>
\* link(to, bakname), after every older backup was removed
BackUp ==
  /\ At("backup") /\ mv.to # <<"-">>
  /\ disk' = IF There THEN With(Backup, disk[mv.to]) ELSE disk
  /\ MoveStep(IF There THEN "unlink" ELSE "install")
  /\ UNCHANGED kept

\* "can't backup ..., output is in ..."
CannotBackUp ==
  /\ At("backup") /\ mv.to # <<"-">> /\ There
  /\ disk' = Without(Backup)
  /\ kept' = kept \cup {mv.to}
  /\ MoveStep("moved")

Unlink ==
  /\ At("unlink")
  /\ disk' = Without(mv.to)
  /\ MoveStep("install")
  /\ UNCHANGED kept

Install ==
  /\ At("install")
  /\ disk' = With(mv.to, mv.from)
  /\ MoveStep("moved")
  /\ UNCHANGED kept

\* "can't create ..., output is in ..."
CannotCreate ==
  /\ At("install")
  /\ kept' = kept \cup {mv.to}
  /\ MoveStep("moved")
  /\ UNCHANGED disk

\* "write failed", or the program is killed, while the output is copied to a file it could
\* not be linked to: what has been written by then is there, and no more.
CutShort ==
  /\ At("install")
  /\ \E n \in 0..Len(mv.from) : disk' = With(mv.to, SubSeq(mv.from, 1, n))
  /\ kept' = kept \cup {mv.to}
  /\ status' \in {"fatal", "killed"}
  /\ UNCHANGED <<job, pc, sigs, settings, reader, intuition, text, h, fill, at, counts,
                 temporary, history, mv>>

\* Rejects are saved the same way, under the name -r gave or one of their own.
RejectName == IF sw.rej = NULL THEN <<sw.out, "rej">> ELSE <<sw.rej>>

MoveRejects ==
  /\ At("moved") /\ failed > 0 /\ ~mv.rejects
  /\ mv' = [from |-> rej, to |-> RejectName, rejects |-> TRUE]
  /\ Go("backup")
  /\ UNCHANGED <<sigs, disk, settings, reader, intuition, text, h, fill, at, counts, temporary,
                 kept, history>>

\* set_signals() restores nothing: it takes a signal it finds ignored for one that
\* is to stay ignored.
PatchDone ==
  /\ At("moved") /\ (failed = 0 \/ mv.rejects)
  /\ Go("next")
  /\ UNCHANGED <<sigs, disk, settings, reader, intuition, text, h, fill, at, counts, temporary,
                 moving, history>>

\* reinitialize_almost_everything()
NextPatch ==
  /\ At("next") /\ Settings.filec < MAXFILEC
  /\ h' = Cleared(h)
  /\ input' = <<>> /\ frozen' = 0 /\ offset' = 0
  /\ revision' = NULL
  /\ TakeSwitches
  /\ Go("another")
  /\ UNCHANGED <<sigs, disk, reader, seen, fill, at, counts, temporary, moving, history>>

-------------------------------------------------------------------------------
User == Interrupt \/ Kill \/ AskForFile \/ PatchAnyway \/ DoNotPatch
Disk == CannotBackUp \/ CannotCreate \/ CutShort
Program ==
  \/ Start \/ BadArguments \/ AnotherPatch \/ NoMorePatches \/ IntuitLine \/ IntuitDeletes \/ OpenFiles \/ CannotOpen
  \/ EdCommand \/ EdDone \/ NoMoreHunks
  \/ ContextHunk \/ OldHeader \/ NewHeaderLine \/ HunkText \/ HunkBlank \/ BadContext \/ Overrun
  \/ ContextEnds \/ NormalHunk \/ NormalLine \/ BadNormal \/ NormalEnds
  \/ HunkIsRead \/ LocateHunk \/ DetectReversed \/ RejectHunk \/ CannotSwap
  \/ DeleteLine \/ InsertLine \/ ReplaceLines \/ KeepLine \/ OutOfSync \/ FinishHunk
  \/ SpewOutput \/ BackUp \/ Unlink \/ Install \/ ToStdout \/ MoveRejects
  \/ PatchDone \/ NextPatch
Ended == status # "running" /\ UNCHANGED vars

Next == User \/ Disk \/ Program \/ Ended
Spec == Init /\ [][Next]_vars
\* The program runs, and the user answers when he is asked.
FairSpec == Spec /\ WF_vars(Program) /\ WF_vars(AskForFile) /\ WF_vars(PatchAnyway \/ DoNotPatch)
===============================================================================
