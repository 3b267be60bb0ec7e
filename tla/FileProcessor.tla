---------------------------- MODULE FileProcessor ----------------------------
(***************************************************************************)
(* main and process_file: successive invocations of the tool on a small   *)
(* directory.  The three rewrites are the operators of the other modules,  *)
(* applied whole in the step that calls them.                              *)
(*                                                                         *)
(* disk      the content of every file: a text, Absent, Undecodable (a    *)
(*           file that is not valid UTF-8), or Unreadable (open or read    *)
(*           raises another OSError: no permission, a directory);          *)
(* before    the disk when the current invocation started;                 *)
(* flags     the command-line flags of the current invocation;             *)
(* phase     where main is: "intern", "c", "guage" (the blocks of main),   *)
(*           "exit" (returned), "usage" (exit 1 before any work),          *)
(*           "read_error" or "write_error" (an exception ended it);        *)
(* queue     the globbed files the current block has still to process;    *)
(* total     the count main prints;                                        *)
(* runs      the number of invocations so far;                             *)
(* preview   history: the flags, starting disk and total of the last dry   *)
(*           run that returned ({} before the first).                      *)
(***************************************************************************)
EXTENDS GuageSourceRewrite, CStringRewrite, InternPreloadRewrite, FiniteSets

CONSTANTS
    Files,          \* the files of the directories main globs
    InternFile,     \* base/intern.c
    Ext,            \* Ext[f]: the extension of f's path
    FileOrder,      \* the files in sorted path order, as a sequence
    Absent,         \* model value: no such file
    Undecodable,    \* model value: a file whose bytes are not UTF-8
    Unreadable,     \* model value: a file open() or read() fails on
    Contents,       \* Contents[f]: the contents f may have initially
    Invocations,    \* the flag sets the tool may be invoked with
    MaxRuns         \* the number of invocations explored

ASSUME InternFile \in Files /\ Ext[InternFile] = "c"
ASSUME \A f \in Files : Ext[f] \in {"c", "h", "test", "scm"}
ASSUME Invocations \subseteq SUBSET {"c", "guage", "all", "intern", "dry_run"}

Content == Text \cup {Absent, Undecodable, Unreadable}

VARIABLES disk, before, flags, phase, queue, total, runs, preview
vars == <<disk, before, flags, phase, queue, total, runs, preview>>

Ended == {"exit", "usage", "read_error", "write_error"}

-----------------------------------------------------------------------------
Selected(m) == m \in flags \/ "all" \in flags

\* Mutant: filepath.endswith('.h') dropped.
HostPathNoH(f) == Ext[f] = "c"

HostPath(f) == Ext[f] \in {"c", "h"}

\* glob.glob(base/'*.c') + glob.glob(base/'*.h'), sorted; and the .test and
\* .scm globs, each sorted.  A glob lists only files that exist.
Globbed(block) ==
    SelectSeq(FileOrder, LAMBDA f : /\ disk[f] # Absent
                                    /\ IF block = "c" THEN HostPath(f)
                                                      ELSE ~HostPath(f))

\* Leaving a block: load the next block's files if its flag is set.
EnterBlock(block) ==
    /\ phase' = block
    /\ queue' = IF Selected(block) THEN Globbed(block) ELSE <<>>

\* What open(path, 'w') followed by a failing write leaves: the file
\* untouched when open fails, else any strict prefix of the new text, or,
\* when the cut falls inside a character of two or more bytes, a file that
\* is no longer UTF-8.
FailedWrite(f, new) ==
    {disk[f]} \cup {SubSeq(new, 1, k) : k \in 0..Len(new) - 1}
    \cup IF \E i \in DOMAIN new : Len(Utf8[new[i]]) > 1 THEN {Undecodable} ELSE {}

-----------------------------------------------------------------------------
Init ==
    /\ disk \in [Files -> UNION {Contents[f] : f \in Files}]
    /\ \A f \in Files : disk[f] \in Contents[f]
    /\ before = disk
    /\ flags = {}
    /\ phase = "exit"
    /\ queue = <<>>
    /\ total = 0
    /\ runs = 0
    /\ preview = {}

\* A new invocation; with no mode flag, parser.print_help() and exit(1).
Invoke ==
    /\ phase \in Ended
    /\ runs < MaxRuns
    /\ \E a \in Invocations :
          /\ flags' = a
          /\ IF a \cap {"c", "guage", "all", "intern"} = {}
             THEN phase' = "usage"
             ELSE phase' = "intern"
    /\ before' = disk
    /\ queue' = <<>>
    /\ total' = 0
    /\ runs' = runs + 1
    /\ UNCHANGED <<disk, preview>>

\* Mutant: total += 1 indented into the "if not args.dry_run" branch.
InternBlockCountOnWrite ==
    /\ phase = "intern"
    /\ LET c == disk[InternFile] IN
       \/ /\ ~Selected("intern") /\ EnterBlock("c") /\ UNCHANGED <<disk, total>>
       \/ /\ Selected("intern") /\ c = Absent /\ EnterBlock("c") /\ UNCHANGED <<disk, total>>
       \/ /\ Selected("intern") /\ c \in {Undecodable, Unreadable}
          /\ phase' = "read_error" /\ UNCHANGED <<disk, queue, total>>
       \/ /\ Selected("intern") /\ c \in Text
          /\ IF "dry_run" \in flags
             THEN UNCHANGED <<disk, total>>
             ELSE /\ disk' = [disk EXCEPT ![InternFile] = ReplaceInternPreload(c)]
                  /\ total' = total + 1
          /\ EnterBlock("c")
    /\ UNCHANGED <<before, flags, runs, preview>>

\* The intern.c block: read, replace_intern_preload, write unless dry
\* run, and count the file whatever the rewrite did.  Only
\* FileNotFoundError is caught; any other error of the read ends main.
InternBlock ==
    /\ phase = "intern"
    /\ LET c == disk[InternFile] IN
       \/ /\ ~Selected("intern")
          /\ EnterBlock("c")
          /\ UNCHANGED <<disk, total>>
       \/ /\ Selected("intern") /\ c = Absent
          /\ EnterBlock("c")
          /\ UNCHANGED <<disk, total>>
       \/ /\ Selected("intern") /\ c \in {Undecodable, Unreadable}
          /\ phase' = "read_error"
          /\ UNCHANGED <<disk, queue, total>>
       \/ /\ Selected("intern") /\ c \in Text
          /\ disk' = IF "dry_run" \in flags THEN disk
                     ELSE [disk EXCEPT ![InternFile] = ReplaceInternPreload(c)]
          /\ total' = total + 1
          /\ EnterBlock("c")
    /\ UNCHANGED <<before, flags, runs, preview>>

\* The write of intern.c fails: the exception ends main.
InternWriteFails ==
    /\ phase = "intern"
    /\ Selected("intern") /\ "dry_run" \notin flags
    /\ disk[InternFile] \in Text
    /\ \E w \in FailedWrite(InternFile, ReplaceInternPreload(disk[InternFile])) :
          disk' = [disk EXCEPT ![InternFile] = w]
    /\ phase' = "write_error"
    /\ UNCHANGED <<before, flags, queue, total, runs, preview>>

\* process_file: the rewrite is chosen by the path's extension.
Rewrite(f, c) == IF HostPath(f) THEN ReplaceInCStrings(c) ELSE ReplaceInGuageSource(c)

\* Mutant: the "if original != modified" test dropped: every readable
\* file is written and counted.
ProcessFileCountAll ==
    /\ phase \in {"c", "guage"}
    /\ queue # <<>>
    /\ disk[Head(queue)] # Unreadable
    /\ LET f == Head(queue)
           c == disk[f]
       IN  IF c \notin Text
           THEN UNCHANGED <<disk, total>>
           ELSE /\ disk' = IF "dry_run" \in flags THEN disk
                           ELSE [disk EXCEPT ![f] = Rewrite(f, c)]
                /\ total' = total + 1
    /\ queue' = Tail(queue)
    /\ UNCHANGED <<before, flags, phase, runs, preview>>

ProcessFile ==
    /\ phase \in {"c", "guage"}
    /\ queue # <<>>
    /\ disk[Head(queue)] # Unreadable
    /\ LET f == Head(queue)
           c == disk[f]
       IN  IF c \notin Text \/ Rewrite(f, c) = c
           THEN UNCHANGED <<disk, total>>
           ELSE /\ disk' = IF "dry_run" \in flags THEN disk
                           ELSE [disk EXCEPT ![f] = Rewrite(f, c)]
                /\ total' = total + 1
    /\ queue' = Tail(queue)
    /\ UNCHANGED <<before, flags, phase, runs, preview>>

\* process_file catches UnicodeDecodeError and FileNotFoundError only: any
\* other error of open() or read() ends main in the middle of the block.
ProcessFileReadFails ==
    /\ phase \in {"c", "guage"}
    /\ queue # <<>>
    /\ disk[Head(queue)] = Unreadable
    /\ phase' = "read_error"
    /\ UNCHANGED <<disk, before, flags, queue, total, runs, preview>>

\* The write in process_file fails: the exception ends main.
ProcessFileWriteFails ==
    /\ phase \in {"c", "guage"}
    /\ queue # <<>>
    /\ "dry_run" \notin flags
    /\ LET f == Head(queue)
           c == disk[f]
       IN  /\ c \in Text
           /\ Rewrite(f, c) # c
           /\ \E w \in FailedWrite(f, Rewrite(f, c)) : disk' = [disk EXCEPT ![f] = w]
    /\ phase' = "write_error"
    /\ UNCHANGED <<before, flags, queue, total, runs, preview>>

\* The end of a block's for loop.
EndBlock ==
    /\ phase \in {"c", "guage"}
    /\ queue = <<>>
    /\ IF phase = "c"
       THEN EnterBlock("guage") /\ UNCHANGED preview
       ELSE /\ phase' = "exit"
            /\ preview' = IF "dry_run" \in flags
                          THEN {[modes |-> flags \ {"dry_run"}, from |-> before,
                                 count |-> total]}
                          ELSE preview
            /\ UNCHANGED queue
    /\ UNCHANGED <<disk, before, flags, total, runs>>

Next == Invoke \/ InternBlock \/ InternWriteFails \/ ProcessFile
        \/ ProcessFileReadFails \/ ProcessFileWriteFails \/ EndBlock

\* main is sequential and never waits: a started invocation keeps running.
Spec == Init /\ [][Next]_vars /\ WF_vars(Next)

-----------------------------------------------------------------------------
TypeOK ==
    /\ disk \in [Files -> Content]
    /\ before \in [Files -> Content]
    /\ flags \in Invocations \cup {{}}
    /\ phase \in {"intern", "c", "guage"} \cup Ended
    /\ queue \in Seq(Files)
    /\ total \in 0..2 * Cardinality(Files)
    /\ runs \in 0..MaxRuns
    /\ preview \subseteq [modes : SUBSET {"c", "guage", "all", "intern"}, from : [Files -> Content],
                          count : Nat]

(***************************************************************************)
(* The count main prints.  The spec (sections 4.5 and 6) says it counts   *)
(* the files modified: when a real invocation returns, its total is the    *)
(* number of files whose content it changed.  Scenario 4 is the special    *)
(* case of a second run over the output of the first, which must report 0. *)
(***************************************************************************)
ReportedCount ==
    phase = "exit" /\ "dry_run" \notin flags
        => total = Cardinality({f \in Files : disk[f] # before[f]})

(***************************************************************************)
(* Preview mode reports what a real run would do: a real invocation with  *)
(* the same modes, started from the disk a dry run started from, prints   *)
(* the same total.  main computes the two along different paths: the dry  *)
(* run never writes intern.c before the C block reads it.                 *)
(***************************************************************************)
DryRunPredictsRun ==
    phase = "exit" /\ "dry_run" \notin flags
        => \A p \in preview : p.modes = flags /\ p.from = before => p.count = total

(***************************************************************************)
(* Sections 4.5 and 6: every host-implementation file (.c, .h) is run      *)
(* through the literal pass when --c or --all is given, every Guage file   *)
(* (.test, .scm) through the token pass when --guage or --all is given,    *)
(* and nothing is written in a dry run.  When an invocation returns, each  *)
(* file other than intern.c holds exactly that: the rewrite of the text it *)
(* had when the invocation started, or that text unchanged.  This covers   *)
(* the globs, the dispatch by extension, the comparison and the write.     *)
(***************************************************************************)
SpecRewrite(f, c) ==
    IF Ext[f] \in {"c", "h"} THEN ReplaceInCStrings(c) ELSE ReplaceInGuageSource(c)

SpecCovered(f) == IF Ext[f] \in {"c", "h"} THEN Selected("c") ELSE Selected("guage")

EveryFileRewritten ==
    phase = "exit" =>
        \A f \in Files \ {InternFile} :
            disk[f] = IF before[f] \in Text /\ SpecCovered(f) /\ "dry_run" \notin flags
                      THEN SpecRewrite(f, before[f])
                      ELSE before[f]

(***************************************************************************)
(* Section 7 of the spec: "There is no partial-write risk: the transform   *)
(* is computed fully in memory before any write occurs."  A step that      *)
(* changes a file replaces its content by a whole rewrite of it.           *)
(***************************************************************************)
WholeFileWrites ==
    [][\A f \in Files :
         disk'[f] # disk[f] =>
            disk'[f] \in {ReplaceInternPreload(disk[f]), Rewrite(f, disk[f])}]_vars

\* Section 7 of the spec: an unreadable or non-text file is skipped and
\* the run continues; no file's content ends an invocation, in the intern.c
\* block or in process_file.
UnreadableSkipped == phase # "read_error"

(***************************************************************************)
(* Sections 2 and 4.4: the preload artifact is dispatched to the byte-     *)
(* escape pass only, which is mutually exclusive with the literal pass.    *)
(* When a real invocation returns, intern.c holds replace_intern_preload   *)
(* of its content if the intern mode was selected, and is unchanged        *)
(* otherwise.                                                              *)
(***************************************************************************)
PreloadOnlyForIntern ==
    phase = "exit" /\ "dry_run" \notin flags /\ before[InternFile] \in Text
        => disk[InternFile] = IF Selected("intern")
                              THEN ReplaceInternPreload(before[InternFile])
                              ELSE before[InternFile]

=============================================================================
