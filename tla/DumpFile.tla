------------------------------ MODULE DumpFile ------------------------------
(***************************************************************************)
(* dumpstate's DumpFileFromFdToFd (src/dumpstate/DumpstateInternal.cpp):   *)
(* copy an open file descriptor to the output, framed by an optional title *)
(* header, with a select() of 30 seconds before every read.  select and    *)
(* read outcomes are the environment's choice; a file yields at most       *)
(* MaxReads chunks before EOF.                                             *)
(*                                                                         *)
(* The output is a sequence of characters, "x" for any text and "\n" for a *)
(* line break: each dprintf is modelled by whether its text ends a line.   *)
(* A failing write to out_fd (WriteFully's result is ignored) writes a     *)
(* prefix and leaves out_fd broken: nothing written after it arrives.      *)
(***************************************************************************)
EXTENDS Naturals, Sequences, SequencesExt

CONSTANTS
    Chunks,     \* what one read() can return, as non-empty character sequences
    MaxReads    \* reads that return data before the file ends

ASSUME /\ Chunks \subseteq (Seq({"x", "\n"}) \ {<<>>}) /\ MaxReads \in Nat

VARIABLES
    title,      \* !title.empty()
    dryRun,     \* dry_run
    toStdout,   \* out_fd == STDOUT_FILENO
    pc,         \* "start", "dry", "loop", "close", "done"
    newline,    \* the local newline
    out,        \* what has reached out_fd
    broken,     \* a write to out_fd has failed
    fdOpen,     \* fd has not been closed
    reads,      \* reads that returned data so far
    copied,     \* history: the data read from fd, in order
    ended       \* history: why the loop ended

vars == <<title, dryRun, toStdout, pc, newline, out, broken, fdOpen, reads, copied, ended>>

Line == <<"x", "\n">>           \* a message ending in a line break

\* dprintf of s: lost once out_fd is broken.
Emit(s) == IF broken THEN out ELSE out \o s

Init ==
    /\ title \in BOOLEAN /\ dryRun \in BOOLEAN /\ toStdout \in BOOLEAN
    /\ pc = "start" /\ newline = FALSE /\ out = <<>> /\ broken = FALSE
    /\ fdOpen = TRUE /\ reads = 0 /\ copied = <<>> /\ ended = "none"

\* The title line "------ title (path[: mtime]) ------\n", then the dry-run
\* test.
Start ==
    /\ pc = "start"
    /\ out' = IF title THEN Emit(Line) ELSE out
    /\ pc' = IF dryRun THEN "dry" ELSE "loop"
    /\ UNCHANGED <<title, dryRun, toStdout, newline, broken, fdOpen, reads, copied, ended>>

\* "path: skipped on dry run" unless out_fd is stdout, then
\* "\t(skipped on dry run)" if there is a title; return 0 with fd open.
DryRun ==
    /\ pc = "dry"
    /\ out' = IF ~toStdout \/ title THEN Emit(Line) ELSE out
    /\ pc' = "done"
    /\ UNCHANGED <<title, dryRun, toStdout, newline, broken, fdOpen, reads, copied, ended>>

\* select() fails, or times out after 30 seconds with no data: a message
\* line, newline = true, break.
SelectEnds(why) ==
    /\ pc = "loop"
    /\ out' = Emit(Line)
    /\ newline' = TRUE
    /\ ended' = why
    /\ pc' = "close"
    /\ UNCHANGED <<title, dryRun, toStdout, broken, fdOpen, reads, copied>>

\* Seeded fault: newline is only ever set, never cleared, by the data.
ReadDataStickyNewline(c) ==
    /\ pc = "loop" /\ reads < MaxReads
    /\ \/ out' = Emit(c) /\ UNCHANGED broken
       \/ \E k \in 0..(Len(c) - 1) : out' = Emit(SubSeq(c, 1, k)) /\ broken' = TRUE
    /\ newline' = (newline \/ Last(c) = "\n")
    /\ copied' = copied \o c
    /\ reads' = reads + 1
    /\ UNCHANGED <<title, dryRun, toStdout, pc, fdOpen, ended>>

\* read() returns the chunk c: WriteFully copies it (or a prefix, and
\* fails), and newline records whether the chunk ended a line.
ReadData(c) ==
    /\ pc = "loop" /\ reads < MaxReads
    /\ \/ out' = Emit(c) /\ UNCHANGED broken
       \/ \E k \in 0..(Len(c) - 1) : out' = Emit(SubSeq(c, 1, k)) /\ broken' = TRUE
    /\ newline' = (Last(c) = "\n")
    /\ copied' = copied \o c
    /\ reads' = reads + 1
    /\ UNCHANGED <<title, dryRun, toStdout, pc, fdOpen, ended>>

\* read() returns 0 at end of file, after any number of chunks (and at
\* the latest after MaxReads of them, where ReadData stops): break.
ReadEof ==
    /\ pc = "loop"
    /\ ended' = "eof"
    /\ pc' = "close"
    /\ UNCHANGED <<title, dryRun, toStdout, newline, out, broken, fdOpen, reads, copied>>

\* read() returns -1: "*** path: Failed to read from fd: error", with no
\* line break, newline = true, break.
ReadError ==
    /\ pc = "loop"
    /\ out' = Emit(<<"x">>)
    /\ newline' = TRUE
    /\ ended' = "readError"
    /\ pc' = "close"
    /\ UNCHANGED <<title, dryRun, toStdout, broken, fdOpen, reads, copied>>

\* close(fd); a line break unless newline, another one after a title.
Close ==
    /\ pc = "close"
    /\ fdOpen' = FALSE
    /\ out' = Emit((IF newline THEN <<>> ELSE <<"\n">>) \o (IF title THEN <<"\n">> ELSE <<>>))
    /\ pc' = "done"
    /\ UNCHANGED <<title, dryRun, toStdout, newline, broken, reads, copied, ended>>

Next ==
    \/ Start \/ DryRun
    \/ SelectEnds("selectFailed") \/ SelectEnds("timeout")
    \/ \E c \in Chunks : ReadData(c)
    \/ ReadEof \/ ReadError \/ Close

Spec == Init /\ [][Next]_vars

-----------------------------------------------------------------------------
(* Properties                                                              *)

HeaderText == IF title THEN Line ELSE <<>>

\* The message the loop writes when it stops for the reason why.
Note(why) == IF why = "eof" THEN <<>> ELSE Line

\* When the copy ends at end of file, at a failed select or at a timeout,
\* and out_fd kept working, the output is the title line, every byte read
\* from fd in order, the message, a line break only if the text so far does
\* not end in one, and a blank line after a title: the newline flag, set
\* and cleared chunk by chunk, matches the text actually written.
CopyComplete ==
    (pc = "done" /\ ~dryRun /\ ~broken /\ ended \in {"eof", "selectFailed", "timeout"}) =>
        LET body == copied \o Note(ended)
            fix  == IF body # <<>> /\ Last(body) = "\n" THEN <<>> ELSE <<"\n">>
        IN  out = HeaderText \o body \o fix \o (IF title THEN <<"\n">> ELSE <<>>)

\* Every copy that was not a dry run, and whose output was not broken, ends
\* at a line boundary before the title's blank line: what the newline flag
\* and the final dprintf(out_fd, "\n") are for.
EndsAtLineBoundary ==
    (pc = "done" /\ ~dryRun /\ ~broken) =>
        LET o == IF title THEN SubSeq(out, 1, Len(out) - 1) ELSE out
        IN  o # <<>> /\ Last(o) = "\n"

\* DumpFileFromFdToFd takes fd over: on return it has been closed, as the
\* copying path does with close(fd).
FdReleased == pc = "done" => ~fdOpen

=============================================================================
