-------------------------- MODULE DumpstateInternal --------------------------
(***************************************************************************)
(* The two operations of dumpstate/DumpstateInternal.cpp in one process:   *)
(* a file copy (DumpFile) and the privilege drop (DropRoot).  Both run on  *)
(* the caller's thread and each returns before the caller goes on, so      *)
(* DropRootUser is called only before a copy starts or after it returned,  *)
(* never in the middle of the copy loop.  Neither operation reads the      *)
(* other's state.                                                          *)
(***************************************************************************)
EXTENDS Naturals

CONSTANTS Chunks, MaxReads, Root, Shell, Caps, InitGroups

VARIABLES
    title, dryRun, toStdout, pc, newline, out, broken, fdOpen, reads,
    copied, ended,                  \* DumpFile
    cred, result, early             \* DropRoot

copyVars == <<title, dryRun, toStdout, pc, newline, out, broken, fdOpen, reads, copied, ended>>
dropVars == <<cred, result, early>>
vars == <<copyVars, dropVars>>

Copy == INSTANCE DumpFile
Drop == INSTANCE DropRoot

Init == Copy!Init /\ Drop!Init

\* One step of DumpFileFromFdToFd.
CopyStep == Copy!Next /\ UNCHANGED dropVars

\* A call of DropRootUser, while no copy is in progress.
DropStep == pc \in {"start", "done"} /\ Drop!Next /\ UNCHANGED copyVars

Next == CopyStep \/ DropStep

Spec == Init /\ [][Next]_vars

-----------------------------------------------------------------------------
(* The properties of the two components, as checked here.                 *)

\* DumpFile's CopyComplete: a finished copy reproduces the file in order
\* with the line break the newline flag decides.
CopyComplete == Copy!CopyComplete

\* DumpFile's EndsAtLineBoundary: a finished copy ends at a line boundary.
EndsAtLineBoundary == Copy!EndsAtLineBoundary

\* DumpFile's FdReleased: DumpFileFromFdToFd has closed fd when it returns.
FdReleased == Copy!FdReleased

\* DropRoot's DroppedWhenTrue: DropRootUser's true result means shell uid
\* and gid, and off its early return the groups and exactly CAP_SYSLOG.
DroppedWhenTrue == Drop!DroppedWhenTrue

=============================================================================
