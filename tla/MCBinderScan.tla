---------------------------- MODULE MCBinderScan ----------------------------
(***************************************************************************)
(* Checks getPidInfo (BinderScan) against a declarative reference over     *)
(* every debug text of at most MaxLines lines built from a small alphabet. *)
(* The text is chosen in Init and never changes: each state is one input.  *)
(***************************************************************************)
EXTENDS BinderScan, FiniteSets

CONSTANTS
    MaxLines,      \* longest debug text enumerated
    OtherContext   \* a context name other than "hwbinder" (e.g. "binder")

VARIABLE text

\* Every line the scanner can meet, over the constants' small sets.
Lines ==
       {ContextLine(c) : c \in {Hwbinder, OtherContext}}
  \cup {NodeLine(h, ps) : h \in Handles \cup {BadNum},
                          ps \in BoundedSeq(ProcToks \cup {BadNum}, 2)}
  \cup {ThreadLine(d1, d2) : d1 \in 0..2, d2 \in 0..1}
  \cup {OtherLine}

Init == text \in BoundedSeq(Lines, MaxLines)
Next == UNCHANGED text
Spec == Init /\ [][Next]_text

-----------------------------------------------------------------------------
(* Reference: what getPidInfo should compute, stated per line position.    *)

\* Line k belongs to the hwbinder context: the last context line before it
\* names hwbinder.
InHwbinder(lines, k) ==
    LET cs == {j \in 1..(k - 1) : lines[j].kind = "context"}
    IN  /\ lines[k].kind # "context"
        /\ cs # {}
        /\ lines[Max(cs)].name = Hwbinder

\* The longest prefix of the tokens that are all pids.
PidPrefix(procs) ==
    LET n == Max({m \in 0..Len(procs) : \A j \in 1..m : procs[j] # BadNum})
    IN  SubSeq(procs, 1, n)

RefPidsOf(lines, h) ==
    FlattenSeq([k \in 1..Len(lines) |->
        IF InHwbinder(lines, k) /\ lines[k].kind = "node" /\ lines[k].ptr = h
        THEN PidPrefix(lines[k].procs) ELSE <<>>])

LooperThreads(lines) ==
    {k \in 1..Len(lines) : InHwbinder(lines, k) /\ lines[k].kind = "thread"
                           /\ lines[k].d2 # 0}

ReferencePidInfo(lines) ==
    LET hs == {h \in Handles : RefPidsOf(lines, h) # <<>>}
    IN  [refPids     |-> [h \in hs |-> RefPidsOf(lines, h)],
         threadUsage |-> Cardinality({k \in LooperThreads(lines) : lines[k].d1 # 1}),
         threadCount |-> Cardinality(LooperThreads(lines))]

\* getPidInfo, fed any debug text, yields exactly the reference summary:
\* only hwbinder-context lines count, a context line switches the gate both
\* ways, a node line contributes the pids before its first unparsable token
\* under its own handle, and only looper threads are counted (busy unless
\* waiting).
ScanMatchesReference == GetPidInfo(text) = ReferencePidInfo(text)

=============================================================================
