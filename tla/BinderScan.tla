----------------------------- MODULE BinderScan -----------------------------
(***************************************************************************)
(* The kernel binder debug-text scanner of lshal (ListCommand.cpp):        *)
(* scanBinderContext walks /d/binder/proc/<pid> line by line and passes    *)
(* only the lines of the wanted binder context to a callback; getPidInfo   *)
(* is that callback, which turns "node" lines into the reverse reference   *)
(* map refPids and "thread" lines into the thread counters.                *)
(*                                                                         *)
(* A line is abstracted to the fields the two regular expressions capture: *)
(*   context line  "context <name>"                -> [kind, name]         *)
(*   node line     "node N: u.. c<ptr> ... proc P.." -> [kind, ptr, procs] *)
(*   thread line   "thread N: l <d1><d2>"          -> [kind, d1, d2]       *)
(*   anything else                                 -> [kind]               *)
(* ptr is a handle, or BadNum when the hex field does not parse; procs is  *)
(* the sequence of tokens after the last " proc " (<<>> when the marker is *)
(* absent), a token being a pid or BadNum when ParseInt fails on it.       *)
(***************************************************************************)
EXTENDS Naturals, Sequences, SequencesExt, TLC

CONSTANTS
    Handles,      \* binder node addresses (the number after "c")
    ProcToks,     \* pids that may appear after " proc "
    BadNum        \* a field that ParseUint / ParseInt rejects

\* The only context getPidInfo asks for.
Hwbinder == "hwbinder"

ContextLine(c)        == [kind |-> "context", name |-> c]
NodeLine(h, procs)    == [kind |-> "node", ptr |-> h, procs |-> procs]
ThreadLine(d1, d2)    == [kind |-> "thread", d1 |-> d1, d2 |-> d2]
OtherLine             == [kind |-> "other"]

\* PidInfo{}: value-initialised, so both counters start at 0.
EmptyPidInfo == [refPids |-> [h \in {} |-> <<>>], threadUsage |-> 0, threadCount |-> 0]

\* pidInfo->refPids[ptr].push_back(pid): operator[] creates the key on first use.
PushRef(refs, h, p) ==
    IF h \in DOMAIN refs THEN [refs EXCEPT ![h] = Append(@, p)]
                         ELSE (h :> <<p>>) @@ refs

\* The pids pushed for one node line: the tokens before the first one that
\* does not parse (the loop returns on it, keeping what it pushed before).
ParsedProcs(procs) ==
    LET bad == SelectInSeq(procs, LAMBDA t : t = BadNum)
    IN  IF bad = 0 THEN procs ELSE SubSeq(procs, 1, bad - 1)

\* The callback getPidInfo hands to scanBinderContext, applied to one line.
EachLine(info, l) ==
    CASE l.kind = "node" ->
            IF l.ptr = BadNum THEN info
            ELSE [info EXCEPT !.refPids =
                     FoldLeft(LAMBDA r, p : PushRef(r, l.ptr, p), @, ParsedProcs(l.procs))]
      [] l.kind = "thread" ->
            \* d2 = 0: a thread that called into binder, not a looper: ignored.
            IF l.d2 = 0 THEN info
            ELSE [info EXCEPT !.threadUsage = @ + (IF l.d1 # 1 THEN 1 ELSE 0),
                              !.threadCount = @ + 1]
      [] OTHER -> info

\* Seeded fault for ScanStep: a context line can open the gate but never
\* close it again.
ScanStepKeepsGate(st, l) ==
    IF l.kind = "context" THEN <<st[1] \/ l.name = Hwbinder, st[2]>>
    ELSE IF ~st[1] THEN st
    ELSE <<st[1], EachLine(st[2], l)>>

\* One iteration of the while(getline) loop of scanBinderContext; the state
\* is <<isDesiredContext, pidInfo>>.
ScanStep(st, l) ==
    IF l.kind = "context" THEN <<l.name = Hwbinder, st[2]>>
    ELSE IF ~st[1] THEN st
    ELSE <<st[1], EachLine(st[2], l)>>

\* getPidInfo on a readable debug file whose lines are `lines`.
GetPidInfo(lines) == FoldLeft(ScanStep, <<FALSE, EmptyPidInfo>>, lines)[2]

=============================================================================
