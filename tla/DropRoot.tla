------------------------------ MODULE DropRoot ------------------------------
(***************************************************************************)
(* DropRootUser (dumpstate/DumpstateInternal.cpp): dumpstate switches from  *)
(* root to the shell user, keeping CAP_SYSLOG only.  The process's         *)
(* credentials are a record; each system call the function makes is an    *)
(* operator giving the set of outcomes the kernel may produce (its Linux   *)
(* permission rule, and any call may also fail for reasons outside the     *)
(* model: ENOMEM, EAGAIN on RLIMIT_NPROC, an LSM denial).  One call of     *)
(* DropRootUser is one action: the calls in order, stopping at the first   *)
(* that fails, exactly as each `return false` does.                        *)
(***************************************************************************)
EXTENDS Sequences

CONSTANTS
    Root, Shell,    \* AID_ROOT and AID_SHELL
    Caps,           \* capabilities; must include the three named below
    InitGroups      \* supplementary group lists the process may start with

\* The capabilities the code's steps depend on.
CapSetuid == "SETUID"
CapSetgid == "SETGID"
CapSyslog == "SYSLOG"

\* groups[] of DropRootUser: LOG, SDCARD_R, SDCARD_RW, MOUNT, INET,
\* NET_BW_STATS, READPROC, BLUETOOTH.
DumpGroups == "dumpstate_groups"

Cred == [uid : {Root, Shell}, gid : {Root, Shell},
         groups : InitGroups \cup {DumpGroups}, keepcaps : BOOLEAN,
         permitted : SUBSET Caps, effective : SUBSET Caps,
         inheritable : SUBSET Caps]

VARIABLES
    cred,       \* the process's credentials
    result,     \* what the last DropRootUser returned: "none", "true", "false"
    early       \* whether it returned through the "already running as Shell" test

vars == <<cred, result, early>>

\* An outcome of a system call: whether it succeeded and the credentials after.
Ok(c)   == [ok |-> TRUE, cred |-> c]
Fail(c) == [ok |-> FALSE, cred |-> c]

\* A call the kernel allows (allowed) takes c to after, or fails anyway; one
\* it refuses fails with EPERM and changes nothing.
Syscall(allowed, after, c) ==
    IF allowed THEN {Ok(after), Fail(c)} ELSE {Fail(c)}

\* prctl(PR_SET_KEEPCAPS, 1)
Prctl(c) == {Ok([c EXCEPT !.keepcaps = TRUE]), Fail(c)}

\* setgroups(8, groups): needs CAP_SETGID in the effective set.
SetGroups(c) ==
    Syscall(CapSetgid \in c.effective, [c EXCEPT !.groups = DumpGroups], c)

\* setgid(AID_SHELL): with CAP_SETGID sets every gid; without it only a
\* switch to the current real or saved gid is allowed.
SetGid(c) ==
    Syscall(CapSetgid \in c.effective \/ c.gid = Shell, [c EXCEPT !.gid = Shell], c)

\* setuid(AID_SHELL): with CAP_SETUID sets every uid.  Leaving uid 0 clears
\* the effective set, and the permitted set too unless KEEPCAPS is set.
SetUid(c) ==
    LET after == [c EXCEPT !.uid = Shell,
                           !.permitted = IF c.uid = Root /\ ~c.keepcaps THEN {} ELSE @,
                           !.effective = IF c.uid = Root THEN {} ELSE @]
    IN  Syscall(CapSetuid \in c.effective \/ c.uid = Shell, after, c)

\* A capset that reports success without installing the new sets.
CapsetIgnored(c) == {Ok(c), Fail(c)}

\* capset: permitted = effective = {CAP_SYSLOG}, inheritable = {}.  The
\* kernel refuses a permitted set that is not a subset of the current one.
Capset(c) ==
    Syscall(CapSyslog \in c.permitted,
            [c EXCEPT !.permitted = {CapSyslog}, !.effective = {CapSyslog},
                      !.inheritable = {}], c)

\* The calls of DropRootUser after the early test, in the order it makes them.
Steps == <<"prctl", "setgroups", "setgid", "setuid", "capset">>

Call(s, c) ==
    CASE s = "prctl"     -> Prctl(c)
      [] s = "setgroups" -> SetGroups(c)
      [] s = "setgid"    -> SetGid(c)
      [] s = "setuid"    -> SetUid(c)
      [] s = "capset"    -> Capset(c)

\* The outcomes of running the steps from c, stopping at the first failure.
RECURSIVE Run(_, _)
Run(steps, c) ==
    IF steps = <<>> THEN {Ok(c)}
    ELSE UNION {IF o.ok THEN Run(Tail(steps), o.cred) ELSE {o} :
                o \in Call(Head(steps), c)}

\* Credentials dumpstate may be started with: as root by init, holding the
\* capability set its service definition leaves it (any subset), or as
\* shell from adb, holding none; keepcaps off.
StartCreds ==
    {[uid |-> Root, gid |-> Root, groups |-> g, keepcaps |-> FALSE,
      permitted |-> p, effective |-> p, inheritable |-> {}] :
        g \in InitGroups, p \in SUBSET Caps}
    \cup
    {[uid |-> Shell, gid |-> Shell, groups |-> g, keepcaps |-> FALSE,
      permitted |-> {}, effective |-> {}, inheritable |-> {}] : g \in InitGroups}

Init ==
    /\ cred \in StartCreds
    /\ result = "none"
    /\ early = FALSE

\* A call of DropRootUser, the first or a retry after it returned.
DropRootUser ==
    \/ /\ cred.gid = Shell /\ cred.uid = Shell
       /\ result' = "true" /\ early' = TRUE
       /\ UNCHANGED cred
    \/ /\ ~(cred.gid = Shell /\ cred.uid = Shell)
       /\ \E o \in Run(Steps, cred) :
            /\ cred' = o.cred
            /\ result' = IF o.ok THEN "true" ELSE "false"
       /\ early' = FALSE

Next == DropRootUser

Spec == Init /\ [][Next]_vars

-----------------------------------------------------------------------------

\* When DropRootUser returns true the process runs as shell user and group;
\* and when it got there by its own calls (not the early "already running
\* as Shell" return) it also holds dumpstate's groups and exactly
\* CAP_SYSLOG, permitted and effective, with nothing inheritable.
DroppedWhenTrue ==
    result = "true" =>
        /\ cred.uid = Shell /\ cred.gid = Shell
        /\ ~early => /\ cred.groups = DumpGroups
                     /\ cred.permitted = {CapSyslog}
                     /\ cred.effective = {CapSyslog}
                     /\ cred.inheritable = {}

=============================================================================
