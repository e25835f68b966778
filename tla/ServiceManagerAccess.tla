------------------------- MODULE ServiceManagerAccess -------------------------
(***************************************************************************)
(* servicemanager's SELinux gate (src/servicemanager/Access.cpp).  One     *)
(* binder thread serves one transaction at a time: it builds the calling  *)
(* context (the SID the kernel sent, or else getpidcon of the calling      *)
(* pid), looks the service name up in service_contexts through a cached    *)
(* label handle, and asks selinux_check_access.  Meanwhile, in the         *)
(* environment, processes exit, their pids are reused by new processes,   *)
(* and a new policy is loaded.                                             *)
(*                                                                         *)
(* A policy is a version: ServiceContexts[v] is its service_contexts and  *)
(* Allow[v] its allow rules, as triples <<source, target, permission>>.    *)
(***************************************************************************)
EXTENDS Naturals

CONSTANTS
    Pids,             \* pids the model uses
    Contexts,         \* security contexts of processes
    Names,            \* service names looked up by find and add
    TargetCtxs,       \* service contexts a name can map to
    SmCtx,            \* mThisProcessContext: the target of "list"
    NoMatch,          \* selabel_lookup finds no entry
    NoProc,           \* no process has this pid
    MaxVer,           \* policy versions are 1..MaxVer
    ServiceContexts,  \* [1..MaxVer -> [Names -> TargetCtxs \cup {NoMatch}]]
    Allow,            \* [1..MaxVer -> SUBSET (Contexts \X (TargetCtxs \cup {SmCtx}) \X Perms)]
    InitOwner         \* [Pids -> Contexts \cup {NoProc}]

Perms == {"find", "add", "list"}
Versions == 1..MaxVer
NoSid == ""           \* getPidcon's result when getpidcon fails

ASSUME /\ ServiceContexts \in [Versions -> [Names -> TargetCtxs \cup {NoMatch}]]
       /\ InitOwner \in [Pids -> Contexts \cup {NoProc}]
       /\ NoSid \notin Contexts

VARIABLES
    owner,      \* the context of the process now holding each pid
    policy,     \* the policy version the kernel enforces (the status page)
    seen,       \* the last version selinux_status_updated reported
    handle,     \* gSehandle: the version it was opened on, 0 for nullptr
    pc,         \* "idle", "context", "dispatch", "handle", "lookup", "check"
    req,        \* the transaction being served
    sid,        \* CallingContext.sid
    tctx,       \* the target context of the check
    decided     \* history: the last decision, or a record with allowed FALSE

vars == <<owner, policy, seen, handle, pc, req, sid, tctx, decided>>

NoDecision == [caller |-> NoProc, sidSent |-> FALSE, tctx |-> NoMatch,
               perm |-> "find", ver |-> 1, allowed |-> FALSE]

\* Access::Access: selinux_status_open, getcon; gSehandle starts null.
Init ==
    /\ owner = InitOwner
    /\ policy = 1 /\ seen = 1 /\ handle = 0
    /\ pc = "idle"
    /\ req = [pid |-> CHOOSE p \in Pids : TRUE, caller |-> NoProc, name |-> NoMatch,
              perm |-> "list", sidSent |-> FALSE, ver |-> 1]
    /\ sid = NoSid /\ tctx = NoMatch
    /\ decided = NoDecision

-----------------------------------------------------------------------------
(* The environment                                                         *)

\* A live process calls find or add on a name, or list; the kernel passes
\* its SID along or not.
Transact(p, name, perm, withSid) ==
    /\ pc = "idle" /\ owner[p] # NoProc
    /\ req' = [pid |-> p, caller |-> owner[p], name |-> IF perm = "list" THEN NoMatch ELSE name,
               perm |-> perm, sidSent |-> withSid, ver |-> policy]
    /\ pc' = "context"
    /\ UNCHANGED <<owner, policy, seen, handle, sid, tctx, decided>>

Exit(p) ==
    /\ owner[p] # NoProc
    /\ owner' = [owner EXCEPT ![p] = NoProc]
    /\ UNCHANGED <<policy, seen, handle, pc, req, sid, tctx, decided>>

\* A new process is given a free pid.
Spawn(p, c) ==
    /\ owner[p] = NoProc
    /\ owner' = [owner EXCEPT ![p] = c]
    /\ UNCHANGED <<policy, seen, handle, pc, req, sid, tctx, decided>>

PolicyLoad ==
    /\ policy < MaxVer
    /\ policy' = policy + 1
    /\ UNCHANGED <<owner, seen, handle, pc, req, sid, tctx, decided>>

-----------------------------------------------------------------------------
(* servicemanager                                                          *)

\* getPidcon: the context of whatever process holds pid now, "" on failure.
PidCon(p) == IF owner[p] = NoProc THEN NoSid ELSE owner[p]

\* getCallingContext: the SID if the kernel sent one, else getpidcon.
GetCallingContext ==
    /\ pc = "context"
    /\ sid' = IF req.sidSent THEN req.caller ELSE PidCon(req.pid)
    /\ pc' = "dispatch"
    /\ UNCHANGED <<owner, policy, seen, handle, req, tctx, decided>>

\* canList checks against this process's context; canFind and canAdd go
\* through the service_contexts lookup.
Dispatch ==
    /\ pc = "dispatch"
    /\ IF req.perm = "list"
       THEN tctx' = SmCtx /\ pc' = "check"
       ELSE UNCHANGED tctx /\ pc' = "handle"
    /\ UNCHANGED <<owner, policy, seen, handle, req, sid, decided>>

\* Seeded fault: the cached handle is never reopened.
GetSehandleNoReload ==
    /\ pc = "handle"
    /\ handle' = IF handle = 0 THEN policy ELSE handle
    /\ pc' = "lookup"
    /\ UNCHANGED <<owner, policy, seen, req, sid, tctx, decided>>

\* getSehandle: a handle whose policy was updated (selinux_status_updated,
\* asked only when a handle exists) is closed; a null one is reopened on
\* the current policy.
GetSehandle ==
    /\ pc = "handle"
    /\ LET updated == handle # 0 /\ seen # policy IN
       /\ handle' = IF handle = 0 \/ updated THEN policy ELSE handle
       /\ seen' = IF handle # 0 THEN policy ELSE seen
    /\ pc' = "lookup"
    /\ UNCHANGED <<owner, policy, req, sid, tctx, decided>>

\* A decision ends the transaction.
Decide(t, ok) ==
    /\ decided' = [caller |-> req.caller, sidSent |-> req.sidSent, tctx |-> t,
                   perm |-> req.perm, ver |-> policy, allowed |-> ok]
    /\ pc' = "idle"

\* actionAllowedFromLookup: selabel_lookup on the handle; no match denies.
Lookup ==
    /\ pc = "lookup"
    /\ LET t == ServiceContexts[handle][req.name] IN
       IF t = NoMatch
       THEN Decide(NoMatch, FALSE) /\ UNCHANGED tctx
       ELSE tctx' = t /\ pc' = "check" /\ UNCHANGED decided
    /\ UNCHANGED <<owner, policy, seen, handle, req, sid>>

\* actionAllowed: selinux_check_access against the enforced policy.
Check ==
    /\ pc = "check"
    /\ Decide(tctx, <<sid, tctx, req.perm>> \in Allow[policy])
    /\ UNCHANGED <<owner, policy, seen, handle, req, sid, tctx>>

Next ==
    \/ \E p \in Pids, n \in Names, perm \in Perms, s \in BOOLEAN : Transact(p, n, perm, s)
    \/ \E p \in Pids : Exit(p)
    \/ \E p \in Pids, c \in Contexts : Spawn(p, c)
    \/ PolicyLoad
    \/ GetCallingContext \/ Dispatch \/ GetSehandle \/ Lookup \/ Check

Spec == Init /\ [][Next]_vars

-----------------------------------------------------------------------------
(* Properties                                                              *)

\* The caller itself is allowed what was granted to it.
GrantedToCaller(d) == <<d.caller, d.tctx, d.perm>> \in Allow[d.ver]

\* Every grant is one the policy gives the calling process itself.
GrantSound == decided.allowed => GrantedToCaller(decided)

\* A find or add is looked up in the service_contexts of a policy at least
\* as new as the one in force when the transaction arrived: a policy load
\* between two transactions reaches the next lookup.
LookupNotStale == pc = "lookup" => handle >= req.ver

=============================================================================
