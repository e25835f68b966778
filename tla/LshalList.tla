------------------------------ MODULE LshalList ------------------------------
(***************************************************************************)
(* `lshal list` (src/lshal/ListCommand.cpp): ListCommand::main runs        *)
(* fetch() -> postprocess() -> dump().  fetch() queries hwservicemanager   *)
(* (list, then get / getDebugInfo / interfaceChain / getHashChain per      *)
(* instance, reading the server's binder debug file through the per-pid    *)
(* cache mCachedPidInfos), its passthrough registrations (debugDump) and   *)
(* the passthrough manager's libraries (debugDump).  postprocess() fills   *)
(* cmdlines through the cache mCmdlines, prunes dead and own client pids,  *)
(* assigns partitions through mPartitions and copies bitness from the      *)
(* library table to the passthrough-client table.                          *)
(*                                                                         *)
(* Every remote call goes through timeoutIPC and either returns or fails   *)
(* (transport error or deadline: the code tests only ret.isOk()).  The     *)
(* rest of the system runs concurrently with lshal: any other process may  *)
(* exit at any time, dropping its binder references and its /proc and      *)
(* /d/binder entries.                                                      *)
(***************************************************************************)
EXTENDS Naturals, FiniteSets, Sequences, SequencesExt, Functions, TLC

CONSTANTS
    Pids,          \* processes other than lshal (servers and clients)
    MyPid,         \* getpid() of lshal
    NO_PID,        \* DebugInfo / TableEntry "no pid" sentinel
    NO_PTR,        \* DebugInfo "no binder node" sentinel
    Insts,         \* fq instance names hwservicemanager's list() returns
    InstOrder,     \* the order list() returns them in
    Served,        \* Served[i]: pid getDebugInfo reports for i (or NO_PID)
    HasNode,       \* instances whose getDebugInfo reports a binder node
    InitRefs,      \* InitRefs[i]: processes holding a reference to i's node
    ThreadsOf,     \* ThreadsOf[p]: thread lines of p's binder debug file
    Unreadable,    \* pids whose /d/binder/proc file lshal may not open
    ChainFault,    \* ChainFault[i] \in {"none", "notInChain", "shortHash"}
    PtInsts,       \* passthrough instances in hwservicemanager's debugDump
    PtInfo,        \* PtInfo[n]: [clients, arch] reported for n
    LibReports,    \* passthrough manager's debugDump: <<[name, arch, clients]>>
    PkgOf,         \* package@version of every client / library entry name
    ProcPartition, \* partition procpartition infers for a live pid
    ListTypeChoices, \* the mListTypes parseArgs may leave: sequences over "b", "c", "l"
    Family,        \* Family[n]: package family of instance name n (for resolvePartition)
    BadVersion,    \* library entries whose version does not parse
    VintfTargets   \* partitions --init-vintf may name

AllPids == Pids \cup {MyPid}
Archs   == {"32", "64"}            \* vintf::Arch as the set of its bits
LibInsts == {r.name : r \in Range(LibReports)}
Partitions == {"unknown", "system", "vendor", "odm"}

ASSUME /\ MyPid \notin Pids /\ NO_PID \notin AllPids
       /\ Served \in [Insts -> Pids \cup {NO_PID}]
       /\ HasNode \subseteq Insts
       /\ InitRefs \in [Insts -> SUBSET Pids]
       /\ Unreadable \subseteq Pids
       /\ ChainFault \in [Insts -> {"none", "notInChain", "shortHash"}]
       /\ PtInfo \in [PtInsts -> [clients : SUBSET Pids, arch : SUBSET Archs]]
       /\ ProcPartition \in [Pids -> {"system", "vendor", "odm"}]
       /\ InstOrder \in Seq(Insts) /\ Range(InstOrder) = Insts
       /\ Family \in [Insts \cup PtInsts ->
                        {"vendor", "platform", "base", "hardware", "other", "invalid"}]
       /\ BadVersion \subseteq LibInsts /\ VintfTargets \subseteq {"vendor", "system", "odm"}
       /\ \A lt \in ListTypeChoices : lt # <<>> /\ Range(lt) \subseteq {"b", "c", "l"}

BS == INSTANCE BinderScan WITH Handles <- Insts, ProcToks <- AllPids, BadNum <- NO_PTR

VARIABLES
    listTypes,     \* mListTypes: the tables selected with --types, in order
    bUp, pUp,      \* lshal.serviceManager() / passthroughManager() non-null
    alive,         \* alive[p]: process p has not exited
    refs,          \* refs[i]: processes holding a reference to i's node
    pc,            \* where ListCommand::main is
    fqInstanceNames, \* result of list() (empty if it failed or was skipped)
    todo,          \* instances fetchBinderized has not finished
    step,          \* section of fetchBinderizedEntry for Head(todo)
    status,        \* accumulated Status bits, as a set of names
    warned,        \* warned[i]: errors handleError printed for instance i
    services,      \* mServicesTable (allTableEntries), by instance name
    ptClients,     \* mPassthroughRefTable, by instance name
    libraries,     \* mImplementationsTable, by entry name
    pidInfos,      \* mCachedPidInfos
    cmdlines,      \* mCmdlines
    partitions,    \* mPartitions
    postTodo,      \* tables (of mListTypes) postprocess() has still to visit
    postLoop,      \* which of postprocess()'s two loops runs on Head(postTodo)
    readOk,        \* history: pids whose binder debug file was really read
    manifest,      \* dumpVintf's HalManifest: [name, pkg, transport, arch] records
    vintfErrors,   \* dumpVintf's `error` list (entry names)
    passthroughOnly, \* dumpVintf's `passthrough` list (library entry names)
    vintfTarget    \* mVintfPartition once dumpVintf has run, "none" before

vars == <<listTypes, bUp, pUp, alive, refs, pc, fqInstanceNames, todo, step, status, warned,
          services, ptClients, libraries, pidInfos, cmdlines, partitions,
          postTodo, postLoop, readOk, manifest, vintfErrors, passthroughOnly, vintfTarget>>

-----------------------------------------------------------------------------
(* Data                                                                    *)

\* TableEntry with its default member values.
NewEntry(transport) ==
    [transport |-> transport, serverPid |-> NO_PID, ptr |-> NO_PTR, arch |-> {},
     clientPids |-> {}, threadUsage |-> 0, threadCount |-> 0, hash |-> FALSE,
     serverCmdline |-> "", clientCmdlines |-> [p \in {} |-> ""],
     partition |-> "unknown"]

\* The text of /d/binder/proc/<p> now: p's nodes with their referencing
\* processes in the hwbinder context, then p's thread lines.
DebugText(p) ==
    LET nodes == SetToSeq({i \in HasNode : Served[i] = p})
    IN  <<BS!ContextLine(BS!Hwbinder)>>
        \o [k \in 1..Len(nodes) |-> BS!NodeLine(nodes[k], SetToSeq(refs[nodes[k]]))]
        \o ThreadsOf[p]

\* parseCmdline: /proc/<pid>/cmdline, empty once the process is gone.
ParseCmdline(p) == IF p \in AllPids /\ (p = MyPid \/ alive[p]) THEN "cmdline" ELSE ""

\* procpartition::getPartition: from the executable of a live process.
ProcessPartition(p) == IF p \in Pids /\ alive[p] THEN ProcPartition[p] ELSE "unknown"

\* Seeded fault for HandleError: only the specific error joins the status.
HandleErrorNoSummary(i, err) ==
    /\ warned' = [warned EXCEPT ![i] = @ \cup {err}]
    /\ status' = status \cup {err}

\* handleError inside fetchBinderizedEntry.
HandleError(i, err) ==
    /\ warned' = [warned EXCEPT ![i] = @ \cup {err}]
    /\ status' = status \cup {"DUMP_BINDERIZED_ERROR", err}

\* Leaving fetchBinderizedEntry for Head(todo): `service` goes out of scope,
\* so lshal's own reference to the node is dropped.
FinishEntry(i) ==
    /\ refs' = [refs EXCEPT ![i] = @ \ {MyPid}]
    /\ todo' = Tail(todo)
    /\ step' = "get"

-----------------------------------------------------------------------------
(* fetch()                                                                 *)

Init ==
    /\ listTypes \in ListTypeChoices
    /\ bUp \in BOOLEAN
    /\ pUp \in BOOLEAN
    /\ alive = [p \in Pids |-> TRUE]
    /\ refs = InitRefs
    /\ pc = "list"
    /\ fqInstanceNames = {}
    /\ todo = <<>>
    /\ step = "get"
    /\ status = {}
    /\ warned = [i \in Insts |-> {}]
    /\ services = [i \in {} |-> NewEntry("hwbinder")]
    /\ ptClients = [n \in {} |-> NewEntry("passthrough")]
    /\ libraries = [n \in {} |-> NewEntry("passthrough")]
    /\ pidInfos = [p \in {} |-> BS!EmptyPidInfo]
    /\ cmdlines = [p \in {} |-> ""]
    /\ partitions = [p \in {} |-> "unknown"]
    /\ postTodo = listTypes
    /\ postLoop = "cmdline"
    /\ readOk = {}
    /\ manifest = {} /\ vintfErrors = {} /\ passthroughOnly = {} /\ vintfTarget = "none"

FetchUnchanged == UNCHANGED <<manifest, vintfErrors, passthroughOnly, vintfTarget, listTypes, bUp, pUp,
                              alive, ptClients, libraries, cmdlines,
                              partitions, postTodo, postLoop>>

\* fetch(): serviceManager() returned null; binderized and passthrough-client
\* fetches are skipped.
NoBinderizedManager ==
    /\ pc = "list" /\ ~bUp
    /\ status' = status \cup {"NO_BINDERIZED_MANAGER"}
    /\ pc' = "libs"
    /\ UNCHANGED <<refs, fqInstanceNames, todo, step, warned, services, pidInfos, readOk>>
    /\ FetchUnchanged

\* fetchBinderized(): list() through timeoutIPC; the type filter returns OK
\* without listing.
ListServices ==
    /\ pc = "list" /\ bUp
    /\ IF "b" \notin Range(listTypes)
       THEN /\ pc' = "passthrough"
            /\ UNCHANGED <<fqInstanceNames, todo, status>>
       ELSE \E ok \in BOOLEAN :
              IF ok THEN /\ fqInstanceNames' = Insts
                         /\ todo' = InstOrder
                         /\ pc' = "entry"
                         /\ UNCHANGED status
                    ELSE /\ status' = status \cup {"DUMP_BINDERIZED_ERROR"}
                         /\ pc' = "passthrough"
                         /\ UNCHANGED <<fqInstanceNames, todo>>
    /\ UNCHANGED <<refs, step, warned, services, pidInfos, readOk>>
    /\ FetchUnchanged

\* Seeded fault for Get: a failing get() ends the whole listing loop.
GetAbortsList ==
    /\ pc = "entry" /\ todo # <<>> /\ step = "get"
    /\ LET i == Head(todo) IN
       /\ services' = (i :> NewEntry("hwbinder")) @@ services
       /\ \/ /\ HandleError(i, "TRANSACTION_ERROR")
             /\ todo' = <<>>
             /\ UNCHANGED <<refs, step>>
          \/ /\ HandleError(i, "NO_INTERFACE")
             /\ todo' = <<>>
             /\ UNCHANGED <<refs, step>>
          \/ /\ refs' = [refs EXCEPT ![i] = @ \cup {MyPid}]
             /\ step' = "debug"
             /\ UNCHANGED <<todo, warned, status>>
    /\ UNCHANGED <<pc, fqInstanceNames, pidInfos, readOk>>
    /\ FetchUnchanged

\* fetchBinderizedEntry, first section: allTableEntries[name] is created,
\* then get(serviceName, instanceName).
Get ==
    /\ pc = "entry" /\ todo # <<>> /\ step = "get"
    /\ LET i == Head(todo) IN
       /\ services' = (i :> NewEntry("hwbinder")) @@ services
       /\ \/ /\ HandleError(i, "TRANSACTION_ERROR")     \* !getRet.isOk()
             /\ todo' = Tail(todo)
             /\ UNCHANGED <<refs, step>>
          \/ /\ HandleError(i, "NO_INTERFACE")          \* service == nullptr
             /\ todo' = Tail(todo)
             /\ UNCHANGED <<refs, step>>
          \/ /\ refs' = [refs EXCEPT ![i] = @ \cup {MyPid}] \* lshal now holds sp<IBase>
             /\ step' = "debug"
             /\ UNCHANGED <<todo, warned, status>>
    /\ UNCHANGED <<pc, fqInstanceNames, pidInfos, readOk>>
    /\ FetchUnchanged

\* The fields getDebugInfo copies into the entry.
WithDebugInfo(e, i) ==
    [e EXCEPT !.serverPid = Served[i], !.ptr = IF i \in HasNode THEN i ELSE NO_PTR]

\* The fields taken from a PidInfo once getPidInfoCached returned non-null.
WithPidInfo(e, info) ==
    [e EXCEPT !.clientPids = IF e.ptr # NO_PTR /\ e.ptr \in DOMAIN info.refPids
                             THEN Range(info.refPids[e.ptr]) ELSE @,
              !.threadUsage = info.threadUsage,
              !.threadCount = info.threadCount]

\* Second section: getDebugInfo fails.
DebugInfoFailed ==
    /\ pc = "entry" /\ todo # <<>> /\ step = "debug"
    /\ HandleError(Head(todo), "TRANSACTION_ERROR")
    /\ step' = "hash"
    /\ UNCHANGED <<refs, pc, fqInstanceNames, todo, services, pidInfos, readOk>>
    /\ FetchUnchanged

\* getDebugInfo succeeds; with pid NO_PID no PidInfo is looked up.
DebugInfoNoPid ==
    /\ pc = "entry" /\ todo # <<>> /\ step = "debug"
    /\ Served[Head(todo)] = NO_PID
    /\ services' = [services EXCEPT ![Head(todo)] = WithDebugInfo(@, Head(todo))]
    /\ step' = "hash"
    /\ UNCHANGED <<refs, pc, fqInstanceNames, todo, status, warned, pidInfos, readOk>>
    /\ FetchUnchanged

\* getPidInfoCached(pid): insert({pid, PidInfo{}}) found an entry; the cached
\* PidInfo is returned, whether or not the read that created it succeeded.
DebugInfoCached ==
    /\ pc = "entry" /\ todo # <<>> /\ step = "debug"
    /\ LET i == Head(todo)  p == Served[i] IN
       /\ p # NO_PID /\ p \in DOMAIN pidInfos
       /\ services' = [services EXCEPT ![i] = WithPidInfo(WithDebugInfo(@, i), pidInfos[p])]
    /\ step' = "hash"
    /\ UNCHANGED <<refs, pc, fqInstanceNames, todo, status, warned, pidInfos, readOk>>
    /\ FetchUnchanged

\* getPidInfoCached(pid): the inserted PidInfo{} is filled by getPidInfo,
\* which scans the server's binder debug file.
DebugInfoRead ==
    /\ pc = "entry" /\ todo # <<>> /\ step = "debug"
    /\ LET i == Head(todo)  p == Served[i]  info == BS!GetPidInfo(DebugText(p)) IN
       /\ p # NO_PID /\ p \notin DOMAIN pidInfos
       /\ alive[p] /\ p \notin Unreadable
       /\ pidInfos' = (p :> info) @@ pidInfos
       /\ services' = [services EXCEPT ![i] = WithPidInfo(WithDebugInfo(@, i), info)]
       /\ readOk' = readOk \cup {p}
    /\ step' = "hash"
    /\ UNCHANGED <<refs, pc, fqInstanceNames, todo, status, warned>>
    /\ FetchUnchanged

\* Seeded fault for DebugInfoUnreadable: the `debugInfo.pid != NO_PID` test
\* is missing, so getPidInfoCached(NO_PID) tries /d/binder/proc/-1, which
\* cannot be opened, and caches an empty PidInfo under NO_PID.
DebugInfoUnreadableAnyPid ==
    /\ pc = "entry" /\ todo # <<>> /\ step = "debug"
    /\ LET i == Head(todo)  p == Served[i] IN
       /\ p \notin DOMAIN pidInfos
       /\ p = NO_PID \/ ~alive[p] \/ p \in Unreadable
       /\ pidInfos' = (p :> BS!EmptyPidInfo) @@ pidInfos
       /\ services' = [services EXCEPT ![i] = WithDebugInfo(@, i)]
       /\ HandleError(i, "IO_ERROR")
    /\ step' = "hash"
    /\ UNCHANGED <<refs, pc, fqInstanceNames, todo, readOk>>
    /\ FetchUnchanged

\* getPidInfo cannot open the file (process gone, or no permission): the
\* PidInfo{} inserted stays in the cache, nullptr is returned and the rest
\* of the section is skipped.
DebugInfoUnreadable ==
    /\ pc = "entry" /\ todo # <<>> /\ step = "debug"
    /\ LET i == Head(todo)  p == Served[i] IN
       /\ p # NO_PID /\ p \notin DOMAIN pidInfos
       /\ ~alive[p] \/ p \in Unreadable
       /\ pidInfos' = (p :> BS!EmptyPidInfo) @@ pidInfos
       /\ services' = [services EXCEPT ![i] = WithDebugInfo(@, i)]
       /\ HandleError(i, "IO_ERROR")
    /\ step' = "hash"
    /\ UNCHANGED <<refs, pc, fqInstanceNames, todo, readOk>>
    /\ FetchUnchanged

\* Third section: interfaceChain, then getHashChain; each failure or
\* inconsistency is reported and ends the section.  The entry is done.
Hash ==
    /\ pc = "entry" /\ todo # <<>> /\ step = "hash"
    /\ LET i == Head(todo) IN
       /\ \/ /\ HandleError(i, "TRANSACTION_ERROR")     \* interfaceChain fails
             /\ UNCHANGED services
          \/ /\ ChainFault[i] = "notInChain"             \* hashIndex < 0
             /\ HandleError(i, "BAD_IMPL")
             /\ UNCHANGED services
          \/ /\ ChainFault[i] # "notInChain"
             /\ HandleError(i, "TRANSACTION_ERROR")     \* getHashChain fails
             /\ UNCHANGED services
          \/ /\ ChainFault[i] = "shortHash"              \* hashIndex >= size
             /\ HandleError(i, "BAD_IMPL")
             /\ UNCHANGED services
          \/ /\ ChainFault[i] = "none"
             /\ services' = [services EXCEPT ![i].hash = TRUE]
             /\ UNCHANGED <<warned, status>>
       /\ FinishEntry(i)
    /\ UNCHANGED <<pc, fqInstanceNames, pidInfos, readOk>>
    /\ FetchUnchanged

\* End of the loop of fetchBinderized: putEntry moves allTableEntries into
\* mServicesTable; fetch() goes on with fetchPassthrough.
EntriesDone ==
    /\ pc = "entry" /\ todo = <<>>
    /\ pc' = "passthrough"
    /\ UNCHANGED <<refs, fqInstanceNames, todo, step, status, warned, services,
                   pidInfos, readOk>>
    /\ FetchUnchanged

\* Seeded fault for FetchPassthrough: a failing debugDump is reported with
\* the binderized bit.
FetchPassthroughWrongBit ==
    /\ pc = "passthrough"
    /\ IF "c" \notin Range(listTypes)
       THEN UNCHANGED <<ptClients, status>>
       ELSE \/ UNCHANGED <<ptClients, status>>
            \/ status' = status \cup {"DUMP_BINDERIZED_ERROR"} /\ UNCHANGED ptClients
    /\ pc' = "libs"
    /\ UNCHANGED <<listTypes, bUp, pUp, alive, refs, fqInstanceNames, todo, step, warned,
                   services, libraries, pidInfos, cmdlines, partitions, postTodo, postLoop, readOk,
                   manifest, vintfErrors, passthroughOnly, vintfTarget>>

\* fetchPassthrough(): debugDump on hwservicemanager; every registration with
\* at least one client pid becomes an entry, whose server is its only client.
FetchPassthrough ==
    /\ pc = "passthrough"
    /\ IF "c" \notin Range(listTypes)
       THEN UNCHANGED <<ptClients, status>>
       ELSE \E ok \in BOOLEAN :
              IF ok
              THEN /\ ptClients' =
                        [n \in {m \in PtInsts : PtInfo[m].clients # {}} |->
                           [NewEntry("passthrough") EXCEPT
                              !.serverPid  = IF Cardinality(PtInfo[n].clients) = 1
                                             THEN CHOOSE q \in PtInfo[n].clients : TRUE
                                             ELSE NO_PID,
                              !.clientPids = PtInfo[n].clients,
                              !.arch       = PtInfo[n].arch]]
                   /\ UNCHANGED status
              ELSE /\ status' = status \cup {"DUMP_PASSTHROUGH_ERROR"}
                   /\ UNCHANGED ptClients
    /\ pc' = "libs"
    /\ UNCHANGED <<listTypes, bUp, pUp, alive, refs, fqInstanceNames, todo, step, warned,
                   services, libraries, pidInfos, cmdlines, partitions, postTodo, postLoop, readOk,
                   manifest, vintfErrors, passthroughOnly, vintfTarget>>

\* The library entry debugDump yields for `name`: emplace keeps the first
\* report's client pids, and `arch |=` accumulates every report's bitness.
LibraryEntry(name) ==
    LET ks == {k \in DOMAIN LibReports : LibReports[k].name = name}
    IN  [NewEntry("passthrough") EXCEPT
           !.clientPids = LibReports[Min(ks)].clients,
           !.arch       = UNION {LibReports[k].arch : k \in ks}]

\* fetch(): passthroughManager() is null, or fetchAllLibraries() (2s deadline).
FetchAllLibraries ==
    /\ pc = "libs"
    /\ \/ /\ ~pUp
          /\ status' = status \cup {"NO_PASSTHROUGH_MANAGER"}
          /\ UNCHANGED libraries
       \/ /\ pUp /\ "l" \notin Range(listTypes)
          /\ UNCHANGED <<libraries, status>>
       \/ /\ pUp /\ "l" \in Range(listTypes)
          /\ libraries' = [n \in LibInsts |-> LibraryEntry(n)]
          /\ UNCHANGED status
       \/ /\ pUp /\ "l" \in Range(listTypes)
          /\ status' = status \cup {"DUMP_ALL_LIBS_ERROR"}
          /\ UNCHANGED libraries
    /\ pc' = "post"
    /\ UNCHANGED <<listTypes, bUp, pUp, alive, refs, fqInstanceNames, todo, step, warned,
                   services, ptClients, pidInfos, cmdlines, partitions, postTodo, postLoop, readOk,
                   manifest, vintfErrors, passthroughOnly, vintfTarget>>

-----------------------------------------------------------------------------
(* postprocess()                                                           *)

\* Pids whose cmdline the first loop looks up for a table: every server, and
\* every client but lshal (removeDeadProcesses tests pid == myPid first).
LookedUp(tbl) ==
    {tbl[n].serverPid : n \in DOMAIN tbl}
      \cup UNION {tbl[n].clientPids \ {MyPid} : n \in DOMAIN tbl}

\* getCmdline: a pid is read from /proc once and then served from mCmdlines.
CmdlinesAfter(tbl) ==
    [p \in LookedUp(tbl) \ DOMAIN cmdlines |-> ParseCmdline(p)] @@ cmdlines

\* removeDeadProcesses: drop lshal itself and every pid whose cmdline is empty.
RemoveDeadProcesses(pids, c) == {p \in pids : p # MyPid /\ c[p] # ""}

\* First loop of postprocess() over one table, with the cache c it leaves.
Correlated(tbl, c) ==
    [n \in DOMAIN tbl |->
        LET kept == RemoveDeadProcesses(tbl[n].clientPids, c)
        IN  [tbl[n] EXCEPT !.serverCmdline  = c[tbl[n].serverPid],
                           !.clientPids     = kept,
                           !.clientCmdlines = [p \in kept |-> c[p]]]]

\* getPartition: mPartitions caches procpartition's answer per pid.
PartitionsAfter(tbl) ==
    [p \in {tbl[n].serverPid : n \in DOMAIN tbl} \ DOMAIN partitions |->
        ProcessPartition(p)] @@ partitions

WithPartitions(tbl, c) ==
    [n \in DOMAIN tbl |-> [tbl[n] EXCEPT !.partition = c[tbl[n].serverPid]]]

PostUnchanged == UNCHANGED <<manifest, vintfErrors, passthroughOnly, vintfTarget, listTypes, bUp, pUp,
                             alive, refs, fqInstanceNames, todo, step,
                             status, warned, pidInfos, readOk>>

\* forEachTable, first loop: cmdlines and pruned clients for every entry.
PostCmdlines ==
    /\ pc = "post" /\ postTodo # <<>> /\ postLoop = "cmdline"
    /\ CASE Head(postTodo) = "b" ->
              /\ cmdlines' = CmdlinesAfter(services)
              /\ services' = Correlated(services, cmdlines')
              /\ UNCHANGED <<ptClients, libraries>>
         [] Head(postTodo) = "c" ->
              /\ cmdlines' = CmdlinesAfter(ptClients)
              /\ ptClients' = Correlated(ptClients, cmdlines')
              /\ UNCHANGED <<services, libraries>>
         [] Head(postTodo) = "l" ->
              /\ cmdlines' = CmdlinesAfter(libraries)
              /\ libraries' = Correlated(libraries, cmdlines')
              /\ UNCHANGED <<services, ptClients>>
    /\ postLoop' = "partition"
    /\ UNCHANGED <<pc, partitions, postTodo>>
    /\ PostUnchanged

\* forEachTable, second loop: the partition of every entry's server.
PostPartitions ==
    /\ pc = "post" /\ postTodo # <<>> /\ postLoop = "partition"
    /\ CASE Head(postTodo) = "b" ->
              /\ partitions' = PartitionsAfter(services)
              /\ services' = WithPartitions(services, partitions')
              /\ UNCHANGED <<ptClients, libraries>>
         [] Head(postTodo) = "c" ->
              /\ partitions' = PartitionsAfter(ptClients)
              /\ ptClients' = WithPartitions(ptClients, partitions')
              /\ UNCHANGED <<services, libraries>>
         [] Head(postTodo) = "l" ->
              /\ partitions' = PartitionsAfter(libraries)
              /\ libraries' = WithPartitions(libraries, partitions')
              /\ UNCHANGED <<services, ptClients>>
    /\ postLoop' = "cmdline"
    /\ postTodo' = Tail(postTodo)
    /\ pc' = IF Tail(postTodo) = <<>> THEN "arch" ELSE "post"
    /\ UNCHANGED cmdlines
    /\ PostUnchanged

\* Seeded fault for ArchFromLibraries: only the first library of the package
\* is consulted.
ArchFromFirstLibrary(n, order) ==
    LET ms == SelectSeq(order, LAMBDA l : PkgOf[l] = PkgOf[n])
    IN  IF ptClients[n].arch = {} /\ ms # <<>> THEN libraries[Head(ms)].arch
                                              ELSE ptClients[n].arch

\* The arch the double loop leaves on passthrough client n when it visits
\* the libraries in `order`: a library of the same package@version assigns
\* its arch while the client's arch is still empty.
ArchFromLibraries(n, order) ==
    FoldLeft(LAMBDA a, l : IF a = {} /\ PkgOf[l] = PkgOf[n] THEN libraries[l].arch ELSE a,
             ptClients[n].arch, order)

\* The double loop at the end of postprocess().  The library table's order
\* is its map order or, after --sort, whatever std::sort leaves: any order.
PropagateArch ==
    /\ pc = "arch"
    /\ \E order \in SetToSeqs(DOMAIN libraries) :
         ptClients' = [n \in DOMAIN ptClients |->
                         [ptClients[n] EXCEPT !.arch = ArchFromLibraries(n, order)]]
    /\ pc' = "dump"
    /\ UNCHANGED <<services, libraries, cmdlines, partitions, postTodo, postLoop>>
    /\ PostUnchanged

-----------------------------------------------------------------------------
(* dump()                                                                  *)

\* resolvePartition: the package family decides, except for android.hardware
\* (and unknown families), where the partition of the serving process is
\* used when known.
ResolvePartition(process, family) ==
    CASE family = "vendor"               -> "vendor"   \* vendor.*, com.*
      [] family \in {"platform", "base"} -> "system"   \* android.frameworks/system/hidl
      [] family = "hardware"             -> IF process # "unknown" THEN process ELSE "vendor"
      [] OTHER                           -> process

\* HalManifest::insertInstance refuses a declaration incompatible with one
\* already present: the same package@version under the other transport.
InsertConflict(man, n, transport) ==
    \E m \in man : m.pkg = PkgOf[n] /\ m.transport # transport

\* Seeded fault for InstanceOutcome: a refused insert is taken as success.
InstanceOutcomeConflictSkips(man, e, n, target) ==
    LET part == ResolvePartition(e.partition, Family[n]) IN
    CASE Family[n] = "invalid"                        -> "error"
      [] Family[n] = "base"                           -> "skip"
      [] part = "unknown"                             -> "error"
      [] part # target                                -> "skip"
      [] e.transport = "passthrough" /\ e.arch = {}   -> "error"
      [] InsertConflict(man, n, e.transport)           -> "skip"
      [] OTHER                                        -> "insert"

\* addEntryWithInstance for entry e named n: "insert", "skip" (returns true
\* without inserting) or "error" (returns false).
InstanceOutcome(man, e, n, target) ==
    LET part == ResolvePartition(e.partition, Family[n]) IN
    CASE Family[n] = "invalid"                        -> "error" \* not an FqInstance
      [] Family[n] = "base"                           -> "skip"  \* IBase is never declared
      [] part = "unknown"                             -> "error"
      [] part # target                                -> "skip"
      [] e.transport = "passthrough" /\ e.arch = {}   -> "error" \* no bitness
      [] InsertConflict(man, n, e.transport)           -> "error"
      [] OTHER                                        -> "insert"

\* One iteration of dumpVintf's loops over an instance table; acc is
\* <<manifest, error>>.
AddEntryWithInstance(acc, e, n, target) ==
    CASE InstanceOutcome(acc[1], e, n, target) = "insert" ->
            <<acc[1] \cup {[name |-> n, pkg |-> PkgOf[n], transport |-> e.transport,
                            arch |-> IF e.transport = "hwbinder" THEN {} ELSE e.arch]},
              acc[2]>>
      [] InstanceOutcome(acc[1], e, n, target) = "error" -> <<acc[1], acc[2] \cup {n}>>
      [] OTHER -> acc

\* The loop over one table, in its order; the outcome does not depend on that
\* order, as entries of one table share their transport.
AddTable(acc, tbl, target) ==
    LET ns == SetToSeq(DOMAIN tbl)
    IN  FoldLeft(LAMBDA a, n : AddEntryWithInstance(a, tbl[n], n, target), acc, ns)

\* addEntryWithoutInstance: the library's version parses and an instance of
\* its package@version is in the manifest.
AddEntryWithoutInstance(l, man) ==
    l \notin BadVersion /\ \E m \in man : m.pkg = PkgOf[l]

\* dump() with --init-vintf for partition `target` (mVintfPartition; parseArgs
\* sets it and mVintf, and nothing before dump() reads them): binderized
\* entries, then passthrough clients, then the libraries against the result.
DumpVintf(target) ==
    /\ pc = "dump"
    /\ LET acc == AddTable(AddTable(<<{}, {}>>, services, target), ptClients, target)
       IN  /\ manifest' = acc[1]
           /\ vintfErrors' = acc[2]
           /\ passthroughOnly' =
                {l \in DOMAIN libraries : ~AddEntryWithoutInstance(l, acc[1])}
    /\ vintfTarget' = target
    /\ pc' = "done"
    /\ UNCHANGED <<status, services, ptClients, libraries, cmdlines, partitions,
                   postTodo, postLoop, listTypes, bUp, pUp, alive, refs, fqInstanceNames,
                   todo, step, warned, pidInfos, readOk>>

\* dump() without --init-vintf: the text table goes to stdout or to
\* mFileOutputPath (its layout is not modelled).
DumpTable ==
    /\ pc = "dump"
    /\ pc' = "done"
    /\ UNCHANGED <<services, ptClients, libraries, cmdlines, partitions, postTodo, postLoop>>
    /\ PostUnchanged

\* dump() with an output file that cannot be opened: nothing is written and
\* IO_ERROR joins the status main returns.
DumpOpenFailed ==
    /\ pc = "dump"
    /\ status' = status \cup {"IO_ERROR"}
    /\ pc' = "done"
    /\ UNCHANGED <<manifest, vintfErrors, passthroughOnly, vintfTarget, services, ptClients, libraries,
                   cmdlines, partitions, postTodo, postLoop, listTypes, bUp, pUp, alive,
                   refs, fqInstanceNames, todo, step, warned, pidInfos, readOk>>

-----------------------------------------------------------------------------
(* The rest of the system                                                  *)

\* Another process exits: its binder references and its /proc and
\* /d/binder entries disappear.
ProcessExit(p) ==
    /\ pc # "done" /\ alive[p]
    /\ alive' = [alive EXCEPT ![p] = FALSE]
    /\ refs' = [i \in Insts |-> refs[i] \ {p}]
    /\ UNCHANGED <<listTypes, bUp, pUp, pc, fqInstanceNames, todo, step, status, warned, services,
                   ptClients, libraries, pidInfos, cmdlines, partitions, postTodo, postLoop, readOk,
                   manifest, vintfErrors, passthroughOnly, vintfTarget>>

-----------------------------------------------------------------------------

LshalStep ==
    \/ NoBinderizedManager \/ ListServices
    \/ Get \/ DebugInfoFailed \/ DebugInfoNoPid \/ DebugInfoCached
    \/ DebugInfoRead \/ DebugInfoUnreadable \/ Hash \/ EntriesDone
    \/ FetchPassthrough \/ FetchAllLibraries
    \/ PostCmdlines \/ PostPartitions \/ PropagateArch
    \/ DumpTable \/ DumpOpenFailed \/ \E t \in VintfTargets : DumpVintf(t)

Next == LshalStep \/ \E p \in Pids : ProcessExit(p)

\* lshal is one thread and every call it makes returns (timeoutIPC bounds
\* each remote call; the debug files are finite), so it keeps taking steps.
Spec == Init /\ [][Next]_vars /\ WF_vars(LshalStep)

-----------------------------------------------------------------------------
(* Properties                                                              *)

\* Instances whose fetchBinderizedEntry has returned.
Fetched == DOMAIN services \ Range(todo)

AllEntries == <<services, ptClients, libraries>>

EntryOK(e) ==
    /\ e.transport \in {"hwbinder", "passthrough"}
    /\ e.serverPid \in Pids \cup {NO_PID}
    /\ e.ptr \in HasNode \cup {NO_PTR}
    /\ e.arch \subseteq Archs
    /\ e.clientPids \subseteq AllPids
    /\ e.threadUsage \in Nat /\ e.threadCount \in Nat
    /\ e.hash \in BOOLEAN
    /\ e.serverCmdline \in {"", "cmdline"}
    /\ DOMAIN e.clientCmdlines \subseteq AllPids
    /\ e.partition \in Partitions

TypeOK ==
    /\ pc \in {"list", "entry", "passthrough", "libs", "post", "arch", "dump", "done"}
    /\ step \in {"get", "debug", "hash"} /\ postLoop \in {"cmdline", "partition"}
    /\ alive \in [Pids -> BOOLEAN] /\ refs \in [Insts -> SUBSET AllPids]
    /\ status \subseteq {"NO_BINDERIZED_MANAGER", "NO_PASSTHROUGH_MANAGER",
                         "DUMP_BINDERIZED_ERROR", "DUMP_PASSTHROUGH_ERROR",
                         "DUMP_ALL_LIBS_ERROR", "TRANSACTION_ERROR", "NO_INTERFACE",
                         "BAD_IMPL", "IO_ERROR"}
    /\ \A k \in 1..3 : \A n \in DOMAIN AllEntries[k] : EntryOK(AllEntries[k][n])
    /\ \A m \in manifest : m.transport \in {"hwbinder", "passthrough"} /\ m.arch \subseteq Archs
    /\ vintfErrors \subseteq Insts \cup PtInsts /\ passthroughOnly \subseteq LibInsts
    /\ vintfTarget \in {"none"} \cup VintfTargets
    /\ DOMAIN pidInfos \subseteq Pids /\ DOMAIN cmdlines \subseteq AllPids \cup {NO_PID}

\* One failing instance never aborts the listing: once fetchBinderized is
\* past its loop, every name list() returned has an entry in the table.
AllListedReported ==
    pc \notin {"list", "entry"} => DOMAIN services = fqInstanceNames

\* An instance whose data is incomplete (no interface hash) was warned
\* about, and every warning is also in the status lshal exits with.
PartialEntriesExplained ==
    \A i \in Fetched :
        /\ ~services[i].hash => warned[i] # {}
        /\ warned[i] # {} => warned[i] \cup {"DUMP_BINDERIZED_ERROR"} \subseteq status

\* Whenever a server's debug information was obtained but its binder debug
\* file was never read, the instance carries the I/O error warning
\* ("are you root?") instead of showing empty client and thread data.
IOErrorReported ==
    \A i \in Fetched :
        services[i].serverPid # NO_PID =>
            services[i].serverPid \in readOk \/ "IO_ERROR" \in warned[i]

\* After the double loop, a passthrough client is left without bitness only
\* when no library of its package@version has one.
ArchPropagated ==
    pc \in {"dump", "done"} =>
        \A n \in DOMAIN ptClients :
            ptClients[n].arch = {} =>
                \A l \in DOMAIN libraries : PkgOf[l] = PkgOf[n] => libraries[l].arch = {}

\* Spec 4.7: dumpVintf never drops an entry silently.  Every binderized or
\* passthrough-client entry that is not IBase and does not resolve to a
\* known partition other than the target is declared or listed as an error.
SynthesisExplained ==
    vintfTarget # "none" =>
        \A k \in 1..2 : \A n \in DOMAIN AllEntries[k] :
            /\ Family[n] # "base"
            /\ ResolvePartition(AllEntries[k][n].partition, Family[n])
                   \in {vintfTarget, "unknown"}
            => n \in vintfErrors \/ \E m \in manifest : m.name = n

\* ListCommand::main's phases as ListCycle names them.
PhaseOf(c) ==
    CASE c = "list"                    -> "list"
      [] c = "entry"                   -> "entries"
      [] c \in {"passthrough", "libs"} -> "tables"
      [] c \in {"post", "arch"}        -> "post"
      [] c = "dump"                    -> "dump"
      [] c = "done"                    -> "done"

LC == INSTANCE ListCycle WITH phase <- PhaseOf(pc), Order <- InstOrder,
                              visited <- fqInstanceNames \ Range(todo)

\* ListCommand::main implements ListCycle: whatever fails and whoever exits,
\* list() is followed by each listed instance once and in order, every
\* handleError raises DUMP_BINDERIZED_ERROR, the later phases add only their
\* own status bits, and the run ends.
ImplementsListCycle == LC!Spec

=============================================================================
