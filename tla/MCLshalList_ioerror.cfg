CONSTANTS
    p1 = p1
    p2 = p2
    i1 = i1
    i2 = i2
    i3 = i3
    c1 = c1
    c2 = c2
    c3 = c3
    l1 = l1
    l2 = l2
    MyPid = MyPid
    NO_PID = NO_PID
    NO_PTR = NO_PTR
    Pids <- MCPids
    Insts <- MCInsts
    InstOrder <- MCInstOrder
    Served <- MCServed
    HasNode <- MCHasNode
    InitRefs <- MCInitRefs
    ThreadsOf <- MCThreadsOf
    Unreadable <- MCPids
    ChainFault <- MCChainFault
    PtInsts <- MCPtInsts
    PtInfo <- MCPtInfo
    LibReports <- MCLibReports
    PkgOf <- MCPkgOf
    ProcPartition <- MCProcPartition
    ListTypeChoices <- MCListTypeChoices
    Family <- MCFamily
    BadVersion <- MCBadVersion
    VintfTargets <- MCVintfTargets

SPECIFICATION Spec

\* lshal exits once dump() has run; lshal runs without root here.
CHECK_DEADLOCK FALSE

INVARIANT IOErrorReported
