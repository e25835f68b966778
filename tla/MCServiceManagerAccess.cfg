CONSTANTS
    Pids = {p1, p2}
    Contexts = {app, sys}
    Names = {n1, n2}
    TargetCtxs = {t1}
    app = app
    sys = sys
    n1 = n1
    n2 = n2
    t1 = t1
    p1 = p1
    p2 = p2
    SmCtx = SmCtx
    NoMatch = NoMatch
    NoProc = NoProc
    MaxVer = 2
    ServiceContexts <- MCServiceContexts
    Allow <- MCAllow
    InitOwner <- MCInitOwner

SPECIFICATION Spec

SYMMETRY MCSymmetry

INVARIANT LookupNotStale
