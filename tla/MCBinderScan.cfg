CONSTANTS
    Handles = {h1, h2}
    ProcToks = {q1}
    BadNum = BadNum
    MaxLines = 4
    OtherContext = "binder"

SPECIFICATION Spec

INVARIANT ScanMatchesReference
