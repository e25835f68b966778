CONSTANTS
    Chunks <- MCChunks
    MaxReads = 3
    Root = Root
    Shell = Shell
    Caps <- MCCaps
    InitGroups = {inherited}

SPECIFICATION Spec

INVARIANT FdReleased
