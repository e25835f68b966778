CONSTANTS
    BUFFER_MAX = 5
    TOKEN_MAX = 2
    REPLY_MAX = 5
    CmdArgs <- MCCmdArgs
    Replying <- MCReplying
    Clients = {c1}
    NoConn = NoConn

SPECIFICATION Spec

\* The daemon ends blocked in accept() once the clients are done.
CHECK_DEADLOCK FALSE

INVARIANT ReplyWithinBuffer
