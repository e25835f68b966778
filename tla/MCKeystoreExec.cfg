CONSTANTS
    BUFFER_MAX = 5
    TOKEN_MAX = 2
    REPLY_MAX = 6
    CmdArgs <- MCCmdArgs
    Replying <- MCReplying
    Clients = {c1, c2}
    NoConn = NoConn
    Requests <- MCRequests

SPECIFICATION Spec

\* The daemon ends blocked in accept() once the clients are done.
CHECK_DEADLOCK FALSE

INVARIANT ReplyFramed
INVARIANT ExecutedIsReported
PROPERTY RequestAnswered
