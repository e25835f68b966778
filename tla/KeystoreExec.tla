---------------------------- MODULE KeystoreExec ----------------------------
(***************************************************************************)
(* The keystore daemon's command protocol (src/keystore/keystore.c): main  *)
(* listens on its socket and serves one connection at a time; further     *)
(* connections wait in the listen backlog.  Per request it reads a 16-bit  *)
(* length and that many bytes into buf[BUFFER_MAX] and terminates them;    *)
(* execute() tokenizes the request in place (CMD_DELIMITER becomes NUL),   *)
(* dispatches on arg[0], copies the reply into the buffer at the           *)
(* tokenizer's final position and writes ret, then (only if ret is 0) the *)
(* reply length and bytes.  Each client is one run of shell_command: it    *)
(* joins its argv with the delimiter, connects, sends one request, reads   *)
(* the answer and exits.                                                   *)
(*                                                                         *)
(* buf is never cleared: past the terminator it holds what earlier         *)
(* requests and replies left, or, before the first request of a process,   *)
(* whatever the stack held.  Every content it can hold there is one the    *)
(* uninitialised array can start with, so the model reads those bytes as   *)
(* any bytes at each request rather than keeping buf as state.             *)
(*                                                                         *)
(* A client may be killed at any moment.  The daemon does not ignore       *)
(* SIGPIPE, so its write to a connection whose client has gone kills it;   *)
(* init then restarts it with a fresh socket, and the connections queued   *)
(* on the old one are reset.                                               *)
(*                                                                         *)
(* A byte is "k" (any ordinary character), Delim or Nul.  The command      *)
(* functions are abstracted to their result and the length of the reply   *)
(* they write.                                                             *)
(***************************************************************************)
EXTENDS Naturals, Sequences, SequencesExt

CONSTANTS
    BUFFER_MAX,    \* size of main's buf (keystore.h)
    TOKEN_MAX,     \* capacity of execute's arg[] is TOKEN_MAX + 1
    REPLY_MAX,     \* size of execute's reply
    CmdArgs,       \* cmds[]: command name (a byte sequence) -> numargs
    Replying,      \* the commands whose function writes a reply
    Clients,       \* runs of shell_command
    NoConn         \* the daemon has no connection

Delim == "t"       \* CMD_DELIMITER
Nul   == "0"
Bytes == {"k", Delim, Nul}
Text  == {"k", Delim}            \* bytes of an argv string
Idx   == 0..(BUFFER_MAX - 1)

\* Where a client is once its process has exited.
\* "refused": exit(1) before sending; "printed": it printed the reply;
\* "failed": it printed "Failed, please check log!"; "eof": readx or writex
\* failed and it returned -1 silently; "killed": it was killed.
Exited == {"refused", "printed", "failed", "eof", "killed"}

ASSUME /\ BUFFER_MAX \in Nat \ {0} /\ TOKEN_MAX \in Nat \ {0}
       /\ REPLY_MAX \in Nat \ {0} /\ Replying \subseteq DOMAIN CmdArgs
       /\ NoConn \notin Clients

VARIABLES
    spc,       \* where the daemon is: "accept", "read", or "dead" once SIGPIPE has killed it
    conn,      \* the client whose connection the daemon is serving
    backlog,   \* connections made and not yet accepted, in order
    srvClosed, \* clients whose connection the daemon side has closed
    c2s, s2c,  \* each connection's two directions, as message sequences
    cpc,       \* where each shell_command is
    creq,      \* the request each shell_command built
    executed,  \* history: clients whose command function ran
    scanPast,  \* history: the tokenizer read a byte past buf[count]
    overflow   \* history: the reply copy wrote past buf

vars == <<spc, conn, backlog, srvClosed, c2s, s2c, cpc, creq,
          executed, scanPast, overflow>>

\* The history variables.
history == <<executed, scanPast, overflow>>

\* The clients' own variables.
clientVars == <<cpc, creq>>

\* Requests shell_command can build: argv strings joined by the delimiter,
\* so any text; one of BUFFER_MAX bytes or more is refused by strlcat.
Requests == BoundedSeq(Text, BUFFER_MAX)

\* The strlcat of a delimiter is not checked: once buf is full, an empty
\* argv string after it passes the check and its delimiter is silently
\* dropped.  A joined text whose bytes past BUFFER_MAX - 1 are all
\* delimiters may therefore be sent cut to BUFFER_MAX - 1 bytes, or
\* refused, as the argv it came from decides.
Sendable(r) == \A i \in BUFFER_MAX..Len(r) : r[i] = Delim

\* What strlcat leaves in buf.
Joined(r) == SubSeq(r, 1, IF Len(r) < BUFFER_MAX THEN Len(r) ELSE BUFFER_MAX - 1)

\* The NUL-terminated string starting at index i of b.
StrAt(b, i) ==
    LET ends == {j \in i..(BUFFER_MAX - 1) : b[j] = Nul}
    IN  IF ends = {} THEN [k \in 1..(BUFFER_MAX - i) |-> b[i + k - 1]]
        ELSE [k \in 1..(Min(ends) - i) |-> b[i + k - 1]]

-----------------------------------------------------------------------------
(* shell_command                                                           *)

\* socket_local_client succeeds and argv has been joined into r; the
\* connection waits in the backlog until the daemon accepts it.
Connect(c, r) ==
    /\ cpc[c] = "idle" /\ spc # "dead"
    /\ backlog' = Append(backlog, c)
    /\ creq' = [creq EXCEPT ![c] = r]
    /\ cpc' = [cpc EXCEPT ![c] = "connected"]
    /\ UNCHANGED <<spc, conn, srvClosed, c2s, s2c, history>>

\* socket_local_client fails while the daemon is down: "Keystore service
\* is not up and running", exit(1).
ConnectRefused(c) ==
    /\ cpc[c] = "idle" /\ spc = "dead"
    /\ cpc' = [cpc EXCEPT ![c] = "refused"]
    /\ UNCHANGED <<spc, conn, backlog, srvClosed, c2s, s2c, creq,
                   history>>

\* "Arguments are too long": exit(1) with the socket open but nothing sent.
SendTooLong(c) ==
    /\ cpc[c] = "connected" /\ Len(creq[c]) >= BUFFER_MAX
    /\ cpc' = [cpc EXCEPT ![c] = "refused"]
    /\ UNCHANGED <<spc, conn, backlog, srvClosed, c2s, s2c, creq,
                   history>>

\* A write on a connection the restarted daemon has reset fails: shell_command
\* returns -1 (or the SIGPIPE ends it) without a message.
SendReset(c) ==
    /\ cpc[c] \in {"connected", "sending"} /\ Sendable(creq[c])
    /\ c \in srvClosed
    /\ cpc' = [cpc EXCEPT ![c] = "eof"]
    /\ UNCHANGED <<spc, conn, backlog, srvClosed, c2s, s2c, creq,
                   history>>

\* writex of the length, then writex of the bytes.
SendLen(c) ==
    /\ cpc[c] = "connected" /\ Sendable(creq[c]) /\ c \notin srvClosed
    /\ c2s' = [c2s EXCEPT ![c] = @ \o <<[len |-> Len(Joined(creq[c]))]>>]
    /\ cpc' = [cpc EXCEPT ![c] = "sending"]
    /\ UNCHANGED <<spc, conn, backlog, srvClosed, s2c, creq, history>>

SendBytes(c) ==
    /\ cpc[c] = "sending" /\ c \notin srvClosed
    /\ c2s' = [c2s EXCEPT ![c] = @ \o <<[bytes |-> Joined(creq[c])]>>]
    /\ cpc' = [cpc EXCEPT ![c] = "waitRet"]
    /\ UNCHANGED <<spc, conn, backlog, srvClosed, s2c, creq, history>>

\* readx of ret; on 0 the length and the bytes follow, otherwise "Failed".
RecvRet(c) ==
    /\ cpc[c] = "waitRet" /\ s2c[c] # <<>>
    /\ cpc' = [cpc EXCEPT ![c] = IF Head(s2c[c]).ret = 0 THEN "waitReply" ELSE "failed"]
    /\ s2c' = [s2c EXCEPT ![c] = Tail(@)]
    /\ UNCHANGED <<spc, conn, backlog, srvClosed, c2s, creq, history>>

RecvReply(c) ==
    /\ cpc[c] = "waitReply" /\ Len(s2c[c]) >= 2
    /\ s2c' = [s2c EXCEPT ![c] = Tail(Tail(@))]
    /\ cpc' = [cpc EXCEPT ![c] = "printed"]
    /\ UNCHANGED <<spc, conn, backlog, srvClosed, c2s, creq, history>>

\* readx hits EOF (or a reset): the daemon side of the connection is closed
\* with nothing left to read; shell_command returns -1 without a message.
RecvEof(c) ==
    /\ cpc[c] \in {"waitRet", "waitReply"} /\ s2c[c] = <<>> /\ c \in srvClosed
    /\ cpc' = [cpc EXCEPT ![c] = "eof"]
    /\ UNCHANGED <<spc, conn, backlog, srvClosed, c2s, s2c, creq,
                   history>>

\* The shell_command process is killed (the user interrupts it) before it
\* has finished: its end of the connection closes.
Kill(c) ==
    /\ cpc[c] \in {"connected", "sending", "waitRet", "waitReply"}
    /\ cpc' = [cpc EXCEPT ![c] = "killed"]
    /\ UNCHANGED <<spc, conn, backlog, srvClosed, c2s, s2c, creq,
                   history>>

-----------------------------------------------------------------------------
(* The daemon: main's loops and execute()                                  *)

Init ==
    /\ spc = "accept" /\ conn = NoConn
    /\ backlog = <<>> /\ srvClosed = {}
    /\ c2s = [c \in Clients |-> <<>>] /\ s2c = [c \in Clients |-> <<>>]
    /\ cpc = [c \in Clients |-> "idle"] /\ creq = [c \in Clients |-> <<>>]
    /\ executed = {} /\ scanPast = FALSE /\ overflow = FALSE

\* The daemon closes its side of the current connection, close(s), and goes
\* back to accept().
CloseConn ==
    /\ srvClosed' = srvClosed \cup {conn}
    /\ spc' = "accept"

\* accept() returns the oldest pending connection.
Accept ==
    /\ spc = "accept" /\ backlog # <<>>
    /\ conn' = Head(backlog)
    /\ backlog' = Tail(backlog)
    /\ spc' = "read"
    /\ UNCHANGED <<srvClosed, c2s, s2c, clientVars, history>>

\* Seeded fault: EOF is noticed on the size only; the readx of the bytes of
\* a half-sent request waits for ever.
ReadEofSizeOnly ==
    /\ spc = "read" /\ cpc[conn] \in Exited /\ c2s[conn] = <<>>
    /\ CloseConn
    /\ UNCHANGED <<conn, backlog, c2s, s2c, clientVars, history>>

\* readx hits EOF, on the size ("failed to read size") or on the bytes of a
\* valid size ("failed to read command"): the client has exited with its
\* request unsent or half sent.
ReadEof ==
    /\ spc = "read" /\ cpc[conn] \in Exited
    /\ \/ c2s[conn] = <<>>
       \/ Len(c2s[conn]) = 1 /\ Head(c2s[conn]).len \in 1..(BUFFER_MAX - 1)
    /\ CloseConn
    /\ UNCHANGED <<conn, backlog, c2s, s2c, clientVars, history>>

\* buf after readx of len bytes and buf[count] = 0; stale gives the bytes
\* after the terminator, which are left as they were.
Loaded(b, len, bytes) ==
    [j \in Idx |-> IF j < len THEN bytes[j + 1] ELSE IF j = len THEN Nul ELSE b[j]]

\* What the tokenizer leaves: the buffer, the cursor, n, arg[], whether it
\* ends at the terminator ("lookup") or at TOKEN_MAX ("done"), and the last
\* index it read.
Scanned(b, c, k, as, stop, at) ==
    [buf |-> b, cmd |-> c, n |-> k, arg |-> as, stop |-> stop, reach |-> at]

\* The tokenizer's while (*cmd) from cursor c: a delimiter becomes NUL, the
\* next token starts after it, and cmd then advances once more; the n-th
\* delimiter with n == TOKEN_MAX ends it ("too many arguments").  The array
\* is the whole of what the loop may read: its end is taken as a NUL.
RECURSIVE Tokenize(_, _, _, _)
Tokenize(b, c, k, as) ==
    IF c >= BUFFER_MAX \/ b[c] = Nul THEN Scanned(b, c, k, as, "lookup", c)
    ELSE IF b[c] # Delim THEN Tokenize(b, c + 1, k, as)
    ELSE IF k + 1 = TOKEN_MAX
         THEN Scanned([b EXCEPT ![c] = Nul], c + 1, k + 1, Append(as, c + 1), "done", c)
         ELSE Tokenize([b EXCEPT ![c] = Nul], c + 2, k + 1, Append(as, c + 1))

\* The cmds[] lookup on arg[0]: an unknown name or a wrong argument count
\* leaves ret = -1; otherwise the function runs and returns 0 or -1,
\* writing a reply of some length if it is one that replies.
Dispatch(b, k) ==
    LET name == StrAt(b, 0) IN
    IF name \in DOMAIN CmdArgs /\ k = CmdArgs[name]
    THEN {[ret |-> r, len |-> IF name \in Replying THEN l ELSE 0, ran |-> TRUE] :
            r \in {0, -1}, l \in 0..(REPLY_MAX - 1)}
    ELSE {[ret |-> -1, len |-> 0, ran |-> FALSE]}

\* done: strlcpy(cmd, reply, BUFFER_MAX) of a non-empty reply copies at
\* most BUFFER_MAX - 1 bytes, wherever cmd points; count = strlen(cmd).
Copied(len) == IF len < BUFFER_MAX THEN len ELSE BUFFER_MAX - 1

\* The framed answer: ret, then the length and the bytes.
Answer(r, len, framed) ==
    <<[ret |-> r]>> \o (IF framed THEN <<[len |-> len], [bytes |-> len]>> ELSE <<>>)

\* Seeded fault: the reply length and bytes are written whatever ret is.
WriteAnswerAlwaysFramed(r, len) ==
    IF cpc[conn] \in Exited
    THEN spc' = "dead" /\ UNCHANGED <<s2c, srvClosed>>
    ELSE /\ s2c' = [s2c EXCEPT ![conn] = @ \o Answer(r, len, TRUE)]
         /\ spc' = "read" /\ UNCHANGED srvClosed

\* Seeded fault: a failing command closes the connection without an answer.
WriteAnswerCloseOnError(r, len) ==
    IF r # 0 THEN CloseConn /\ UNCHANGED s2c
    ELSE IF cpc[conn] \in Exited
    THEN spc' = "dead" /\ UNCHANGED <<s2c, srvClosed>>
    ELSE /\ s2c' = [s2c EXCEPT ![conn] = @ \o Answer(r, len, TRUE)]
         /\ spc' = "read" /\ UNCHANGED srvClosed

\* writex of ret, then of the length and the bytes when ret is 0.  When the
\* client has exited, write() raises SIGPIPE, which main does not ignore:
\* the daemon dies.
WriteAnswer(r, len) ==
    IF cpc[conn] \in Exited
    THEN spc' = "dead" /\ UNCHANGED <<s2c, srvClosed>>
    ELSE /\ s2c' = [s2c EXCEPT ![conn] = @ \o Answer(r, len, r = 0)]
         /\ spc' = "read" /\ UNCHANGED srvClosed

\* One pass of main's request loop: readx of the size (one outside
\* 1..BUFFER_MAX-1 closes the connection), readx of the bytes, buf[count]
\* = 0, and execute(): tokenize, dispatch, copy the reply to cmd and write
\* the answer.  Nothing the clients do is read between the readx and the
\* first writex, so the pass is one step.
Serve ==
    /\ spc = "read" /\ c2s[conn] # <<>>
    /\ LET len == Head(c2s[conn]).len IN
       IF len < 1 \/ len >= BUFFER_MAX
       THEN /\ CloseConn
            /\ c2s' = [c2s EXCEPT ![conn] = Tail(@)]
            /\ UNCHANGED <<s2c, history>>
       ELSE /\ Len(c2s[conn]) >= 2
            /\ \E stale \in [(len + 1)..(BUFFER_MAX - 1) -> Bytes] :
               LET t == Tokenize(Loaded(stale, len, c2s[conn][2].bytes), 0, 0, <<0>>)
                   ds == IF t.stop = "lookup" THEN Dispatch(t.buf, t.n)
                         ELSE {[ret |-> -1, len |-> 0, ran |-> FALSE]}
               IN  \E d \in ds :
                     /\ executed' = IF d.ran THEN executed \cup {conn} ELSE executed
                     /\ scanPast' = (scanPast \/ t.reach > len)
                     /\ overflow' = (overflow \/ (d.len > 0 /\ t.cmd + Copied(d.len) >= BUFFER_MAX))
                     /\ WriteAnswer(d.ret, Copied(d.len))
            /\ c2s' = [c2s EXCEPT ![conn] = Tail(Tail(@))]
    /\ UNCHANGED <<conn, backlog, clientVars>>

\* init restarts the dead daemon: a new process with a new
\* socket; the connection it was serving and those still queued are reset.
Restart ==
    /\ spc = "dead"
    /\ spc' = "accept" /\ conn' = NoConn
    /\ srvClosed' = srvClosed \cup ToSet(backlog) \cup {conn}
    /\ backlog' = <<>>
    /\ UNCHANGED <<c2s, s2c, clientVars, history>>

-----------------------------------------------------------------------------

Client(c) ==
    \/ \E r \in Requests : Connect(c, r)
    \/ ConnectRefused(c) \/ SendTooLong(c) \/ SendReset(c) \/ SendLen(c) \/ SendBytes(c)
    \/ RecvRet(c) \/ RecvReply(c) \/ RecvEof(c) \/ Kill(c)

Daemon == Accept \/ ReadEof \/ Serve \/ Restart

Next == (\E c \in Clients : Client(c)) \/ Daemon

\* The daemon and every started client are scheduled by the kernel, every
\* blocking read they make is answered by the other side, EOF or a reset,
\* and init restarts the daemon when it dies.  Nothing forces a client to
\* start or to be killed.
Spec == Init /\ [][Next]_vars
             /\ WF_vars(Daemon)
             /\ \A c \in Clients :
                  WF_vars(SendTooLong(c) \/ SendReset(c) \/ SendLen(c) \/ SendBytes(c)
                          \/ RecvRet(c) \/ RecvReply(c) \/ RecvEof(c))

-----------------------------------------------------------------------------
(* Properties                                                              *)

\* Every shell_command that printed its answer read exactly what the daemon
\* wrote: the daemon sends the reply length and bytes only with ret 0,
\* which is exactly when the client reads them.
ReplyFramed == \A c \in Clients : cpc[c] \in {"printed", "failed"} => s2c[c] = <<>>

\* Every shell_command that has connected eventually exits: a connection
\* queued in the backlog is accepted or reset, a sent request is answered,
\* refused or reset, and a half-sent one is ended by EOF, even when another
\* client's death has killed the daemon and init has restarted it.
RequestAnswered ==
    \A c \in Clients : (cpc[c] \notin Exited \cup {"idle"}) ~> (cpc[c] \in Exited)

\* A shell_command that returns -1 silently (EOF or a reset connection) and
\* was not killed never had its command run: the daemon answers every
\* request it executes, and dies of SIGPIPE only on a client that is gone,
\* so a reset only ever hits requests still queued or unread.
ExecutedIsReported == \A c \in Clients : cpc[c] = "eof" => c \notin executed

\* The tokenizer stops at the terminator main writes at buf[count]: it never
\* reads a byte past the request.
ScanWithinRequest == ~scanPast

\* The reply strlcpy'd at the tokenizer's final position stays inside buf.
ReplyWithinBuffer == ~overflow

=============================================================================
