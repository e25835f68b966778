--------------------------- MODULE MCKeystoreExec ---------------------------
(***************************************************************************)
(* A keystore with a 5-byte buffer and room for two arguments.  Three      *)
(* command names stand for the three shapes of cmds[] that can run with    *)
(* TOKEN_MAX = 2: "k" takes one argument and writes no reply (the remove   *)
(* commands), "kk" takes none and replies (the list commands), "kkk" takes *)
(* one and replies (the get commands).  A command of two or more arguments *)
(* would meet the n == TOKEN_MAX test first and never run.  The run with   *)
(* two runs of shell_command,                                              *)
(* one able to wait in the backlog while the other is served, takes their *)
(* requests from MCRequests.                                               *)
(***************************************************************************)
EXTENDS KeystoreExec, TLC

MCCmdArgs == (<<"k">> :> 1) @@ (<<"k", "k">> :> 0) @@ (<<"k", "k", "k">> :> 1)
MCReplying == {<<"k", "k">>, <<"k", "k", "k">>}

\* Requests for the run with two clients, one for each way main and
\* execute() can take a request: the empty request (size 0), the remove
\* command, the list command, the get command ending in a delimiter (the
\* scan skips its NUL and reads a stale byte), two delimiters that reach
\* TOKEN_MAX (a third may follow in the stale bytes), and a text strlcat
\* either refuses (argv "kkkkt") or cuts to the unknown name "kkkk" (argv
\* "kkkk" and "").
MCRequests ==
    {<<>>, <<"k", "t", "k">>, <<"k", "k">>, <<"k", "k", "k", "t">>, <<"t", "k", "t">>,
     <<"k", "k", "k", "k", "t">>}

=============================================================================
