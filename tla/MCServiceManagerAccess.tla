---------------------- MODULE MCServiceManagerAccess ----------------------
(***************************************************************************)
(* Two pids, an app and a system context, two service names, one service  *)
(* context, and two policies: the second gives n2 a context and stops     *)
(* apps from finding t1.                                                   *)
(***************************************************************************)
EXTENDS ServiceManagerAccess, TLC

CONSTANTS app, sys, n1, n2, t1

MCServiceContexts == [v \in 1..2 |-> IF v = 1 THEN (n1 :> t1) @@ (n2 :> NoMatch)
                                               ELSE (n1 :> t1) @@ (n2 :> t1)]

MCAllow == [v \in 1..2 |->
              {<<sys, t1, "find">>, <<sys, t1, "add">>, <<sys, SmCtx, "list">>}
              \cup (IF v = 1 THEN {<<app, t1, "find">>} ELSE {})]

MCInitOwner == [p \in Pids |-> app]

\* Pids are interchangeable: every process starts as an app.
MCSymmetry == Permutations(Pids)

=============================================================================
