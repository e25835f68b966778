----------------------------- MODULE ListCycle -----------------------------
(***************************************************************************)
(* What one run of `lshal list` promises, without how it is done: the      *)
(* listing, then each listed instance in list() order (each visited once,  *)
(* ending with or without warnings, and every warning also raising         *)
(* DUMP_BINDERIZED_ERROR), then the passthrough tables, postprocessing and  *)
(* the dump, each phase able to add only its own status bits; and it ends. *)
(* LshalList implements this specification (the property                  *)
(* ImplementsListCycle there).                                             *)
(***************************************************************************)
EXTENDS Sequences

CONSTANTS
    Insts,      \* instance names hwservicemanager can list
    Order       \* the order list() returns them in

\* The errors handleError reports for one instance.
EntryErrors == {"TRANSACTION_ERROR", "NO_INTERFACE", "BAD_IMPL", "IO_ERROR"}
\* The bits fetchPassthrough and fetchAllLibraries may add.
TableErrors == {"DUMP_PASSTHROUGH_ERROR", "NO_PASSTHROUGH_MANAGER", "DUMP_ALL_LIBS_ERROR"}

VARIABLES
    phase,      \* "list", "entries", "tables", "post", "dump", "done"
    todo,       \* listed instances not yet visited, in order
    visited,    \* listed instances visited
    warned,     \* warned[i]: the errors reported for instance i
    status      \* the Status bits main will return

vars == <<phase, todo, visited, warned, status>>

Init ==
    /\ phase = "list" /\ todo = <<>> /\ visited = {}
    /\ warned = [i \in Insts |-> {}] /\ status = {}

\* The listing yields every instance in order, or is skipped or fails.
List ==
    /\ phase = "list"
    /\ \/ todo' = Order /\ phase' = "entries" /\ UNCHANGED status
       \/ /\ phase' = "tables" /\ UNCHANGED todo
          /\ status' \in {status, status \cup {"NO_BINDERIZED_MANAGER"},
                          status \cup {"DUMP_BINDERIZED_ERROR"}}
    /\ UNCHANGED <<visited, warned>>

\* The instance being visited is done with.
Leave == /\ visited' = visited \cup {Head(todo)}
         /\ todo' = Tail(todo)

\* A warning about the instance being visited.
Report(err) ==
    /\ warned' = [warned EXCEPT ![Head(todo)] = @ \cup {err}]
    /\ status' = status \cup {"DUMP_BINDERIZED_ERROR", err}

Visit ==
    /\ phase = "entries" /\ todo # <<>>
    /\ \/ \E err \in EntryErrors : Report(err) /\ UNCHANGED <<todo, visited>>
       \/ \E err \in EntryErrors : Report(err) /\ Leave
       \/ Leave /\ UNCHANGED <<warned, status>>
    /\ UNCHANGED phase

EntriesDone ==
    /\ phase = "entries" /\ todo = <<>>
    /\ phase' = "tables"
    /\ UNCHANGED <<todo, visited, warned, status>>

Tables ==
    /\ phase = "tables"
    /\ phase' \in {"tables", "post"}
    /\ \E b \in TableErrors : status' \in {status, status \cup {b}}
    /\ UNCHANGED <<todo, visited, warned>>

Post ==
    /\ phase = "post"
    /\ phase' \in {"post", "dump"}
    /\ UNCHANGED <<todo, visited, warned, status>>

Dump ==
    /\ phase = "dump"
    /\ phase' = "done"
    /\ status' \in {status, status \cup {"IO_ERROR"}}
    /\ UNCHANGED <<todo, visited, warned>>

Next == List \/ Visit \/ EntriesDone \/ Tables \/ Post \/ Dump

Spec == Init /\ [][Next]_vars /\ WF_vars(Next)

=============================================================================
