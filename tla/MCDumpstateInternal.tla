------------------------- MODULE MCDumpstateInternal -------------------------
(***************************************************************************)
(* Reads return a line end, text without one, or text with one; a file     *)
(* gives up to three of them before EOF.  Four capabilities: the three     *)
(* DropRootUser's calls depend on and one standing for the rest of root's  *)
(* set.                                                                    *)
(***************************************************************************)
EXTENDS DumpstateInternal

MCChunks == {<<"\n">>, <<"x">>, <<"x", "\n">>}

MCCaps == {"SETUID", "SETGID", "SYSLOG", "OTHER"}

=============================================================================
