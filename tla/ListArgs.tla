------------------------------ MODULE ListArgs ------------------------------
(***************************************************************************)
(* `lshal list` option parsing (src/lshal/ListCommand.cpp): parseArgs      *)
(* drives getopt_long over the command line and calls the handler          *)
(* registerAllOptions gave each option; after the last option it rejects   *)
(* leftover words and --neat with --debug, fills in the default columns,   *)
(* swaps the pid columns for cmdline columns under -m, and defaults the    *)
(* HAL types.  main() stops on any status but OK.                          *)
(*                                                                         *)
(* A command line is a sequence of argv words [opt, arg, spelt].  opt     *)
(* names the handler the word selects (a short option and its long form   *)
(* select the same one), "?" an unknown option or a missing argument, and  *)
(* "nonopt" a word that is not an option: getopt_long permutes those to    *)
(* the end, so they are only seen after the loop.  spelt is "long"         *)
(* (--name or --name=arg) or "short" (-o, or -o=arg as usage() prints it). *)
(* The arg of --types is the list split(arg, ',') yields.  What            *)
(* getopt_long returns for the words, in order, is argv.                   *)
(***************************************************************************)
EXTENDS Naturals, Sequences, SequencesExt, Functions

CONSTANTS
    Tokens,     \* the argv words a command line is made of
    MaxArgs     \* the longest command line

NoArg == "none"                 \* optarg == nullptr

\* The column each column option pushes onto mSelectedColumns.
ColumnOf == ("i" :> "INTERFACE_NAME") @@ ("l" :> "RELEASED") @@ ("t" :> "TRANSPORT")
            @@ ("r" :> "ARCH") @@ ("s" :> "HASH") @@ ("p" :> "SERVER_PID")
            @@ ("a" :> "SERVER_ADDR") @@ ("c" :> "CLIENT_PIDS") @@ ("e" :> "THREADS")

\* kHalTypeMap of the --types handler.
HalTypeOf == ("binderized" :> "b") @@ ("b" :> "b") @@ ("passthrough_clients" :> "c")
             @@ ("c" :> "c") @@ ("passthrough_libs" :> "l") @@ ("l" :> "l")

\* procpartition::parsePartition.
PartitionOf(a) == IF a \in {"system", "vendor", "odm"} THEN a ELSE "unknown"

\* What getopt_long returns for one word.  getShortOptions writes every
\* short option without ':' or '::', so a short option never takes an
\* argument: in -o=arg, getopt_long returns o with optarg == nullptr, then
\* '=' is the next option character of the word, which no option has: '?'.
GetoptReturns(w) ==
    IF w.spelt = "short" /\ w.arg # NoArg
    THEN <<[opt |-> w.opt, arg |-> NoArg], [opt |-> "?", arg |-> NoArg]>>
    ELSE <<[opt |-> w.opt, arg |-> w.arg]>>

VARIABLES
    argv,       \* what getopt_long has still to return, [opt, arg] each
    nonOpt,     \* a non-option word was skipped (optind < argc after the loop)
    listTypes,  \* mListTypes
    columns,    \* mSelectedColumns
    cmdlines,   \* mEnableCmdlines
    debug,      \* mEmitDebugInfo
    vintf,      \* mVintf
    partition,  \* mVintfPartition
    neat,       \* mNeat
    sortCol,    \* mSortColumn: "none", "interface" or "pid"
    outPath,    \* mFileOutputPath: "" or the file given
    status,     \* "parsing" until parseArgs returns OK or USAGE
    line        \* the command line: argv's words

vars == <<argv, nonOpt, listTypes, columns, cmdlines, debug, vintf, partition, neat,
          sortCol, outPath, status, line>>


\* The ListCommand members as constructed (mVintfPartition, whose
\* declaration this tree's ListCommand.h lacks, as UNKNOWN), and parseArgs'
\* mListTypes.clear(); line is any command line of at most MaxArgs words.
Init ==
    /\ line \in BoundedSeq(Tokens, MaxArgs)
    /\ argv = FlattenSeq([k \in DOMAIN line |-> GetoptReturns(line[k])])
    /\ nonOpt = FALSE
    /\ listTypes = <<>> /\ columns = <<>>
    /\ cmdlines = FALSE /\ debug = FALSE /\ vintf = FALSE /\ neat = FALSE
    /\ partition = "unknown" /\ sortCol = "none" /\ outPath = ""
    /\ status = "parsing"

\* getopt_long returns the option o: its handler runs on the head of argv.
Returned(o) == status = "parsing" /\ argv # <<>> /\ Head(argv).opt = o

\* The handler's status: parsing goes on after OK and stops on anything else.
Result(ok) == /\ argv' = Tail(argv)
              /\ status' = IF ok THEN "parsing" ELSE "USAGE"

Options == <<nonOpt, listTypes, columns, cmdlines, debug, vintf, partition, neat, sortCol, outPath, line>>

\* -h / --help.
Help ==
    /\ Returned("h")
    /\ Result(FALSE)
    /\ UNCHANGED Options

\* -i -l -t -r -s -p -a -c -e and their long forms push their column.
Column ==
    /\ status = "parsing" /\ argv # <<>> /\ Head(argv).opt \in DOMAIN ColumnOf
    /\ columns' = Append(columns, ColumnOf[Head(argv).opt])
    /\ Result(TRUE)
    /\ UNCHANGED <<nonOpt, listTypes, cmdlines, debug, vintf, partition, neat, sortCol, outPath, line>>

\* -m / --cmdline.
Cmdline ==
    /\ Returned("m")
    /\ cmdlines' = TRUE
    /\ Result(TRUE)
    /\ UNCHANGED <<nonOpt, listTypes, columns, debug, vintf, partition, neat, sortCol, outPath, line>>

\* -d / --debug[=file].
Debug ==
    /\ Returned("d")
    /\ debug' = TRUE
    /\ outPath' = IF Head(argv).arg = NoArg THEN outPath ELSE Head(argv).arg
    /\ Result(TRUE)
    /\ UNCHANGED <<nonOpt, listTypes, columns, cmdlines, vintf, partition, neat, sortCol, line>>

\* Seeded fault: --init-vintf keeps an UNKNOWN partition.
InitVintfNoDefault ==
    /\ Returned("init-vintf")
    /\ vintf' = TRUE
    /\ Result(TRUE)
    /\ UNCHANGED <<nonOpt, listTypes, columns, cmdlines, debug, partition, neat, sortCol, outPath, line>>

\* --init-vintf: the partition defaults to VENDOR.  The option is declared
\* no_argument, so its `if (arg)` never sets mFileOutputPath.
InitVintf ==
    /\ Returned("init-vintf")
    /\ vintf' = TRUE
    /\ partition' = IF partition = "unknown" THEN "vendor" ELSE partition
    /\ Result(TRUE)
    /\ UNCHANGED <<nonOpt, listTypes, columns, cmdlines, debug, neat, sortCol, outPath, line>>

\* --init-vintf-partition=p: an unparsable p is stored as UNKNOWN, then USAGE.
InitVintfPartition ==
    /\ Returned("init-vintf-partition")
    /\ LET a == Head(argv).arg IN
       IF a = NoArg
       THEN Result(FALSE) /\ UNCHANGED partition
       ELSE partition' = PartitionOf(a) /\ Result(PartitionOf(a) # "unknown")
    /\ UNCHANGED <<nonOpt, listTypes, columns, cmdlines, debug, vintf, neat, sortCol, outPath, line>>

\* --sort=(i|interface) or (p|pid); anything else is USAGE.
Sort ==
    /\ Returned("sort")
    /\ LET a == Head(argv).arg IN
       CASE a \in {"i", "interface"} -> sortCol' = "interface" /\ Result(TRUE)
         [] a \in {"p", "pid"}       -> sortCol' = "pid" /\ Result(TRUE)
         [] OTHER                    -> UNCHANGED sortCol /\ Result(FALSE)
    /\ UNCHANGED <<nonOpt, listTypes, columns, cmdlines, debug, vintf, partition, neat, outPath, line>>

\* --neat.
Neat ==
    /\ Returned("neat")
    /\ neat' = TRUE
    /\ Result(TRUE)
    /\ UNCHANGED <<nonOpt, listTypes, columns, cmdlines, debug, vintf, partition, sortCol, outPath, line>>

\* Seeded fault: a type already listed is appended again.
AddTypeNoDedupe(acc, item) ==
    IF ~acc.ok \/ item = "" THEN acc
    ELSE IF item \notin DOMAIN HalTypeOf THEN [acc EXCEPT !.ok = FALSE]
    ELSE [acc EXCEPT !.types = Append(@, HalTypeOf[item])]

\* One item of the --types loop: empty items are skipped, an unknown one
\* returns USAGE (the types appended before it stay), a known one is
\* appended unless mListTypes has it already.
AddType(acc, item) ==
    IF ~acc.ok \/ item = "" THEN acc
    ELSE IF item \notin DOMAIN HalTypeOf THEN [acc EXCEPT !.ok = FALSE]
    ELSE IF HalTypeOf[item] \in ToSet(acc.types) THEN acc
    ELSE [acc EXCEPT !.types = Append(@, HalTypeOf[item])]

Types ==
    /\ Returned("types")
    /\ LET r == FoldLeft(AddType, [types |-> listTypes, ok |-> TRUE], Head(argv).arg) IN
       /\ listTypes' = r.types
       /\ Result(r.ok /\ r.types # <<>>)
    /\ UNCHANGED <<nonOpt, columns, cmdlines, debug, vintf, partition, neat, sortCol, outPath, line>>

\* getopt_long returns '?': no registered option matches, "unrecognized
\* option", USAGE.
Unrecognized ==
    /\ Returned("?")
    /\ Result(FALSE)
    /\ UNCHANGED Options

\* A word that is not an option: getopt_long permutes it past the options.
SkipNonOption ==
    /\ Returned("nonopt")
    /\ nonOpt' = TRUE
    /\ argv' = Tail(argv)
    /\ UNCHANGED <<listTypes, columns, cmdlines, debug, vintf, partition, neat, sortCol, outPath, status, line>>

DefaultColumns == <<"RELEASED", "INTERFACE_NAME", "THREADS", "SERVER_PID", "CLIENT_PIDS">>
DefaultTypes == <<"b", "c", "l">>

\* Under -m every pid column is replaced by its cmdline column.
CmdlineColumns(cs) ==
    [i \in DOMAIN cs |-> CASE cs[i] = "SERVER_PID"  -> "SERVER_CMD"
                           [] cs[i] = "CLIENT_PIDS" -> "CLIENT_CMDS"
                           [] OTHER                 -> cs[i]]

\* getopt_long returns -1: a leftover word or --neat with --debug is USAGE;
\* otherwise the default columns, the cmdline columns, the default types,
\* setSelectedColumns on every table, and OK.
Finish ==
    /\ status = "parsing" /\ argv = <<>>
    /\ IF nonOpt \/ (neat /\ debug)
       THEN status' = "USAGE" /\ UNCHANGED <<listTypes, columns>>
       ELSE LET cs == IF columns = <<>> THEN DefaultColumns ELSE columns IN
            /\ columns' = IF cmdlines THEN CmdlineColumns(cs) ELSE cs
            /\ listTypes' = IF listTypes = <<>> THEN DefaultTypes ELSE listTypes
            /\ status' = "OK"
    /\ UNCHANGED <<argv, nonOpt, cmdlines, debug, vintf, partition, neat, sortCol, outPath, line>>

Next ==
    \/ Help \/ Column \/ Cmdline \/ Debug \/ InitVintf \/ InitVintfPartition
    \/ Sort \/ Neat \/ Types \/ Unrecognized \/ SkipNonOption \/ Finish

\* main() goes on to fetch() only after OK, and returns USAGE otherwise;
\* either way parseArgs has returned and this module stops.
Spec == Init /\ [][Next]_vars

-----------------------------------------------------------------------------
(* Properties                                                              *)

\* When parseArgs returns OK, mListTypes is what fetch() and postprocess()
\* are written for: at least one of the three tables, each once, whatever
\* --types words, repeated or overlapping, the command line held.
ListTypesValid ==
    status = "OK" =>
        /\ listTypes # <<>>
        /\ ToSet(listTypes) \subseteq {"b", "c", "l"}
        /\ IsInjective(listTypes)

\* When parseArgs returns OK with --init-vintf, dumpVintf has a real
\* partition to write the manifest for, in whichever order
\* --init-vintf and --init-vintf-partition came.
VintfTargetKnown ==
    (status = "OK" /\ vintf) => partition \in {"system", "vendor", "odm"}

\* The registered options' reading of a single word: -h, an unknown option
\* and a non-option are rejected; a short option takes no argument (where
\* usage() prints "-d[=<arg>]", getShortOptions registers plain "d");
\* --sort, --init-vintf-partition and --types take only the values their
\* help lists.
WellFormed(t) ==
    CASE t.opt \in {"h", "?", "nonopt"} -> FALSE
      [] t.spelt = "short" -> t.arg = NoArg
      [] t.opt = "sort" -> t.arg \in {"i", "interface", "p", "pid"}
      [] t.opt = "init-vintf-partition" -> PartitionOf(t.arg) # "unknown"
      [] t.opt = "types" -> \A k \in DOMAIN t.arg : t.arg[k] \in {""} \cup DOMAIN HalTypeOf
      [] OTHER -> TRUE

\* A command line the registered options accept: every word well formed, not both
\* --neat and --debug, and every --types word at or after one that names
\* a type ("one or more HAL types" holds of the list built so far).
Accepted(l) ==
    /\ \A i \in DOMAIN l : WellFormed(l[i])
    /\ \A i \in DOMAIN l : l[i].opt = "types" =>
           \E j \in 1..i : l[j].opt = "types" /\ \E k \in DOMAIN l[j].arg : l[j].arg[k] # ""
    /\ ~(\E i, j \in DOMAIN l : l[i].opt = "neat" /\ l[j].opt = "d")

=============================================================================
