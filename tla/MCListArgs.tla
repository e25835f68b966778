----------------------------- MODULE MCListArgs -----------------------------
(***************************************************************************)
(* Command lines of up to MaxArgs words over one word of each handler and  *)
(* the values that take each handler down its other branches: repeated,   *)
(* overlapping, empty and unknown --types items, bad --sort and partition  *)
(* values, the pid columns -m rewrites, and -d with an argument spelt     *)
(* both ways: --debug=f and -d=f.                                          *)
(***************************************************************************)
EXTENDS ListArgs, TLC

\* A word spelt as a long option, and one spelt as a short option.
W(o, a) == [opt |-> o, arg |-> a, spelt |-> "long"]
S(o, a) == [opt |-> o, arg |-> a, spelt |-> "short"]

MCTokens ==
    { W("h", NoArg), W("?", NoArg), W("nonopt", NoArg),
      S("i", NoArg), S("p", NoArg), S("c", NoArg), S("m", NoArg),
      S("d", NoArg), S("d", "f"), W("d", "f"), W("neat", NoArg),
      W("init-vintf", NoArg), W("init-vintf-partition", "odm"),
      W("init-vintf-partition", "oem"),
      W("sort", "pid"), W("sort", "size"),
      W("types", <<"b", "binderized">>), W("types", <<"l", "">>),
      W("types", <<"">>), W("types", <<"c", "x">>) }

=============================================================================
