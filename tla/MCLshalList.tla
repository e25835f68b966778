---------------------------- MODULE MCLshalList -----------------------------
(***************************************************************************)
(* A device for `lshal list`: two other processes p1 and p2.  p1 serves    *)
(* the binderized instances i1 and i2 (so its debug file is read once and  *)
(* then served from mCachedPidInfos); i3 reports no pid and no node.  p2   *)
(* holds references to i1 and i2 and is a passthrough client.  The         *)
(* passthrough client c1 has no bitness, c3 has one; the libraries report  *)
(* l1 twice (32 and 64 bit) and l2 without bitness, all three of the       *)
(* package pkgA.                                                           *)
(***************************************************************************)
EXTENDS LshalList

CONSTANTS p1, p2, i1, i2, i3, c1, c2, c3, l1, l2

MCPids       == {p1, p2}
MCInsts      == {i1, i2, i3}
MCInstOrder  == <<i1, i2, i3>>
MCServed     == (i1 :> p1) @@ (i2 :> p1) @@ (i3 :> NO_PID)
MCHasNode    == {i1, i2}
MCInitRefs   == (i1 :> {p2}) @@ (i2 :> {p2}) @@ (i3 :> {})
\* p1 has a waiting looper, a busy main looper and two threads that called
\* out of the process.
MCThreadsOf  == (p1 :> <<BS!ThreadLine(1, 1), BS!ThreadLine(0, 2), BS!ThreadLine(2, 0),
                         BS!ThreadLine(0, 0)>>)
                @@ (p2 :> <<>>)
MCChainFault == (i1 :> "none") @@ (i2 :> "shortHash") @@ (i3 :> "notInChain")
MCPtInsts    == {c1, c2, c3}
MCPtInfo     == (c1 :> [clients |-> {p2}, arch |-> {}])
                @@ (c2 :> [clients |-> {}, arch |-> {"32"}])
                @@ (c3 :> [clients |-> {p1, p2}, arch |-> {"64"}])
MCLibReports == << [name |-> l1, arch |-> {"32"}, clients |-> {}],
                   [name |-> l1, arch |-> {"64"}, clients |-> {p2}],
                   [name |-> l2, arch |-> {}, clients |-> {}] >>
MCPkgOf      == [n \in {i1, c1, c3, l1, l2} |-> "pkgA"] @@ (c2 :> "pkgB")
                @@ (i2 :> "pkgBase") @@ (i3 :> "pkgC")
\* i1 is an android.hardware HAL, i2 the IBase registration of p1's service,
\* i3 a name that is not an FqInstance; c1 is in a vendor package (so it
\* conflicts with i1 under the other transport), c3 in an unknown family
\* with no single server, so its partition cannot be guessed.
MCFamily     == (i1 :> "hardware") @@ (i2 :> "base") @@ (i3 :> "invalid")
                @@ (c1 :> "vendor") @@ (c2 :> "hardware") @@ (c3 :> "other")
MCBadVersion == {l2}
MCProcPartition == (p1 :> "vendor") @@ (p2 :> "system")
\* The default, a reordered pair without binderized services, and one table.
MCListTypeChoices == {<<"b", "c", "l">>, <<"l", "c">>, <<"b">>}
MCVintfTargets  == {"vendor", "system", "odm"}

=============================================================================
