--------------------------- MODULE MCApplication ---------------------------
(***************************************************************************)
(* A small instance of Application.  Command lines of up to four of the    *)
(* words that make a scan interesting, or two of any; the options file     *)
(* differs only where the command line is empty, as the two never meet.    *)
(***************************************************************************)
EXTENDS Application

\* -m, --ver, a, b, --
ScanWords == {Cluster(<<"m">>), Long({Version}, FALSE), Operand("a"), Operand("b"), EndOfOptions}
\* -mm, -mx, --help, --hide-menu-bar, --h, --help=x, --private-colormap
AllWords == ScanWords \cup
  {Cluster(<<"m", "m">>), Cluster(<<"m", "x">>), Long({Help}, FALSE), Long({HideMenuBar}, FALSE),
   Long({Help, HideMenuBar}, FALSE), Long({Help}, TRUE), Long({}, FALSE)}

UpTo(n, words) == UNION {[1..k -> words] : k \in 0..n}
SomeArgLists == UpTo(4, ScanWords) \cup UpTo(2, AllWords)

\* No misc element, no attribute, one, several, and values set_update_rate refuses.
SomeDocs == {<<>>, <<NoValue>>, <<30>>, <<30, NoValue, 40>>, <<0>>, <<30, 101>>}

MCInit == AppInit /\ (given = <<>> \/ options = NoFile)
MCSpec == MCInit /\ [][AppNext]_appVars /\ AppFairness
=============================================================================
