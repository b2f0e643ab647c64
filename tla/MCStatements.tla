---------------------------- MODULE MCStatements ----------------------------
(* A session's statements for TLC: those that load and call extensions     *)
(* (ExtensionLoading), the batches whose text the session reads itself     *)
(* (WriteRoutes), or those that name Delta tables (DeltaScan). The three   *)
(* share no state; a behaviour is of one of them.                          *)
EXTENDS MCExtensions, MCRoutes, DeltaScan

\* The guest's root and one mount below it; a table, and one inside it.
MCPreopens == << << <<"root">>, <<>> >>, << <<"tbl">>, <<"data">> >> >>
MCHosts == {<<"tbl">>, <<"tbl", "sub">>}
MCCommits == [t \in MCHosts |-> IF t = <<"tbl">> THEN 4 ELSE 3]
MCDirs == [d |-> <<"data">>, e |-> <<"data", "sub">>, n |-> <<"nope">>]

Call(dir) == <<"delta_scan", "(", Quote, dir, Quote, ")">>

\* Two tables in one statement, a directory without a table, one table.
MCScans == {<<"SELECT">> \o Call("d") \o Call("e"), <<"SELECT", "(", "delta_scan">> \o Call("n"), Call("d")}

StatementsInit == Init /\ RoutesInit /\ DeltaInit

LoadStep ==
  /\ RoutesInit /\ UNCHANGED routeVars
  /\ DeltaInit /\ UNCHANGED deltaVars
  /\ Next

RouteStep ==
  /\ Init /\ UNCHANGED vars
  /\ DeltaInit /\ UNCHANGED deltaVars
  /\ RoutesNext

DeltaStep ==
  /\ Init /\ UNCHANGED vars
  /\ RoutesInit /\ UNCHANGED routeVars
  /\ DeltaNext

StatementsSpec ==
  StatementsInit /\ [][LoadStep \/ RouteStep \/ DeltaStep]_<<vars, routeVars, deltaVars>>
=============================================================================
