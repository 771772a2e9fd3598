------------------------------- MODULE MCTuiApp -------------------------------
(* Two clients, two aliases the first of which occurs in the second. *)
EXTENDS TuiApp

MCSubstring == {<<1, 2>>}

MCRow(c, a, s) == [client |-> c, alias |-> a, status |-> s]

MCTables == {<<MCRow(1, 1, "completed"), MCRow(2, 2, "completed")>>}

MCOneEach == {<<MCRow(1, 1, "completed"), MCRow(2, 2, "completed")>>}

MCPins == {[client |-> 1, alias |-> 2]}

MCNoPins == {[client |-> GLOBAL, alias |-> NONE]}

=============================================================================
