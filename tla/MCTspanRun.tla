------------------------------ MODULE MCTspanRun ------------------------------
(* TspanRun with one or two wrappers, all with the initial token; w2 may be told
   to start its session for another client. *)
EXTENDS TspanRun

CONSTANTS t1, w2

def == <<"default">>
alice == <<"default", "alice">>

MCClients == {def, alice}
MCConns == Wrappers \X (0..3)
MCTokenOf == [w \in Wrappers |-> t1]
NoClient == [w \in Wrappers |-> NULL]
OneNamesAlice == [w \in Wrappers |-> IF w = w2 THEN alice ELSE NULL]

=============================================================================
