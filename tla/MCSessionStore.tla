---------------------------- MODULE MCSessionStore ----------------------------
(* SessionStore with two clients, one token and three ids. *)
EXTENDS SessionStore

\* One span the importer accepts, one of zero length and one that runs backwards.
MCImportSpans == {<<0, 1>>, <<1, 0>>, <<2, -1>>}

=============================================================================
