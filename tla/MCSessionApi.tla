----------------------------- MODULE MCSessionApi -----------------------------
(* SessionApi with the owner of the initial token and a client in its scope,
   whose own token opens no other client. *)
EXTENDS SessionApi, TLC

def == <<"default">>
alice == <<"default", "alice">>

MCClients == {def, alice}

Req(op, cred, client, arg) ==
    [op |-> op, cred |-> cred, client |-> client, arg |-> arg, pid |-> NULL]

\* Starts and ends with and without client_id; every request of the web user
\* about a session; exec events for a client out of scope of one of the tokens;
\* a request without credentials; a new token.
MCRequests ==
    {Req(op, t, c, arg) : <<op, arg>> \in {<<"start", NULL>>, <<"end", 1>>},
                          t \in Tokens, c \in {NULL, alice}}
    \cup {Req("event", t, def, NULL) : t \in Tokens}
    \cup {Req(op, Admin, NULL, 1) : op \in {"end", "discard", "delete"}}
    \cup {Req("revoke", Admin, NULL, t) : t \in Tokens}
    \cup {Req("discard", NULL, NULL, 1), Req("newToken", Admin, alice, NULL)}

MCImportSpans == {<<0, 1>>}

MCSymmetry == Permutations(Tokens) \cup Permutations(Conns)

=============================================================================
