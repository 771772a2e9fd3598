------------------------------ MODULE TuiServer -------------------------------
(***************************************************************************)
(* The server as the administrator's terminal interface (tspan-tui) sees   *)
(* it: rows and tokens that others change as well, and the queries behind  *)
(* the endpoints the interface calls.                                      *)
(*                                                                         *)
(* Names of clients and aliases are numbers, sorted as the strings are; 0  *)
(* is no client in particular (__global__) and no alias.  Rows have been   *)
(* started in the order of their ids.                                      *)
(***************************************************************************)
EXTENDS Integers, FiniteSets, Sequences, Functions

CONSTANTS
    Clients, Aliases,   \* names
    Substring,          \* pairs of aliases, the first of which occurs in the second
    InitialTables,      \* the rows there may be at first
    MaxId,              \* bound: ids of rows
    MaxToken,           \* bound: tokens
    MaxChanges          \* bound: changes others make

GLOBAL == 0

NONE == 0

Row == [client : Clients, alias : Aliases \cup {NONE},
        status : {"active", "completed", "discarded"}]

Ids == 1..MaxId

ASSUME ServerAssumption ==
    /\ Clients \subseteq Nat \ {0} /\ Clients # {} /\ Aliases \subseteq Nat \ {0}
    /\ Substring \subseteq Aliases \X Aliases
    /\ \A table \in InitialTables : table \in Seq(Row) /\ Len(table) <= MaxId
    /\ {MaxId, MaxToken} \subseteq Nat \ {0} /\ MaxChanges \in Nat

VARIABLES
    rows,               \* id -> row
    nextId,
    tokens,             \* valid token -> its client
    lastToken,          \* the newest token ever made
    changes

serverVars == <<rows, nextId, tokens, lastToken, changes>>

ServerTypeOK ==
    /\ DOMAIN rows \subseteq 1..(nextId - 1) /\ rows \in [DOMAIN rows -> Row]
    /\ nextId \in 1..(MaxId + 1)
    /\ DOMAIN tokens \subseteq 1..lastToken /\ tokens \in [DOMAIN tokens -> Clients]
    /\ lastToken \in 1..MaxToken
    /\ changes \in 0..MaxChanges

ServerInit ==
    /\ rows \in InitialTables
    /\ nextId = Cardinality(DOMAIN rows) + 1
    /\ tokens = <<CHOOSE c \in Clients : TRUE>> /\ lastToken = 1
    /\ changes = 0

-----------------------------------------------------------------------------
(* Queries *)

OfClient(id, client) == client = GLOBAL \/ rows[id].client = client

HasAlias(id, alias) == alias = NONE \/ rows[id].alias = alias

\* The clause "alias LIKE '%...%'" of list_records_page.
LikeAlias(id, alias) == HasAlias(id, alias) \/ <<alias, rows[id].alias>> \in Substring

\* The i-th number of S has i - 1 smaller ones.
Sorted(S) ==
    [i \in 1..Cardinality(S) |-> CHOOSE n \in S : Cardinality({m \in S : m < n}) = i - 1]

NewestFirst(S) == [i \in 1..Cardinality(S) |-> Sorted(S)[Cardinality(S) + 1 - i]]

KnownClients == {rows[id].client : id \in DOMAIN rows}

AliasesOf(client) ==
    {rows[id].alias : id \in {i \in DOMAIN rows : OfClient(i, client) /\ rows[i].status = "completed"}}
        \ {NONE}

Listed(client, alias) ==
    {id \in DOMAIN rows : rows[id].status # "active" /\ OfClient(id, client) /\ LikeAlias(id, alias)}

\* LIMIT and OFFSET.
PageOf(S, page, size) ==
    LET all == NewestFirst(S)
        end == page * size
    IN  SubSeq(all, (page - 1) * size + 1, IF end < Len(all) THEN end ELSE Len(all))

Active == {id \in DOMAIN rows : rows[id].status = "active"}

-----------------------------------------------------------------------------
(* Changes *)

\* The update of the row only happens while it is active.
Closed(id, status) ==
    IF id \in Active THEN [rows EXCEPT ![id].status = status] ELSE rows

Deleted(id) == [i \in DOMAIN rows \ {id} |-> rows[i]]

NewToken(client) ==
    /\ lastToken < MaxToken
    /\ lastToken' = lastToken + 1
    /\ tokens' = [t \in DOMAIN tokens \cup {lastToken'} |-> IF t = lastToken' THEN client ELSE tokens[t]]

Revoked(t) == [u \in DOMAIN tokens \ {t} |-> tokens[u]]

NewRow ==
    /\ nextId <= MaxId
    /\ \E client \in Clients, alias \in Aliases \cup {NONE} :
        rows' = [i \in DOMAIN rows \cup {nextId} |->
                    IF i = nextId THEN [client |-> client, alias |-> alias, status |-> "active"]
                    ELSE rows[i]]
    /\ nextId' = nextId + 1
    /\ UNCHANGED <<tokens, lastToken>>

ChangeRow ==
    /\ \/ \E id \in DOMAIN rows : rows' = Deleted(id)
       \/ \E id \in Active, s \in {"completed", "discarded"} : rows' = Closed(id, s)
    /\ UNCHANGED <<nextId, tokens, lastToken>>

ChangeTokens ==
    /\ \/ \E client \in Clients : NewToken(client)
       \/ \E t \in DOMAIN tokens : tokens' = Revoked(t) /\ UNCHANGED lastToken
    /\ UNCHANGED <<rows, nextId>>

OthersChange ==
    /\ changes < MaxChanges
    /\ changes' = changes + 1
    /\ NewRow \/ ChangeRow \/ ChangeTokens

=============================================================================
