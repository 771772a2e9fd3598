------------------------------ MODULE WebServer -------------------------------
(***************************************************************************)
(* What the web pages of the tspan server (src/src/server.rs:623-1499) ask *)
(* of it and change: the list of records, page by page and filtered, the   *)
(* values the filters offer, and the three operations of the admin page.   *)
(* Each is one transaction under the pool mutex, one step here.            *)
(*                                                                         *)
(* Also the bounds of the instances: what users may still click, and how   *)
(* often a request may fail.                                               *)
(***************************************************************************)
EXTENDS Integers, Sequences, FiniteSets

CONSTANTS
    None,           \* an empty filter
    Recs,           \* ids of records; the larger one began later
    Boxes,          \* filters: client, alias, command
    Fields,         \* record -> filter -> the value the record has
    Part,           \* pairs of values: LIKE '%first%' holds of the second
    Initially,      \* record -> status
    MaxEvents,      \* clicks and failed requests together
    MaxFaults       \* failed requests

Statuses == {"active", "completed", "discarded", "deleted"}

ASSUME WebServerAssumption ==
    /\ Recs \subseteq Nat /\ IsFiniteSet(Recs)
    /\ "client" \in Boxes
    /\ Initially \in [Recs -> Statuses]
    /\ MaxEvents \in Nat /\ MaxFaults \in Nat

VARIABLES
    status,         \* record -> status
    clicks, faults

serverVars == <<status, clicks, faults>>

ServerTypeOK ==
    /\ status \in [Recs -> Statuses]
    /\ clicks \in 0..MaxEvents
    /\ faults \in 0..MaxFaults

ServerInit == status = Initially /\ clicks = 0 /\ faults = 0

Click ==
    /\ clicks + faults < MaxEvents
    /\ clicks' = clicks + 1 /\ UNCHANGED faults

Fault ==
    /\ clicks + faults < MaxEvents /\ faults < MaxFaults
    /\ faults' = faults + 1 /\ UNCHANGED clicks

NoFault == UNCHANGED <<clicks, faults>>

-----------------------------------------------------------------------------
(* Listings *)

\* The client is compared, alias and command are searched for.
Hit(r, b, v) ==
    IF b = "client" THEN Fields[r][b] = v ELSE <<v, Fields[r][b]>> \in Part

Selected(f) ==
    {r \in Recs : /\ status[r] \in {"completed", "discarded"}
                  /\ \A b \in Boxes : f[b] # None => Hit(r, b, f[b])}

\* The i-th record of S has i - 1 newer ones.
NewestFirst(S) ==
    [i \in 1..Cardinality(S) |-> CHOOSE r \in S : Cardinality({q \in S : q > r}) = i - 1]

\* A page of the records, newest first; beyond the last page it is empty.
Listing(f, page, per) ==
    LET all == NewestFirst(Selected(f))
    IN  [rows  |-> {all[i] : i \in DOMAIN all \cap ((page - 1) * per + 1)..(page * per)},
         total |-> Len(all), page |-> page, pages |-> (Len(all) + per - 1) \div per]

NoListing == [rows |-> {}, total |-> 0, page |-> 1, pages |-> 0]

\* What the selects offer: all clients of records, the aliases of completed ones.
Offered(b) ==
    {Fields[r][b] : r \in {q \in Recs :
        IF b = "client" THEN status[q] # "deleted" ELSE status[q] = "completed"}} \ {None}

\* The pages the buttons below a listing lead to: none when there is only one.
Buttons(l) ==
    {p \in (l.page - 3)..(l.page + 3) :
        l.pages > 1 /\ p >= 1 /\ p # l.page /\ (p <= l.pages \/ p = l.page - 1)}

-----------------------------------------------------------------------------
(* A page of the listing, as a user comes to look at it *)

\* offer: how many records the pager counted that offered this page; odd: it
\* stood below a list that was outdated, of something else or beyond its last
\* page, or the boxes held something that had not been searched for.
FirstPage == [no |-> 1, offer |-> 0, odd |-> FALSE]

ChosenPage(p, table, other) ==
    [no |-> p, offer |-> table.listing.total, odd |-> \/ other \/ table.cause # {}
             \/ table.listing.page > table.listing.pages]

\* An empty page of records that exist: there were more of them when the page
\* was offered, or the list itself is outdated.
EmptyExplained(table) ==
    ~table.error /\ table.listing.rows = {} /\ table.listing.total > 0 =>
        table.listing.total < table.pg.offer \/ table.pg.odd \/ table.cause # {}

\* A later call for the same panel has been answered: this one will be late.
Late(c) == [c EXCEPT !.passed = TRUE]

\* The calls without the k-th, which is answered before older ones.
WithoutCall(q, k) ==
    [j \in 1..(Len(q) - 1) |->
        IF j < k THEN Late(q[j]) ELSE q[j + 1]]

-----------------------------------------------------------------------------
(* Operations *)

Change(r, to) == status' = [status EXCEPT ![r] = to]

\* The condition of each, and what it makes of the record.
Applies(op, r) ==
    IF op = "delete" THEN status[r] # "deleted" ELSE status[r] = "active"

Apply(op, r) ==
    Change(r, CASE op = "delete" -> "deleted"
                [] op = "end" -> "completed"
                [] op = "discard" -> "discarded")

=============================================================================
