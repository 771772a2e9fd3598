------------------------------- MODULE WebAdmin --------------------------------
(***************************************************************************)
(* The admin page (src/src/server.rs:1254-1499) in one browser tab.  The   *)
(* server writes the sessions that are still active into the document; the *)
(* script asks for a page of the records, as it does again after a delete. *)
(* An end or discard that worked loads the document anew.  What is in      *)
(* flight then reaches the server or not, but nobody hears of it.          *)
(*                                                                         *)
(* Left out: the cards of clients and of tokens.                           *)
(***************************************************************************)
EXTENDS WebServer

CONSTANT AdminPer   \* records per page

ASSUME AdminAssumption == AdminPer \in Nat \ {0}

VARIABLES
    orphans,        \* sessions the document has buttons for
    adminPage,      \* adminRecState.page
    adminLists,     \* lists in flight, oldest first
    adminTable,     \* the list that is shown
    ops,            \* operations in flight
    told            \* what the page was told has been done

adminVars == <<orphans, adminPage, adminLists, adminTable, ops, told>>

OpNames == {"delete", "end", "discard"}

Waiting == NoListing    \* before the server has read the records

BlankAdminTable ==
    [error |-> FALSE, listing |-> NoListing, pg |-> FirstPage, cause |-> {}]

AdminTypeOK ==
    /\ orphans \subseteq Recs
    /\ adminPage.no >= 1
    /\ adminTable.cause \subseteq {"overtaken", "failed"}
    /\ ops \subseteq [op : OpNames, rec : Recs, stage : {"sent", "done", "gone"},
                      heard : BOOLEAN]
    /\ told \subseteq OpNames \X Recs

AdminCall(pg) == [pg |-> pg, passed |-> FALSE, served |-> FALSE, answer |-> Waiting]

Orphaned == {r \in Recs : status[r] = "active"}

\* Not opened yet.
AdminInit ==
    /\ orphans = {}
    /\ adminPage = FirstPage
    /\ adminLists = << >> /\ adminTable = BlankAdminTable
    /\ ops = {} /\ told = {}

Unheard(inFlight) == {[o EXCEPT !.heard = FALSE] : o \in {x \in inFlight : x.stage = "sent"}}

\* The document is loaded anew, and its script has sent its first call.
LoadAdmin(inFlight) ==
    /\ orphans' = Orphaned
    /\ adminPage' = FirstPage
    /\ adminLists' = <<AdminCall(FirstPage)>> /\ adminTable' = BlankAdminTable
    /\ ops' = Unheard(inFlight)

-----------------------------------------------------------------------------
(* The user *)

\* The rows on the screen, each with its button.
Rows == IF adminTable.error THEN {} ELSE adminTable.listing.rows

\* Not in the code: deleteRecord asks for the list without awaiting its answer.
ListedWhenSent(op, stage) ==
    adminLists' = IF op = "delete" /\ stage = "sent"
                    THEN Append(adminLists, AdminCall(adminPage)) ELSE adminLists

\* deleteRecord asks for the list of the same page once the server has done it.
ListedWhenDone(op, stage) ==
    adminLists' = IF op = "delete" /\ stage = "done"
                    THEN Append(adminLists, AdminCall(adminPage)) ELSE adminLists

AskOp(op, r) ==
    /\ Click
    /\ r \in (IF op = "delete" THEN Rows ELSE orphans)
    /\ ops' = ops \cup {[op |-> op, rec |-> r, stage |-> "sent", heard |-> TRUE]}
    /\ ListedWhenDone(op, "sent")
    /\ UNCHANGED <<status, orphans, adminPage, adminTable, told>>

GoAdminPage(p) ==
    /\ Click
    /\ p \in Buttons(adminTable.listing)
    /\ adminPage' = ChosenPage(p, adminTable, FALSE)
    /\ adminLists' = Append(adminLists, AdminCall(adminPage'))
    /\ UNCHANGED <<status, orphans, adminTable, ops, told>>

\* For the first time, or again.
OpenAdmin ==
    /\ Click
    /\ LoadAdmin(ops)
    /\ UNCHANGED <<status, told>>

-----------------------------------------------------------------------------
(* Answers *)

\* One transaction; a call nobody hears of may also have been cut off.
ServeOp(o) ==
    /\ o \in ops /\ o.stage = "sent"
    /\ LET served(stage) ==
            ops' = (ops \ {o}) \cup (IF o.heard THEN {[o EXCEPT !.stage = stage]} ELSE {})
       IN  \/ Applies(o.op, o.rec) /\ Apply(o.op, o.rec) /\ served("done")
           \/ ~Applies(o.op, o.rec) /\ UNCHANGED status /\ served("gone")
           \/ ~o.heard /\ UNCHANGED status /\ ops' = ops \ {o}
    /\ UNCHANGED <<clicks, faults, orphans, adminPage, adminLists, adminTable, told>>

\* A delete goes on to the list, the other two to a new document.
Deleted(o) ==
    /\ o \in ops /\ o.stage = "done" /\ o.op = "delete"
    /\ ops' = ops \ {o}
    /\ told' = told \cup {<<o.op, o.rec>>}
    /\ ListedWhenDone(o.op, o.stage)
    /\ UNCHANGED <<serverVars, orphans, adminPage, adminTable>>

Closed(o) ==
    /\ o \in ops /\ o.stage = "done" /\ o.op # "delete"
    /\ LoadAdmin(ops \ {o})
    /\ told' = told \cup {<<o.op, o.rec>>}
    /\ UNCHANGED serverVars

\* An alert and nothing else, for a record the operation does not apply to
\* (any more), for an error and for a call that is lost.
Alerted(o) ==
    /\ o \in ops /\ o.heard
    /\ \/ o.stage = "gone" /\ NoFault
       \/ o.stage # "gone" /\ Fault
    /\ ops' = ops \ {o}
    /\ UNCHANGED <<status, orphans, adminPage, adminLists, adminTable, told>>

ServeAdminList(k) ==
    /\ k \in DOMAIN adminLists /\ ~adminLists[k].served
    /\ adminLists' = [adminLists EXCEPT
            ![k].served = TRUE,
            ![k].answer = Listing([b \in Boxes |-> None], adminLists[k].pg.no, AdminPer)]
    /\ UNCHANGED <<serverVars, orphans, adminPage, adminTable, ops, told>>

\* loadAdminRecords: rows and pager, or an error in place of the rows, or nothing.
ReceiveAdminList(k) ==
    /\ k \in DOMAIN adminLists
    /\ LET c == adminLists[k] IN
        \/ /\ NoFault /\ c.served
           /\ adminTable' = [error |-> FALSE, listing |-> c.answer, pg |-> c.pg,
                             cause |-> {x \in {"overtaken"} : c.passed}]
        \/ /\ Fault
           /\ \E e \in {TRUE, adminTable.error} :
                adminTable' = [adminTable EXCEPT !.error = e, !.cause = @ \cup {"failed"}]
    /\ adminLists' = WithoutCall(adminLists, k)
    /\ UNCHANGED <<status, orphans, adminPage, ops, told>>

AdminAnswers ==
    \/ \E o \in ops : ServeOp(o)
    \/ \E o \in ops : Deleted(o)
    \/ \E o \in ops : Closed(o)
    \/ \E o \in ops : Alerted(o)
    \/ \E k \in DOMAIN adminLists : ServeAdminList(k)
    \/ \E k \in DOMAIN adminLists : ReceiveAdminList(k)

AdminNext ==
    \/ AdminAnswers
    \/ \E op \in OpNames, r \in Recs : AskOp(op, r)
    \/ \E p \in Buttons(adminTable.listing) : GoAdminPage(p)
    \/ OpenAdmin

-----------------------------------------------------------------------------
(* Properties *)

AdminSettled == ops = {} /\ adminLists = << >>

\* Once the admin page is at rest it no longer lists a record it was told is
\* deleted, nor offers to end a session it was told is closed, unless the list
\* it asked for since failed or was answered before an older one.
DoneNotOffered ==
    AdminSettled =>
        \A op \in OpNames, r \in Recs : <<op, r>> \in told =>
            IF op = "delete" THEN r \notin Rows \/ adminTable.cause # {} ELSE r \notin orphans

=============================================================================
