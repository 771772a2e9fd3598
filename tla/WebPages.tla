------------------------------- MODULE WebPages --------------------------------
(***************************************************************************)
(* The dashboard in one tab and the admin page in another, over one        *)
(* server; commands end meanwhile.                                         *)
(***************************************************************************)
EXTENDS WebDashboard, WebAdmin

webVars == <<serverVars, dashVars, adminVars>>

WebTypeOK == ServerTypeOK /\ DashboardTypeOK /\ AdminTypeOK

Init == ServerInit /\ DashboardInit /\ AdminInit

\* A command ends and its wrapper says so.
CommandEnds(r) ==
    /\ Click
    /\ status[r] = "active"
    /\ Change(r, "completed")
    /\ UNCHANGED <<dashVars, adminVars>>

\* The two pages of one browser.
Next ==
    \/ DashboardNext /\ UNCHANGED adminVars
    \/ AdminNext /\ UNCHANGED dashVars
    \/ \E r \in Recs : CommandEnds(r)

\* A call is answered or fails, and a script runs to its next await; nobody
\* need click, and no call need fail.
Spec ==
    /\ Init /\ [][Next]_webVars
    /\ WF_webVars(DashboardAnswers /\ UNCHANGED adminVars)
    /\ WF_webVars(AdminAnswers /\ UNCHANGED dashVars)

-----------------------------------------------------------------------------

\* When a page at rest shows no records although the server counted some, the
\* page was offered when there were more, or below a list that was outdated,
\* beyond its last page or of another filter or page size, or while the boxes
\* held something not searched for: searching and paging never disagree otherwise.
EmptyPagesExplained ==
    /\ Settled => EmptyExplained(table)
    /\ AdminSettled => EmptyExplained(adminTable)

PagesOK == WebTypeOK /\ EmptyPagesExplained

\* The pages come to rest: no chain of calls starts itself again.
Settles == []<>(boot \in {"ready", "dead"} /\ NothingInFlight /\ AdminSettled)

=============================================================================
