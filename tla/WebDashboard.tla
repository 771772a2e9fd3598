----------------------------- MODULE WebDashboard ------------------------------
(***************************************************************************)
(* The script of the dashboard (src/src/server.rs:726-1242) in one browser *)
(* tab.  Panels are filled by asynchronous calls that read the filter      *)
(* boxes when they are sent and overwrite their panel when they are        *)
(* answered; nothing relates an answer to the call that was made last.     *)
(* Searching, changing colours and the first load send the call for the    *)
(* overview, and when it is answered those for all other panels.           *)
(*                                                                         *)
(* What a panel shows is the filter it was asked with; for the list of     *)
(* records also the page and when the server read it.  Between handlers    *)
(* the browser may run any other, but a handler up to its next await is    *)
(* one step.  The address bar is state that survives a reload.             *)
(*                                                                         *)
(* Abstracted: drawing, texts, colours, the depth of the command table     *)
(* (but not the call that a change of it sends).                           *)
(***************************************************************************)
EXTENDS WebServer

CONSTANTS
    Charts,         \* panels other than the overview and the list of records
    DepthChart,     \* the chart with a selector of its own
    Values,         \* box -> values a user may enter or choose
    DefaultPer,     \* records per page unless chosen otherwise
    Bookmarks       \* what the address bar may hold at first

Panels == Charts \cup {"overview"}

AllBoxes == Boxes \cup {"per"}

\* The boxes whose options come from the server.
Selects == {"client", "alias"}

ASSUME DashboardAssumption ==
    /\ "overview" \notin Charts /\ DepthChart \in Charts
    /\ "per" \notin Boxes /\ Selects \subseteq Boxes
    /\ {DefaultPer} \cup Values["per"] \subseteq Nat \ {0}
    /\ Bookmarks \subseteq [AllBoxes -> (UNION {Values[b] : b \in AllBoxes}) \cup {None}]
    /\ \A u \in Bookmarks : \A b \in AllBoxes : u[b] \in Values[b] \cup {None}

VARIABLES
    boot,           \* clients, aliases: lists awaited; ready; dead: a fetch was rejected
    options,        \* what the selects offer so far
    input, url,     \* what the boxes and the address bar hold
    page,           \* recState.page
    cards,          \* whether the three breakdown cards are hidden
    calls, shown,   \* panel -> calls in flight, oldest first; what it shows
    lists, table    \* the same for the list of records

dashVars == <<boot, options, input, url, page, cards, calls, shown, lists, table>>

FilterOf(i) == [b \in Boxes |-> i[b]]

PerOf(i) == IF i["per"] = None THEN DefaultPer ELSE i["per"]

\* Why a panel may disagree with the address bar.
Causes == {"unapplied", "overtaken", "failed"}

Nothing == << >>

Empty == [b \in AllBoxes |-> None]

BlankPanel == [ask |-> Nothing, cause |-> {}]

BlankTable == [error |-> FALSE, ask |-> Nothing, listing |-> NoListing,
               pg |-> FirstPage, cause |-> {}]

DashboardTypeOK ==
    /\ boot \in {"clients", "aliases", "ready", "dead"}
    /\ DOMAIN options = Selects
    /\ \A b \in AllBoxes : {input[b], url[b]} \subseteq Values[b] \cup {None}
    /\ page.no >= 1
    /\ \A p \in Panels : shown[p].cause \subseteq Causes
    /\ table.cause \subseteq Causes

NoOptions == [b \in Selects |-> {}]

CardsShown == [hidden |-> FALSE, unapplied |-> FALSE]

NoCalls == [p \in Panels |-> << >>]

Blank == [p \in Panels |-> BlankPanel]

DashboardInit ==
    /\ url \in Bookmarks
    /\ boot = "clients" /\ options = NoOptions
    /\ input = Empty /\ page = FirstPage /\ cards = CardsShown
    /\ calls = NoCalls /\ shown = Blank
    /\ lists = << >> /\ table = BlankTable

-----------------------------------------------------------------------------
(* Calls *)

\* buildParams reads the boxes i; u is the address bar.
PanelCall(i, u) == [ask |-> FilterOf(i), unapplied |-> i # u, passed |-> FALSE]

\* Not in the code: the other panels are asked for what the overview was.
RestCallOfLoad(c) == [PanelCall(input, url) EXCEPT !.ask = c.ask]

\* The call for another panel once call c for the overview is answered.
RestCall(c) == PanelCall(input, url)

ListAsk == [filter |-> FilterOf(input), per |-> PerOf(input)]

ListCall(pg) ==
    [ask |-> ListAsk, pg |-> pg,
     unapplied |-> input # url, passed |-> FALSE, answer |-> Nothing]

CausesOf(c) ==
    {x \in {"unapplied"} : c.unapplied} \cup {x \in {"overtaken"} : c.passed}

Failed(content) == [content EXCEPT !.cause = @ \cup {"failed"}]

\* loadAll up to its first await, with boxes i and address bar u.
LoadAll(i, u) ==
    /\ cards' = [hidden |-> \E b \in Boxes : i[b] # None, unapplied |-> i # u]
    /\ shown' = [shown EXCEPT !["overview"] = BlankPanel]
    /\ calls' = [calls EXCEPT !["overview"] = Append(@, PanelCall(i, u))]

-----------------------------------------------------------------------------
(* Loading the document *)

\* Not in the code: the address bar is read before the options are there.
BootBoxesEarly(opts) ==
    [b \in AllBoxes |-> IF url[b] # None /\ b \notin Selects THEN url[b] ELSE input[b]]

\* readUrlFilters: a select without the option falls back to none.
BootBoxes(opts) ==
    [b \in AllBoxes |->
        IF url[b] = None THEN input[b]
        ELSE IF b \in Selects /\ url[b] \notin opts[b] THEN None ELSE url[b]]

\* The answer to loadClients or loadAliases, or an error that leaves the
\* select as it is; a rejected fetch ends the chain.
Fetched(b) ==
    \/ NoFault /\ options' = [options EXCEPT ![b] = Offered(b)]
    \/ Fault /\ UNCHANGED options

BootClients ==
    /\ boot = "clients"
    /\ Fetched("client")
    /\ boot' = "aliases"
    /\ UNCHANGED <<status, input, url, page, cards, calls, shown, lists, table>>

BootAliases ==
    /\ boot = "aliases"
    /\ Fetched("alias")
    /\ boot' = "ready"
    /\ input' = BootBoxes(options')
    /\ LoadAll(input', url)
    /\ UNCHANGED <<status, url, page, lists, table>>

BootDies ==
    /\ boot \in {"clients", "aliases"}
    /\ Fault
    /\ boot' = "dead"
    /\ UNCHANGED <<status, options, input, url, page, cards, calls, shown, lists, table>>

-----------------------------------------------------------------------------
(* The user *)

Edit(b, v) ==
    /\ Click
    /\ v \in (IF b \in Selects THEN options[b] ELSE Values[b]) \cup {None}
    /\ input' = [input EXCEPT ![b] = v]
    /\ input' # input
    /\ UNCHANGED <<status, boot, options, url, page, cards, calls, shown, lists, table>>

\* Not in the code: a search stays on the page the last list was on.
SearchedPageKept == page

SearchedPage == FirstPage

\* applyFilters, possible before the document has finished loading.
Search ==
    /\ Click
    /\ page' = SearchedPage
    /\ url' = input
    /\ LoadAll(input, input)
    /\ UNCHANGED <<status, boot, options, input, lists, table>>

\* changeColorScheme.
Recolour ==
    /\ Click
    /\ LoadAll(input, url)
    /\ UNCHANGED <<status, boot, options, input, url, page, lists, table>>

ChangeDepth ==
    /\ Click
    /\ calls' = [calls EXCEPT ![DepthChart] = Append(@, PanelCall(input, url))]
    /\ UNCHANGED <<status, boot, options, input, url, page, cards, shown, lists, table>>

\* goPage, by a button of the pager that is shown, which an error leaves there.
GoPage(p) ==
    /\ Click
    /\ p \in Buttons(table.listing)
    /\ page' = ChosenPage(p, table, table.ask # ListAsk \/ input # url)
    /\ lists' = Append(lists, ListCall(page'))
    /\ UNCHANGED <<status, boot, options, input, url, cards, calls, shown, table>>

ReloadDashboard ==
    /\ Click
    /\ boot' = "clients" /\ options' = NoOptions
    /\ input' = Empty /\ page' = FirstPage /\ cards' = CardsShown
    /\ calls' = NoCalls /\ shown' = Blank
    /\ lists' = << >> /\ table' = BlankTable
    /\ UNCHANGED <<status, url>>

-----------------------------------------------------------------------------
(* Answers *)

\* loadStats: it writes the overview, or an error of either of its two fetches
\* leaves it blank or in part wrong; either way the other calls follow.
AnswerOverview(k) ==
    /\ k \in DOMAIN calls["overview"]
    /\ LET c == calls["overview"][k] IN
        /\ \/ /\ NoFault
              /\ shown' = [shown EXCEPT !["overview"] = [ask |-> c.ask, cause |-> CausesOf(c)]]
           \/ /\ Fault
              /\ shown' = [shown EXCEPT !["overview"] = Failed(@)]
        /\ calls' = [p \in Panels |->
                        IF p = "overview" THEN WithoutCall(calls[p], k)
                        ELSE Append(calls[p], RestCall(c))]
        /\ lists' = Append(lists, ListCall(page))
    /\ UNCHANGED <<status, boot, options, input, url, page, cards, table>>

Passed(q) == [j \in DOMAIN q |-> Late(q[j])]

\* One of the two fetches is rejected: loadAll ends there, and what is still in
\* flight for the other panels will be out of date.
OverviewRejected(k) ==
    /\ k \in DOMAIN calls["overview"]
    /\ Fault
    /\ calls' = [p \in Panels |->
                    IF p = "overview" THEN WithoutCall(calls[p], k) ELSE Passed(calls[p])]
    /\ lists' = Passed(lists)
    /\ shown' = [p \in Panels |-> Failed(shown[p])]
    /\ table' = Failed(table)
    /\ UNCHANGED <<status, boot, options, input, url, page, cards>>

\* An error, or a rejected fetch, leaves what the panel showed.
AnswerChart(p, k) ==
    /\ k \in DOMAIN calls[p]
    /\ calls' = [calls EXCEPT ![p] = WithoutCall(@, k)]
    /\ LET c == calls[p][k] IN
        \/ NoFault /\ shown' = [shown EXCEPT ![p] = [ask |-> c.ask, cause |-> CausesOf(c)]]
        \/ Fault /\ shown' = [shown EXCEPT ![p] = Failed(@)]
    /\ UNCHANGED <<status, boot, options, input, url, page, cards, lists, table>>

ServeList(k) ==
    /\ k \in DOMAIN lists /\ lists[k].answer = Nothing
    /\ lists' = [lists EXCEPT
                    ![k].answer = Listing(lists[k].ask.filter, lists[k].pg.no, lists[k].ask.per)]
    /\ UNCHANGED <<serverVars, boot, options, input, url, page, cards, calls, shown, table>>

\* Not in the code: a list asked for beyond its last page is asked for its
\* last page again.
ListedAgain(c, k) ==
    IF c.answer.page > c.answer.pages
    THEN lists' = Append(WithoutCall(lists, k),
                         [c EXCEPT !.pg.no = IF c.answer.pages > 1 THEN c.answer.pages ELSE 1,
                                   !.answer = Nothing])
    ELSE lists' = WithoutCall(lists, k)

\* What follows the answer to a list.
Listed(c, k) == lists' = WithoutCall(lists, k)

\* loadRecords: rows and pager, or an error in place of the rows, or nothing.
ReceiveList(k) ==
    /\ k \in DOMAIN lists
    /\ LET c == lists[k] IN
        \/ /\ NoFault /\ c.answer # Nothing
           /\ table' = [error |-> FALSE, ask |-> c.ask, listing |-> c.answer, pg |-> c.pg,
                        cause |-> CausesOf(c)]
           /\ Listed(c, k)
        \/ /\ Fault
           /\ \E e \in {TRUE, table.error} : table' = [Failed(table) EXCEPT !.error = e]
           /\ lists' = WithoutCall(lists, k)
    /\ UNCHANGED <<status, boot, options, input, url, page, cards, calls, shown>>

\* The browser and the server go on.
DashboardAnswers ==
    \/ BootClients
    \/ BootAliases
    \/ \E k \in DOMAIN calls["overview"] : AnswerOverview(k)
    \/ \E p \in Charts : \E k \in DOMAIN calls[p] : AnswerChart(p, k)
    \/ \E k \in DOMAIN lists : ServeList(k)
    \/ \E k \in DOMAIN lists : ReceiveList(k)

DashboardNext ==
    \/ DashboardAnswers
    \/ BootDies
    \/ \E k \in DOMAIN calls["overview"] : OverviewRejected(k)
    \/ \E b \in AllBoxes : \E v \in Values[b] \cup {None} : Edit(b, v)
    \/ Search
    \/ Recolour
    \/ ChangeDepth
    \/ \E p \in Buttons(table.listing) : GoPage(p)
    \/ ReloadDashboard

-----------------------------------------------------------------------------
(* Properties *)

NothingInFlight == lists = << >> /\ \A p \in Panels : calls[p] = << >>

Settled == boot = "ready" /\ NothingInFlight

\* The panels of a page at rest agree with each other and with the address
\* bar: each shows the filter of the last search, the list its page size, and
\* the breakdowns are hidden when there is a filter.  Where one does not, a
\* call for it failed, was answered after a later one, or was sent while the
\* boxes held something that had not been searched for.
PanelsExplained ==
    Settled =>
        /\ \A p \in Panels : shown[p].ask = FilterOf(url) \/ shown[p].cause # {}
        /\ table.ask = [filter |-> FilterOf(url), per |-> PerOf(url)] \/ table.cause # {}
        /\ cards.hidden = (\E b \in Boxes : url[b] # None) \/ cards.unapplied

\* A reload restores the filters of the address bar, but for a value that no
\* record has (any more), unless the list of options failed to load.
ReloadKeepsFilters ==
    [][boot = "aliases" /\ boot' = "ready" =>
        \A b \in AllBoxes :
            url[b] # None /\ input'[b] # url[b] =>
                /\ b \in Selects
                /\ \/ faults' > 0
                   \/ url[b] \notin Offered(b)]_<<serverVars, dashVars>>

=============================================================================
