-------------------------------- MODULE TuiApp --------------------------------
(***************************************************************************)
(* The terminal interface for administrators (src/tspan-tui/src/app.rs):   *)
(* one thread that waits for a key or for ten seconds to pass.  A refresh  *)
(* asks the server, in several requests between which others change it,    *)
(* first for the values of the two filters and then for what is displayed; *)
(* the first request to fail ends it.                                      *)
(*                                                                         *)
(* Abstracted: drawing, notices, leaving the program, which view is on the *)
(* screen (the keys of every view can always be reached), and the views    *)
(* whose data is fetched (FetchStats) and only drawn.                      *)
(***************************************************************************)
EXTENDS TuiServer

CONSTANTS
    Pins,           \* what --client-id and --alias may name
    PageSize,       \* --page-size
    MaxFaults       \* bound: requests that fail

ASSUME AppAssumption ==
    PageSize \in Nat \ {0} /\ MaxFaults \in Nat
    /\ Pins \subseteq [client : Clients \cup {GLOBAL}, alias : Aliases \cup {NONE}]

VARIABLES
    pin,            \* the options of this start
    overlay,        \* what lies over the screen and takes the keys
    aliasesOf,      \* aliases_by_client
    clientIds, clientIndex,
    aliases, aliasIndex,
    records, total, page,
    active, shownTokens,
    sel,            \* the selected line of each table, or 0
    pc,             \* the request to make next, "idle" or "quit"
    cont,           \* what the refresh is for
    draft,          \* what it has fetched
    quiet,          \* history: nobody has changed anything since it began
    faults

filterVars == <<aliasesOf, clientIds, clientIndex, aliases, aliasIndex>>
shownVars == <<records, total, active, shownTokens>>
appVars == <<serverVars, pin, overlay, filterVars, shownVars, page, sel,
             pc, cont, draft, quiet, faults>>

Tables == {"records", "active", "tokens"}

NoOverlay == [kind |-> "none", id |-> 0]

Over(kind, id) == [kind |-> kind, id |-> id]

Actions == {"delete", "end", "discard", "revoke"}

EmptyDraft == [clients |-> {}, todo |-> {}, aliasesOf |-> << >>, records |-> << >>, total |-> 0,
               active |-> << >>, token |-> 0]

CurrentClient == clientIds[clientIndex]

CurrentAlias == aliases[aliasIndex]

LinesOf(table) ==
    CASE table = "records" -> records [] table = "active" -> active [] table = "tokens" -> shownTokens

ItemsOf(seq) == {seq[i] : i \in DOMAIN seq}

TuiTypeOK ==
    /\ ServerTypeOK
    /\ overlay \in [kind : {"none", "help", "form", "created"} \cup Actions, id : 0..MaxId \cup 0..MaxToken]
    /\ clientIds[1] = GLOBAL /\ ItemsOf(clientIds) \subseteq Clients \cup {GLOBAL}
    /\ aliases[1] = NONE /\ ItemsOf(aliases) \subseteq Aliases \cup {NONE}
    /\ clientIndex \in DOMAIN clientIds /\ aliasIndex \in DOMAIN aliases
    /\ IsInjective(clientIds) /\ IsInjective(aliases)
    /\ records \in Seq(Ids) /\ Len(records) <= PageSize
    /\ active \in Seq(Ids) /\ shownTokens \in Seq(1..MaxToken)
    /\ page \in 1..MaxId
    \* a table with lines may be without a selection, but never with one beyond them
    /\ sel \in [Tables -> Nat] /\ \A t \in Tables : sel[t] <= Len(LinesOf(t))
    /\ pc \in {"idle", "quit", "clients", "aliases", "stats", "records", "again", "active", "tokens"}
    /\ cont \in {"new", "start", "key"}
    /\ quiet \in BOOLEAN /\ faults \in 0..MaxFaults

AppInit ==
    /\ ServerInit
    /\ pin \in Pins
    /\ overlay = NoOverlay
    /\ aliasesOf = << >>
    /\ clientIds = <<GLOBAL>> /\ clientIndex = 1
    /\ aliases = <<NONE>> /\ aliasIndex = 1
    /\ records = << >> /\ total = 0 /\ page = 1
    /\ active = << >> /\ shownTokens = << >>
    /\ sel = [t \in Tables |-> 0]
    /\ pc = "clients" /\ cont = "new" /\ draft = EmptyDraft
    /\ quiet = TRUE /\ faults = 0

-----------------------------------------------------------------------------
(* A refresh *)

\* token is the one to be displayed at the end, or 0.
Begin(what, token) ==
    /\ pc' = "clients" /\ cont' = what
    /\ draft' = [EmptyDraft EXCEPT !.token = token]
    /\ quiet' = TRUE

\* The request fails: an error is shown, or the program does not start.
FetchFails ==
    /\ pc \notin {"idle", "quit"} /\ ~(pc = "aliases" /\ draft.todo = {})
    /\ faults < MaxFaults
    /\ faults' = faults + 1
    /\ pc' = IF cont \in {"new", "start"} THEN "quit" ELSE "idle"
    /\ cont' = "key" /\ draft' = EmptyDraft
    /\ UNCHANGED <<serverVars, pin, overlay, filterVars, shownVars, page, sel, quiet>>

Fetched(next) ==
    /\ pc' = next
    /\ UNCHANGED <<serverVars, pin, overlay, filterVars, shownVars, sel, cont, quiet, faults>>

FetchClients ==
    /\ pc = "clients"
    /\ draft' = [draft EXCEPT !.clients = KnownClients, !.todo = KnownClients]
    /\ UNCHANGED page
    /\ Fetched("aliases")

FetchAliases ==
    /\ pc = "aliases" /\ draft.todo # {}
    /\ LET c == Head(Sorted(draft.todo))
           known == draft.aliasesOf
       IN  draft' = [draft EXCEPT !.todo = @ \ {c},
                                  !.aliasesOf = [d \in DOMAIN known \cup {c} |->
                                                    IF d = c THEN AliasesOf(c) ELSE known[d]]]
    /\ UNCHANGED page
    /\ Fetched("aliases")

\* The selection refresh_filters is to keep.
Wanted == IF cont = "new" THEN pin ELSE [client |-> CurrentClient, alias |-> CurrentAlias]

\* Not in the code: every client is offered with every alias.
ClientHasAliasOrNot(of, client, alias) == TRUE

ClientHasAlias(of, client, alias) == alias = NONE \/ (client \in DOMAIN of /\ alias \in of[client])

AliasesOfClient(of, client) ==
    IF client = GLOBAL THEN UNION {of[c] : c \in DOMAIN of}
    ELSE IF client \in DOMAIN of THEN of[client] ELSE {}

\* Not in the code: the place of the selection in the list stays as it was.
PositionKept(list, value) == IF cont = "new" THEN 1
                             ELSE IF clientIndex <= Len(list) THEN clientIndex ELSE 1

Position(list, value) == CHOOSE i \in DOMAIN list : list[i] = value

\* The end of refresh_filters; App::new calls it once more, in refresh_all.
SetFilters ==
    /\ pc = "aliases" /\ draft.todo = {}
    /\ LET of == draft.aliasesOf
           c == Wanted.client
           a == Wanted.alias
           clients == {d \in draft.clients : ClientHasAlias(of, d, a)} \cup {c}
       IN
        /\ aliasesOf' = of
        /\ clientIds' = <<GLOBAL>> \o Sorted(clients \ {GLOBAL})
        /\ clientIndex' = Position(clientIds', c)
        /\ aliases' = <<NONE>> \o Sorted((AliasesOfClient(of, c) \cup {a}) \ {NONE})
        /\ aliasIndex' = Position(aliases', a)
    /\ IF cont = "new" THEN Begin("start", 0) ELSE pc' = "stats" /\ UNCHANGED <<cont, draft, quiet>>
    /\ UNCHANGED <<serverVars, pin, overlay, shownVars, page, sel, faults>>

\* The requests for the overview and the analytics.
FetchStats ==
    /\ pc = "stats"
    /\ UNCHANGED <<draft, page>>
    /\ Fetched("records")

Pages(n) == IF n = 0 THEN 1 ELSE (n + PageSize - 1) \div PageSize

WithRecords(p) ==
    [draft EXCEPT !.records = PageOf(Listed(CurrentClient, CurrentAlias), p, PageSize),
                  !.total = Cardinality(Listed(CurrentClient, CurrentAlias))]

\* Not in the code: the page number is corrected, the records are not.
AfterRecordsOnce(pages) == "active"

\* A page beyond the last one is fetched again, as the last one.
AfterRecords(pages) == IF page > pages THEN "again" ELSE "active"

FetchRecords ==
    /\ pc = "records"
    /\ draft' = WithRecords(page)
    /\ LET pages == Pages(draft'.total) IN
        /\ page' = IF page > pages THEN pages ELSE page
        /\ Fetched(AfterRecords(pages))

FetchAgain ==
    /\ pc = "again"
    /\ draft' = WithRecords(page)
    /\ UNCHANGED page
    /\ Fetched("active")

FetchActive ==
    /\ pc = "active"
    /\ draft' = [draft EXCEPT !.active =
            NewestFirst({id \in Active : OfClient(id, CurrentClient) /\ HasAlias(id, CurrentAlias)})]
    /\ UNCHANGED page
    /\ Fetched("tokens")

\* Not in the code: a selection stays although its list has become shorter.
ClampedNot(i, n) == IF i = 0 THEN 1 ELSE i

\* select_clamped, the first line where none was selected.
Clamped(i, n) == IF n = 0 THEN 0 ELSE IF i = 0 THEN 1 ELSE IF i < n THEN i ELSE n

\* The last request; then everything is displayed at once.
FetchTokens ==
    /\ pc = "tokens"
    /\ records' = draft.records /\ total' = draft.total
    /\ active' = draft.active
    /\ shownTokens' = NewestFirst({t \in DOMAIN tokens : CurrentClient \in {GLOBAL, tokens[t]}})
    /\ sel' = [t \in Tables |-> Clamped(sel[t], Len(LinesOf(t)'))]
    /\ overlay' = IF draft.token # 0 THEN Over("created", draft.token) ELSE overlay
    /\ pc' = "idle" /\ cont' = "key" /\ draft' = EmptyDraft
    /\ UNCHANGED <<serverVars, pin, filterVars, page, quiet, faults>>

Refreshing ==
    \/ FetchFails
    \/ FetchClients
    \/ FetchAliases
    \/ SetFilters
    \/ FetchStats
    \/ FetchRecords
    \/ FetchAgain
    \/ FetchActive
    \/ FetchTokens

-----------------------------------------------------------------------------
(* Keys *)

\* Not in the code: the ten seconds count while a question is open as well.
MayRefreshAnyTime == pc = "idle"

\* r, or ten seconds without a refresh; keys go to the overlay if there is one.
MayRefresh == pc = "idle" /\ overlay = NoOverlay

Refresh ==
    /\ MayRefresh
    /\ Begin("key", 0)
    /\ UNCHANGED <<serverVars, pin, overlay, filterVars, shownVars, page, sel, faults>>

KeyPressed == pc = "idle" /\ overlay = NoOverlay

\* Forward or backward, and round.
Neighbours(i, n) == {(i % n) + 1, ((i + n - 2) % n) + 1}

CycleClient ==
    /\ KeyPressed /\ Len(clientIds) > 1
    /\ clientIndex' \in Neighbours(clientIndex, Len(clientIds))
    /\ page' = 1
    /\ Begin("key", 0)
    /\ UNCHANGED <<serverVars, pin, overlay, aliasesOf, clientIds, aliases, aliasIndex,
                   shownVars, sel, faults>>

CycleAlias ==
    /\ KeyPressed /\ Len(aliases) > 1
    /\ aliasIndex' \in Neighbours(aliasIndex, Len(aliases))
    /\ page' = 1
    /\ Begin("key", 0)
    /\ UNCHANGED <<serverVars, pin, overlay, aliasesOf, clientIds, clientIndex, aliases,
                   shownVars, sel, faults>>

ChangePage ==
    /\ KeyPressed
    /\ page' \in {page - 1, page + 1} \cap (1..Pages(total))
    /\ sel' = [sel EXCEPT !["records"] = 0]
    /\ Begin("key", 0)
    /\ UNCHANGED <<serverVars, pin, overlay, filterVars, shownVars, faults>>

\* select_next, select_previous, select_first, select_last.
Moves(i, n) ==
    IF n = 0 THEN {0}
    ELSE {IF i = 0 \/ i = n THEN 1 ELSE i + 1, IF i <= 1 THEN n ELSE i - 1, 1, n}

Move ==
    /\ KeyPressed
    /\ \E t \in Tables : \E i \in Moves(sel[t], Len(LinesOf(t))) : sel' = [sel EXCEPT ![t] = i]
    /\ UNCHANGED <<serverVars, pin, overlay, filterVars, shownVars, page, pc, cont, draft, quiet, faults>>

\* What the keys of a table's view ask about its selected line.
Questions(table) ==
    CASE table = "records" -> {"delete"}
      [] table = "active"  -> {"end", "discard"}
      [] table = "tokens"  -> {"revoke"}

Overlay(o) ==
    /\ overlay' = o
    /\ UNCHANGED <<serverVars, pin, filterVars, shownVars, page, sel, pc, cont, draft, quiet, faults>>

OpenOverlay ==
    /\ KeyPressed
    /\ \/ Overlay(Over("help", 0))
       \/ Overlay(Over("form", 0))
       \/ \E t \in Tables : /\ sel[t] # 0
                           /\ \E kind \in Questions(t) : Overlay(Over(kind, LinesOf(t)[sel[t]]))

\* Escape, or what closes the overlay; other keys leave it.
CloseOverlay == pc = "idle" /\ overlay # NoOverlay /\ Overlay(NoOverlay)

\* The request of a confirmed action, as the server carries it out; ends and
\* discards of a session that is no longer active change nothing.
Act(kind, id) ==
    /\ rows' = CASE kind = "delete"  -> Deleted(id)
                 [] kind = "end"     -> Closed(id, "completed")
                 [] kind = "discard" -> Closed(id, "discarded")
                 [] kind = "revoke"  -> rows
    /\ tokens' = IF kind = "revoke" THEN Revoked(id) ELSE tokens
    /\ UNCHANGED lastToken

\* The answer comes and a refresh begins, or an error is shown.
Answered(token) ==
    \/ Begin("key", token) /\ UNCHANGED faults
    \/ faults < MaxFaults /\ faults' = faults + 1 /\ UNCHANGED <<pc, cont, draft, quiet>>

PerformAction ==
    /\ pc = "idle" /\ overlay.kind \in Actions
    /\ Act(overlay.kind, overlay.id)
    /\ Answered(0)
    /\ overlay' = NoOverlay
    /\ UNCHANGED <<nextId, changes, pin, filterVars, shownVars, page, sel>>

\* A form without a client stays open (and changes nothing).
CreateToken ==
    /\ pc = "idle" /\ overlay.kind = "form"
    /\ \E client \in Clients : NewToken(client)
    /\ Answered(lastToken')
    /\ overlay' = NoOverlay
    /\ UNCHANGED <<rows, nextId, changes, pin, filterVars, shownVars, page, sel>>

\* The request never reaches the server.
RequestFails ==
    /\ pc = "idle" /\ overlay.kind \in Actions \cup {"form"}
    /\ faults < MaxFaults
    /\ faults' = faults + 1
    /\ overlay' = NoOverlay
    /\ UNCHANGED <<serverVars, pin, filterVars, shownVars, page, sel, pc, cont, draft, quiet>>

Others ==
    /\ OthersChange
    /\ quiet' = FALSE
    /\ UNCHANGED <<pin, overlay, filterVars, shownVars, page, sel, pc, cont, draft, faults>>

Keys ==
    \/ Refresh
    \/ CycleClient
    \/ CycleAlias
    \/ ChangePage
    \/ Move
    \/ OpenOverlay
    \/ CloseOverlay
    \/ PerformAction
    \/ CreateToken
    \/ RequestFails

AppNext == Refreshing \/ Keys \/ Others

AppSpec == AppInit /\ [][AppNext]_appVars

-----------------------------------------------------------------------------
(* Properties *)

TableOf(kind) == CASE kind = "delete" -> "records" [] kind \in {"end", "discard"} -> "active"
                   [] kind = "revoke" -> "tokens"

\* While the interface asks for confirmation, what it asks about is the line
\* selected on the screen behind the question: no refresh, by key or by time,
\* replaces the lists or moves the selection under it.
ConfirmNamesSelected ==
    overlay.kind \in Actions =>
        LET lines == LinesOf(TableOf(overlay.kind))
            i == sel[TableOf(overlay.kind)]
        IN  i \in DOMAIN lines /\ lines[i] = overlay.id

TuiInv == TuiTypeOK /\ ConfirmNamesSelected

\* Rebuilding the two lists never changes what is selected in them: only the
\* keys that cycle a filter do.
FiltersKept ==
    [][pc = "aliases" /\ cont # "new" =>
            CurrentClient' = CurrentClient /\ CurrentAlias' = CurrentAlias]_appVars

HasRecords(client, alias) ==
    \E id \in DOMAIN rows : OfClient(id, client) /\ HasAlias(id, alias)

\* "The two filters interlock" (README.md:98): lists that were rebuilt while
\* nobody changed the server offer no client and no alias but the selected
\* ones that has nothing behind it in combination with the other filter.
OffersHaveRecords ==
    [][pc = "aliases" /\ pc' = "stats" /\ quiet =>
            /\ \A c \in ItemsOf(clientIds') \ {GLOBAL, CurrentClient} : HasRecords(c, CurrentAlias)
            /\ \A a \in ItemsOf(aliases') \ {NONE, CurrentAlias} : HasRecords(CurrentClient, a)]_appVars

\* A refresh in which nobody changes the server displays what the server
\* holds for the filters that are shown, though it took eight requests, and a
\* page that exists.
ShowsServer ==
    [][pc = "tokens" /\ pc' = "idle" /\ faults' = faults /\ quiet =>
            /\ records' = PageOf(Listed(CurrentClient, CurrentAlias), page, PageSize)
            /\ total' = Cardinality(Listed(CurrentClient, CurrentAlias))
            /\ page <= Pages(total')
            /\ ItemsOf(active') \subseteq Active]_appVars

=============================================================================
