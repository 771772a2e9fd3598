# Verification of tspan

TLA+ models of tspan, the TLC runs that check them on small instances, and TLAPS proofs of all
but their liveness properties. Paths below are relative to `src/`, the repository this project stands beside.

Contents: 1 the system · 2 modules and how they correspond to the code · 3 the runs ·
4 fairness · 5 proofs · 6 where code and documents disagree · 7 what is not modelled · 8 plan.

## 1. The system

tspan records how long programs run. A server keeps sessions in a SQLite file; clients announce the
start and the end of a session over HTTP; administrators look at statistics and repair what went
wrong.

| Component | State | Operations | Talks to |
|---|---|---|---|
| Database `src/db.rs` | tables `clients`, `api_tokens`, `records`, `exec_events`; `sqlite_sequence` | start, end, discard, delete, import, log an exec, add and delete tokens, listings | called under one pool mutex, one transaction each |
| HTTP API `src/server.rs`, `src/auth.rs` | none of its own | one handler per route: authenticate, then operate | database; clients and browsers |
| Server process and command line `src/main.rs` | the process; the initial token | start, `token-generate`, `token-revoke`, `import` | database file, also from a second process |
| Importer `src/importer.rs` | none | one transaction per file of a directory | database |
| Wrapper `tspanrun` | script variables | start a session, run the command, end it with up to three tries | API, through curl |
| eBPF programs `tspan-ebpf/ebpf/main.bpf.c`, `tspan-ebpf/src/ebpf.rs` | `active_pids`, saved exec contexts, ring buffer, channel | probes on exec and exit | daemon |
| eBPF daemon `tspan-ebpf/src` | tracker pid → session, retry file, the call in flight | main loop, export, replay, shutdown | API, through reqwest |
| Terminal interface `tspan-tui/src/app.rs` | filters, page, lists, selections, overlay | keys, refresh, actions | API, as the web user |
| Statistics `src/stats.rs` | none | totals, periods, streaks, distributions, heat map, calendar | database |
| Backup `src/server.rs:566`, `src/bin/backup.rs` | temporary files; a directory of backups | copy the database, download, rotate | database file; API |
| Web pages `src/server.rs:623-1499` | filter boxes, address bar, page numbers, what each panel shows, calls in flight | search, edit, page, colours, depth, reload; delete, end, discard | API, from the browser |
| Calendar `src/svg_calendar.rs` | none | days to cells, shared edges and corners, counts | statistics |
| Markdown `src/markdown.rs` | none | formatting | statistics |

### What is hard, and what must hold

*Database.* Every operation is atomic, so the difficulty is in sequences: ids must not be handed out
again after a deletion (`AUTOINCREMENT`), a closed session must stay as it is, only an active one may
be closed, columns must agree, and the wall clock is not monotone. Correct: a session lives the life
that `SessionLifecycle` describes.

*API.* A handler takes the pool mutex twice: to look its token up, and to operate. Between the two,
the token may be revoked, the session closed or deleted by another request, and the server may die.
Correct: rows change only on behalf of an owner in whose scope they are, of several requests racing
for one session one is told that it won, replies are true, and what fails leaves no trace.

*Wrapper.* Calls are lost before or after the server commits them, are served late, time out at the
script's end; the script is killed. Correct: a session belongs to one run of one command, spans it,
and is left running only for a reason that can be named.

*eBPF daemon.* Events are dropped when a queue is full, programs exec each other under one pid, pids
are used again, calls fail on either side of the commit, the daemon restarts and replays a file.
Correct: no session of a running program is ever ended, and one that is never ended has a cause in a
list that is complete.

*Backup.* The copy goes piece by piece while other processes write, and is read back after the mutex
is released; several may run; a download may stop half-way. Correct: a backup is one version of the
database, and rotation leaves a complete one.

*Terminal interface.* A refresh is eight and more requests between which others change the server;
two filters restrict each other; the user confirms an action on a line while lists are replaced.
Correct: what is confirmed is what was selected, filters keep their selection, and an undisturbed
refresh shows what the server holds.

*Web pages.* The dashboard fills ten panels by calls that overlap, read the filter boxes when they
are sent and overwrite their panel when they are answered; it waits for the overview before it reads
the boxes again for the others. Nothing in the script relates an answer to the call made last.
Correct: panels at rest show the filter of the address bar unless there is a cause from a short list,
no page of records is empty without one, what was deleted or closed is not offered again, a reload
restores the filters, and the calls come to rest.

*Kernel probes.* The two probes of an execve may run on different cpus and under different task ids,
and share scratch slots with other tasks. Correct: arguments are mixed up only in the two ways that
cannot be helped, saved contexts are freed, and the daemon sees no exit without a start.

*Calendar.* A week does not begin with the year; four cells share a corner. Correct: every day has
one cell, in the row of its weekday, and cells agree about their corner.

*Statistics.* Days are local, midnight may be skipped or come twice, durations may be negative after
a clock adjustment, loops compare neighbours. Correct: each figure is what an independent definition
says it is, and figures that describe the same time agree.

`PROJECT.json` lists each hazard at its line with the properties about it.

## 2. Modules

```
SessionLifecycle                      what is promised about one session
   ^ implemented by
SessionStore  <- MCSessionStore       the database
   ^                ^         ^
   |                |         +-- Stats          <- MCStats        statistics of its rows
   |                |         Calendar <- Stats                  calendars of daily data
SessionApi    <- MCSessionApi         the handlers, in two critical sections
   ^                |
TspanRun      <- MCTspanRun           wrappers, network, web user
                    |
EbpfKernel -- EbpfDaemon <- MCEbpfDaemon   kernel, daemon and the database
   ^ implemented by
EbpfProbes <- MCEbpfProbes                 the probes one by one, on several cpus
BackupServer <- BackupClient <- MCBackup   backup handler; client and rotation
TuiServer    <- TuiApp       <- MCTuiApp   queries and rows; the interface
WebServer <- WebDashboard, WebAdmin <- WebPages <- MCWeb   queries and rows; two pages; both
SessionStoreProofs <- RunProofs, EbpfDaemonProofs, StatsProofs   theorems: database; API and wrappers;
                                                                daemon; statistics and calendar
EbpfProbesProofs, BackupProofs, WebProofs, TuiProofs            theorems
```

`<-` is EXTENDS. Definitions keep the names of the functions they translate. An operator commented
"Not in the code" is a plausible bug, used in place of the definition that follows it to show that a
property can fail; none of them is part of a specification.

### SessionStore (`src/db.rs`)

Each table is a variable: `records` maps the ids present to rows, `seq` is the row of
`sqlite_sequence`, `lastSeen` the `clients` table, `tokens` and `execEvents` the others. `issued`
remembers the token values ever made, which are random UUIDs. `now` is `Utc::now().timestamp()`; it
moves with `Tick`, and back with `StepClockBack` where a run allows it. One action per function
that writes, with the condition of its `WHERE` as the guard: a call that matches no row changes
nothing. `start_session`, `import_record` and `log_exec_event` write the client row first and their
own row second, in one transaction: one action. Commands, aliases and descriptions are left out.

### SessionApi (`src/server.rs`, `src/auth.rs`, `src/main.rs`, `src/importer.rs`)

`conn[k]` is the exchange on connection `k`: `sent`, `authed` (between the two locks), `replied`.
`Authenticate` is the first critical section (`resolve_auth`, `check_api_auth`, `check_web_auth`, with the scope
check that follows it), the `Exec…` actions the second, `Fail` an error 500 in either, `CrashRestart`
the end of the process and its next start, which makes an initial token if there is none. The
importer and the command line write in between. A client id is the sequence of its parts between
dashes: `client_id_allowed` is then the prefix relation.

### TspanRun (`tspanrun`)

`pc[w]` is the place in the script, `sid[w]` is `SESSION_ID`, `attempt[w]` the loop variable. Start
and end are requests of `SessionApi` on a connection of their own, so that a request nobody waits for
any more can still be served. `BreakConnection` is a lost reply, or a request that is served later
or never. `ranFrom` and `ranTo` record when the command ran; `tidied` which sessions the web user
closed.

### EbpfKernel, EbpfDaemon (`tspan-ebpf`)

`image[p]` is what runs under a pid; an exec instance stands for one `execve`. The ring buffer, the
poll task and the channel are one bounded queue. The daemon's `dpc` is `replay`, `rewrite` (the file
is truncated and written back line by line), `loop` or `down`; `call` is the request in flight,
served by `SessionStore` in one step: one daemon makes one call at a time, and what may happen
between the two locks of a handler is `SessionApi`'s subject. `TRACKER_STALE_SECS` is a choice: with
`Evicts`, any set of entries may be stale when a session is inserted. `unseen` and `untracked` record
why a session will get no end.

### EbpfProbes (`tspan-ebpf/ebpf/main.bpf.c`)

In `EbpfKernel` an execve is one step and an event carries no arguments. `EbpfProbes` has the enter
and the exit probe as steps of their own (`Enter`; `Fails`, `Succeeds`, `SucceedsInThread`), on a cpu
each, with `exec_ctx_map` (`ctx`), the per-cpu `scratch_buf` (`scratch`, what was written to a slot
last) and the ring buffer. Task ids and process ids are apart: an execve by another thread
(`Threaded`) enters under the thread's id and leaves under the process's. A probe is one step, since
another does not preempt it on its cpu. `Attach` and `Detach` are the daemon's coming and going,
which also happens between two probes. `disturbed` remembers whose slot was entered by another on the
same cpu. `ImplementsKernel` is the refinement that justifies `EbpfKernel`: whatever the cpus and
interleavings, events are lost and ordered as there.

### BackupServer, BackupClient (`src/server.rs:566`, `src/bin/backup.rs`)

A file is a row of chunks, and a chunk is the version of the database it was copied from. The handler
checks integrity under the mutex, names its temporary file after the second, copies under the mutex,
and reads the file back and removes it without. SQLite starts a copy over when another process has
written (`StartOver`, external). The client names its file, asks, writes and rotates.

### TuiServer, TuiApp (`tspan-tui/src/app.rs`)

A refresh is the sequence of its requests (`pc`), each one step, with steps of others between them.
What has come in is in `draft` until the last request, as the locals of `refresh_all` are; the filter
lists and the page change at once, as the fields of `App` do. The first failure ends the refresh.
Keys are taken only between refreshes, because there is one thread.

### WebServer, WebDashboard, WebAdmin, WebPages (`src/server.rs:623-1499`)

A script's handler up to its next await is one step, as in a browser; calls in flight are sequences,
oldest first, and any of them may be answered next. `input` is what the filter boxes hold, `url` the
address bar, which outlives a reload. What a panel shows is the filter it was asked with (`ask`) and
why it may be out of date (`cause`): the call was sent while the boxes held something not searched
for, was answered after a later one, or failed. Panels other than the overview and the record list
behave alike, and are the set `Charts`. A list of records is served (`ServeList`) and received
(`ReceiveList`) in two steps, because others change the rows between. A fetch may be answered with an
error or be rejected; a rejected one in `loadStats`, `loadClients` or `loadAliases` ends the chain of
promises (`OverviewRejected`, `BootDies`). On the admin page `orphans` is what the server wrote into the document and
`told` what the page was told has been done; calls of a document that was left are not heard
(`heard`). `WebPages` puts a tab of each over one server, where commands end meanwhile.

### Calendar (`src/svg_calendar.rs`)

Functions of the daily data and today's date: the first and last day, rows and columns, which day is
where, colour classes, which edges and corners are filled, the counts, the month labels. A date is a
number of days; the civil calendar (chrono) is the usual formula. The counts that the code adds up cell
by cell are cardinalities, and `EveryDayHasACell` compares their sums with the active days.

### Stats (`src/stats.rs`)

Functions of the rows, the clock and a time zone, with properties that restate each figure without
following the code. Sums are folds over sets of rows (`SumFunctionOnSet` of the community modules); the
sorted durations and days of the code are given by rank (`SortedDuration`, `DaysSorted`: the k-th has
k - 1 before it), and the loop over the days is a recursive function (`Runs`). A zone is two offsets and
the instant at which one replaces the other: enough for a midnight that does not exist or comes twice,
and for a day that clocks pass over, for which `local_date_start` falls back to the midnight of UTC.
`ZonesAssumption` says that clocks are set forward to a full minute, as they were everywhere since 1970
but in Liberia in 1972: the code tries minutes and no seconds.

## 3. The runs

A run that ends in a counterexample has a property "violated" below; all others explore the whole
state space of their instance. The time is for two workers.

| Run | Instance | Shows |
|---|---|---|
| `store` | 2 clients, 3 ids, 1 token, clock 0..2, three import spans (valid, empty, backwards) | `StoreTypeOK`, `StoreInv`, `ClosedIsFinal`, and the refinement `ImplementsLifecycle` |
| `api` | 2 connections, 2 tokens, "default" and "default-alice", 2 ids, 17 requests, imports, command line, crashes; 1.65 million states, 3½ minutes | `ApiTypeOK`, `AdmittedInScope`, `RepliesDistinct`, `RepliesTruthful`, `WritesInScope`, `StoreSteps` |
| `wrapper` | 2 wrappers, one with `TSPANRUN_CLIENT` in its token's scope, 2 faults, kills, web user | `RunInv` (with `SessionIsOwn`, `EndedUnderTokensClient`), `OneRowEach` |
| `wrapper_alone` | 1 wrapper, 3 faults, kills, revocations, a clock, fairness | `RecordCoversRun`, `OrphansNeedFaults`, `WrapperEnds` |
| `ebpf` | 4 execs on 2 pids, one denied, one by a thread; queue of 2, 1 failed call, 1 restart, eviction, fairness; 2¼ minutes | `DaemonInv` (with `TrackerLeadsToOwn`), `EndedAfterExit`, `UnendedExplained`, `FailuresKept`, `ReplayEnds` |
| `ebpf_chain` | 2 execs on one pid, nothing fails | `EveryExitEndsSession` is violated |
| `probes` | 4 execs: two of one process, one of another whose id has the same slot, one of a thread of it; 2 cpus, 2 slots, a ring buffer of 2, probes attached twice; 650,000 states | `ProbesInv` (with `ArgumentsExplained` and `ContextsFreed`) and the refinement `ImplementsKernel` |
| `backup` | 2 runs of the client and a user's request, files of 2 chunks, 3 versions, 1 fault | `SnapshotReplies`, `FailsOnlyByFault`, `BackupInv` (with `TempsAccounted`), `SomeCompleteBackup` |
| `backup_same_second` | 2 requests in one second | `SnapshotReplies` is violated |
| `tui` | 2 clients, 2 aliases (one a substring of the other), 3 ids, pages of one line, 1 change by others at any point, 1 failing request, filters given as options | `TuiInv` (with `ConfirmNamesSelected`), `FiltersKept`, `OffersHaveRecords`, `ShowsServer` |
| `stats` | 3 sessions among seven imported ones at the edges of days, periods and buckets and those timed with a clock that is set back; 4 zones: one skips a midnight, one shows it twice, one goes back one minute after it, one leaves out a day; calendars of a leap year that begins on a Sunday, of the year after it and of one that begins on a Friday, with every colouring of four days around a corner | `PeriodsRight` (`DaysBegin`, `PeriodsHoldTheirDays`), `BreakdownsRight` (`BreakdownsAgree`, `HeatmapScaled`), `DistributionComplete`, `StreaksAreRuns`, `CalendarsRight` (`EveryDayHasACell`, `CornersAgree`, and that no day of the data is negative) |
| `web` | 3 records, one active, pages of one or two; a bookmark with an alias; 3 events, at most one of them a failed request and the others anything the user of either tab may do; 517,000 states, 2 minutes | `PanelsExplained`, `PagesOK` (with `EmptyPagesExplained`), `DoneNotOffered`, `ReloadKeepsFilters`, `Settles` |

Why these bounds: `store` needs three ids for a deletion in the middle followed by an insertion, and
two clients for a request in the wrong name. `api` needs two connections for a race and two tokens for
one that is revoked and another that goes on; a second id shows reuse after deletion; time stands
still there because no reply depends on it; it moves in `store`, and under the handlers in
`wrapper_alone`. `wrapper_alone` has as many faults as attempts,
which is where the retry loop stops helping. `wrapper` needs two wrappers for one to be given another's session. `ebpf`
has a chain, the reuse of a pid, a denied program and a second pid, a queue shorter than the events
there may be, and a fault and a restart to combine with each; `Crashes` leaves out the rewrite of the
retry file, where a crash does lose items (see the hazards). In `backup` a file of two chunks is the smallest that can be
torn, and with `Keep = 1` a rotation removes a file as soon as there are two. In `tui` one line per
page makes page numbers and selections go stale with the smallest tables. `stats` has three sessions:
the streak and the median need three to be wrong in the middle and at the end. Two of the zones are there for the
exceptions of `PeriodsHoldTheirDays`, a first day that begins twice or does not exist: without `BeginsTwice` or without
`DayLeftOut` the run fails. The
leap year in the calendar takes 54 columns, and the year after it ends today or has days later than today. `probes` needs two tasks in one
slot and two cpus to mix arguments up, a third call to refill the slot, and a second loading of the
probes while a call is under way. In `web` three events are what it takes to get two overlapping
searches of different filters, or a page button, a deletion and the list that answers them out of
order; a search alone already puts four calls in flight.

Deadlock is not checked anywhere: every model has a bound on ids, faults or changes at which it may
stop, and where something must go on a liveness property says so.

Symmetry is used where all properties are invariants or action properties: over tokens and
connections (`api`), wrappers (`wrapper`), clients (`stats`), requests of one kind (`backup`). The
runs with a liveness property use none.

What the bounds cut off: `MaxId`, `MaxEvents` and `MaxToken` disable the operations that would go
beyond them (so a request may stay unanswered, never be answered wrongly); `MaxTime` stops the clock;
`MaxFaults`, `MaxRestarts` and `MaxChanges` end the misfortune.

## 4. Fairness

`RunFairSpec`: the script goes from one line to the next, and an exchange *somebody waits for* is
served or its connection breaks (the kernel tells curl of a peer that is gone). Nothing is assumed of
the command, of the user, or of requests nobody waits for. curl is called without `--max-time`, so a
server that accepts and never answers would hang the wrapper; that assumption is the one the code
does not discharge itself.

`EbpfFairSpec`: the daemon's loop runs, and a call returns, because the server answers or reqwest
reports an error. Nothing is assumed of restarts, of processes, or of failures.

`Spec` of `WebPages`: a call is answered or fails, and a script runs on to its next await, in either
tab: the browser's event loop and the server's answer. Fairness of the answers of a tab as a
whole is enough, because every answer takes a call away or brings it nearer to its end, and users
act only finitely often within the bounds. Nothing is assumed of users, nor that a request ever fails.

All use weak fairness only; every action they name stays enabled until it is taken or another
one has moved the process on.

## 5. Proofs

The theorems hold for every value of the constants that satisfies the named assumptions of the
modules: `StoreAssumption` (bounds are naturals, `NULL` is no client, pid or number),
`ApiAssumption` (client ids are sequences, the credentials of the web user are no client or token),
`RunAssumption` (four connections per wrapper, a wrapper's pid is a pid), `KernelAssumption` and
`DaemonAssumption` (an exec instance has a pid, bounds are naturals, the mark for "no call" is no
call), `ProbesAssumption` (a thread's id is not a process's, every task id has a slot), `ServerAssumption`
and `ClientAssumption` of the backups, and those of the web pages: `WebServerAssumption` (ids of records are
naturals, and the records of an instance finitely many), `DashboardAssumption` and `AdminAssumption` (a page has at least one record, which
`src/server.rs:1511` clamps to 1..500; a bookmark has values its boxes may have); and those of the terminal
interface, `ServerAssumption` and `AppAssumption` (there is a client, the first table is made of rows, the options name clients and aliases that may exist,
a page has at least one line); `ZonesAssumption` and `InputsAssumption` of the statistics (offsets are integers, clocks are set
forward to a full minute; the data of a calendar are finitely many days with naturals, which `DaysCounted` shows of what it is given). The bounds of the models are constants there, so the theorems hold for any; `Clients`,
`Tokens`, `Wrappers`, `Execs`, `Cpus`, `Reqs`, `Runs`, `Charts`, `Boxes` and `Values` may have any number of elements. TLC evaluates every assumption on the instances of section 3.

The database and the API (`SessionStoreProofs`, first part of `RunProofs`):

* `StoreTypeCorrect` and `StoreInvariant`: `StoreSpec => []StoreTypeOK` and `StoreSpec => []StoreInv`.
  `StoreTypeOK /\ StoreInv` is inductive. The parts need each other: that a completed row's duration is not negative after
  its end needs `SeenSinceStart`, for an active row begins no later than now; that a new id is fresh needs
  the bound of `RowsReferToClients` (every row's id is at most `seq`); that a token is fresh needs
  `DOMAIN tokens \subseteq issued`. The proof goes through what an operation does to the rows,
  `InsertKeepsInv` and `CloseKeepsInv`, and has one step per action.
* `ClosedRowsAreFinal`: an operation appends a row, closes an active one, deletes one, or leaves the
  rows alone (`RecordsStep`), and none of these touches a closed row.
* `StoreImplementsLifecycle`: the refinement, `[StoreNext]_storeVars => [LifecycleNext]_lifecycleVars`
  under the invariant, by the same four cases.
* `ApiInvariant`: `ApiInv == StoreTypeOK /\ StoreInv /\ ApiTypeOK /\ AdmittedInScope` is inductive
  for the concurrent handlers. `AdmittedInScope` is the strengthening the handlers need: what the first
  lock established about the *owner* stays true whatever happens before the second, because it
  speaks of client ids and not of tokens, which may have been revoked.
* `ApiStoreSteps`: every step of the handlers, failures and crashes included, is a step of the
  store or none; so the store's theorems hold of the API.
* `ApiImplementsLifecycle`, `RunImplementsLifecycle`, `EbpfImplementsLifecycle`: the refinement and `ClosedIsFinal`
  hold of the concurrent handlers, of the wrappers over them, and of the daemon, under each one's invariant:
  every step is a step of the store or leaves it alone (`ApiStoreSteps`, `RunStepIsStoreStep`, `EbpfStepIsStoreStep`).
* `WritesStayInScope`: rows change only by an exchange entitled to their client.
* `ScopeIsTransitive`: a token in the scope of another opens no client that the other does not.

What the server replies (`RunProofs` as well):

* `RepliesStayDistinct`, `RepliesStayTruthful`, `ExchangesWellTyped`: `RepliesInv` adds to `ApiInv` that a
  session named by a reply has an id of at most `seq`, and that the reply is true. Without the bound a
  later start could hand out an id that a reply still carries after its row was deleted; with it the
  next id is above all of them. That two requests cannot both close a session follows from the truth
  of the first reply: the session it names is not active, and the second `Exec…` needs an active one.

Wrappers (`RunProofs`):

* `WrappersStaySeparate` (`RunInv`) and `CommandsRecordedOnce` (`OneRowEach`). What makes them inductive is
  what is known of requests nobody waits for any more. `LinesInOrder`: connection 0 carries the start and the
  others ends, each with the session the script holds. `RowsOwned`: no wrapper has a row before its start is
  served, and an id that was replied or taken over is at most `seq` and its row, while there is one, is the wrapper's.
  `ClientOfToken`: an exchange that was let in acts as the client the token has, or had until it was
  revoked, for a token value is never issued twice. The proof has a lemma per kind of step: the
  script goes on, sends or starts; rows untouched; a start served; a row closed.

* `RecordsCoverRuns` (`RecordCoversRun`). `TInv` says for every place in the script what the clock has been
  read for: the end is sent only when the command is over (`RunOver`), the start of the row a wrapper holds is no later than
  its command (`StartedBefore`), and a completed row that the web user did not close ended after its
  wrapper's command (`EndedAfter`). Both halves need that nothing recorded lies in the future, hence `~ClockSteps`.
* `OrphansAreFaults` (`OrphansNeedFaults`), for wrappers without `TSPANRUN_CLIENT`; with it the end never finds the
  session and no fault is needed (section 6). `Charged` is an account of faults: at the `n`-th attempt at least `n - 1` have
  happened, `n` once its reply is known or lost, if the session is still active and its token there; a start whose outcome the
  script does not know has cost one. A refusal without a fault is excluded, because
  the session is the wrapper's own, active, and its token's client's.

eBPF daemon (`EbpfDaemonProofs`):

* `TrackerLeads` (`DaemonInv`) and `EndsAreLate` (`EndedAfterExit`), whatever is dropped, evicted, replayed, lost or
  restarted. What protects a running program from an end that is meant for an earlier one under its pid is the order of the
  queue. `ExitsAreLate`: what runs under a pid whose exit is still queued has no row and no item
  yet, and its own event comes behind that exit. `EndsApart`: an end that waits in the file, in the replay or in flight names a
  session whose program is gone and which the tracker has left. `StartedOwn`: the session a served start made is known to nobody else until
  the reply is read.
* `FailedExecsKept` (`FailuresKept`) and `SessionsAccountedFor` (`UnendedExplained`), under `"rewrite" \notin Crashes`: a
  crash between the truncation of the retry file and its rewriting does lose items, so neither holds without that
  condition (`tspan-ebpf/src/buffer.rs:130`). `Replaying`: during a replay the file still has all that is unsettled.
  `RowsFollowed`: every active row has somebody who will see to its end: the tracker together with a
  running program or an exit behind it in the queue, an end in the file or in flight, a start about to return, or a recorded cause.

Kernel probes (`EbpfProbesProofs`):

* `ProbesStayCorrect` (`ProbesInv`): `CallsOwnContexts` is the strengthening. Two calls under way have
  different task ids, a saved context is that of the call under its id, and the slot still holds that call's
  arguments unless somebody disturbed it. So what the exit probe reads is its own, or one of the two
  exceptions `ArgumentsExplained` names.
* `ProbesImplementKernel`: every probe is a step of `EbpfKernel` or none, under that invariant, by one case per
  action; so what is checked of the daemon over `EbpfKernel` does not depend on an execve being one step.

Backups (`BackupProofs`), all but the last theorem for requests whose files are named in different seconds (`~SameSecond`;
without it `backup_same_second` is the counterexample):

* `RepliesAreSnapshots`, `BackupsDoNotFail`, `NoFileLeftBehind`, `BackupsWellFormed`. `NamesDiffer`: no two requests have a name in
  common. `FilesOwned`: a file belongs to the request that has its name, until that request has removed it.
  `OneVersion`: what has been copied is all of the version the copy is from, which was current at
  some time since the request, and what has been read is what has been copied. The read-back goes
  on without the mutex; `FilesOwned` is what it has instead.

* `LastBackupKept` (`SomeCompleteBackup`), for one run after another. `RInv`: a run that has saved its backup has it
  at the head of the listing (`SavedKept`), so it is never among the files after the `Keep` newest, and since names are
  not used twice (`RunsApart`, `DirOwned`) no other name removes it. The next run removes only after it has saved one of its own.

Web pages (`WebProofs`), for any panels, boxes, values, clicks and failures; `WebInv` is the invariant:

* `PanelsAgree` (`PanelsExplained`). The state at rest follows from the call sent last: `PanelsFollow` says of every panel that the newest
  of its calls, or what it shows when there is none, is for the address bar, or is marked as sent with unsearched
  boxes, overtaken or failed. The other panels need not be up to date while the overview is awaited.
* `PagesAreExplained` (`PagesOK`). `Offerable`: a page number in use was within the list that offered it, or is marked; `Right`: a
  list is the page it says, of as many records as it says. The proof found what three events could not show: in a longer run a page is
  also offered while the boxes hold a page size that was not searched for, and "Prev" below a list beyond its last page leads to
  another empty one. `ChosenPage` and `GoPage` now count both among the explanations.
* `DoneIsGone` (`DoneNotOffered`). A record that was reported deleted is deleted for good, and the list asked for last was
  read after that (`Gone`); `ToldRight` keeps this until the list is answered, or was overtaken.
* `FiltersSurviveReload` (`ReloadKeepsFilters`, an action property): `OptionsComplete` says that while the aliases are awaited the
  clients are all there, because the server's list of clients never grows on these pages.

Terminal interface (`TuiProofs`), for any clients, aliases, page size, changes by others and failures:

* `QuestionsNameSelected` (`TuiInv`). `OverlayWaits`, nothing lies over the screen while a refresh is under way, is what
  makes `ConfirmNamesSelected` inductive: `FetchTokens` replaces the lists, and would do so under a question. That a
  filter's list names nothing twice (`OptionList`) and that a selection is within its list go through `SortedAll`: the numbers
  of a finite set have one place each.
* `RefreshKeepsFilters` (`FiltersKept`): what is selected is in the new list, whatever was fetched (`SetFiltersSelects`).
* `OffersAreHeld` (`OffersHaveRecords`) and `ShownIsHeld` (`ShowsServer`), from `FetchedIsHeld`: while nobody has changed the server
  since the refresh began, each piece of the draft is what the server holds now, and the page is one of the
  pages there are, also after the page was found to be gone and asked for again.

Statistics and calendar (`StatsProofs`), for any records, clock, zones and data. The figures are functions of the state, so
each theorem is `StoreTypeOK /\ StoreInv => property`, under the database's invariant; the work is in the data. The provers cannot instantiate
the library's induction theorems, so induction is done with sets. `FinSet`: a set `G` of parts of a finite set `S` that holds
`{}` and grows by any element holds `S`. `Smallest`: among parts of a finite set that refute something one is least. On these rest
the laws of `SumFunctionOnSet` (`SumTakes`: any element may be taken out, whichever the fold's own
choice is; `SumUnion`, `SumGrows`, `SumByKey`: classes of a key have together the sum of all), of counting (`CountByKey`) and of
rank (`Ranks`: in a finite order every place is taken once).

* `PeriodsHoldDays` (`PeriodsRight`). `InstantsCases` and `DayStarts` compute `local_date_start` for any zone: the midnight, its first showing if there
  are two, or the end of the gap if there is none. `StartFacts` and `DayShown` relate it to the dates of
  instants; from there what a period leaves out or has in excess follows. The proof found the two exceptions that were missing: where clocks go
  back over midnight after the day began (`BeginsTwice`), the late part of the day before counts as well, and of a
  day that clocks pass over (`DayLeftOut`) nothing can be said.
* `BreakdownsAddUp` (`BreakdownsRight`): by `SumByKey`, with clients, cells of the heat map and dates as keys. The scale is the largest value
  a cell had on the way (`CellUpTo`); the value after a cell's last session is its total.
* `DistributionsComplete` (`DistributionComplete`): the edges leave no gap (`OneBucket`), so the buckets count by a key. The
  median is between two sorted values (`Middle`, also when their sum is negative and rounds up), and `AboutSorted` counts what is not above and not below them.
* `StreaksCorrect` (`StreaksAreRuns`). `LoopInv` is the invariant of the loop over the days: `current` is the length of the run that ends with the
  k-th day, there is a run as long as `Best`, and no run among the first k days is longer. `RunsUnfold` shows that the function its
  recursion describes exists, one day at a time.
* `CalendarsCorrect` (`CalendarsRight`). `YearLength`: a year has 365 or 366 days in every year there is, so `YearOf` finds one (`YearOfDate`) and months are at
  least four weeks apart (`MonthsApart`). `Columns` and `OnePlace` are the arithmetic of rows and columns: with the days skipped in
  the first week counted, every day has a column, and two days never share a cell (`CellDays`). Counts and labels follow by pairing cells
  off with days (`OneToOne`). `CornersHold`: each of the four cells asks the same three.

Every invariant and every action property the passing runs check is stated by a theorem. Only model-checked: liveness (`WrapperEnds`,
`ReplayEnds`, `Settles`), which is out of the prover's reach.

## 6. Where code and documents disagree

These have a run that ends in a counterexample:

1. `ebpf_chain`. A program that execs another keeps its pid; the tracker's entry is replaced, and the
   first program's session is never ended (`tspan-ebpf/src/tracker.rs:39`).
2. `backup_same_second`. Two requests in one second share a temporary file, which the later one
   writes while the earlier one reads it (`src/server.rs:590`): a reply mixes two versions.

Noted while modelling, without a run of their own:
* With `TSPANRUN_CLIENT` set, the wrapper starts a session for that client and ends it without naming
  one (`tspanrun:58`). The server looks for it under the token's own client and answers 404 three
  times; the wrapper exits and the session runs for ever. `EndedUnderTokensClient` states it: only
  sessions of the token's own client are ever ended by a wrapper.
* The terminal interface keeps the selected alias after its last record is gone; cycling the client
  filter then lands on a combination without records (`tspan-tui/src/app.rs:755`), which
  `README.md:98` excludes.
* An execve by a thread other than the main one is not reported (`main.bpf.c:140`), although
  `tspan-ebpf/README.md:7` speaks of all attempts. The exit of the program it replaces is; its context stays
  in `exec_ctx_map`.
* A task that the kernel moves to another cpu within execve is reported with the arguments of an
  earlier exec of that cpu, or none (`main.bpf.c:164`).
* On the dashboard, filters that were typed but not searched for go into page buttons, the depth
  selector and colour changes (`src/server.rs:1236`, `1046`, `740`), and an answer that is late replaces a newer one.
  `depth` is read from the address bar but never written to it.
* Deleting the last record of the last page leaves an empty page (`src/server.rs:1492`), without buttons when only one
  page remains.
* When the streak request fails the overview shows zeros (`src/server.rs:867`).
* Pages are cut from an order by `start_time` alone (`src/db.rs:380`): rows of one second have no order of their own.
* This year's calendar leaves out a day later than today, which the calendar of all time shows (`src/svg_calendar.rs:135`).
* `mean_interval` is the mean duration (`src/stats.rs:282`), the figure also called `mean_usage`.
* The record list matches an alias as a substring (`src/db.rs:350`), statistics and active sessions
  match it whole.
* `src/stats.rs:244` compares with `>`: a session that starts in the first second of a period is not
  in it, the row "All Time" included. `PeriodsHoldTheirDays` states exactly this exception.
* `src/stats.rs:77` calls a day without any local time impossible for real zones. Pacific/Apia had one, 30 December 2011: the fallback,
  the midnight of UTC, then lies within another local day (`DayLeftOut`).
* Where clocks are set back just after midnight, as in America/St_Johns until 2011, a period that begins with that day also counts the last hour of the
  day before, which comes after the first showing of its midnight (`BeginsTwice`; `src/stats.rs:73` takes the earlier one).
* `current_streak` is the run that ends with the last active day, however long ago.
* `tspan-ebpf/src/buffer.rs:95` starts a session again when only the reply was lost, and drops the id
  of the new one: it is never ended (`UnendedExplained` names it).

## 7. What is not modelled

* Drawing: coordinates, colours and digits of the calendar, Markdown, HTML, the terminal interface. No state.
* On the web pages: the cards of clients and of tokens, the toggle of past years, the colour scheme in
  local storage (but the calls a change of it sends are there).
* Texts: commands, aliases (but for the terminal interface's filters), descriptions; how arguments
  are cut off at the end of the scratch slot.
* The capacity of the kernel's hash maps, and calls of `execve` that the kernel restarts.
* Of the statistics: intervals between sessions, means, ratios, the tables by alias and by command, the monthly trend, filters,
  and i64 overflow, which needs more seconds than there are.
* The hourly WAL checkpoint and integrity check: they change no row.
* Restoring a backup: a manual procedure. Packaging, deployment and launcher files.
* Time and duration of calls: a timeout is a failure that may come at any time.

## 8. Plan

Done: the database and its refinement, the API, the wrapper, the daemon, the probes and the
refinement that ties them to the daemon's kernel, backups, the terminal interface, the web pages,
the calendar, most of the statistics; proofs about the database, the API and its replies, the
wrappers, the daemon, the probes and their refinement, the backup handler and the rotation, the web pages,
the terminal interface, the statistics and the calendar.

To extend: intervals and tables by alias, by command and by month in `Stats`, with the filters; the
keys of the calendar and breakdown views in `TuiApp`; the token card in `WebAdmin`.
