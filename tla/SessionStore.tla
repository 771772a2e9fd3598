----------------------------- MODULE SessionStore -----------------------------
(***************************************************************************)
(* The database of the tspan server (src/src/db.rs): the clients,          *)
(* api_tokens, records and exec_events tables and the operations that      *)
(* change them.  Every operation runs under the one pool mutex, inside one *)
(* SQLite transaction, so each is a single atomic action.  Time is the     *)
(* wall clock in seconds: Utc::now().timestamp() is not monotone, and      *)
(* StepClockBack is the adjustment that takes it back.                     *)
(*                                                                         *)
(* Abstracted: the command, alias and description texts and the            *)
(* created_at columns, which repeat start_time.  A command longer than     *)
(* MAX_COMMAND_LENGTH is refused before the transaction begins, which      *)
(* changes nothing: such calls are not enumerated.                         *)
(***************************************************************************)
EXTENDS Integers, Sequences

CONSTANTS
    Clients,        \* client ids that requests name
    Tokens,         \* API token values
    Pids,           \* process ids reported by clients
    NULL,           \* SQL NULL
    MaxId,          \* bound: AUTOINCREMENT values used
    MaxTime,        \* bound: the wall clock stays in 0..MaxTime
    MaxEvents,      \* bound: rows of exec_events
    ImportSpans,    \* <<start, duration>> pairs found in imported files
    ClockSteps      \* whether the wall clock may be set back

ASSUME StoreAssumption ==
    /\ MaxId \in Nat /\ MaxTime \in Nat /\ MaxEvents \in Nat
    /\ ClockSteps \in BOOLEAN
    /\ ImportSpans \subseteq Int \X Int
    /\ NULL \notin Clients \cup Pids \cup Int

VARIABLES
    records,        \* records table: id -> row, for the rows present
    seq,            \* sqlite_sequence: the largest id ever handed out
    lastSeen,       \* clients table: client id -> last_seen
    tokens,         \* api_tokens table: token -> client_id
    issued,         \* every token value ever generated
    execEvents,     \* exec_events table, in insertion order
    now             \* wall clock of the server's host

storeVars == <<records, seq, lastSeen, tokens, issued, execEvents, now>>

Ids == 1..MaxId

Status == {"active", "completed", "discarded"}

Times == 0..MaxTime

\* f with x mapped to y, x being in f's domain or not.
Put(f, x, y) == [z \in DOMAIN f \cup {x} |-> IF z = x THEN y ELSE f[z]]

\* f without x.
Drop(f, x) == [z \in DOMAIN f \ {x} |-> f[z]]

Row == [client : Clients, pid : Pids \cup {NULL}, start : Int,
        end : Int \cup {NULL}, duration : Int \cup {NULL}, status : Status]

StoreTypeOK ==
    /\ seq \in 0..MaxId
    /\ now \in Times
    /\ DOMAIN records \subseteq Ids
    /\ records \in [DOMAIN records -> Row]
    /\ DOMAIN lastSeen \subseteq Clients
    /\ lastSeen \in [DOMAIN lastSeen -> Int]
    /\ DOMAIN tokens \subseteq Tokens
    /\ tokens \in [DOMAIN tokens -> Clients]
    /\ issued \subseteq Tokens
    /\ execEvents \in Seq([client : Clients, pid : Pids \cup {NULL}])

StoreInit ==
    /\ records = << >>
    /\ seq = 0
    /\ lastSeen = << >>
    /\ tokens = << >>
    /\ issued = {}
    /\ execEvents = << >>
    /\ now = 0

-----------------------------------------------------------------------------
(* Helpers of several operations *)

\* Not in the code: the timestamp of the first row is kept on conflict.
EnsureClientKeepsFirst(c) ==
    lastSeen' = IF c \in DOMAIN lastSeen THEN lastSeen ELSE Put(lastSeen, c, now)

\* INSERT INTO clients ... ON CONFLICT(id) DO UPDATE SET last_seen.
EnsureClient(c) == lastSeen' = Put(lastSeen, c, now)

\* Not in the code: ids without AUTOINCREMENT, one more than the largest present.
NextIdByMax ==
    IF DOMAIN records = {} THEN 1
    ELSE 1 + CHOOSE m \in DOMAIN records : \A i \in DOMAIN records : i <= m

\* AUTOINCREMENT: one more than the largest id ever used.
NextId == seq + 1

Insert(row) ==
    /\ NextId \in Ids
    /\ records' = Put(records, NextId, row)
    /\ seq' = NextId

\* Not in the code: an UPDATE without status = 'active' in its WHERE.
IsPresent(id) == id \in DOMAIN records

IsActive(id) == id \in DOMAIN records /\ records[id].status = "active"

\* Not in the code: a status outside the list the column admits.
Ended(row, t) ==
    [row EXCEPT !.end = t, !.duration = t - row.start, !.status = "ended"]

Completed(row, t) ==
    [row EXCEPT !.end = t, !.duration = t - row.start, !.status = "completed"]

\* Not in the code: discarding stamps the end of the session as well.
DiscardedWithEnd(row) == [row EXCEPT !.end = now, !.status = "discarded"]

Discarded(row) == [row EXCEPT !.status = "discarded"]

-----------------------------------------------------------------------------
(* Operations *)

StartSession(c, p) ==
    /\ Insert([client |-> c, pid |-> p, start |-> now,
               end |-> NULL, duration |-> NULL, status |-> "active"])
    /\ EnsureClient(c)
    /\ UNCHANGED <<tokens, issued, execEvents, now>>

\* Not in the code: end_session without its client_id condition.
EndMatchesAnyClient(id, c) == IsActive(id)

\* The UPDATE of end_session matches a row; otherwise the call returns None
\* and changes nothing.
EndMatches(id, c) == IsActive(id) /\ records[id].client = c

CloseRow(id, row) ==
    /\ records' = [records EXCEPT ![id] = row]
    /\ UNCHANGED <<seq, lastSeen, tokens, issued, execEvents, now>>

EndSession(id, c) == EndMatches(id, c) /\ CloseRow(id, Completed(records[id], now))

EndSessionAdmin(id) == IsActive(id) /\ CloseRow(id, Completed(records[id], now))

DiscardSessionAdmin(id) == IsActive(id) /\ CloseRow(id, Discarded(records[id]))

DeleteRecord(id) ==
    /\ id \in DOMAIN records
    /\ records' = Drop(records, id)
    /\ UNCHANGED <<seq, lastSeen, tokens, issued, execEvents, now>>

\* Not in the code: the check refuses only records without a length.
ImportableEitherWay(start, end) == end # start

Importable(start, end) == end > start

\* The importer computes end_time from the file's duration.
ImportRecord(c, start, duration) ==
    /\ Importable(start, start + duration)
    /\ Insert([client |-> c, pid |-> NULL, start |-> start, end |-> start + duration,
               duration |-> duration, status |-> "completed"])
    /\ EnsureClient(c)
    /\ UNCHANGED <<tokens, issued, execEvents, now>>

\* Token values are random UUIDs: never generated twice.
AddApiToken(t, c) ==
    /\ t \notin issued
    /\ tokens' = Put(tokens, t, c)
    /\ issued' = issued \cup {t}
    /\ UNCHANGED <<records, seq, lastSeen, execEvents, now>>

DeleteApiToken(t) ==
    /\ t \in DOMAIN tokens
    /\ tokens' = Drop(tokens, t)
    /\ UNCHANGED <<records, seq, lastSeen, issued, execEvents, now>>

LogExecEvent(c, p) ==
    /\ Len(execEvents) < MaxEvents
    /\ execEvents' = Append(execEvents, [client |-> c, pid |-> p])
    /\ EnsureClient(c)
    /\ UNCHANGED <<records, seq, tokens, issued, now>>

Tick ==
    /\ now < MaxTime
    /\ now' = now + 1
    /\ UNCHANGED <<records, seq, lastSeen, tokens, issued, execEvents>>

StepClockBack ==
    /\ ClockSteps
    /\ now > 0
    /\ now' = now - 1
    /\ UNCHANGED <<records, seq, lastSeen, tokens, issued, execEvents>>

StoreNext ==
    \/ \E c \in Clients, p \in Pids \cup {NULL} : StartSession(c, p)
    \/ \E c \in Clients, p \in Pids \cup {NULL} : LogExecEvent(c, p)
    \/ \E id \in Ids, c \in Clients : EndSession(id, c)
    \/ \E id \in Ids : EndSessionAdmin(id)
    \/ \E id \in Ids : DiscardSessionAdmin(id)
    \/ \E id \in Ids : DeleteRecord(id)
    \/ \E c \in Clients, span \in ImportSpans : ImportRecord(c, span[1], span[2])
    \/ \E t \in Tokens, c \in Clients : AddApiToken(t, c)
    \/ \E t \in Tokens : DeleteApiToken(t)
    \/ Tick
    \/ StepClockBack

StoreSpec == StoreInit /\ [][StoreNext]_storeVars

-----------------------------------------------------------------------------
(* Properties *)

\* Exactly the completed rows have an end and a duration, and the two agree:
\* what the statistics read off duration_seconds is end_time - start_time.
RowsConsistent ==
    \A i \in DOMAIN records :
        /\ records[i].status = "completed" <=> records[i].end # NULL
        /\ records[i].end = NULL <=> records[i].duration = NULL
        /\ records[i].status = "completed" =>
              records[i].duration = records[i].end - records[i].start

\* The foreign key of records, which no DELETE on clients can break, and the
\* bound AUTOINCREMENT keeps over every row, deleted ones included.
RowsReferToClients ==
    \A i \in DOMAIN records : i <= seq /\ records[i].client \in DOMAIN lastSeen

\* While the clock only moves forward, a client has been seen at least as late
\* as the start of each of its sessions that did not come from an import.
SeenSinceStart ==
    ~ClockSteps =>
        \A i \in DOMAIN records :
            records[i].status # "completed" =>
                /\ records[i].start <= lastSeen[records[i].client]
                /\ lastSeen[records[i].client] <= now

\* While the clock only moves forward no completed session, imported or timed,
\* has a negative duration (the statistics sum them unclamped).
DurationsNonNegative ==
    ~ClockSteps =>
        \A i \in DOMAIN records :
            records[i].status = "completed" => records[i].duration >= 0

\* What holds of the tables between any two operations, tokens included: the
\* inductive invariant of the proofs.
StoreInv ==
    /\ RowsConsistent
    /\ RowsReferToClients
    /\ SeenSinceStart
    /\ DurationsNonNegative
    /\ DOMAIN tokens \subseteq issued

ClosedRowsKept ==
    \A i \in DOMAIN records :
        records[i].status # "active" /\ i \in DOMAIN records' =>
            records'[i] = records[i]

\* A closed session is never reopened, re-timed or handed to another client:
\* the next state holds the same row, or the row has been deleted.
ClosedIsFinal == [][ClosedRowsKept]_storeVars

StageOf(i) ==
    IF i > seq THEN "unborn"
    ELSE IF i \in DOMAIN records THEN records[i].status ELSE "deleted"

OwnerOf(i) == IF i \in DOMAIN records THEN records[i].client ELSE NULL

Lifecycle == INSTANCE SessionLifecycle WITH
    life <- [i \in Ids |-> StageOf(i)],
    owner <- [i \in Ids |-> OwnerOf(i)]

\* The store implements the life of a session: ids are handed out once and in
\* order even after deletions, owners never change, sessions close once.
ImplementsLifecycle == Lifecycle!LifecycleSpec

=============================================================================
