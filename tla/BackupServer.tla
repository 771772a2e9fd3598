----------------------------- MODULE BackupServer -----------------------------
(***************************************************************************)
(* The backup handler of the tspan server (api_backup, src/src/server.rs). *)
(* It copies the database into a temporary file named after the current    *)
(* second, with SQLite's backup API and under the pool mutex; then, with   *)
(* the mutex released, it reads the file back and removes it.  Several     *)
(* requests run at once, while handlers and other processes (the command   *)
(* line on the same database) write.                                       *)
(*                                                                         *)
(* A database or file is a row of chunks; all that matters of a chunk is   *)
(* which version of the database it comes from.  A temporary file is       *)
(* identified by the request that created it.  Authentication is           *)
(* SessionApi's.                                                           *)
(***************************************************************************)
EXTENDS Integers, Sequences

CONSTANTS
    Reqs,           \* requests for a backup, each made at most once
    Chunks,         \* chunks of a database file
    NULL,
    MaxVersion,     \* bound: versions of the database
    MaxTime,        \* bound: the clock stays in 0..MaxTime
    MaxFaults,      \* bound: failed copies, dropped requests, crashes
    SameSecond      \* whether two requests may name their file in one second

ASSUME ServerAssumption ==
    /\ Chunks \in Nat \ {0} /\ MaxVersion \in Nat /\ MaxTime \in Nat /\ MaxFaults \in Nat
    /\ SameSecond \in BOOLEAN
    /\ NULL \notin Reqs \cup Int

VARIABLES
    version,        \* of the database
    lock,           \* the request that holds the pool mutex, or NULL
    temps,          \* name (a second) -> the temporary file under it
    content,        \* temporary file -> its chunks
    req,            \* the state of every request
    now, faults

serverVars == <<version, lock, temps, content, req, now, faults>>

Versions == 0..MaxVersion

Times == 0..MaxTime

Blank == [i \in 1..Chunks |-> NULL]

Phases == {"idle", "checking", "named", "copying", "copied", "reading", "done", "failed"}

ReqState ==
    [phase : Phases, name : Times \cup {NULL}, file : Reqs \cup {NULL},
     src : Versions \cup {NULL}, body : Seq(Versions \cup {NULL}), begun : Versions \cup {NULL}]

ServerTypeOK ==
    /\ version \in Versions
    /\ lock \in Reqs \cup {NULL}
    /\ DOMAIN temps \subseteq Times /\ temps \in [DOMAIN temps -> Reqs]
    /\ content \in [Reqs -> [1..Chunks -> Versions \cup {NULL}]]
    /\ req \in [Reqs -> ReqState]
    /\ now \in Times /\ faults \in 0..MaxFaults
    \* the mutex is held across steps by copies only
    /\ \A k \in Reqs : lock = k <=> req[k].phase = "copying"

ServerInit ==
    /\ version = 0 /\ lock = NULL /\ temps = << >> /\ now = 0 /\ faults = 0
    /\ content = [k \in Reqs |-> Blank]
    /\ req = [k \in Reqs |-> [phase |-> "idle", name |-> NULL, file |-> NULL, src |-> NULL,
                              body |-> << >>, begun |-> NULL]]

-----------------------------------------------------------------------------
(* The handler *)

Goto(k, phase) == req' = [req EXCEPT ![k].phase = phase]

Begin(k) ==
    /\ req[k].phase = "idle"
    /\ req' = [req EXCEPT ![k].phase = "checking", ![k].begun = version]
    /\ UNCHANGED <<version, lock, temps, content, now, faults>>

\* The quick integrity check holds the mutex; the name is made after it.
Check(k) ==
    /\ req[k].phase = "checking" /\ lock = NULL
    /\ SameSecond \/ \A j \in Reqs : req[j].name # now
    /\ req' = [req EXCEPT ![k].phase = "named", ![k].name = now]
    /\ UNCHANGED <<version, lock, temps, content, now, faults>>

\* Connection::open creates the file or opens the one that is there.
OpenTemp(k) ==
    /\ req[k].phase = "named" /\ lock = NULL
    /\ LET name == req[k].name
           file == IF name \in DOMAIN temps THEN temps[name] ELSE k
       IN
        /\ temps' = [s \in DOMAIN temps \cup {name} |-> IF s = name THEN file ELSE temps[s]]
        /\ req' = [req EXCEPT ![k].phase = "copying", ![k].file = file, ![k].src = version,
                              ![k].body = << >>]
    /\ lock' = k
    /\ UNCHANGED <<version, content, now, faults>>

\* One step of the copy; body is as long as what has been copied.  The last
\* step closes the file and releases the mutex.
CopyChunk(k) ==
    /\ req[k].phase = "copying"
    /\ LET n == Len(req[k].body) + 1 IN
        /\ content' = [content EXCEPT ![req[k].file][n] = req[k].src]
        /\ IF n < Chunks
           THEN req' = [req EXCEPT ![k].body = Append(@, NULL)] /\ UNCHANGED lock
           ELSE req' = [req EXCEPT ![k].body = << >>, ![k].phase = "copied"] /\ lock' = NULL
    /\ UNCHANGED <<version, temps, now, faults>>

\* tokio::fs::read opens the file, if it is there ...
OpenRead(k) ==
    /\ req[k].phase = "copied"
    /\ IF req[k].name \in DOMAIN temps
       THEN req' = [req EXCEPT ![k].phase = "reading", ![k].file = temps[req[k].name]]
       ELSE Goto(k, "failed")
    /\ UNCHANGED <<version, lock, temps, content, now, faults>>

\* ... and reads it piece by piece.
ReadChunk(k) ==
    /\ req[k].phase = "reading" /\ Len(req[k].body) < Chunks
    /\ req' = [req EXCEPT ![k].body = Append(@, content[req[k].file][Len(@) + 1])]
    /\ UNCHANGED <<version, lock, temps, content, now, faults>>

\* Not in the code: the temporary file is left behind, ...
RemovedTempsNone(k) == temps

\* ... or the whole of the temporary directory is cleared.
RemovedTempsAll(k) == << >>

RemovedTemps(k) == [s \in DOMAIN temps \ {req[k].name} |-> temps[s]]

\* remove_file, whatever file has the name now, and the reply.
RemoveTemp(k) ==
    /\ req[k].phase = "reading" /\ Len(req[k].body) = Chunks
    /\ temps' = RemovedTemps(k)
    /\ Goto(k, "done")
    /\ UNCHANGED <<version, lock, content, now, faults>>

-----------------------------------------------------------------------------
(* Writers of the database, faults *)

\* A handler, under the mutex.
HandlerWrites ==
    /\ version < MaxVersion /\ lock = NULL
    /\ version' = version + 1
    /\ UNCHANGED <<lock, temps, content, req, now, faults>>

\* Not in the code: a copy of the file, that goes on where it was.
GoOn(k) == req' = [req EXCEPT ![k].src = version + 1]

\* A copy in progress starts over when another process has written.
StartOver(k) == req' = [req EXCEPT ![k].src = version + 1, ![k].body = << >>]

OtherProcessWrites ==
    /\ version < MaxVersion
    /\ version' = version + 1
    /\ \/ lock = NULL /\ UNCHANGED req
       \/ lock # NULL /\ StartOver(lock)
    /\ UNCHANGED <<lock, temps, content, now, faults>>

Tick ==
    /\ now < MaxTime
    /\ now' = now + 1
    /\ UNCHANGED <<version, lock, temps, content, req, faults>>

Fault == faults < MaxFaults /\ faults' = faults + 1

\* Not in the code: an error returns without the guard's destructor.
LockAfterErrorHeld(k) == lock

LockAfterError(k) == IF lock = k THEN NULL ELSE lock

\* The integrity check reports a problem, or the copy fails: error 500, and
\* the temporary file stays as it is.
HandlerFails(k) ==
    /\ Fault
    /\ \/ req[k].phase \in {"checking", "named"} /\ lock = NULL
       \/ req[k].phase = "copying"
    /\ Goto(k, "failed")
    /\ lock' = LockAfterError(k)
    /\ UNCHANGED <<version, temps, content, now>>

\* The client is gone: the handler is dropped where it waits for the file.
Dropped(k) ==
    /\ Fault
    /\ req[k].phase \in {"copied", "reading"}
    /\ Goto(k, "failed")
    /\ UNCHANGED <<version, lock, temps, content, now>>

Crash ==
    /\ Fault
    /\ lock' = NULL
    /\ req' = [k \in Reqs |-> IF req[k].phase \in {"idle", "done"} THEN req[k]
                              ELSE [req[k] EXCEPT !.phase = "failed"]]
    /\ UNCHANGED <<version, temps, content, now>>

Handle(k) ==
    \/ Check(k)
    \/ OpenTemp(k)
    \/ CopyChunk(k)
    \/ OpenRead(k)
    \/ ReadChunk(k)
    \/ RemoveTemp(k)
    \/ HandlerFails(k)
    \/ Dropped(k)

-----------------------------------------------------------------------------
(* Properties *)

\* "Download a consistent DB snapshot" (README.md:115): what a successful
\* reply carries is one version of the database, one that was current between
\* the request and the reply, although the copy is read without the mutex.
SnapshotReplies ==
    \A k \in Reqs : req[k].phase = "done" =>
        \E v \in req[k].begun..version : req[k].body = [i \in 1..Chunks |-> v]

\* Requests do not disturb each other: without a fault none of them fails.
FailsOnlyByFault ==
    faults = 0 => \A k \in Reqs : req[k].phase # "failed"

\* A temporary file outlives its request only by a fault.
TempsAccounted ==
    faults = 0 =>
        \A s \in DOMAIN temps : \E k \in Reqs :
            req[k].name = s /\ req[k].phase \in {"copying", "copied", "reading"}

=============================================================================
