------------------------------ MODULE SessionApi ------------------------------
(***************************************************************************)
(* The HTTP handlers of the tspan server that change the database          *)
(* (src/src/server.rs with src/src/auth.rs), on top of SessionStore.       *)
(*                                                                         *)
(* One exchange is one request on one connection.  Handlers run            *)
(* concurrently; a handler takes the pool mutex once to look its token up  *)
(* (auth.rs:23) and, having released it, a second time for its operation   *)
(* (server.rs:238, 276, ...).  Authenticate and the Exec actions are those *)
(* two critical sections; anything may happen in between, a revocation of  *)
(* the token or a crash of the server included.                            *)
(*                                                                         *)
(* A client id is the sequence of its parts between dashes, which makes    *)
(* "equal to T or starting with T-" (server.rs:260) the prefix relation.   *)
(***************************************************************************)
EXTENDS SessionStore

CONSTANTS
    Conns,          \* connections
    Requests,       \* requests the clients of a model send
    Admin,          \* the web user's Basic credentials
    DefaultClient   \* "default", owner of the initial token

\* What a bearer token may do, what takes the web user, and ending a session,
\* which takes either (resolve_auth).
BearerOps == {"start", "event", "end"}
AdminOps == {"end", "discard", "delete", "newToken", "revoke"}

\* arg is the session id or the token in the path, pid the process_id of the
\* body; client is NULL when the request leaves client_id out.
Request == [op : BearerOps \cup AdminOps, cred : Tokens \cup {Admin, NULL},
            client : Clients \cup {NULL}, arg : Ids \cup Tokens \cup {NULL},
            pid : Pids \cup {NULL}]

ASSUME ApiAssumption ==
    /\ \A c \in Clients : c \in Seq(STRING)
    /\ DefaultClient \in Clients
    /\ Admin \notin Clients \cup Tokens \cup {NULL}
    /\ NULL \notin Tokens
    /\ Requests \subseteq Request

VARIABLES
    conn            \* connection -> the exchange on it

apiVars == <<storeVars, conn>>

Phases == {"idle", "sent", "authed", "replied"}
Codes == {0, 200, 401, 403, 404, 500}

Exchange == [phase : Phases, req : Request \cup {NULL}, owner : Clients \cup {Admin, NULL},
             code : Codes, id : Ids \cup {NULL}]

Idle == [phase |-> "idle", req |-> NULL, owner |-> NULL, code |-> 0, id |-> NULL]

ApiTypeOK ==
    /\ conn \in [Conns -> Exchange]
    /\ \A k \in Conns : conn[k].phase # "idle" => conn[k].req \in Request

-----------------------------------------------------------------------------
(* The server's process *)

\* main.rs: a server that finds no token generates one for "default".
ServeStore ==
    \/ tokens # << >> /\ UNCHANGED storeVars
    \/ tokens = << >> /\ \E t \in Tokens : AddApiToken(t, DefaultClient)

\* A fresh database, after the server's start.
ApiInit ==
    /\ records = << >> /\ seq = 0 /\ lastSeen = << >> /\ execEvents = << >> /\ now = 0
    /\ \E t \in Tokens : issued = {t} /\ tokens = [u \in {t} |-> DefaultClient]
    /\ conn = [k \in Conns |-> Idle]

\* A crash loses every exchange; what was committed stays.
CrashRestart ==
    /\ conn' = [k \in Conns |-> Idle]
    /\ ServeStore

-----------------------------------------------------------------------------
(* Exchanges *)

Submit(k, r) ==
    /\ conn[k].phase = "idle"
    /\ conn' = [conn EXCEPT ![k] = [Idle EXCEPT !.phase = "sent", !.req = r]]
    /\ UNCHANGED storeVars

\* The client has read the reply, or has stopped waiting for it.
Receive(k) ==
    /\ conn[k].phase = "replied"
    /\ conn' = [conn EXCEPT ![k] = Idle]
    /\ UNCHANGED storeVars

Reply(k, status, i) ==
    conn' = [conn EXCEPT ![k].phase = "replied", ![k].code = status, ![k].id = i]

\* Not in the code: the handler goes on with the token, not with its client.
AdmitCredential(k, who) ==
    conn' = [conn EXCEPT ![k].phase = "authed", ![k].owner = conn[k].req.cred]

Admit(k, who) == conn' = [conn EXCEPT ![k].phase = "authed", ![k].owner = who]

ClientIdAllowed(t, c) == Len(t) <= Len(c) /\ SubSeq(c, 1, Len(t)) = t

\* The client a request acts for once its owner is known.
Target(r, who) == IF r.client = NULL THEN who ELSE r.client

HasBearer(r) == r.op \in BearerOps /\ r.cred \in DOMAIN tokens

\* Not in the code: a handler that forgets to compare the token's client.
InScopeUnchecked(r) == TRUE

InScope(r) == ClientIdAllowed(tokens[r.cred], Target(r, tokens[r.cred]))

HasBasic(r) == r.op \in AdminOps /\ r.cred = Admin

\* First critical section: look the credentials up.
Authenticate(k) ==
    /\ conn[k].phase = "sent"
    /\ LET r == conn[k].req IN
        \/ HasBearer(r) /\ InScope(r) /\ Admit(k, tokens[r.cred])
        \/ HasBearer(r) /\ ~InScope(r) /\ Reply(k, 403, NULL)
        \/ ~HasBearer(r) /\ HasBasic(r) /\ Admit(k, Admin)
        \/ ~HasBearer(r) /\ ~HasBasic(r) /\ Reply(k, 401, NULL)
    /\ UNCHANGED storeVars

Serving(k, op) == conn[k].phase = "authed" /\ conn[k].req.op = op

ExecStart(k) ==
    /\ Serving(k, "start")
    /\ StartSession(Target(conn[k].req, conn[k].owner), conn[k].req.pid)
    /\ Reply(k, 200, NextId)

ExecEvent(k) ==
    /\ Serving(k, "event")
    /\ LogExecEvent(Target(conn[k].req, conn[k].owner), conn[k].req.pid)
    /\ Reply(k, 200, NULL)

\* The web user's request ends any session, a token's only those of its target.
MayEnd(k) ==
    IF conn[k].owner = Admin THEN IsActive(conn[k].req.arg)
    ELSE EndMatches(conn[k].req.arg, Target(conn[k].req, conn[k].owner))

ExecEnd(k) ==
    /\ Serving(k, "end")
    /\ LET id == conn[k].req.arg IN
        \/ MayEnd(k) /\ CloseRow(id, Completed(records[id], now)) /\ Reply(k, 200, id)
        \/ ~MayEnd(k) /\ UNCHANGED storeVars /\ Reply(k, 404, NULL)

ExecDiscard(k) ==
    /\ Serving(k, "discard")
    /\ LET id == conn[k].req.arg IN
        \/ DiscardSessionAdmin(id) /\ Reply(k, 200, id)
        \/ ~IsActive(id) /\ UNCHANGED storeVars /\ Reply(k, 404, NULL)

ExecDelete(k) ==
    /\ Serving(k, "delete")
    /\ LET id == conn[k].req.arg IN
        \/ DeleteRecord(id) /\ Reply(k, 200, id)
        \/ id \notin DOMAIN records /\ UNCHANGED storeVars /\ Reply(k, 404, NULL)

ExecNewToken(k) ==
    /\ Serving(k, "newToken")
    /\ \E t \in Tokens : AddApiToken(t, Target(conn[k].req, DefaultClient))
    /\ Reply(k, 200, NULL)

ExecRevoke(k) ==
    /\ Serving(k, "revoke")
    /\ LET t == conn[k].req.arg IN
        \/ DeleteApiToken(t) /\ Reply(k, 200, NULL)
        \/ t \notin DOMAIN tokens /\ UNCHANGED storeVars /\ Reply(k, 404, NULL)

\* Not in the code: start_session without its transaction, so that a failed
\* INSERT leaves the client row it came with behind.
FailKeepsClient(k) ==
    /\ conn[k].phase = "authed"
    /\ IF conn[k].req.op = "start"
       THEN EnsureClient(Target(conn[k].req, conn[k].owner))
       ELSE UNCHANGED lastSeen
    /\ Reply(k, 500, NULL)
    /\ UNCHANGED <<records, seq, tokens, issued, execEvents, now>>

\* The database refuses (another process holds the write lock for more than
\* busy_timeout, the disk is full): the transaction rolls back.
Fail(k) ==
    /\ conn[k].phase = "authed"
    /\ Reply(k, 500, NULL)
    /\ UNCHANGED storeVars

Execute(k) ==
    \/ ExecStart(k)
    \/ ExecEvent(k)
    \/ ExecEnd(k)
    \/ ExecDiscard(k)
    \/ ExecDelete(k)
    \/ ExecNewToken(k)
    \/ ExecRevoke(k)
    \/ Fail(k)

-----------------------------------------------------------------------------
(* What changes the store beside the handlers: the import loop, one          *)
(* transaction per file; the token commands of the command line, run by      *)
(* another process on the same database file; and time.                      *)

ImportFile == \E c \in Clients, span \in ImportSpans : ImportRecord(c, span[1], span[2])

CliToken ==
    \/ \E t \in Tokens, c \in Clients : AddApiToken(t, c)
    \/ \E t \in Tokens : DeleteApiToken(t)

Clock == Tick \/ StepClockBack

Elsewhere ==
    /\ ImportFile \/ CliToken \/ Clock
    /\ UNCHANGED conn

ApiNext ==
    \/ \E k \in Conns :
        \/ \E r \in Requests : Submit(k, r)
        \/ Receive(k)
        \/ Authenticate(k)
        \/ Execute(k)
    \/ CrashRestart
    \/ Elsewhere

ApiSpec == ApiInit /\ [][ApiNext]_apiVars

-----------------------------------------------------------------------------
(* Properties *)

Succeeded(k, ops) ==
    conn[k].phase = "replied" /\ conn[k].code = 200 /\ conn[k].req.op \in ops

\* Between the two locks an exchange keeps an owner entitled to its request:
\* the web user, or a client whose scope holds the client acted for.
AdmittedInScope ==
    \A k \in Conns : conn[k].phase = "authed" =>
        \/ conn[k].owner = Admin /\ conn[k].req.op \in AdminOps
        \/ /\ conn[k].owner \in Clients /\ conn[k].req.op \in BearerOps
           /\ ClientIdAllowed(conn[k].owner, Target(conn[k].req, conn[k].owner))

\* No two replies hand out or close the same session: starts get distinct ids
\* whatever is deleted between them, and of several requests racing to end or
\* discard a session one is told it succeeded, the others get 404.
RepliesDistinct ==
    \A j, k \in Conns :
        \A ops \in {{"start"}, {"end", "discard"}} :
            j # k /\ Succeeded(j, ops) /\ Succeeded(k, ops) => conn[j].id # conn[k].id

\* What a reply said stays true while it travels: a session reported as ended
\* or discarded is not running, and one reported as started belongs to the
\* client it was started for, as long as its row exists.
RepliesTruthful ==
    \A k \in Conns :
        /\ Succeeded(k, {"end", "discard", "delete"}) => ~IsActive(conn[k].id)
        /\ Succeeded(k, {"start"}) /\ conn[k].id \in DOMAIN records =>
              records[conn[k].id].client = Target(conn[k].req, conn[k].owner)

\* The exchange on k is the one this step executes, for the web user or for a
\* token whose scope holds client c.
WrittenBy(k, c) ==
    /\ conn[k].phase = "authed"
    /\ conn'[k].phase = "replied" /\ conn'[k].code = 200
    /\ conn[k].owner = Admin \/ ClientIdAllowed(conn[k].owner, c)

TouchedInScope ==
    /\ \A i \in DOMAIN records :
        (IF i \in DOMAIN records' THEN records'[i] # records[i] ELSE TRUE) =>
            \E k \in Conns : WrittenBy(k, records[i].client)
    /\ \A i \in DOMAIN records' \ DOMAIN records :
        records'[i].status = "active" => \E k \in Conns : WrittenBy(k, records'[i].client)

\* Rows are opened, closed and deleted only by a request that was let in, by
\* the web user or with a token whose scope holds the row's client, even
\* when the token was revoked or the row changed after the first lock.
WritesInScope == [][TouchedInScope]_apiVars

\* Every step of the server is one operation of the store or none: requests
\* that are refused, fail or are lost in a crash leave no trace in it, and
\* with the store's own results the API implements SessionLifecycle.
StoreSteps == [][StoreNext]_storeVars

=============================================================================
