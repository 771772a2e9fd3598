------------------------------- MODULE RunProofs -------------------------------
(***************************************************************************)
(* Proofs about the server and the wrappers in front of it.                *)
(*                                                                         *)
(* The server: every step is at most one operation of the store, so the    *)
(* store's invariant holds whatever the interleaving of exchanges,         *)
(* revocations and crashes; rows are written within the scope of the       *)
(* credentials only; what the server tells its clients never claims one    *)
(* session twice, and stays true.                                          *)
(*                                                                         *)
(* For any number of wrappers, tokens, clients and faults: a wrapper's     *)
(* session is its own, its command is recorded once, and its session is    *)
(* ended under its token's client only; the record of a session it closed  *)
(* spans the command; and a session it leaves running is the work of as    *)
(* many faults as there are attempts.                                      *)
(***************************************************************************)
EXTENDS TspanRun, SessionStoreProofs

-----------------------------------------------------------------------------
(* The server *)

\* The inductive invariant: the store's own, and what an admitted exchange
\* remembers of its credentials.
ApiInv == StoreTypeOK /\ StoreInv /\ ApiTypeOK /\ AdmittedInScope

\* The fields of exchanges and requests.
LEMMA ExchangeFields ==
    ASSUME ApiTypeOK, NEW k \in Conns
    PROVE  /\ conn[k] \in Exchange
           /\ conn[k].owner \in Clients \cup {Admin, NULL}
           /\ conn[k].phase # "idle" =>
                /\ conn[k].req \in Request
                /\ conn[k].req.op \in BearerOps \cup AdminOps
                /\ conn[k].req.cred \in Tokens \cup {Admin, NULL}
                /\ conn[k].req.client \in Clients \cup {NULL}
                /\ conn[k].req.arg \in Ids \cup Tokens \cup {NULL}
                /\ conn[k].req.pid \in Pids \cup {NULL}
<1>1. conn[k] \in Exchange /\ (conn[k].phase # "idle" => conn[k].req \in Request)
  BY DEF ApiTypeOK
<1> QED
  BY <1>1 DEF Exchange, Request

\* An admitted exchange acts for a client of the model.
LEMMA TargetType ==
    ASSUME ApiInv, NEW k \in Conns, conn[k].phase = "authed", conn[k].owner # Admin
    PROVE  Target(conn[k].req, conn[k].owner) \in Clients
BY ExchangeFields DEF ApiInv, AdmittedInScope, Target

\* What each step of the server is to the store.
LEMMA ApiStepIsStoreStep ==
    ASSUME ApiInv, [ApiNext]_apiVars
    PROVE  [StoreNext]_storeVars
<1> USE StoreAssumption, ApiAssumption
<1>1. ASSUME NEW k \in Conns, ExecStart(k) \/ ExecEvent(k)
      PROVE  StoreNext
  <2>1. conn[k].owner # Admin
    BY <1>1 DEF ApiInv, AdmittedInScope, ExecStart, ExecEvent, Serving, AdminOps
  <2>2. Target(conn[k].req, conn[k].owner) \in Clients
    BY <1>1, <2>1, TargetType DEF ExecStart, ExecEvent, Serving
  <2>3. conn[k].req.pid \in Pids \cup {NULL}
    BY <1>1, ExchangeFields DEF ApiInv, ExecStart, ExecEvent, Serving
  <2> QED
    BY <1>1, <2>2, <2>3 DEF ExecStart, ExecEvent, StoreNext
<1>2. ASSUME NEW k \in Conns, ExecEnd(k)
      PROVE  [StoreNext]_storeVars
  <2> DEFINE id == conn[k].req.arg
  <2>1. CASE MayEnd(k) /\ CloseRow(id, Completed(records[id], now))
    <3>1. id \in Ids
      BY <2>1 DEF MayEnd, EndMatches, IsActive, ApiInv, StoreTypeOK
    <3>2. CASE conn[k].owner = Admin
      BY <2>1, <3>1, <3>2 DEF MayEnd, EndSessionAdmin, StoreNext
    <3>3. CASE conn[k].owner # Admin
      <4>1. Target(conn[k].req, conn[k].owner) \in Clients
        BY <1>2, <3>3, TargetType DEF ExecEnd, Serving
      <4>2. EndSession(id, Target(conn[k].req, conn[k].owner))
        BY <2>1, <3>3 DEF MayEnd, EndSession
      <4> QED
        BY <3>1, <4>1, <4>2 DEF StoreNext
    <3> QED
      BY <3>2, <3>3
  <2>2. CASE UNCHANGED storeVars
    BY <2>2
  <2> QED
    BY <1>2, <2>1, <2>2 DEF ExecEnd
<1>3. ASSUME NEW k \in Conns, ExecDiscard(k) \/ ExecDelete(k)
      PROVE  [StoreNext]_storeVars
  <2> DEFINE id == conn[k].req.arg
  <2>1. CASE DiscardSessionAdmin(id) \/ DeleteRecord(id)
    <3>1. id \in Ids
      BY <2>1 DEF DiscardSessionAdmin, DeleteRecord, IsActive, ApiInv, StoreTypeOK
    <3> QED
      BY <2>1, <3>1 DEF StoreNext
  <2> QED
    BY <1>3, <2>1 DEF ExecDiscard, ExecDelete
<1>4. ASSUME NEW k \in Conns, ExecNewToken(k)
      PROVE  StoreNext
  <2>1. Target(conn[k].req, DefaultClient) \in Clients
    BY <1>4, ExchangeFields DEF ApiInv, ExecNewToken, Serving, Target
  <2> QED
    BY <1>4, <2>1 DEF ExecNewToken, StoreNext
<1>5. ASSUME NEW k \in Conns, ExecRevoke(k)
      PROVE  [StoreNext]_storeVars
  <2>1. CASE DeleteApiToken(conn[k].req.arg)
    <3>1. conn[k].req.arg \in Tokens
      BY <2>1 DEF DeleteApiToken, ApiInv, StoreTypeOK
    <3> QED
      BY <2>1, <3>1 DEF StoreNext
  <2> QED
    BY <1>5, <2>1 DEF ExecRevoke
<1>6. ASSUME NEW k \in Conns,
             \/ \E r \in Requests : Submit(k, r)
             \/ Receive(k)
             \/ Authenticate(k)
             \/ Fail(k)
      PROVE  UNCHANGED storeVars
  BY <1>6 DEF Submit, Receive, Authenticate, Fail
<1>7. CASE CrashRestart
  BY <1>7 DEF CrashRestart, ServeStore, StoreNext
<1>8. CASE Elsewhere
  BY <1>8 DEF Elsewhere, ImportFile, CliToken, Clock, StoreNext
<1>9. CASE UNCHANGED apiVars
  BY <1>9 DEF apiVars
<1> QED
  BY <1>1, <1>2, <1>3, <1>4, <1>5, <1>6, <1>7, <1>8, <1>9 DEF ApiNext, Execute

-----------------------------------------------------------------------------
(* The exchanges *)

Dropped(k) == conn' = [conn EXCEPT ![k] = Idle]

Sent(k) ==
    \E r \in Requests : conn' = [conn EXCEPT ![k] = [Idle EXCEPT !.phase = "sent", !.req = r]]

Answered(k) ==
    /\ conn[k].phase # "idle"
    /\ \E status \in Codes, i \in Ids \cup {NULL} : Reply(k, status, i)

AdmittedBearer(k) ==
    /\ conn[k].phase = "sent" /\ HasBearer(conn[k].req) /\ InScope(conn[k].req)
    /\ Admit(k, tokens[conn[k].req.cred])

AdmittedBasic(k) == conn[k].phase = "sent" /\ HasBasic(conn[k].req) /\ Admit(k, Admin)

\* A step leaves the exchanges alone, drops all of them, or takes one of them
\* one phase further.
LEMMA ConnStep ==
    ASSUME ApiInv, [ApiNext]_apiVars
    PROVE  \/ conn' = [k \in Conns |-> Idle]
           \/ UNCHANGED conn
           \/ \E k \in Conns : \/ Dropped(k)
                               \/ Sent(k)
                               \/ Answered(k)
                               \/ AdmittedBearer(k)
                               \/ AdmittedBasic(k)
<1>1. ASSUME NEW k \in Conns, Authenticate(k)
      PROVE  Answered(k) \/ AdmittedBearer(k) \/ AdmittedBasic(k)
  <2>1. 401 \in Codes /\ 403 \in Codes /\ NULL \in Ids \cup {NULL}
    BY DEF Codes
  <2> QED
    BY <1>1, <2>1 DEF Authenticate, Answered, AdmittedBearer, AdmittedBasic
<1>2. ASSUME NEW k \in Conns, Execute(k)
      PROVE  Answered(k)
  <2> USE DEF Codes, Answered
  <2>1. CASE ExecStart(k)
    BY <2>1 DEF ExecStart, Serving, StartSession, Insert
  <2>2. CASE ExecEvent(k) \/ ExecNewToken(k) \/ ExecRevoke(k) \/ Fail(k)
    BY <2>2 DEF ExecEvent, ExecNewToken, ExecRevoke, Fail, Serving
  <2>3. CASE ExecEnd(k)
    <3>1. MayEnd(k) => conn[k].req.arg \in Ids
      BY DEF MayEnd, EndMatches, IsActive, ApiInv, StoreTypeOK
    <3> QED
      BY <2>3, <3>1 DEF ExecEnd, Serving
  <2>4. CASE ExecDiscard(k) \/ ExecDelete(k)
    <3>1. DiscardSessionAdmin(conn[k].req.arg) \/ DeleteRecord(conn[k].req.arg)
            => conn[k].req.arg \in Ids
      BY DEF DiscardSessionAdmin, DeleteRecord, IsActive, ApiInv, StoreTypeOK
    <3> QED
      BY <2>4, <3>1 DEF ExecDiscard, ExecDelete, Serving
  <2> QED
    BY <1>2, <2>1, <2>2, <2>3, <2>4 DEF Execute
<1>3. ASSUME NEW k \in Conns, Receive(k)
      PROVE  Dropped(k)
  BY <1>3 DEF Receive, Dropped
<1>4. ASSUME NEW k \in Conns, NEW r \in Requests, Submit(k, r)
      PROVE  Sent(k)
  BY <1>4 DEF Submit, Sent
<1>5. CASE CrashRestart
  BY <1>5 DEF CrashRestart
<1>6. CASE Elsewhere \/ UNCHANGED apiVars
  BY <1>6 DEF Elsewhere, apiVars
<1> QED
  BY <1>1, <1>2, <1>3, <1>4, <1>5, <1>6 DEF ApiNext

\* One step keeps the exchanges well typed and entitled to their requests.
LEMMA ApiExchangeStep ==
    ASSUME ApiInv, [ApiNext]_apiVars
    PROVE  ApiTypeOK' /\ AdmittedInScope'
<1> USE ApiAssumption
<1>1. Idle \in Exchange /\ Idle.phase = "idle"
  BY DEF Idle, Exchange, Phases, Codes
<1>2. conn \in [Conns -> Exchange]
  BY DEF ApiInv, ApiTypeOK
<1>3. CASE conn' = [k \in Conns |-> Idle] \/ UNCHANGED conn
  BY <1>1, <1>2, <1>3 DEF ApiInv, ApiTypeOK, AdmittedInScope
<1>4. ASSUME NEW k \in Conns, NEW x \in Exchange, conn' = [conn EXCEPT ![k] = x],
             x.phase # "idle" => x.req \in Request,
             x.phase = "authed" =>
                \/ x.owner = Admin /\ x.req.op \in AdminOps
                \/ /\ x.owner \in Clients /\ x.req.op \in BearerOps
                   /\ ClientIdAllowed(x.owner, Target(x.req, x.owner))
      PROVE  ApiTypeOK' /\ AdmittedInScope'
  <2>1. conn' \in [Conns -> Exchange] /\ conn'[k] = x /\ \A j \in Conns : j # k => conn'[j] = conn[j]
    BY <1>2, <1>4
  <2>2. ApiTypeOK'
    BY <1>4, <2>1 DEF ApiInv, ApiTypeOK
  <2>3. AdmittedInScope'
    BY <1>4, <2>1 DEF ApiInv, AdmittedInScope
  <2> QED
    BY <2>2, <2>3
<1>5. ASSUME NEW k \in Conns, conn' = [conn EXCEPT ![k] = Idle]
      PROVE  ApiTypeOK' /\ AdmittedInScope'
  BY <1>1, <1>4, <1>5
<1>6. ASSUME NEW k \in Conns, NEW r \in Requests,
             conn' = [conn EXCEPT ![k] = [Idle EXCEPT !.phase = "sent", !.req = r]]
      PROVE  ApiTypeOK' /\ AdmittedInScope'
  <2> DEFINE x == [Idle EXCEPT !.phase = "sent", !.req = r]
  <2>1. x \in Exchange /\ x.phase = "sent" /\ x.req \in Request
    BY DEF Idle, Exchange, Phases, Codes
  <2> HIDE DEF x
  <2> QED
    BY <1>4, <1>6, <2>1 DEF x
<1>7. ASSUME NEW k \in Conns, NEW status \in Codes, NEW i \in Ids \cup {NULL},
             conn[k].phase # "idle", Reply(k, status, i)
      PROVE  ApiTypeOK' /\ AdmittedInScope'
  <2> DEFINE x == [conn[k] EXCEPT !.phase = "replied", !.code = status, !.id = i]
  <2>1. conn[k] \in Exchange /\ conn[k].req \in Request
    BY <1>7, ExchangeFields DEF ApiInv
  <2>2. x \in Exchange /\ x.phase = "replied" /\ x.req \in Request
    BY <2>1 DEF Exchange, Phases
  <2>3. conn' = [conn EXCEPT ![k] = x]
    BY <1>2, <1>7 DEF Reply
  <2> HIDE DEF x
  <2> QED
    BY <1>4, <2>2, <2>3
<1>8. ASSUME NEW k \in Conns, NEW who \in Clients \cup {Admin},
             conn[k].phase = "sent", Admit(k, who),
             \/ who = Admin /\ conn[k].req.op \in AdminOps
             \/ /\ who \in Clients /\ conn[k].req.op \in BearerOps
                /\ ClientIdAllowed(who, Target(conn[k].req, who))
      PROVE  ApiTypeOK' /\ AdmittedInScope'
  <2> DEFINE x == [conn[k] EXCEPT !.phase = "authed", !.owner = who]
  <2>1. conn[k] \in Exchange /\ conn[k].req \in Request
    BY <1>8, ExchangeFields DEF ApiInv
  <2>2. /\ x \in Exchange /\ x.phase = "authed"
        /\ x.req = conn[k].req /\ x.req \in Request /\ x.owner = who
    BY <2>1 DEF Exchange, Phases
  <2>3. conn' = [conn EXCEPT ![k] = x]
    BY <1>2, <1>8 DEF Admit
  <2> HIDE DEF x
  <2> QED
    BY <1>4, <1>8, <2>2, <2>3
<1>9. ASSUME NEW k \in Conns, conn[k].phase = "sent", HasBearer(conn[k].req),
             InScope(conn[k].req), Admit(k, tokens[conn[k].req.cred])
      PROVE  ApiTypeOK' /\ AdmittedInScope'
  <2>1. tokens[conn[k].req.cred] \in Clients
    BY <1>9 DEF HasBearer, ApiInv, StoreTypeOK
  <2> QED
    BY <1>8, <1>9, <2>1 DEF HasBearer, InScope
<1>10. ASSUME NEW k \in Conns, conn[k].phase = "sent", HasBasic(conn[k].req), Admit(k, Admin)
       PROVE  ApiTypeOK' /\ AdmittedInScope'
  BY <1>8, <1>10 DEF HasBasic
<1> QED
  BY <1>3, <1>5, <1>6, <1>7, <1>9, <1>10, ConnStep
  DEF Dropped, Sent, Answered, AdmittedBearer, AdmittedBasic

-----------------------------------------------------------------------------
(* Theorems *)

\* The state the server starts in satisfies the inductive invariant.
LEMMA ApiInitInv == ApiInit => ApiInv
<1> SUFFICES ASSUME ApiInit PROVE ApiInv
  OBVIOUS
<1> USE StoreAssumption, ApiAssumption DEF ApiInit
<1>1. PICK t \in Tokens : issued = {t} /\ tokens = [u \in {t} |-> DefaultClient]
  OBVIOUS
<1>2. StoreTypeOK
  BY <1>1 DEF StoreTypeOK, Times
<1>3. StoreInv
  BY <1>1
  DEF StoreInv, RowsConsistent, RowsReferToClients, SeenSinceStart, DurationsNonNegative
<1>4. ApiTypeOK /\ AdmittedInScope
  BY DEF ApiTypeOK, AdmittedInScope, Idle, Exchange, Phases, Codes
<1> QED
  BY <1>2, <1>3, <1>4 DEF ApiInv

\* One step of the server keeps the inductive invariant.
LEMMA ApiInvStep == ApiInv /\ [ApiNext]_apiVars => ApiInv'
<1> SUFFICES ASSUME ApiInv, [ApiNext]_apiVars PROVE ApiInv'
  OBVIOUS
<1>1. [StoreNext]_storeVars
  BY ApiStepIsStoreStep
<1>2. StoreTypeOK' /\ StoreInv'
  BY <1>1, StoreTypeStep, StoreInvStep DEF ApiInv, StoreInv
<1> QED
  BY <1>2, ApiExchangeStep DEF ApiInv

\* Whatever exchanges, revocations, failures and crashes interleave, the
\* database satisfies the store's invariant and every admitted exchange is
\* entitled to what it will do.
THEOREM ApiInvariant == ApiSpec => [](StoreInv /\ AdmittedInScope)
<1>1. ApiInv => StoreInv /\ AdmittedInScope
  BY DEF ApiInv
<1> QED
  BY <1>1, ApiInitInv, ApiInvStep, PTL DEF ApiSpec

\* Each step of the server is one operation of the store or none: a refused,
\* failed or crashed request leaves no trace in the database.
THEOREM ApiStoreSteps == ApiSpec => StoreSteps
<1>1. ApiInv /\ [ApiNext]_apiVars => [StoreNext]_storeVars
  BY ApiStepIsStoreStep
<1> QED
  BY <1>1, ApiInitInv, ApiInvStep, PTL DEF ApiSpec, StoreSteps

\* Under concurrent handlers, failures and crashes sessions live the life of
\* SessionLifecycle, and a closed one stays as it is.
THEOREM ApiImplementsLifecycle == ApiSpec => ImplementsLifecycle /\ ClosedIsFinal
<1>1. ApiInit => Lifecycle!LifecycleInit
  BY LifecycleBegins DEF ApiInit
<1>2. ApiInv /\ [ApiNext]_apiVars
        => [Lifecycle!LifecycleNext]_Lifecycle!lifecycleVars /\ [ClosedRowsKept]_storeVars
  BY ApiStepIsStoreStep, LifecycleStep, ClosedRowsStep DEF ApiInv
<1> QED
  BY <1>1, <1>2, ApiInitInv, ApiInvStep, PTL
  DEF ApiSpec, ImplementsLifecycle, Lifecycle!LifecycleSpec, ClosedIsFinal

-----------------------------------------------------------------------------
(* Rows are written in scope *)

\* The success of an exchange whose owner is entitled to client c is a write
\* on behalf of c.
LEMMA ReplyWrites ==
    ASSUME ApiInv, NEW k \in Conns, conn[k].phase = "authed", NEW i, Reply(k, 200, i),
           NEW c, conn[k].owner = Admin \/ ClientIdAllowed(conn[k].owner, c)
    PROVE  WrittenBy(k, c)
<1>1. conn \in [Conns -> Exchange] /\ conn[k] \in Exchange
  BY DEF ApiInv, ApiTypeOK
<1>2. conn'[k].phase = "replied" /\ conn'[k].code = 200
  BY <1>1 DEF Reply, Exchange
<1> QED
  BY <1>2 DEF WrittenBy

\* A step that leaves the records table alone writes out of no scope.
LEMMA UntouchedInScope ==
    ASSUME UNCHANGED records
    PROVE  TouchedInScope
BY DEF TouchedInScope

\* A step that replaces or removes one row writes for that row's client.
LEMMA OneRowTouched ==
    ASSUME NEW id \in DOMAIN records,
           DOMAIN records' \subseteq DOMAIN records,
           \A i \in DOMAIN records \ {id} : i \in DOMAIN records' /\ records'[i] = records[i],
           NEW k \in Conns, WrittenBy(k, records[id].client)
    PROVE  TouchedInScope
BY DEF TouchedInScope

\* One step of the server writes in scope.
LEMMA WriteStep ==
    ASSUME ApiInv, [ApiNext]_apiVars
    PROVE  TouchedInScope
<1> USE StoreAssumption, ApiAssumption
<1>1. ASSUME NEW k \in Conns, ExecStart(k)
      PROVE  TouchedInScope
  <2> DEFINE c == Target(conn[k].req, conn[k].owner)
             row == [client |-> c, pid |-> conn[k].req.pid, start |-> now, end |-> NULL,
                     duration |-> NULL, status |-> "active"]
  <2>1. conn[k].phase = "authed" /\ conn[k].req.op = "start"
    BY <1>1 DEF ExecStart, Serving
  <2>2. conn[k].owner # Admin /\ ClientIdAllowed(conn[k].owner, c)
    BY <2>1 DEF ApiInv, AdmittedInScope, AdminOps
  <2>3. c \in Clients /\ conn[k].req.pid \in Pids \cup {NULL}
    BY <2>1, <2>2, TargetType, ExchangeFields DEF ApiInv
  <2>4. row \in Row /\ row.client = c
    BY <2>3, RowTypes DEF ApiInv
  <2>5. Insert(row)
    BY <1>1 DEF ExecStart, StartSession
  <2>6. WrittenBy(k, c)
    BY <1>1, <2>1, <2>2, ReplyWrites DEF ExecStart
  <2> HIDE DEF row, c
  <2>7. /\ DOMAIN records' = DOMAIN records \cup {seq'}
        /\ records'[seq'] = row
        /\ \A i \in DOMAIN records : records'[i] = records[i]
    BY <2>4, <2>5, InsertFacts DEF ApiInv, StoreInv
  <2> QED
    BY <2>4, <2>6, <2>7 DEF TouchedInScope
<1>2. ASSUME NEW k \in Conns, ExecEnd(k)
      PROVE  TouchedInScope
  <2> DEFINE id == conn[k].req.arg
  <2>1. CASE MayEnd(k) /\ CloseRow(id, Completed(records[id], now)) /\ Reply(k, 200, id)
    <3>1. id \in DOMAIN records
      BY <2>1 DEF MayEnd, EndMatches, IsActive
    <3>2. conn[k].phase = "authed"
      BY <1>2 DEF ExecEnd, Serving
    <3>3. conn[k].owner = Admin \/ ClientIdAllowed(conn[k].owner, records[id].client)
      <4>1. ASSUME conn[k].owner # Admin
            PROVE  ClientIdAllowed(conn[k].owner, records[id].client)
        <5>1. records[id].client = Target(conn[k].req, conn[k].owner)
          BY <2>1, <4>1 DEF MayEnd, EndMatches
        <5> QED
          BY <3>2, <4>1, <5>1 DEF ApiInv, AdmittedInScope
      <4> QED
        BY <4>1
    <3>4. WrittenBy(k, records[id].client)
      BY <2>1, <3>2, <3>3, ReplyWrites
    <3>5. DOMAIN records' = DOMAIN records
          /\ \A i \in DOMAIN records \ {id} : records'[i] = records[i]
      BY <2>1, <3>1 DEF CloseRow, ApiInv, StoreTypeOK
    <3> QED
      BY <3>1, <3>4, <3>5, OneRowTouched
  <2>2. CASE UNCHANGED storeVars
    BY <2>2, UntouchedInScope DEF storeVars
  <2> QED
    BY <1>2, <2>1, <2>2 DEF ExecEnd
<1>3. ASSUME NEW k \in Conns, ExecDiscard(k) \/ ExecDelete(k)
      PROVE  TouchedInScope
  <2> DEFINE id == conn[k].req.arg
  <2>1. conn[k].phase = "authed" /\ conn[k].owner = Admin
    BY <1>3 DEF ExecDiscard, ExecDelete, Serving, ApiInv, AdmittedInScope, BearerOps
  <2>2. CASE (DiscardSessionAdmin(id) \/ DeleteRecord(id)) /\ Reply(k, 200, id)
    <3>1. id \in DOMAIN records
      BY <2>2 DEF DiscardSessionAdmin, IsActive, DeleteRecord
    <3>2. WrittenBy(k, records[id].client)
      BY <2>1, <2>2, ReplyWrites
    <3>3. DOMAIN records' \subseteq DOMAIN records
          /\ \A i \in DOMAIN records \ {id} : i \in DOMAIN records' /\ records'[i] = records[i]
      BY <2>2 DEF DiscardSessionAdmin, CloseRow, DeleteRecord, Drop, ApiInv, StoreTypeOK
    <3> QED
      BY <3>1, <3>2, <3>3, OneRowTouched
  <2>3. CASE UNCHANGED storeVars
    BY <2>3, UntouchedInScope DEF storeVars
  <2> QED
    BY <1>3, <2>2, <2>3 DEF ExecDiscard, ExecDelete
<1>4. CASE ImportFile
  <2>1. PICK c \in Clients, span \in ImportSpans : ImportRecord(c, span[1], span[2])
    BY <1>4 DEF ImportFile
  <2> DEFINE row == [client |-> c, pid |-> NULL, start |-> span[1], end |-> span[1] + span[2],
                     duration |-> span[2], status |-> "completed"]
  <2>2. row \in Row /\ row.status = "completed"
    BY RowTypes DEF ApiInv
  <2>3. Insert(row)
    BY <2>1 DEF ImportRecord
  <2> HIDE DEF row
  <2>4. /\ DOMAIN records' = DOMAIN records \cup {seq'}
        /\ records'[seq'] = row
        /\ \A i \in DOMAIN records : records'[i] = records[i]
    BY <2>2, <2>3, InsertFacts DEF ApiInv, StoreInv
  <2> QED
    BY <2>2, <2>4 DEF TouchedInScope
<1>5. ASSUME NEW k \in Conns,
             \/ \E r \in Requests : Submit(k, r)
             \/ Receive(k)
             \/ Authenticate(k)
             \/ Fail(k)
             \/ ExecEvent(k)
             \/ ExecNewToken(k)
             \/ ExecRevoke(k)
      PROVE  UNCHANGED records
  BY <1>5
  DEF Submit, Receive, Authenticate, Fail, ExecEvent, ExecNewToken, ExecRevoke,
      LogExecEvent, AddApiToken, DeleteApiToken, storeVars
<1>6. ASSUME CrashRestart \/ CliToken \/ Clock \/ UNCHANGED apiVars
      PROVE  UNCHANGED records
  BY <1>6
  DEF CrashRestart, ServeStore, CliToken, Clock, AddApiToken, DeleteApiToken, Tick,
      StepClockBack, apiVars, storeVars
<1> QED
  BY <1>1, <1>2, <1>3, <1>4, <1>5, <1>6, UntouchedInScope DEF ApiNext, Elsewhere, Execute

\* A row is opened, closed or deleted only by the web user or within the scope
\* of the token that was presented, whatever happened since it was looked up.
THEOREM WritesStayInScope == ApiSpec => WritesInScope
<1>1. ApiInv /\ [ApiNext]_apiVars => [TouchedInScope]_apiVars
  BY WriteStep
<1> QED
  BY <1>1, ApiInitInv, ApiInvStep, PTL DEF ApiSpec, WritesInScope

\* The scope relation (server.rs:259) is transitive, so a client created in the scope of
\* a client in a token's scope is in the scope of that token.
THEOREM ScopeIsTransitive ==
    ASSUME NEW S, NEW a \in Seq(S), NEW b \in Seq(S), NEW c \in Seq(S),
           ClientIdAllowed(a, b), ClientIdAllowed(b, c)
    PROVE  ClientIdAllowed(a, c)
<1>1. Len(a) \in Nat /\ Len(b) \in Nat /\ Len(c) \in Nat
      /\ Len(a) <= Len(b) /\ Len(b) <= Len(c)
  BY DEF ClientIdAllowed
<1>2. SubSeq(b, 1, Len(a)) = a /\ SubSeq(c, 1, Len(b)) = b
  BY DEF ClientIdAllowed
<1>3. \A i \in 1..Len(a) : a[i] = b[i]
  BY <1>1, <1>2
<1>4. \A i \in 1..Len(a) : b[i] = c[i]
  BY <1>1, <1>2
<1>5. SubSeq(c, 1, Len(a)) = a
  <2>1. SubSeq(c, 1, Len(a)) \in Seq(S) /\ Len(SubSeq(c, 1, Len(a))) = Len(a)
    BY <1>1
  <2>2. \A i \in 1..Len(a) : SubSeq(c, 1, Len(a))[i] = c[i]
    BY <1>1
  <2> QED
    BY <1>1, <1>3, <1>4, <2>1, <2>2
<1> QED
  BY <1>1, <1>5 DEF ClientIdAllowed

-----------------------------------------------------------------------------
(* What the server replies *)

SessionOps == {"start", "end", "discard", "delete"}

\* A reply names a session that has been handed out, and is true of it.
ReplyTrue(k) ==
    /\ Succeeded(k, SessionOps) => conn[k].id \in 1..seq
    /\ Succeeded(k, {"end", "discard", "delete"}) => ~IsActive(conn[k].id)
    /\ Succeeded(k, {"start"}) /\ conn[k].id \in DOMAIN records =>
          records[conn[k].id].client = Target(conn[k].req, conn[k].owner)

RepliesInv == ApiInv /\ RepliesDistinct /\ \A k \in Conns : ReplyTrue(k)

\* The reply that the step gives on k: a start hands out the next id, an end or
\* a discard closes a session that was active, a delete removes a row.
Gives(k, i) ==
    LET r == conn[k].req IN
    /\ conn'[k] = [conn[k] EXCEPT !.phase = "replied", !.code = 200, !.id = i]
    /\ \A j \in Conns \ {k} : conn'[j] = conn[j]
    /\ \/ /\ r.op = "start"
          /\ i = seq + 1 /\ seq' = seq + 1 /\ i \in DOMAIN records'
          /\ records'[i].client = Target(r, conn[k].owner)
       \/ r.op \in {"end", "discard"} /\ IsActive(i) /\ ~IsActive(i)' /\ seq' = seq
       \/ r.op = "delete" /\ i \in DOMAIN records /\ i \notin DOMAIN records' /\ seq' = seq

-----------------------------------------------------------------------------

LEMMA ReplyGiven ==
    ASSUME ApiInv, NEW k \in Conns, NEW i, Reply(k, 200, i)
    PROVE  /\ conn'[k] = [conn[k] EXCEPT !.phase = "replied", !.code = 200, !.id = i]
           /\ \A j \in Conns \ {k} : conn'[j] = conn[j]
  <1>1. conn \in [Conns -> Exchange]
    BY DEF ApiInv, ApiTypeOK
  <1> QED
    BY <1>1 DEF Reply, Exchange

\* What an exchange that succeeds with an operation on a session does.
LEMMA ExecutionGives ==
    ASSUME ApiInv, NEW k \in Conns,
           ExecStart(k) \/ ExecEnd(k) \/ ExecDiscard(k) \/ ExecDelete(k)
    PROVE  (\E i \in Ids : Gives(k, i)) \/ Reply(k, 404, NULL)
  <1> USE StoreAssumption
  <1>1. CASE ExecStart(k)
    <2>1. PICK i \in Ids : i = NextId
      BY <1>1 DEF ExecStart, StartSession, Insert
    <2> DEFINE c == Target(conn[k].req, conn[k].owner)
               row == [client |-> c, pid |-> conn[k].req.pid, start |-> now,
                       end |-> NULL, duration |-> NULL, status |-> "active"]
    <2>2. Reply(k, 200, i) /\ conn[k].req.op = "start"
          /\ seq' = i /\ records' = Put(records, i, row)
      BY <1>1, <2>1 DEF ExecStart, Serving, StartSession, Insert
    <2>3. i = seq + 1 /\ i \in DOMAIN records' /\ records'[i] = row
      BY <2>1, <2>2 DEF NextId, Put
    <2>4. records'[i].client = c
      BY <2>3
    <2>5. Gives(k, i)
      <3>1. /\ conn'[k] = [conn[k] EXCEPT !.phase = "replied", !.code = 200, !.id = i]
            /\ \A j \in Conns \ {k} : conn'[j] = conn[j]
        BY <2>2, ReplyGiven
      <3>2. seq' = seq + 1 /\ records'[i].client = Target(conn[k].req, conn[k].owner)
        BY <2>2, <2>3, <2>4
      <3> HIDE DEF row, c
      <3> QED
        BY <2>2, <2>3, <3>1, <3>2 DEF Gives
    <2> QED
      BY <2>5
  <1>2. ASSUME NEW i \in Ids, IsActive(i), NEW row,
               row \in {Completed(records[i], now), Discarded(records[i])},
               CloseRow(i, row), Reply(k, 200, i), conn[k].req.op \in {"end", "discard"}
        PROVE  Gives(k, i)
    <2>1. i \in DOMAIN records /\ records[i] \in Row
      BY <1>2 DEF IsActive, ApiInv, StoreTypeOK
    <2>2. row.status # "active"
      BY <1>2, <2>1 DEF Completed, Discarded, Row
    <2>3. seq' = seq /\ records' = [records EXCEPT ![i] = row]
      BY <1>2 DEF CloseRow
    <2>4. records'[i] = row
      BY <2>1, <2>3 DEF ApiInv, StoreTypeOK
    <2>5. ~IsActive(i)'
      BY <2>2, <2>4 DEF IsActive
    <2> QED
      BY <1>2, <2>3, <2>5, ReplyGiven DEF Gives
  <1>3. ASSUME IsActive(conn[k].req.arg)
        PROVE  \E i \in Ids : i = conn[k].req.arg
    BY <1>3 DEF IsActive, ApiInv, StoreTypeOK
  <1>4. CASE ExecEnd(k)
    <2>1. CASE MayEnd(k) /\ ~Reply(k, 404, NULL)
      <3>1. PICK i \in Ids : i = conn[k].req.arg
        BY <1>3, <2>1 DEF MayEnd, EndMatches
      <3>2. IsActive(i) /\ CloseRow(i, Completed(records[i], now)) /\ Reply(k, 200, i)
        BY <1>4, <2>1, <3>1 DEF ExecEnd, MayEnd, EndMatches
      <3> QED
        BY <1>2, <1>4, <3>2 DEF ExecEnd, Serving
    <2> QED
      BY <1>4, <2>1 DEF ExecEnd
  <1>5. CASE ExecDiscard(k)
    <2>1. CASE DiscardSessionAdmin(conn[k].req.arg) /\ Reply(k, 200, conn[k].req.arg)
      <3>1. PICK i \in Ids : i = conn[k].req.arg
        BY <1>3, <2>1 DEF DiscardSessionAdmin
      <3>2. IsActive(i) /\ CloseRow(i, Discarded(records[i])) /\ Reply(k, 200, i)
        BY <2>1, <3>1 DEF DiscardSessionAdmin
      <3> QED
        BY <1>2, <1>5, <3>2 DEF ExecDiscard, Serving
    <2> QED
      BY <1>5, <2>1 DEF ExecDiscard
  <1>6. CASE ExecDelete(k)
    <2>1. CASE DeleteRecord(conn[k].req.arg) /\ Reply(k, 200, conn[k].req.arg)
      <3>1. PICK i \in Ids : i = conn[k].req.arg
        BY <2>1 DEF DeleteRecord, ApiInv, StoreTypeOK
      <3>2. /\ i \in DOMAIN records /\ seq' = seq /\ Reply(k, 200, i)
            /\ DOMAIN records' = DOMAIN records \ {i}
        BY <2>1, <3>1 DEF DeleteRecord, Drop
      <3>3. conn[k].req.op = "delete" /\ i \notin DOMAIN records'
        BY <1>6, <3>2 DEF ExecDelete, Serving
      <3>4. Gives(k, i)
        BY <3>2, <3>3, ReplyGiven DEF Gives
      <3> QED
        BY <3>4
    <2> QED
      BY <1>6, <2>1 DEF ExecDelete
  <1> QED
    BY <1>1, <1>4, <1>5, <1>6

\* A step gives one reply that an operation on a session has succeeded, or
\* none that was not there before.
LEMMA RepliesStep ==
    ASSUME ApiInv, [ApiNext]_apiVars
    PROVE  \/ \E k \in Conns, i \in Ids : Gives(k, i)
           \/ \A k \in Conns : conn'[k] = conn[k] \/ ~Succeeded(k, SessionOps)'
  <1> DEFINE Quiet == \A k \in Conns : conn'[k] = conn[k] \/ ~Succeeded(k, SessionOps)'
  <1>1. conn \in [Conns -> Exchange]
    BY DEF ApiInv, ApiTypeOK
  <1>2. ASSUME NEW k \in Conns, NEW x, conn' = [conn EXCEPT ![k] = x],
               x.phase # "replied" \/ x.code # 200 \/ x.req.op \notin SessionOps
        PROVE  Quiet
    BY <1>1, <1>2 DEF Succeeded
  <1>3. ASSUME NEW k \in Conns, NEW status, NEW i, Reply(k, status, i),
               status # 200 \/ conn[k].req.op \notin SessionOps
        PROVE  Quiet
    <2>1. conn[k] \in Exchange
      BY <1>1
    <2>2. conn' = [conn EXCEPT ![k] = [conn[k] EXCEPT !.phase = "replied", !.code = status, !.id = i]]
      BY <1>1, <1>3, <2>1 DEF Reply, Exchange
    <2>3. /\ [conn[k] EXCEPT !.phase = "replied", !.code = status, !.id = i].code = status
          /\ [conn[k] EXCEPT !.phase = "replied", !.code = status, !.id = i].req = conn[k].req
      BY <2>1 DEF Exchange
    <2> QED
      BY <1>2, <1>3, <2>2, <2>3
  <1>4. ASSUME NEW k \in Conns, Execute(k)
        PROVE  Quiet \/ \E i \in Ids : Gives(k, i)
    <2>1. CASE ExecStart(k) \/ ExecEnd(k) \/ ExecDiscard(k) \/ ExecDelete(k)
      <3>1. (\E i \in Ids : Gives(k, i)) \/ Reply(k, 404, NULL)
        BY <2>1, ExecutionGives
      <3> QED
        BY <1>3, <3>1
    <2>2. CASE ExecEvent(k) \/ ExecNewToken(k) \/ ExecRevoke(k)
      <3>1. conn[k].req.op \notin SessionOps
        BY <2>2 DEF ExecEvent, ExecNewToken, ExecRevoke, Serving, SessionOps
      <3>2. \E status \in Codes : Reply(k, status, NULL)
        BY <2>2 DEF ExecEvent, ExecNewToken, ExecRevoke, Codes
      <3> QED
        BY <1>3, <3>1, <3>2
    <2>3. CASE Fail(k)
      BY <1>3, <2>3 DEF Fail
    <2> QED
      BY <1>4, <2>1, <2>2, <2>3 DEF Execute
  <1>5. ASSUME NEW k \in Conns, Authenticate(k)
        PROVE  Quiet
    <2>1. ASSUME NEW who, Admit(k, who), conn[k].phase = "sent" PROVE Quiet
      <3>1. conn[k] \in Exchange
        BY <1>1
      <3>2. conn' = [conn EXCEPT ![k] = [conn[k] EXCEPT !.phase = "authed", !.owner = who]]
        BY <1>1, <2>1, <3>1 DEF Admit, Exchange
      <3>3. [conn[k] EXCEPT !.phase = "authed", !.owner = who].phase # "replied"
        BY <3>1 DEF Exchange
      <3> QED
        BY <1>2, <3>2, <3>3
    <2> QED
      BY <1>3, <1>5, <2>1 DEF Authenticate
  <1>6. Idle.phase # "replied"
    BY DEF Idle
  <1>7. ASSUME NEW k \in Conns, Receive(k) \/ \E r \in Requests : Submit(k, r)
        PROVE  Quiet
    <2>1. CASE Receive(k)
      BY <1>2, <1>6, <2>1 DEF Receive
    <2>2. ASSUME NEW r \in Requests, Submit(k, r) PROVE Quiet
      <3>1. conn' = [conn EXCEPT ![k] = [Idle EXCEPT !.phase = "sent", !.req = r]]
            /\ [Idle EXCEPT !.phase = "sent", !.req = r].phase # "replied"
        BY <2>2 DEF Submit, Idle
      <3> QED
        BY <1>2, <3>1
    <2> QED
      BY <1>7, <2>1, <2>2
  <1>8. CASE CrashRestart
    BY <1>6, <1>8 DEF CrashRestart, Succeeded
  <1>9. CASE Elsewhere \/ UNCHANGED apiVars
    BY <1>9 DEF Elsewhere, apiVars
  <1> QED
    BY <1>4, <1>5, <1>7, <1>8, <1>9 DEF ApiNext

\* What has been said stays true, whatever happens to the session.
LEMMA TrueStaysTrue ==
    ASSUME ApiInv, [ApiNext]_apiVars, NEW k \in Conns, ReplyTrue(k), conn'[k] = conn[k]
    PROVE  ReplyTrue(k)'
  <1>1. StoreTypeOK /\ StoreInv /\ [StoreNext]_storeVars /\ seq \in Nat
    BY ApiStepIsStoreStep, StoreAssumption DEF ApiInv, StoreTypeOK
  <1> DEFINE Kept(i) ==
                /\ i \in DOMAIN records' =>
                        /\ i \in DOMAIN records
                        /\ records'[i].client = records[i].client
                        /\ records'[i].status = "active" => records[i].status = "active"
  <1>2. seq' \in {seq, seq + 1} /\ \A i \in 1..seq : Kept(i)
    <2>1. ASSUME NEW row \in Row, Appends(row)
          PROVE  seq' = seq + 1 /\ \A i \in 1..seq : Kept(i)
      <3>1. \A i \in 1..seq : i # seq'
        BY <1>1, <2>1 DEF Appends
      <3> QED
        BY <2>1, <3>1 DEF Appends
    <2>2. ASSUME NEW id \in Ids, Closes(id)
          PROVE  seq' = seq /\ \A i \in 1..seq : Kept(i)
      BY <2>2 DEF Closes
    <2>3. ASSUME NEW id \in Ids, Deletes(id)
          PROVE  seq' = seq /\ \A i \in 1..seq : Kept(i)
      BY <2>3 DEF Deletes
    <2>4. ASSUME UNCHANGED <<records, seq>>
          PROVE  seq' = seq /\ \A i \in 1..seq : Kept(i)
      BY <2>4
    <2> HIDE DEF Kept
    <2> QED
      BY <1>1, <2>1, <2>2, <2>3, <2>4, RecordsStep
  <1>3. ASSUME NEW i \in 1..seq
        PROVE  /\ IsActive(i)' => IsActive(i)
               /\ i \in DOMAIN records' => i \in DOMAIN records /\ records'[i].client = records[i].client
    BY <1>2 DEF IsActive
  <1>4. Succeeded(k, SessionOps)' <=> Succeeded(k, SessionOps)
    BY DEF Succeeded
  <1>5. CASE Succeeded(k, SessionOps)
    <2>1. PICK i \in 1..seq : i = conn[k].id
      BY <1>5 DEF ReplyTrue
    <2>2. conn'[k].id = i /\ i \in 1..seq'
      BY <1>1, <1>2, <2>1
    <2>3. IsActive(conn[k].id)' <=> IsActive(i)'
      BY <2>2 DEF IsActive
    <2> QED
      BY <1>3, <2>1, <2>2, <2>3 DEF ReplyTrue, Succeeded
  <1>6. CASE ~Succeeded(k, SessionOps)
    BY <1>4, <1>6 DEF ReplyTrue, Succeeded, SessionOps
  <1> QED
    BY <1>5, <1>6

\* A reply that has just been given is true, and claims what none did before.
LEMMA GivenIsTrue ==
    ASSUME RepliesInv, NEW k \in Conns, NEW i \in Ids, Gives(k, i)
    PROVE  /\ ReplyTrue(k)'
           /\ \A j \in Conns \ {k} : \A ops \in {{"start"}, {"end", "discard"}} :
                 Succeeded(j, ops) /\ Succeeded(k, ops)' => conn[j].id # i
  <1>1. /\ conn[k] \in Exchange /\ seq \in Nat /\ Ids \subseteq Nat \ {0}
        /\ \A x \in DOMAIN records : x \in Ids /\ x <= seq
    BY StoreAssumption
    DEF RepliesInv, ApiInv, ApiTypeOK, StoreTypeOK, StoreInv, RowsReferToClients, Ids
  <1>2. /\ conn'[k].req = conn[k].req /\ conn'[k].owner = conn[k].owner /\ conn'[k].id = i
        /\ \A ops : Succeeded(k, ops)' => conn[k].req.op \in ops
    BY <1>1 DEF Gives, Exchange, Succeeded
  <1>3. Target(conn[k].req, conn[k].owner)' = Target(conn[k].req, conn[k].owner)
    BY <1>2 DEF Target
  <1>4. IsActive(conn[k].id)' <=> IsActive(i)'
    BY <1>2 DEF IsActive
  <1>5. CASE conn[k].req.op = "start"
    <2>1. /\ i = seq + 1 /\ seq' = seq + 1
          /\ records'[i].client = Target(conn[k].req, conn[k].owner)
      BY <1>5 DEF Gives
    <2>2. ReplyTrue(k)'
      BY <1>1, <1>2, <1>3, <1>5, <2>1 DEF ReplyTrue
    <2>3. \A j \in Conns : Succeeded(j, {"start"}) => conn[j].id # i
      BY <1>1, <2>1 DEF RepliesInv, ReplyTrue, Succeeded, SessionOps
    <2> QED
      BY <1>2, <1>5, <2>2, <2>3
  <1>6. CASE conn[k].req.op \in {"end", "discard"}
    <2>1. IsActive(i) /\ ~IsActive(i)' /\ seq' = seq
      BY <1>6 DEF Gives
    <2>2. i \in 1..seq
      BY <1>1, <2>1 DEF IsActive
    <2>3. ReplyTrue(k)'
      BY <1>2, <1>4, <1>6, <2>1, <2>2 DEF ReplyTrue
    <2>4. \A j \in Conns : Succeeded(j, {"end", "discard"}) => conn[j].id # i
      BY <2>1 DEF RepliesInv, ReplyTrue, Succeeded
    <2> QED
      BY <1>2, <1>6, <2>3, <2>4
  <1>7. CASE conn[k].req.op = "delete"
    <2>1. i \in DOMAIN records /\ i \notin DOMAIN records' /\ seq' = seq
      BY <1>7 DEF Gives
    <2>2. i \in 1..seq /\ ~IsActive(i)'
      BY <1>1, <2>1 DEF IsActive
    <2>3. ReplyTrue(k)'
      BY <1>2, <1>4, <1>7, <2>1, <2>2 DEF ReplyTrue
    <2> QED
      BY <1>2, <1>7, <2>3
  <1> QED
    BY <1>5, <1>6, <1>7 DEF Gives

LEMMA RepliesInvStep == RepliesInv /\ [ApiNext]_apiVars => RepliesInv'
  <1> SUFFICES ASSUME RepliesInv, [ApiNext]_apiVars PROVE RepliesInv'
    OBVIOUS
  <1>1. ApiInv /\ ApiInv'
    BY ApiInvStep DEF RepliesInv
  <1>2. ASSUME NEW j \in Conns, conn'[j] = conn[j]
        PROVE  ReplyTrue(j)' /\ \A ops : Succeeded(j, ops)' <=> Succeeded(j, ops)
    BY <1>1, <1>2, TrueStaysTrue DEF RepliesInv, Succeeded
  <1>3. ASSUME NEW k \in Conns, NEW i \in Ids, Gives(k, i)
        PROVE  RepliesInv'
    <2>1. /\ ReplyTrue(k)' /\ conn'[k].id = i
          /\ \A j \in Conns \ {k} : \A ops \in {{"start"}, {"end", "discard"}} :
                Succeeded(j, ops) /\ Succeeded(k, ops)' => conn[j].id # i
      <3>1. conn[k] \in Exchange
        BY <1>1 DEF ApiInv, ApiTypeOK
      <3>2. conn'[k].id = i
        BY <1>3, <3>1 DEF Gives, Exchange
      <3> QED
        BY <1>3, <3>2, GivenIsTrue
    <2>2. \A j \in Conns \ {k} : conn'[j] = conn[j]
      BY <1>3 DEF Gives
    <2>3. \A j \in Conns : ReplyTrue(j)'
      BY <1>2, <2>1, <2>2
    <2>4. RepliesDistinct'
      BY <1>2, <2>1, <2>2 DEF RepliesDistinct, RepliesInv
    <2> QED
      BY <1>1, <2>3, <2>4 DEF RepliesInv
  <1>4. CASE \A k \in Conns : conn'[k] = conn[k] \/ ~Succeeded(k, SessionOps)'
    <2>1. \A k \in Conns : ReplyTrue(k)'
      BY <1>2, <1>4 DEF ReplyTrue, Succeeded, SessionOps
    <2>2. RepliesDistinct'
      <3> SUFFICES ASSUME NEW j \in Conns, NEW k \in Conns, j # k,
                          NEW ops \in {{"start"}, {"end", "discard"}},
                          Succeeded(j, ops)', Succeeded(k, ops)'
                   PROVE  conn'[j].id # conn'[k].id
        BY DEF RepliesDistinct
      <3>1. conn'[j] = conn[j] /\ conn'[k] = conn[k]
        BY <1>4 DEF Succeeded, SessionOps
      <3> QED
        BY <1>2, <3>1 DEF RepliesInv, RepliesDistinct
    <2> QED
      BY <1>1, <2>1, <2>2 DEF RepliesInv
  <1> QED
    BY <1>1, <1>3, <1>4, RepliesStep

LEMMA RepliesInvInitially == ApiInit => RepliesInv
  <1>1. ASSUME ApiInit PROVE \A k \in Conns : conn[k].phase = "idle"
    BY <1>1 DEF ApiInit, Idle
  <1> QED
    BY <1>1, ApiInitInv DEF RepliesInv, RepliesDistinct, ReplyTrue, Succeeded

\* Starts hand out distinct sessions, and of several requests racing to end or
\* discard one only one is told that it did, whatever is deleted meanwhile.
THEOREM RepliesStayDistinct == ApiSpec => []RepliesDistinct
  <1>1. RepliesInv => RepliesDistinct
    BY DEF RepliesInv
  <1> QED
    BY <1>1, RepliesInvInitially, RepliesInvStep, PTL DEF ApiSpec

\* A reply is still true when it is read, however long it has travelled.
THEOREM RepliesStayTruthful == ApiSpec => []RepliesTruthful
  <1>1. RepliesInv => RepliesTruthful
    BY DEF RepliesInv, RepliesTruthful, ReplyTrue
  <1> QED
    BY <1>1, RepliesInvInitially, RepliesInvStep, PTL DEF ApiSpec

\* Exchanges are well typed: what is served is a request of the model.
THEOREM ExchangesWellTyped == ApiSpec => []ApiTypeOK
  <1>1. RepliesInv => ApiTypeOK
    BY DEF RepliesInv, ApiInv
  <1> QED
    BY <1>1, RepliesInvInitially, RepliesInvStep, PTL DEF ApiSpec

-----------------------------------------------------------------------------
(* The wrappers *)

StartRequest(w) ==
    [op |-> "start", cred |-> TokenOf[w], client |-> ClientOf[w], arg |-> NULL, pid |-> w]

EndRequest(w) ==
    [op |-> "end", cred |-> TokenOf[w], client |-> NULL, arg |-> sid[w], pid |-> NULL]

\* Connection 0 carries the start and the others the ends, which are sent
\* when the start has been answered.
LineInOrder(w) ==
    /\ conn[<<w, 0>>].phase # "idle" => conn[<<w, 0>>].req = StartRequest(w)
    /\ \A n \in 1..3 : conn[<<w, n>>].phase # "idle" => conn[<<w, n>>].req = EndRequest(w)
    /\ pc[w] = "init" => conn[<<w, 0>>].phase = "idle"
    /\ pc[w] \in {"init", "starting"} =>
          attempt[w] = 0 /\ \A n \in 1..3 : conn[<<w, n>>].phase = "idle"
    /\ pc[w] \in {"ending", "reporting"} => attempt[w] \in 1..3

LinesInOrder == \A w \in Wrappers : LineInOrder(w)

\* A start that has not been served has no row yet.
StartPending(w) == pc[w] = "init" \/ conn[<<w, 0>>].phase \in {"sent", "authed"}

\* The id is out, and the row under it is the wrapper's.
Owned(w, i) == i \in 1..seq /\ (i \in DOMAIN records => records[i].pid = w)

RowsOwned ==
    /\ \A i \in DOMAIN records : records[i].pid \in Wrappers /\ ~StartPending(records[i].pid)
    /\ \A w \in Wrappers :
        /\ sid[w] # NULL => Owned(w, sid[w])
        /\ conn[<<w, 0>>].phase = "replied" /\ conn[<<w, 0>>].code = 200 =>
              Owned(w, conn[<<w, 0>>].id)

\* What a wrapper does, it does as the client its token has had from the start.
ClientOfToken ==
    /\ \A k \in Conns : conn[k].phase = "authed" =>
        /\ conn[k].owner # Admin
        /\ TokenOf[k[1]] \in issued
        /\ TokenOf[k[1]] \in DOMAIN tokens => conn[k].owner = tokens[TokenOf[k[1]]]
    /\ \A i \in DOMAIN records :
        LET w == records[i].pid IN
        /\ TokenOf[w] \in issued
        /\ TokenOf[w] \in DOMAIN tokens =>
              records[i].client = IF ClientOf[w] = NULL THEN tokens[TokenOf[w]] ELSE ClientOf[w]

IInv ==
    /\ ApiInv
    /\ RunTypeOK
    /\ LinesInOrder
    /\ RowsOwned
    /\ ClientOfToken
    /\ OneRowEach
    /\ EndedUnderTokensClient

-----------------------------------------------------------------------------
(* The server's own invariant *)

LEMMA Constants ==
    /\ Conns = Wrappers \X (0..3) /\ Wrappers \subseteq Pids /\ NULL \notin Int
    /\ NULL \notin Wrappers /\ NULL \notin Clients /\ Admin \notin Clients \cup Tokens \cup {NULL}
    /\ \A w \in Wrappers : /\ TokenOf[w] \in Tokens /\ ClientOf[w] \in Clients \cup {NULL}
                           /\ \A n \in 0..3 : <<w, n>> \in Conns
    /\ \A k \in Conns : k[1] \in Wrappers /\ k = <<k[1], k[2]>> /\ k[2] \in 0..3
    /\ Ids \subseteq Nat \ {0}
  BY StoreAssumption, ApiAssumption, RunAssumption DEF Ids

LEMMA IdIsNoNull == \A i \in Ids : i # NULL
  <1>1. ASSUME NEW i \in Ids PROVE i \in Int
    BY StoreAssumption DEF Ids
  <1> QED
    BY <1>1, Constants

LEMMA ConnTypes ==
    ASSUME IInv
    PROVE  /\ conn \in [Conns -> Exchange] /\ seq \in 0..MaxId /\ now \in Times
           /\ sid \in [Wrappers -> Ids \cup {NULL}] /\ attempt \in [Wrappers -> 0..3]
           /\ pc \in [Wrappers -> {"init", "starting", "running", "ending", "reporting"} \cup Over]
  BY DEF IInv, ApiInv, ApiTypeOK, StoreTypeOK, RunTypeOK

LEMMA RequestTypes ==
    ASSUME IInv, NEW w \in Wrappers
    PROVE  StartRequest(w) \in Request /\ EndRequest(w) \in Request
  <1>1. sid[w] \in Ids \cup {NULL}
    BY ConnTypes
  <1> QED
    BY <1>1, Constants
    DEF StartRequest, EndRequest, Request, BearerOps, AdminOps

\* Sending a request is no step of ApiNext when the request is not among
\* those of its model, but keeps its invariant.
LEMMA SubmitKeepsApi ==
    ASSUME ApiInv, NEW k \in Conns, NEW r \in Request, Submit(k, r)
    PROVE  ApiInv'
  <1>1. /\ conn' = [conn EXCEPT ![k] = [Idle EXCEPT !.phase = "sent", !.req = r]]
        /\ UNCHANGED storeVars
    BY DEF Submit
  <1>2. conn \in [Conns -> Exchange] /\ [Idle EXCEPT !.phase = "sent", !.req = r] \in Exchange
    BY DEF ApiInv, ApiTypeOK, Idle, Exchange, Phases, Codes
  <1>3. /\ conn' \in [Conns -> Exchange] /\ conn'[k].phase = "sent" /\ conn'[k].req = r
        /\ \A j \in Conns : j # k => conn'[j] = conn[j]
    BY <1>1, <1>2 DEF Idle
  <1>4. ApiTypeOK'
    BY <1>3 DEF ApiInv, ApiTypeOK
  <1>5. AdmittedInScope'
    <2>1. \A j \in Conns : conn'[j].phase = "authed" => conn'[j] = conn[j] /\ conn[j].phase = "authed"
      BY <1>3
    <2> QED
      BY <2>1 DEF ApiInv, AdmittedInScope, Target
  <1>6. StoreTypeOK' /\ StoreInv'
    BY <1>1, StoreTypeStep, StoreInvStep DEF ApiInv, StoreInv
  <1> QED
    BY <1>4, <1>5, <1>6 DEF ApiInv

\* The web user's operations are steps of the store that no exchange sees.
LEMMA StoreStepKeepsApi ==
    ASSUME ApiInv, [StoreNext]_storeVars, UNCHANGED conn
    PROVE  ApiInv'
  <1>1. StoreTypeOK' /\ StoreInv'
    BY StoreTypeStep, StoreInvStep DEF ApiInv, StoreInv
  <1>2. ApiTypeOK' /\ AdmittedInScope'
    BY DEF ApiInv, ApiTypeOK, AdmittedInScope, Target
  <1> QED
    BY <1>1, <1>2 DEF ApiInv

-----------------------------------------------------------------------------
(* The steps of the script *)

\* The script goes on with its session as it is: what it waits for has come or
\* not, and the connection is free again or not.
LEMMA ScriptGoesOn ==
    ASSUME IInv, NEW w \in Wrappers, ApiInv', UNCHANGED <<storeVars, sid, tidied>>,
           \A k \in Conns : conn'[k] = conn[k] \/ conn'[k] = Idle,
           NEW l \in {"running", "ending", "reporting"} \cup Over, pc' = [pc EXCEPT ![w] = l],
           attempt' \in [Wrappers -> 0..3], \A v \in Wrappers : v # w => attempt'[v] = attempt[v],
           l \in {"ending", "reporting"} => attempt'[w] \in 1..3,
           ranFrom' \in [Wrappers -> Times \cup {NULL}], ranTo' \in [Wrappers -> Times \cup {NULL}],
           faults' \in 0..MaxFaults
    PROVE  IInv'
  <1>1. UNCHANGED <<records, seq, tokens, issued>> /\ Idle.phase = "idle"
    BY DEF storeVars, Idle
  <1>2. /\ pc' \in [Wrappers -> {"init", "starting", "running", "ending", "reporting"} \cup Over]
        /\ pc'[w] = l /\ l \notin {"init", "starting"} /\ \A v \in Wrappers : v # w => pc'[v] = pc[v]
    BY ConnTypes DEF Over
  <1>3. RunTypeOK'
    BY <1>2 DEF IInv, RunTypeOK
  <1>4. LinesInOrder'
    <2>1. ASSUME NEW v \in Wrappers PROVE EndRequest(v)' = EndRequest(v)
      BY DEF EndRequest
    <2>2. ASSUME NEW v \in Wrappers, NEW n \in 0..3
          PROVE  conn'[<<v, n>>] = conn[<<v, n>>] \/ conn'[<<v, n>>].phase = "idle"
      BY <1>1, Constants
    <2>3. ASSUME NEW v \in Wrappers
          PROVE  pc'[v] \in {"init", "starting", "ending", "reporting"} =>
                    (v # w /\ pc'[v] = pc[v] /\ attempt'[v] = attempt[v])
                    \/ (pc'[v] \in {"ending", "reporting"} /\ attempt'[v] \in 1..3)
      BY <1>2
    <2>4. ASSUME NEW v \in Wrappers PROVE LineInOrder(v)'
      <3>1. LineInOrder(v)
        BY DEF IInv, LinesInOrder
      <3>2. conn'[<<v, 0>>].phase # "idle" => conn'[<<v, 0>>].req = StartRequest(v)'
        BY <2>2, <3>1 DEF LineInOrder, StartRequest
      <3>3. \A n \in 1..3 : conn'[<<v, n>>].phase # "idle" => conn'[<<v, n>>].req = EndRequest(v)'
        BY <2>1, <2>2, <3>1 DEF LineInOrder
      <3>4. pc'[v] = "init" => conn'[<<v, 0>>].phase = "idle"
        BY <2>2, <2>3, <3>1 DEF LineInOrder
      <3>5. pc'[v] \in {"init", "starting"} =>
                attempt'[v] = 0 /\ \A n \in 1..3 : conn'[<<v, n>>].phase = "idle"
        BY <2>2, <2>3, <3>1 DEF LineInOrder
      <3>6. pc'[v] \in {"ending", "reporting"} => attempt'[v] \in 1..3
        BY <2>3, <3>1 DEF LineInOrder
      <3> QED
        BY <3>2, <3>3, <3>4, <3>5, <3>6 DEF LineInOrder
    <2> QED
      BY <2>4 DEF LinesInOrder
  <1>5. ASSUME NEW v \in Wrappers PROVE StartPending(v)' => StartPending(v)
    BY <1>1, <1>2, <1>5, Constants DEF StartPending
  <1>6. RowsOwned'
    BY <1>1, <1>5, Constants DEF IInv, RowsOwned, Owned
  <1>7. ClientOfToken'
    BY <1>1 DEF IInv, ClientOfToken
  <1>8. OneRowEach' /\ EndedUnderTokensClient'
    BY <1>1 DEF IInv, OneRowEach, EndedUnderTokensClient
  <1> QED
    BY <1>3, <1>4, <1>6, <1>7, <1>8 DEF IInv

\* The script sends the request that is due.
LEMMA ScriptSends ==
    ASSUME IInv, NEW w \in Wrappers, SendStart(w) \/ SendEnd(w)
    PROVE  IInv'
  <1> DEFINE k == Line(w)
             r == IF pc[w] = "init" THEN StartRequest(w) ELSE EndRequest(w)
  <1>1. /\ k = <<w, attempt[w]>> /\ k \in Conns /\ r \in Request
        /\ pc[w] = "init" => attempt[w] = 0
        /\ pc[w] # "init" => attempt[w] \in 1..3
        /\ pc[w] \in {"init", "ending"}
    <2>1. attempt[w] \in 0..3 /\ pc[w] \in {"init", "ending"}
      BY ConnTypes DEF SendStart, SendEnd
    <2>2. LineInOrder(w)
      BY DEF IInv, LinesInOrder
    <2> QED
      BY <2>1, <2>2, Constants, RequestTypes DEF Line, LineInOrder
  <1>2. /\ Submit(k, r)
        /\ pc' = [pc EXCEPT ![w] = IF pc[w] = "init" THEN "starting" ELSE "reporting"]
        /\ UNCHANGED <<attempt, sid, ranFrom, ranTo, faults, tidied>>
    BY <1>1 DEF SendStart, SendEnd, Goto, StartRequest, EndRequest
  <1>3. UNCHANGED <<records, seq, tokens, issued>>
    BY <1>2 DEF Submit, storeVars
  <1>4. ApiInv'
    BY <1>1, <1>2, SubmitKeepsApi DEF IInv
  <1>5. /\ conn[k].phase = "idle" /\ conn'[k].phase = "sent" /\ conn'[k].req = r
        /\ \A j \in Conns : j # k => conn'[j] = conn[j]
    BY <1>1, <1>2, ConnTypes DEF Submit, Idle
  <1>6. /\ pc'[w] = IF pc[w] = "init" THEN "starting" ELSE "reporting"
        /\ \A v \in Wrappers : v # w => pc'[v] = pc[v]
        /\ pc' \in [Wrappers -> {"init", "starting", "running", "ending", "reporting"} \cup Over]
    BY <1>2, ConnTypes
  <1>7. RunTypeOK'
    BY <1>2, <1>6 DEF IInv, RunTypeOK
  <1>8. ASSUME NEW v \in Wrappers PROVE LineInOrder(v)'
    <2>1. LineInOrder(v) /\ \A n \in 0..3 : <<v, n>> \in Conns
      BY Constants DEF IInv, LinesInOrder
    <2>2. EndRequest(v)' = EndRequest(v) /\ StartRequest(v)' = StartRequest(v)
      BY <1>2 DEF EndRequest, StartRequest
    <2>3. CASE v = w
      BY <1>1, <1>2, <1>5, <1>6, <2>1, <2>2, <2>3 DEF LineInOrder
    <2>4. CASE v # w
      <3>1. \A n \in 0..3 : conn'[<<v, n>>] = conn[<<v, n>>]
        BY <1>1, <1>5, <2>1, <2>4
      <3> QED
        BY <1>2, <1>6, <2>1, <2>2, <2>4, <3>1 DEF LineInOrder
    <2> QED
      BY <2>3, <2>4
  <1>9. ASSUME NEW v \in Wrappers PROVE StartPending(v)' => StartPending(v)
    BY <1>1, <1>5, <1>6, Constants DEF StartPending
  <1>10. \A j \in Conns : conn'[j].phase \in {"replied", "authed"} => conn'[j] = conn[j]
    BY <1>5
  <1>11. RowsOwned'
    BY <1>2, <1>3, <1>9, <1>10, Constants DEF IInv, RowsOwned, Owned
  <1>12. ClientOfToken'
    BY <1>3, <1>10 DEF IInv, ClientOfToken
  <1>13. OneRowEach' /\ EndedUnderTokensClient'
    BY <1>2, <1>3 DEF IInv, OneRowEach, EndedUnderTokensClient
  <1> QED
    BY <1>4, <1>7, <1>8, <1>11, <1>12, <1>13 DEF IInv, LinesInOrder

\* The start has been answered: the reply names the wrapper's own session.
LEMMA ScriptStarts ==
    ASSUME IInv, NEW w \in Wrappers, GotStart(w), conn[Line(w)].code = 200, ApiInv'
    PROVE  IInv'
  <1>1. /\ pc[w] = "starting" /\ Line(w) = <<w, 0>> /\ <<w, 0>> \in Conns
        /\ \A n \in 1..3 : conn[<<w, n>>].phase = "idle"
    BY Constants DEF GotStart, IInv, LinesInOrder, LineInOrder, Line
  <1> DEFINE k == <<w, 0>>
  <1>2. /\ conn[k].phase = "replied" /\ conn[k].code = 200
        /\ conn' = [conn EXCEPT ![k] = Idle]
        /\ sid' = [sid EXCEPT ![w] = conn[k].id]
        /\ ranFrom' = [ranFrom EXCEPT ![w] = now]
        /\ pc' = [pc EXCEPT ![w] = "running"]
        /\ UNCHANGED <<storeVars, attempt, ranTo, faults, tidied>>
    BY <1>1 DEF GotStart, Receive, Goto
  <1>3. UNCHANGED <<records, seq, tokens, issued>> /\ Idle.phase = "idle"
    BY <1>2 DEF storeVars, Idle
  <1>4. Owned(w, conn[k].id) /\ conn[k].id \in Ids
    <2>1. Owned(w, conn[k].id)
      BY <1>2 DEF IInv, RowsOwned
    <2>2. conn[k].id \in 1..seq
      BY <2>1 DEF Owned
    <2> QED
      BY <2>1, <2>2, ConnTypes, StoreAssumption DEF Ids
  <1>5. /\ conn'[k] = Idle /\ \A j \in Conns : j # k => conn'[j] = conn[j]
        /\ sid'[w] = conn[k].id /\ \A v \in Wrappers : v # w => sid'[v] = sid[v]
        /\ pc'[w] = "running" /\ \A v \in Wrappers : v # w => pc'[v] = pc[v]
        /\ sid' \in [Wrappers -> Ids \cup {NULL}]
        /\ pc' \in [Wrappers -> {"init", "starting", "running", "ending", "reporting"} \cup Over]
    BY <1>1, <1>2, <1>4, ConnTypes
  <1>6. RunTypeOK'
    BY <1>2, <1>5, ConnTypes DEF IInv, RunTypeOK
  <1>7. ASSUME NEW v \in Wrappers PROVE LineInOrder(v)'
    <2>1. LineInOrder(v) /\ \A n \in 0..3 : <<v, n>> \in Conns
      BY Constants DEF IInv, LinesInOrder
    <2>2. CASE v = w
      BY <1>1, <1>2, <1>3, <1>5, <2>1, <2>2 DEF LineInOrder
    <2>3. CASE v # w
      <3>1. /\ \A n \in 0..3 : conn'[<<v, n>>] = conn[<<v, n>>]
            /\ EndRequest(v)' = EndRequest(v) /\ StartRequest(v)' = StartRequest(v)
        BY <1>5, <2>1, <2>3 DEF EndRequest, StartRequest
      <3> QED
        BY <1>2, <1>5, <2>1, <2>3, <3>1 DEF LineInOrder
    <2> QED
      BY <2>2, <2>3
  <1>8. ASSUME NEW v \in Wrappers PROVE StartPending(v)' => StartPending(v)
    BY <1>3, <1>5, Constants DEF StartPending
  <1>9. \A j \in Conns : conn'[j].phase \in {"replied", "authed"} => conn'[j] = conn[j]
    BY <1>3, <1>5
  <1>10. RowsOwned'
    <2>1. ASSUME NEW v \in Wrappers, sid'[v] # NULL
          PROVE  sid'[v] \in 1..seq /\ (sid'[v] \in DOMAIN records => records[sid'[v]].pid = v)
      <3>1. CASE v = w
        BY <1>4, <1>5, <3>1 DEF Owned
      <3>2. CASE v # w
        <4>1. sid[v] # NULL /\ sid'[v] = sid[v]
          BY <1>5, <2>1, <3>2
        <4>2. Owned(v, sid[v])
          BY <4>1 DEF IInv, RowsOwned
        <4> QED
          BY <4>1, <4>2 DEF Owned
      <3> QED
        BY <3>1, <3>2
    <2> QED
      BY <1>3, <1>8, <1>9, <2>1, Constants DEF IInv, RowsOwned, Owned
  <1>11. ClientOfToken'
    BY <1>3, <1>9 DEF IInv, ClientOfToken
  <1>12. OneRowEach' /\ EndedUnderTokensClient'
    BY <1>2, <1>3 DEF IInv, OneRowEach, EndedUnderTokensClient
  <1> QED
    BY <1>6, <1>7, <1>10, <1>11, <1>12 DEF IInv, LinesInOrder

-----------------------------------------------------------------------------
(* The server *)

\* A step that writes no row, and changes exchanges only by dropping them, or
\* by letting them in or turning them away at the first lock.
LEMMA RowsUntouched ==
    ASSUME IInv, ApiInv', UNCHANGED <<records, seq, scriptVars, tidied>>, faults' \in 0..MaxFaults,
           \A k \in Conns :
              \/ conn'[k] = conn[k]
              \/ conn'[k].phase = "idle"
              \/ /\ conn[k].phase \in {"sent", "authed"} /\ conn'[k].req = conn[k].req
                 /\ conn'[k].phase = "replied" /\ conn'[k].code # 200
              \/ /\ conn[k].phase = "sent" /\ conn'[k].req = conn[k].req
                 /\ conn'[k].phase = "authed"
                 /\ TokenOf[k[1]] \in DOMAIN tokens /\ conn'[k].owner = tokens[TokenOf[k[1]]],
           issued \subseteq issued',
           \A t \in issued : t \in DOMAIN tokens' => t \in DOMAIN tokens /\ tokens'[t] = tokens[t]
    PROVE  IInv'
  <1>1. UNCHANGED <<pc, attempt, sid, ranFrom, ranTo>>
    BY DEF scriptVars
  <1>2. RunTypeOK'
    BY <1>1 DEF IInv, RunTypeOK
  <1>3. ASSUME NEW v \in Wrappers PROVE LineInOrder(v)'
    <2>1. LineInOrder(v) /\ \A n \in 0..3 : <<v, n>> \in Conns
      BY Constants DEF IInv, LinesInOrder
    <2>2. EndRequest(v)' = EndRequest(v) /\ StartRequest(v)' = StartRequest(v)
      BY <1>1 DEF EndRequest, StartRequest
    <2>3. \A n \in 0..3 :
              /\ conn[<<v, n>>].phase = "idle" => conn'[<<v, n>>].phase = "idle"
              /\ conn'[<<v, n>>].phase = "idle" \/ conn'[<<v, n>>].req = conn[<<v, n>>].req
      BY <2>1
    <2> QED
      BY <1>1, <2>1, <2>2, <2>3 DEF LineInOrder
  <1>4. ASSUME NEW v \in Wrappers PROVE StartPending(v)' => StartPending(v)
    <2>1. <<v, 0>> \in Conns
      BY Constants
    <2> QED
      BY <1>1, <2>1 DEF StartPending
  <1>5. RowsOwned'
    <2>1. \A w \in Wrappers : conn'[<<w, 0>>].phase = "replied" /\ conn'[<<w, 0>>].code = 200 =>
              conn'[<<w, 0>>] = conn[<<w, 0>>]
      BY Constants
    <2> QED
      BY <1>1, <1>4, <2>1 DEF IInv, RowsOwned, Owned
  <1>6. ClientOfToken'
    <2>1. DOMAIN tokens \subseteq issued
      BY DEF IInv, ApiInv, StoreInv
    <2>2. ASSUME NEW k \in Conns, conn'[k].phase = "authed"
          PROVE  /\ conn'[k].owner # Admin
                 /\ TokenOf[k[1]] \in issued'
                 /\ TokenOf[k[1]] \in DOMAIN tokens' => conn'[k].owner = tokens'[TokenOf[k[1]]]
      <3>1. CASE conn'[k] = conn[k]
        BY <2>2, <3>1 DEF IInv, ClientOfToken
      <3>2. CASE TokenOf[k[1]] \in DOMAIN tokens /\ conn'[k].owner = tokens[TokenOf[k[1]]]
        <4>1. tokens[TokenOf[k[1]]] # Admin
          BY <3>2, Constants DEF IInv, ApiInv, StoreTypeOK
        <4> QED
          BY <2>1, <3>2, <4>1
      <3> QED
        BY <2>2, <3>1, <3>2
    <2>3. ASSUME NEW i \in DOMAIN records'
          PROVE  /\ TokenOf[records'[i].pid] \in issued'
                 /\ TokenOf[records'[i].pid] \in DOMAIN tokens' =>
                      records'[i].client = IF ClientOf[records'[i].pid] = NULL
                                           THEN tokens'[TokenOf[records'[i].pid]]
                                           ELSE ClientOf[records'[i].pid]
      BY DEF IInv, ClientOfToken
    <2> QED
      BY <2>2, <2>3 DEF ClientOfToken
  <1>7. OneRowEach' /\ EndedUnderTokensClient'
    <2>1. OneRowEach'
      BY DEF IInv, OneRowEach
    <2>2. \A i \in DOMAIN records : TokenOf[records[i].pid] \in issued
      BY DEF IInv, ClientOfToken
    <2> QED
      BY <2>1, <2>2 DEF IInv, EndedUnderTokensClient
  <1> QED
    BY <1>2, <1>3, <1>5, <1>6, <1>7 DEF IInv, LinesInOrder

\* The client a wrapper's start is for, and its end is looked up under.
LEMMA Targets ==
    ASSUME IInv, NEW w \in Wrappers
    PROVE  /\ \A who : Target(StartRequest(w), who) = IF ClientOf[w] = NULL THEN who ELSE ClientOf[w]
           /\ \A who : Target(EndRequest(w), who) = who
  BY DEF Target, StartRequest, EndRequest

\* A reply that the step gives on connection k.
LEMMA Replied ==
    ASSUME IInv, NEW k \in Conns, NEW status, NEW i, Reply(k, status, i)
    PROVE  /\ conn'[k].phase = "replied" /\ conn'[k].code = status /\ conn'[k].id = i
           /\ conn'[k].req = conn[k].req
           /\ \A j \in Conns : j # k => conn'[j] = conn[j]
  <1>1. conn[k] \in Exchange /\ conn \in [Conns -> Exchange]
    BY ConnTypes
  <1> QED
    BY <1>1 DEF Reply, Exchange

\* The request on a line in use.
LEMMA LineRequest ==
    ASSUME IInv, NEW k \in Conns, conn[k].phase # "idle"
    PROVE  /\ k[1] \in Wrappers
           /\ k[2] = 0 => k = <<k[1], 0>> /\ conn[k].req = StartRequest(k[1])
           /\ k[2] # 0 => conn[k].req = EndRequest(k[1])
  <1>1. k[1] \in Wrappers /\ k = <<k[1], k[2]>> /\ k[2] \in 0..3
    BY Constants
  <1>2. LineInOrder(k[1])
    BY <1>1 DEF IInv, LinesInOrder
  <1>3. CASE k[2] = 0
    <2>1. k = <<k[1], 0>>
      BY <1>1, <1>3
    <2> QED
      BY <1>1, <1>2, <1>3, <2>1 DEF LineInOrder
  <1>4. CASE k[2] # 0
    <2>1. k[2] \in 1..3
      BY <1>1, <1>4
    <2> QED
      BY <1>1, <1>2, <1>4, <2>1 DEF LineInOrder
  <1> QED
    BY <1>3, <1>4

LEMMA AuthenticateKeepsInv ==
    ASSUME IInv, NEW k \in Conns, Authenticate(k), ApiInv', UNCHANGED <<scriptVars, faults, tidied>>
    PROVE  IInv'
  <1>1. conn[k].phase = "sent" /\ UNCHANGED storeVars /\ UNCHANGED <<records, seq, tokens, issued>>
    BY DEF Authenticate, storeVars
  <1>2. conn[k].req.cred = TokenOf[k[1]] /\ TokenOf[k[1]] # Admin
    <2>1. k[1] \in Wrappers /\ conn[k].req \in {StartRequest(k[1]), EndRequest(k[1])}
      BY <1>1, LineRequest
    <2>2. conn[k].req.cred = TokenOf[k[1]]
      BY <2>1 DEF StartRequest, EndRequest
    <2> QED
      BY <2>1, <2>2, Constants
  <1>3. ASSUME NEW who, Admit(k, who), who = tokens[TokenOf[k[1]]], TokenOf[k[1]] \in DOMAIN tokens
        PROVE  IInv'
    <2>1. conn[k] \in Exchange /\ conn \in [Conns -> Exchange]
      BY ConnTypes
    <2>2. /\ conn'[k].phase = "authed" /\ conn'[k].owner = who /\ conn'[k].req = conn[k].req
          /\ \A j \in Conns : j # k => conn'[j] = conn[j]
      BY <1>3, <2>1 DEF Admit, Exchange
    <2>3. faults' \in 0..MaxFaults
      BY DEF IInv, RunTypeOK
    <2> QED
      BY <1>1, <1>3, <2>2, <2>3, RowsUntouched
  <1>4. ASSUME NEW status, Reply(k, status, NULL), status # 200
        PROVE  IInv'
    <2>1. faults' \in 0..MaxFaults
      BY DEF IInv, RunTypeOK
    <2> QED
      BY <1>1, <1>4, <2>1, Replied, RowsUntouched
  <1>5. ~HasBasic(conn[k].req)
    BY <1>2 DEF HasBasic
  <1> QED
    BY <1>2, <1>3, <1>4, <1>5 DEF Authenticate, HasBearer

\* A start is served: the wrapper's first row, under a new id.
LEMMA StartServed ==
    ASSUME IInv, NEW k \in Conns, ExecStart(k), ApiInv', UNCHANGED <<scriptVars, faults, tidied>>
    PROVE  IInv'
  <1> DEFINE w == k[1]
             i == seq + 1
  <1>1. UNCHANGED <<pc, attempt, sid, ranFrom, ranTo>>
    BY DEF scriptVars
  <1>2. conn[k].phase = "authed" /\ conn[k].req.op = "start"
    BY DEF ExecStart, Serving
  <1>3. w \in Wrappers /\ k = <<w, 0>> /\ conn[k].req = StartRequest(w)
    <2>1. EndRequest(w).op # "start" /\ conn[k].phase # "idle"
      BY <1>2 DEF EndRequest
    <2> QED
      BY <1>2, <2>1, LineRequest
  <1> DEFINE c == Target(conn[k].req, conn[k].owner)
             row == [client |-> c, pid |-> w, start |-> now,
                     end |-> NULL, duration |-> NULL, status |-> "active"]
  <1>4. /\ records' = Put(records, i, row) /\ seq' = i /\ i \in Ids
        /\ UNCHANGED <<tokens, issued, now>> /\ Reply(k, 200, i)
    BY <1>3 DEF ExecStart, StartSession, Insert, NextId, StartRequest
  <1>5. seq \in Nat /\ \A j \in DOMAIN records : j \in Int /\ j <= seq
    BY ConnTypes DEF IInv, ApiInv, StoreTypeOK, StoreInv, RowsReferToClients, Ids
  <1>6. /\ DOMAIN records' = DOMAIN records \cup {i} /\ i \notin DOMAIN records
        /\ records'[i].pid = w /\ records'[i].client = c /\ records'[i].status = "active"
        /\ \A j \in DOMAIN records : records'[j] = records[j]
    BY <1>4, <1>5 DEF Put
  <1>7. /\ conn'[k].phase = "replied" /\ conn'[k].code = 200 /\ conn'[k].id = i
        /\ conn'[k].req = conn[k].req /\ \A j \in Conns : j # k => conn'[j] = conn[j]
    BY <1>4, Replied
  <1>8. \A j \in DOMAIN records : records[j].pid # w
    BY <1>2, <1>3 DEF IInv, RowsOwned, StartPending
  <1>9. RunTypeOK'
    BY <1>1 DEF IInv, RunTypeOK
  <1>10. ASSUME NEW v \in Wrappers PROVE LineInOrder(v)'
    <2>1. LineInOrder(v) /\ \A n \in 0..3 : <<v, n>> \in Conns
      BY Constants DEF IInv, LinesInOrder
    <2>2. EndRequest(v)' = EndRequest(v) /\ StartRequest(v)' = StartRequest(v)
      BY <1>1 DEF EndRequest, StartRequest
    <2>3. \A n \in 0..3 : /\ conn[<<v, n>>].phase = "idle" <=> conn'[<<v, n>>].phase = "idle"
                          /\ conn'[<<v, n>>].req = conn[<<v, n>>].req
      BY <1>2, <1>7, <2>1
    <2> QED
      BY <1>1, <2>1, <2>2, <2>3 DEF LineInOrder
  <1>11. ~StartPending(w)'
    <2>1. pc[w] # "init"
      BY <1>2, <1>3 DEF IInv, LinesInOrder, LineInOrder
    <2> QED
      BY <1>1, <1>3, <1>7, <2>1 DEF StartPending
  <1>12. ASSUME NEW v \in Wrappers, v # w PROVE StartPending(v)' <=> StartPending(v)
    <2>1. <<v, 0>> \in Conns /\ <<v, 0>> # k
      BY <1>3, <1>12, Constants
    <2> QED
      BY <1>1, <1>7, <2>1 DEF StartPending
  <1>13. \A v \in Wrappers, x \in 1..seq : Owned(v, x) => Owned(v, x)'
    BY <1>4, <1>5, <1>6 DEF Owned
  <1>14. RowsOwned'
    <2>1. ASSUME NEW j \in DOMAIN records'
          PROVE  records'[j].pid \in Wrappers /\ ~StartPending(records[j].pid)'
      <3>1. CASE j = i
        <4>1. records'[j].pid = w
          BY <1>6, <3>1
        <4> QED
          BY <1>3, <1>11, <4>1 DEF StartPending
      <3>2. CASE j \in DOMAIN records
        <4>1. records'[j].pid = records[j].pid /\ records[j].pid \in Wrappers
              /\ ~StartPending(records[j].pid) /\ records[j].pid # w
          BY <1>6, <1>8, <3>2 DEF IInv, RowsOwned
        <4> QED
          BY <1>12, <4>1 DEF StartPending
      <3> QED
        BY <1>6, <3>1, <3>2
    <2>2. ASSUME NEW v \in Wrappers, sid'[v] # NULL
          PROVE  Owned(v, sid[v])'
      <3>1. Owned(v, sid[v]) /\ sid'[v] = sid[v]
        BY <1>1, <2>2 DEF IInv, RowsOwned
      <3> QED
        BY <1>4, <1>5, <1>6, <3>1 DEF Owned
    <2>3. ASSUME NEW v \in Wrappers, conn'[<<v, 0>>].phase = "replied", conn'[<<v, 0>>].code = 200
          PROVE  Owned(v, conn[<<v, 0>>].id)'
      <3>1. CASE v = w
        BY <1>3, <1>4, <1>5, <1>6, <1>7, <3>1 DEF Owned
      <3>2. CASE v # w
        <4>1. conn'[<<v, 0>>] = conn[<<v, 0>>]
          BY <1>3, <1>7, <3>2, Constants
        <4>2. Owned(v, conn[<<v, 0>>].id)
          BY <2>3, <4>1 DEF IInv, RowsOwned
        <4> QED
          BY <1>4, <1>5, <1>6, <4>1, <4>2 DEF Owned
      <3> QED
        BY <3>1, <3>2
    <2> QED
      BY <2>1, <2>2, <2>3 DEF RowsOwned
  <1>15. /\ TokenOf[w] \in issued /\ conn[k].owner # Admin
         /\ TokenOf[w] \in DOMAIN tokens =>
              c = IF ClientOf[w] = NULL THEN tokens[TokenOf[w]] ELSE ClientOf[w]
    BY <1>2, <1>3, Targets DEF IInv, ClientOfToken
  <1>16. ClientOfToken'
    <2>1. ASSUME NEW j \in Conns, conn'[j].phase = "authed"
          PROVE  conn'[j] = conn[j]
      BY <1>7, <2>1
    <2>2. ASSUME NEW j \in DOMAIN records'
          PROVE  \/ j \in DOMAIN records /\ records'[j] = records[j]
                 \/ records'[j].pid = w /\ records'[j].client = c
      BY <1>6
    <2> HIDE DEF c, w
    <2> QED
      BY <1>4, <1>15, <2>1, <2>2 DEF IInv, ClientOfToken
  <1>17. OneRowEach'
    BY <1>6, <1>8 DEF IInv, OneRowEach
  <1>18. EndedUnderTokensClient'
    BY <1>4, <1>6 DEF IInv, EndedUnderTokensClient
  <1> QED
    BY <1>9, <1>10, <1>14, <1>16, <1>17, <1>18 DEF IInv, LinesInOrder

\* The rights to an end that a row's wrapper has.
MayBeEnded(w) == TokenOf[w] \in DOMAIN tokens => ClientOf[w] \in {NULL, tokens[TokenOf[w]]}

\* A row is closed or deleted, by the end of its wrapper or by the web user.
LEMMA RowClosed ==
    ASSUME IInv, ApiInv', UNCHANGED <<seq, tokens, issued, scriptVars, faults>>,
           DOMAIN records' \subseteq DOMAIN records,
           \A j \in DOMAIN records' :
              /\ records'[j].pid = records[j].pid /\ records'[j].client = records[j].client
              /\ records'[j].status = "completed" /\ j \notin tidied' =>
                    (records[j].status = "completed" /\ j \notin tidied) \/ MayBeEnded(records[j].pid),
           tidied' \subseteq Ids,
           \A k \in Conns :
              \/ conn'[k] = conn[k]
              \/ /\ k[2] # 0 /\ conn[k].phase = "authed"
                 /\ conn'[k].phase = "replied" /\ conn'[k].req = conn[k].req
    PROVE  IInv'
  <1>1. UNCHANGED <<pc, attempt, sid, ranFrom, ranTo>>
    BY DEF scriptVars
  <1>2. RunTypeOK'
    BY <1>1 DEF IInv, RunTypeOK
  <1>3. ASSUME NEW v \in Wrappers PROVE conn'[<<v, 0>>] = conn[<<v, 0>>]
    <2>1. <<v, 0>> \in Conns /\ <<v, 0>>[2] = 0
      BY Constants
    <2> QED
      BY <2>1
  <1>4. ASSUME NEW v \in Wrappers PROVE LineInOrder(v)'
    <2>1. LineInOrder(v) /\ \A n \in 0..3 : <<v, n>> \in Conns
      BY Constants DEF IInv, LinesInOrder
    <2>2. EndRequest(v)' = EndRequest(v) /\ StartRequest(v)' = StartRequest(v)
      BY <1>1 DEF EndRequest, StartRequest
    <2>3. \A n \in 0..3 : conn'[<<v, n>>] = conn[<<v, n>>]
                          \/ /\ conn[<<v, n>>].phase # "idle" /\ conn'[<<v, n>>].phase # "idle"
                             /\ conn'[<<v, n>>].req = conn[<<v, n>>].req
      BY <2>1
    <2> QED
      BY <1>1, <1>3, <2>1, <2>2, <2>3 DEF LineInOrder
  <1>5. RowsOwned'
    BY <1>1, <1>3 DEF IInv, RowsOwned, Owned, StartPending
  <1>6. ClientOfToken'
    <2>1. \A k \in Conns : conn'[k].phase = "authed" => conn'[k] = conn[k]
      OBVIOUS
    <2> QED
      BY <2>1 DEF IInv, ClientOfToken
  <1>7. OneRowEach'
    BY DEF IInv, OneRowEach
  <1>8. EndedUnderTokensClient'
    BY DEF IInv, EndedUnderTokensClient, MayBeEnded
  <1> QED
    BY <1>2, <1>4, <1>5, <1>6, <1>7, <1>8 DEF IInv, LinesInOrder

\* An end is served: it names the wrapper's session, and finds it only under
\* the client of the token.
LEMMA EndServed ==
    ASSUME IInv, NEW k \in Conns, ExecEnd(k), ApiInv', UNCHANGED <<scriptVars, faults, tidied>>
    PROVE  IInv'
  <1> DEFINE w == k[1]
  <1>1. conn[k].phase = "authed" /\ conn[k].req.op = "end"
    BY DEF ExecEnd, Serving
  <1>2. w \in Wrappers /\ k[2] # 0 /\ conn[k].req = EndRequest(w) /\ conn[k].req.arg = sid[w]
    <2>1. StartRequest(w).op # "end" /\ conn[k].phase # "idle" /\ EndRequest(w).arg = sid[w]
      BY <1>1 DEF StartRequest, EndRequest
    <2> QED
      BY <1>1, <2>1, LineRequest
  <1>3. Target(conn[k].req, conn[k].owner) = conn[k].owner
    BY <1>2, Targets
  <1>4. /\ conn[k].owner # Admin
        /\ TokenOf[w] \in DOMAIN tokens => conn[k].owner = tokens[TokenOf[w]]
    BY <1>1 DEF IInv, ClientOfToken
  <1>5. CASE MayEnd(k) /\ CloseRow(sid[w], Completed(records[sid[w]], now)) /\ Reply(k, 200, sid[w])
    <2>1. sid[w] \in DOMAIN records /\ records[sid[w]].client = conn[k].owner /\ sid[w] \in Ids
      BY <1>2, <1>3, <1>4, <1>5 DEF MayEnd, EndMatches, IsActive, IInv, ApiInv, StoreTypeOK
    <2>2. PICK i \in DOMAIN records : i = sid[w]
      BY <2>1
    <2>3. records[i].pid = w
      <3>1. sid[w] # NULL
        BY <2>1, IdIsNoNull
      <3>2. Owned(w, sid[w])
        BY <1>2, <3>1 DEF IInv, RowsOwned
      <3> QED
        BY <2>2, <3>2 DEF Owned
    <2>4. /\ records' = [records EXCEPT ![i] = Completed(records[i], now)]
          /\ UNCHANGED <<seq, tokens, issued>> /\ Reply(k, 200, i)
      BY <1>5, <2>2 DEF CloseRow
    <2>5. Completed(records[i], now).pid = w /\ Completed(records[i], now).client = records[i].client
      BY <2>3 DEF Completed, IInv, ApiInv, StoreTypeOK, Row
    <2>6. /\ DOMAIN records' = DOMAIN records
          /\ \A j \in DOMAIN records : /\ records'[j].pid = records[j].pid
                                       /\ records'[j].client = records[j].client
                                       /\ j # i => records'[j] = records[j]
      BY <2>3, <2>4, <2>5 DEF IInv, ApiInv, StoreTypeOK
    <2>7. MayBeEnded(w)
      <3>1. TokenOf[w] \in DOMAIN tokens =>
                records[i].client = IF ClientOf[w] = NULL THEN tokens[TokenOf[w]] ELSE ClientOf[w]
        BY <2>3 DEF IInv, ClientOfToken
      <3> QED
        BY <1>4, <2>1, <2>2, <3>1 DEF MayBeEnded
    <2>8. \A j \in Conns : \/ conn'[j] = conn[j]
                           \/ /\ j[2] # 0 /\ conn[j].phase = "authed"
                              /\ conn'[j].phase = "replied" /\ conn'[j].req = conn[j].req
      BY <1>1, <1>2, <2>4, Replied
    <2>9. tidied' \subseteq Ids
      BY DEF IInv, RunTypeOK
    <2> HIDE DEF w
    <2> QED
      BY <2>3, <2>4, <2>6, <2>7, <2>8, <2>9, RowClosed
  <1>6. CASE UNCHANGED storeVars /\ Reply(k, 404, NULL)
    <2>1. UNCHANGED <<records, seq, tokens, issued>> /\ faults' \in 0..MaxFaults
      BY <1>6 DEF storeVars, IInv, RunTypeOK
    <2> QED
      BY <1>1, <1>6, <2>1, Replied, RowsUntouched
  <1> QED
    BY <1>2, <1>5, <1>6 DEF ExecEnd

LEMMA TidyKeepsInv ==
    ASSUME IInv, NEW i \in Ids, Tidy(i)
    PROVE  IInv'
  <1>1. /\ UNCHANGED <<conn, seq, tokens, issued, scriptVars, faults>> /\ i \in DOMAIN records
        /\ records[i] \in Row
    BY DEF Tidy, EndSessionAdmin, DiscardSessionAdmin, DeleteRecord, CloseRow, IsActive,
           IInv, ApiInv, StoreTypeOK
  <1>2. ApiInv'
    <2>1. StoreNext
      BY DEF Tidy, StoreNext
    <2> QED
      BY <1>1, <2>1, StoreStepKeepsApi DEF IInv
  <1>3. ASSUME NEW row, row \in {Completed(records[i], now), Discarded(records[i])},
               CloseRow(i, row), tidied' = tidied \cup {i}
        PROVE  IInv'
    <2>1. row.pid = records[i].pid /\ row.client = records[i].client
      BY <1>1, <1>3 DEF Completed, Discarded, Row
    <2>2. /\ DOMAIN records' = DOMAIN records
          /\ \A j \in DOMAIN records : /\ records'[j].pid = records[j].pid
                                       /\ records'[j].client = records[j].client
                                       /\ j # i => records'[j] = records[j]
      BY <1>1, <1>3, <2>1 DEF CloseRow, IInv, ApiInv, StoreTypeOK
    <2>3. tidied' \subseteq Ids
      BY <1>3 DEF IInv, RunTypeOK
    <2> QED
      BY <1>1, <1>2, <1>3, <2>2, <2>3, RowClosed
  <1>4. CASE DeleteRecord(i) /\ UNCHANGED tidied
    <2>1. /\ DOMAIN records' \subseteq DOMAIN records
          /\ \A j \in DOMAIN records' : records'[j] = records[j]
      BY <1>4 DEF DeleteRecord, Drop
    <2>2. tidied' \subseteq Ids
      BY <1>4 DEF IInv, RunTypeOK
    <2> QED
      BY <1>1, <1>2, <1>4, <2>1, <2>2, RowClosed
  <1> QED
    BY <1>3, <1>4 DEF Tidy, EndSessionAdmin, DiscardSessionAdmin

LEMMA ServeKeepsInv ==
    ASSUME IInv, NEW k \in Conns, Serve(k)
    PROVE  IInv'
  <1>1. /\ UNCHANGED <<scriptVars, faults, tidied>>
        /\ Authenticate(k) \/ ExecStart(k) \/ ExecEnd(k)
    BY DEF Serve
  <1>2. ApiInv'
    <2>1. ApiNext
      BY <1>1 DEF ApiNext, Execute
    <2> QED
      BY <2>1, ApiInvStep DEF IInv
  <1>3. CASE Authenticate(k)
    BY <1>1, <1>2, <1>3, AuthenticateKeepsInv
  <1>4. CASE ExecStart(k)
    BY <1>1, <1>2, <1>4, StartServed
  <1>5. CASE ExecEnd(k)
    BY <1>1, <1>2, <1>5, EndServed
  <1> QED
    BY <1>1, <1>3, <1>4, <1>5

-----------------------------------------------------------------------------
(* Faults, revocations and time *)

LEMMA Faults ==
    ASSUME IInv, Fault
    PROVE  faults' \in 0..MaxFaults
  <1>1. faults \in 0..MaxFaults /\ MaxFaults \in Nat
    BY RunAssumption DEF IInv, RunTypeOK
  <1> QED
    BY <1>1 DEF Fault

LEMMA ServerFailsKeepsInv ==
    ASSUME IInv, NEW k \in Conns, ServerFails(k)
    PROVE  IInv'
  <1>1. /\ conn[k].phase = "authed" /\ Reply(k, 500, NULL) /\ faults' \in 0..MaxFaults
        /\ UNCHANGED <<records, seq, tokens, issued, scriptVars, tidied>>
    BY Faults DEF ServerFails, Fail, storeVars
  <1>2. ApiInv'
    <2>1. ApiNext
      BY DEF ServerFails, ApiNext, Execute
    <2> QED
      BY <2>1, ApiInvStep DEF IInv
  <1> QED
    BY <1>1, <1>2, Replied, RowsUntouched

LEMMA CrashKeepsInv ==
    ASSUME IInv, ServerCrash
    PROVE  IInv'
  <1>1. CrashRestart /\ faults' \in 0..MaxFaults /\ UNCHANGED <<scriptVars, tidied>>
    BY Faults DEF ServerCrash
  <1>2. ApiInv'
    <2>1. ApiNext
      BY <1>1 DEF ApiNext
    <2> QED
      BY <2>1, ApiInvStep DEF IInv
  <1>3. \A k \in Conns : conn'[k].phase = "idle"
    BY <1>1 DEF CrashRestart, Idle
  <1>4. CASE UNCHANGED storeVars
    BY <1>1, <1>2, <1>3, <1>4, RowsUntouched DEF storeVars
  <1>5. ASSUME NEW t \in Tokens, AddApiToken(t, DefaultClient)
        PROVE  IInv'
    <2>1. /\ UNCHANGED <<records, seq>> /\ issued' = issued \cup {t} /\ t \notin issued
          /\ tokens' = Put(tokens, t, DefaultClient)
      BY <1>5 DEF AddApiToken
    <2>2. \A u \in issued : u \in DOMAIN tokens' => u \in DOMAIN tokens /\ tokens'[u] = tokens[u]
      BY <2>1 DEF Put
    <2> QED
      BY <1>1, <1>2, <1>3, <2>1, <2>2, RowsUntouched
  <1> QED
    BY <1>1, <1>4, <1>5 DEF CrashRestart, ServeStore

LEMMA RevokeKeepsInv ==
    ASSUME IInv, NEW t \in Tokens, Revoke(t)
    PROVE  IInv'
  <1>1. /\ DeleteApiToken(t) /\ UNCHANGED <<conn, scriptVars, faults, tidied>>
        /\ faults' \in 0..MaxFaults
    BY DEF Revoke, IInv, RunTypeOK
  <1>2. /\ UNCHANGED <<records, seq, issued>> /\ tokens' = Drop(tokens, t)
    BY <1>1 DEF DeleteApiToken
  <1>3. \A u \in issued : u \in DOMAIN tokens' => u \in DOMAIN tokens /\ tokens'[u] = tokens[u]
    BY <1>2 DEF Drop
  <1>4. ApiInv'
    <2>1. StoreNext
      BY <1>1 DEF StoreNext
    <2> QED
      BY <1>1, <2>1, StoreStepKeepsApi DEF IInv
  <1> QED
    BY <1>1, <1>2, <1>3, <1>4, RowsUntouched

LEMMA ClockKeepsInv ==
    ASSUME IInv, RunClock
    PROVE  IInv'
  <1>1. /\ UNCHANGED <<conn, scriptVars, faults, tidied>> /\ faults' \in 0..MaxFaults
        /\ UNCHANGED <<records, seq, tokens, issued>>
    BY DEF RunClock, Clock, Tick, StepClockBack, IInv, RunTypeOK
  <1>2. ApiInv'
    <2>1. StoreNext
      BY DEF RunClock, Clock, StoreNext
    <2> QED
      BY <1>1, <2>1, StoreStepKeepsApi DEF IInv
  <1> QED
    BY <1>1, <1>2, RowsUntouched

-----------------------------------------------------------------------------
(* The script goes on *)

\* A connection the script has done with, or gives up.
LEMMA DropKeepsApi ==
    ASSUME IInv, NEW k \in Conns,
           UNCHANGED storeVars,
           conn' = conn \/ (conn[k].phase = "replied" /\ conn' = [conn EXCEPT ![k] = Idle])
    PROVE  ApiInv' /\ \A j \in Conns : conn'[j] = conn[j] \/ conn'[j] = Idle
  <1>1. [ApiNext]_apiVars
    BY DEF ApiNext, Receive, apiVars
  <1> QED
    BY <1>1, ApiInvStep, ConnTypes DEF IInv

LEMMA Lines ==
    ASSUME IInv, NEW w \in Wrappers
    PROVE  Line(w) \in Conns /\ (pc[w] \in {"ending", "reporting"} => attempt[w] \in 1..3)
  <1>1. attempt[w] \in 0..3 /\ LineInOrder(w)
    BY ConnTypes DEF IInv, LinesInOrder
  <1> QED
    BY <1>1, Constants DEF Line, LineInOrder

\* Where a wrapper goes when its exchange has failed.
LEMMA ScriptGivesUp ==
    ASSUME IInv, NEW w \in Wrappers, ApiInv', UNCHANGED <<storeVars, sid, ranFrom, ranTo, tidied>>,
           \A k \in Conns : conn'[k] = conn[k] \/ conn'[k] = Idle,
           faults' \in 0..MaxFaults,
           \/ pc' = [pc EXCEPT ![w] = "aborted"] /\ UNCHANGED attempt
           \/ pc[w] = "reporting" /\ Retry(w)
           \/ pc' = [pc EXCEPT ![w] = "exited"] /\ UNCHANGED attempt
           \/ pc' = [pc EXCEPT ![w] = "killed"] /\ UNCHANGED attempt
    PROVE  IInv'
  <1>1. /\ attempt \in [Wrappers -> 0..3] /\ ranFrom' \in [Wrappers -> Times \cup {NULL}]
        /\ ranTo' \in [Wrappers -> Times \cup {NULL}]
    BY DEF IInv, RunTypeOK
  <1>2. ASSUME NEW l \in Over, pc' = [pc EXCEPT ![w] = l], UNCHANGED attempt
        PROVE  IInv'
    <2>1. l \notin {"ending", "reporting"}
      BY <1>2 DEF Over
    <2> QED
      BY <1>1, <1>2, <2>1, ScriptGoesOn
  <1>3. CASE pc[w] = "reporting" /\ attempt[w] < 3 /\ Retry(w)
    <2>1. /\ pc' = [pc EXCEPT ![w] = "ending"]
          /\ attempt' = [attempt EXCEPT ![w] = attempt[w] + 1] /\ attempt[w] \in 1..3
      BY <1>3, Lines DEF Retry, Goto
    <2>2. /\ attempt' \in [Wrappers -> 0..3] /\ attempt'[w] \in 1..3
          /\ \A v \in Wrappers : v # w => attempt'[v] = attempt[v]
      BY <1>1, <1>3, <2>1
    <2> QED
      BY <1>1, <2>1, <2>2, ScriptGoesOn
  <1>4. CASE ~(attempt[w] < 3) /\ Retry(w)
    BY <1>2, <1>4 DEF Retry, Goto, Over
  <1> QED
    BY <1>2, <1>3, <1>4 DEF Over

LEMMA FinishKeepsInv ==
    ASSUME IInv, NEW w \in Wrappers, FinishCommand(w)
    PROVE  IInv'
  <1>1. /\ UNCHANGED <<storeVars, conn, sid, ranFrom, faults, tidied>>
        /\ pc' = [pc EXCEPT ![w] = "ending"] /\ attempt' = [attempt EXCEPT ![w] = 1]
        /\ ranTo' = [ranTo EXCEPT ![w] = now]
    BY DEF FinishCommand, Goto, apiVars
  <1>2. /\ attempt' \in [Wrappers -> 0..3] /\ attempt'[w] \in 1..3
        /\ \A v \in Wrappers : v # w => attempt'[v] = attempt[v]
    BY <1>1, ConnTypes
  <1>3. /\ ranFrom' \in [Wrappers -> Times \cup {NULL}] /\ ranTo' \in [Wrappers -> Times \cup {NULL}]
        /\ faults' \in 0..MaxFaults
    BY <1>1, ConnTypes DEF IInv, RunTypeOK
  <1>4. ApiInv' /\ \A j \in Conns : conn'[j] = conn[j] \/ conn'[j] = Idle
    BY <1>1, DropKeepsApi, Lines
  <1> QED
    BY <1>1, <1>2, <1>3, <1>4, ScriptGoesOn

LEMMA WaitEndsKeepsInv ==
    ASSUME IInv, NEW w \in Wrappers,
           GotStart(w) \/ GotEnd(w) \/ NoticeReset(w) \/ BreakConnection(w) \/ Kill(w)
    PROVE  IInv'
  <1>1. Line(w) \in Conns /\ faults \in 0..MaxFaults
    BY Lines DEF IInv, RunTypeOK
  <1>2. CASE GotStart(w)
    <2>1. ApiInv' /\ \A j \in Conns : conn'[j] = conn[j] \/ conn'[j] = Idle
      BY <1>1, <1>2, DropKeepsApi DEF GotStart, Receive
    <2>2. CASE conn[Line(w)].code = 200
      BY <1>2, <2>1, <2>2, ScriptStarts
    <2>3. CASE conn[Line(w)].code # 200
      BY <1>1, <1>2, <2>1, <2>3, ScriptGivesUp DEF GotStart, Receive, Goto
    <2> QED
      BY <2>2, <2>3
  <1>3. CASE GotEnd(w)
    <2>1. ApiInv' /\ \A j \in Conns : conn'[j] = conn[j] \/ conn'[j] = Idle
      BY <1>1, <1>3, DropKeepsApi DEF GotEnd, Receive
    <2> QED
      BY <1>1, <1>3, <2>1, ScriptGivesUp DEF GotEnd, Receive, Goto
  <1>4. CASE NoticeReset(w)
    <2>1. ApiInv' /\ \A j \in Conns : conn'[j] = conn[j] \/ conn'[j] = Idle
      BY <1>1, <1>4, DropKeepsApi DEF NoticeReset, apiVars
    <2> QED
      BY <1>1, <1>4, <2>1, ScriptGivesUp DEF NoticeReset, NoReply, Goto, apiVars
  <1>5. CASE BreakConnection(w)
    <2>1. conn' = conn \/ (conn[Line(w)].phase = "replied" /\ conn' = [conn EXCEPT ![Line(w)] = Idle])
      BY <1>1, <1>5, ConnTypes DEF BreakConnection
    <2>2. ApiInv' /\ \A j \in Conns : conn'[j] = conn[j] \/ conn'[j] = Idle
      BY <1>1, <1>5, <2>1, DropKeepsApi DEF BreakConnection
    <2> QED
      BY <1>5, <2>2, Faults, ScriptGivesUp DEF BreakConnection, NoReply, Goto
  <1>6. CASE Kill(w)
    <2>1. ApiInv' /\ \A j \in Conns : conn'[j] = conn[j] \/ conn'[j] = Idle
      BY <1>1, <1>6, DropKeepsApi DEF Kill, apiVars
    <2> QED
      BY <1>1, <1>6, <2>1, ScriptGivesUp DEF Kill, Goto, apiVars
  <1> QED
    BY <1>2, <1>3, <1>4, <1>5, <1>6

-----------------------------------------------------------------------------
(* The theorems *)

LEMMA InvInitially == RunInit => IInv
  <1> SUFFICES ASSUME RunInit PROVE IInv
    OBVIOUS
  <1>1. ApiInv /\ records = << >> /\ \A k \in Conns : conn[k].phase = "idle"
    BY ApiInitInv DEF RunInit, ApiInit, Idle
  <1>2. RunTypeOK
    BY RunAssumption DEF RunInit, RunTypeOK
  <1>3. ASSUME NEW w \in Wrappers PROVE LineInOrder(w)
    <2>1. pc[w] = "init" /\ attempt[w] = 0 /\ \A n \in 0..3 : conn[<<w, n>>].phase = "idle"
      BY <1>1, Constants DEF RunInit
    <2> QED
      BY <2>1 DEF LineInOrder
  <1>4. RowsOwned /\ ClientOfToken /\ OneRowEach /\ EndedUnderTokensClient
    BY <1>1, Constants
    DEF RunInit, RowsOwned, ClientOfToken, OneRowEach, EndedUnderTokensClient
  <1> QED
    BY <1>1, <1>2, <1>3, <1>4 DEF IInv, LinesInOrder

LEMMA InvKept == IInv /\ [RunNext]_runVars => IInv'
  <1> SUFFICES ASSUME IInv, [RunNext]_runVars PROVE IInv'
    OBVIOUS
  <1>1. CASE UNCHANGED runVars
    <2>1. /\ UNCHANGED <<records, seq, conn, tokens, issued, scriptVars, faults, tidied>>
          /\ UNCHANGED apiVars /\ UNCHANGED scriptVars
      BY <1>1 DEF runVars, apiVars, storeVars, scriptVars
    <2>2. ApiInv' /\ faults' \in 0..MaxFaults
      BY <2>1, ApiInvStep DEF IInv, RunTypeOK
    <2> QED
      BY <2>1, <2>2, RowsUntouched
  <1>2. ASSUME NEW w \in Wrappers,
               \/ SendStart(w) \/ GotStart(w) \/ FinishCommand(w) \/ SendEnd(w)
               \/ GotEnd(w) \/ NoticeReset(w) \/ BreakConnection(w) \/ Kill(w)
        PROVE  IInv'
    BY <1>2, ScriptSends, FinishKeepsInv, WaitEndsKeepsInv
  <1>3. ASSUME NEW k \in Conns, Serve(k) \/ ServerFails(k)
        PROVE  IInv'
    BY <1>3, ServeKeepsInv, ServerFailsKeepsInv
  <1>4. CASE ServerCrash \/ RunClock
    BY <1>4, CrashKeepsInv, ClockKeepsInv
  <1>5. ASSUME NEW i \in Ids, Tidy(i)
        PROVE  IInv'
    BY <1>5, TidyKeepsInv
  <1>6. ASSUME NEW t \in Tokens, Revoke(t)
        PROVE  IInv'
    BY <1>6, RevokeKeepsInv
  <1> QED
    BY <1>1, <1>2, <1>3, <1>4, <1>5, <1>6 DEF RunNext

\* Every session id a wrapper holds names its own session as long as the row
\* exists, and a session whose wrapper was told another client than its
\* token's is never ended by it (src/tspanrun:39, src/src/server.rs:281),
\* whatever is lost, killed, revoked, deleted or restarted meanwhile.
THEOREM WrappersStaySeparate == RunSpec => []RunInv
  <1>1. IInv => RunInv
    <2> SUFFICES ASSUME IInv PROVE RunInv
      OBVIOUS
    <2>1. ASSUME NEW w \in Wrappers, sid[w] \in DOMAIN records
          PROVE  records[sid[w]].pid = w
      <3>1. DOMAIN records \subseteq Ids
        BY DEF IInv, ApiInv, StoreTypeOK
      <3>2. sid[w] # NULL
        BY <2>1, <3>1, IdIsNoNull
      <3>3. Owned(w, sid[w])
        BY <3>2 DEF IInv, RowsOwned
      <3> QED
        BY <2>1, <3>3 DEF Owned
    <2>2. SessionIsOwn
      BY <2>1 DEF SessionIsOwn
    <2> QED
      BY <2>2 DEF IInv, RunInv
  <1> QED
    BY <1>1, InvInitially, InvKept, PTL DEF RunSpec

\* Each wrapper's command is recorded at most once: its start is sent on one
\* connection only, and one that is served late, after the script has aborted,
\* still is its only one.
THEOREM CommandsRecordedOnce == RunSpec => []OneRowEach
  <1>1. IInv => OneRowEach
    BY DEF IInv
  <1> QED
    BY <1>1, InvInitially, InvKept, PTL DEF RunSpec

\* What each step of wrappers, network and web user is to the store.
LEMMA RunStepIsStoreStep ==
    ASSUME IInv, [RunNext]_runVars
    PROVE  [StoreNext]_storeVars
  <1>1. ASSUME NEW k \in Conns, Serve(k) \/ ServerFails(k)
        PROVE  [StoreNext]_storeVars
    <2>1. [ApiNext]_apiVars
      BY <1>1 DEF Serve, ServerFails, Execute, ApiNext
    <2> QED
      BY <2>1, ApiStepIsStoreStep DEF IInv
  <1>2. ASSUME NEW w \in Wrappers,
               \/ SendStart(w) \/ GotStart(w) \/ FinishCommand(w) \/ SendEnd(w)
               \/ GotEnd(w) \/ NoticeReset(w) \/ BreakConnection(w) \/ Kill(w)
        PROVE  UNCHANGED storeVars
    BY <1>2 DEF SendStart, GotStart, FinishCommand, SendEnd, GotEnd, NoticeReset, BreakConnection,
                Kill, Submit, Receive, apiVars
  <1>3. CASE ServerCrash
    <2>1. [ApiNext]_apiVars
      BY <1>3 DEF ServerCrash, ApiNext
    <2> QED
      BY <2>1, ApiStepIsStoreStep DEF IInv
  <1>4. CASE RunClock
    BY <1>4 DEF RunClock, Clock, StoreNext
  <1>5. ASSUME NEW i \in Ids, Tidy(i)
        PROVE  StoreNext
    BY <1>5 DEF Tidy, StoreNext
  <1>6. ASSUME NEW t \in Tokens, Revoke(t)
        PROVE  StoreNext
    BY <1>6 DEF Revoke, StoreNext
  <1>7. CASE UNCHANGED runVars
    BY <1>7 DEF runVars, apiVars
  <1> QED
    BY <1>1, <1>2, <1>3, <1>4, <1>5, <1>6, <1>7 DEF RunNext

\* With wrappers that are killed, tokens that are revoked and requests that
\* are served when nobody waits for them any more, sessions live the life of
\* SessionLifecycle, and a closed one stays as it is.
THEOREM RunImplementsLifecycle == RunSpec => ImplementsLifecycle /\ ClosedIsFinal
  <1>1. RunInit => Lifecycle!LifecycleInit
    BY LifecycleBegins DEF RunInit, ApiInit
  <1>2. IInv /\ [RunNext]_runVars
          => [Lifecycle!LifecycleNext]_Lifecycle!lifecycleVars /\ [ClosedRowsKept]_storeVars
    BY RunStepIsStoreStep, LifecycleStep, ClosedRowsStep DEF IInv, ApiInv
  <1> QED
    BY <1>1, <1>2, InvInitially, InvKept, PTL
    DEF RunSpec, ImplementsLifecycle, Lifecycle!LifecycleSpec, ClosedIsFinal

-----------------------------------------------------------------------------
(* When the sessions start and end *)

\* While the clock only moves forward, what has happened is not in the future.
StartsPast == ~ClockSteps => \A i \in DOMAIN records : records[i].start <= now

\* The end is sent when the command is over.
RunOver(w) ==
    /\ pc[w] \in {"init", "starting", "running"} => ranTo[w] = NULL
    /\ pc[w] \in {"ending", "reporting"} => ranTo[w] # NULL
    /\ \A n \in 1..3 : conn[<<w, n>>].phase # "idle" => ranTo[w] # NULL
    /\ ~ClockSteps /\ ranTo[w] # NULL => ranTo[w] <= now

StartedBefore(w) ==
    ~ClockSteps /\ sid[w] \in DOMAIN records => records[sid[w]].start <= ranFrom[w]

EndedAfter(i) ==
    LET w == records[i].pid IN
    records[i].status = "completed" /\ i \notin tidied =>
        ranTo[w] # NULL /\ (~ClockSteps => ranTo[w] <= records[i].end)

TInv ==
    /\ StartsPast
    /\ \A w \in Wrappers : RunOver(w) /\ StartedBefore(w)
    /\ \A i \in DOMAIN records : EndedAfter(i)

\* A step that leaves the rows, the clock and what the scripts noted alone.
LEMMA TimesUntouched ==
    ASSUME IInv, TInv, UNCHANGED <<records, now, tidied, sid, ranFrom, ranTo>>,
           \A w \in Wrappers : \/ pc'[w] = pc[w]
                               \/ pc'[w] \in Over
                               \/ pc[w] = "init" /\ pc'[w] = "starting"
                               \/ pc[w] \in {"ending", "reporting"} /\ pc'[w] \in {"ending", "reporting"},
           \A w \in Wrappers : \A n \in 1..3 :
              conn'[<<w, n>>].phase # "idle" => conn[<<w, n>>].phase # "idle" \/ pc[w] = "ending"
    PROVE  TInv'
  <1>1. StartsPast'
    BY DEF TInv, StartsPast
  <1>2. ASSUME NEW w \in Wrappers PROVE RunOver(w)' /\ StartedBefore(w)'
    BY DEF TInv, RunOver, StartedBefore, Over
  <1>3. ASSUME NEW i \in DOMAIN records' PROVE EndedAfter(i)'
    BY DEF TInv, EndedAfter
  <1> QED
    BY <1>1, <1>2, <1>3 DEF TInv

LEMMA RowTimes ==
    ASSUME IInv
    PROVE  /\ now \in Int
           /\ \A i \in DOMAIN records : /\ i \in Ids /\ records[i] \in Row /\ records[i].start \in Int
                                        /\ records[i].pid \in Wrappers
  BY DEF IInv, ApiInv, StoreTypeOK, Times, Row, RowsOwned

LEMMA StartTimed ==
    ASSUME IInv, TInv, NEW w \in Wrappers, GotStart(w)
    PROVE  TInv'
  <1>1. /\ pc[w] = "starting" /\ Line(w) = <<w, 0>> /\ <<w, 0>> \in Conns
        /\ \A n \in 0..3 : <<w, n>> \in Conns
    BY Constants DEF GotStart, IInv, LinesInOrder, LineInOrder, Line
  <1>2. /\ conn' = [conn EXCEPT ![<<w, 0>>] = Idle] /\ UNCHANGED <<records, now, tidied, ranTo>>
        /\ conn[<<w, 0>>].phase = "replied"
    BY <1>1 DEF GotStart, Receive, storeVars
  <1>3. \A v \in Wrappers : \A n \in 1..3 : conn'[<<v, n>>] = conn[<<v, n>>]
    BY <1>1, <1>2, ConnTypes, Constants
  <1>4. CASE conn[<<w, 0>>].code # 200
    <2>1. pc' = [pc EXCEPT ![w] = "aborted"] /\ UNCHANGED <<sid, ranFrom>>
      BY <1>1, <1>4 DEF GotStart, Goto
    <2> QED
      BY <1>2, <1>3, <2>1, ConnTypes, TimesUntouched DEF Over
  <1>5. CASE conn[<<w, 0>>].code = 200
    <2>1. /\ pc' = [pc EXCEPT ![w] = "running"] /\ sid' = [sid EXCEPT ![w] = conn[<<w, 0>>].id]
          /\ ranFrom' = [ranFrom EXCEPT ![w] = now]
      BY <1>1, <1>5 DEF GotStart, Goto
    <2>2. /\ pc'[w] = "running" /\ \A v \in Wrappers : v # w => pc'[v] = pc[v]
          /\ sid'[w] = conn[<<w, 0>>].id /\ \A v \in Wrappers : v # w => sid'[v] = sid[v]
          /\ ranFrom'[w] = now /\ \A v \in Wrappers : v # w => ranFrom'[v] = ranFrom[v]
      BY <2>1, ConnTypes DEF IInv, RunTypeOK
    <2>3. ASSUME NEW v \in Wrappers PROVE RunOver(v)'
      BY <1>1, <1>2, <1>3, <2>2 DEF TInv, RunOver
    <2>4. ASSUME NEW v \in Wrappers PROVE StartedBefore(v)'
      BY <1>2, <2>2 DEF TInv, StartedBefore, StartsPast
    <2>5. StartsPast' /\ \A i \in DOMAIN records' : EndedAfter(i)'
      BY <1>2 DEF TInv, StartsPast, EndedAfter
    <2> QED
      BY <2>3, <2>4, <2>5 DEF TInv
  <1> QED
    BY <1>4, <1>5

LEMMA FinishTimed ==
    ASSUME IInv, TInv, NEW w \in Wrappers, FinishCommand(w)
    PROVE  TInv'
  <1>1. /\ pc[w] = "running" /\ pc' = [pc EXCEPT ![w] = "ending"]
        /\ ranTo' = [ranTo EXCEPT ![w] = now]
        /\ UNCHANGED <<records, now, conn, tidied, sid, ranFrom>>
    BY DEF FinishCommand, Goto, apiVars, storeVars
  <1>2. /\ pc'[w] = "ending" /\ \A v \in Wrappers : v # w => pc'[v] = pc[v]
        /\ ranTo'[w] = now /\ \A v \in Wrappers : v # w => ranTo'[v] = ranTo[v]
    BY <1>1, ConnTypes DEF IInv, RunTypeOK
  <1>3. now \in Int /\ now # NULL
    BY ConnTypes, Constants DEF Times
  <1>4. ASSUME NEW v \in Wrappers PROVE RunOver(v)'
    BY <1>1, <1>2, <1>3 DEF TInv, RunOver
  <1>5. ASSUME NEW v \in Wrappers PROVE StartedBefore(v)'
    BY <1>1 DEF TInv, StartedBefore
  <1>6. ASSUME NEW i \in DOMAIN records' PROVE EndedAfter(i)'
    <2>1. records[i].pid = w => records[i].status # "completed" \/ i \in tidied
      BY <1>1 DEF TInv, RunOver, EndedAfter
    <2>2. records[i].pid \in Wrappers
      BY <1>1, RowTimes
    <2> QED
      BY <1>1, <1>2, <2>1, <2>2 DEF TInv, EndedAfter
  <1>7. StartsPast'
    BY <1>1 DEF TInv, StartsPast
  <1> QED
    BY <1>4, <1>5, <1>6, <1>7 DEF TInv

LEMMA ClockTimed ==
    ASSUME IInv, TInv, RunClock
    PROVE  TInv'
  <1>1. /\ UNCHANGED <<records, conn, pc, sid, ranFrom, ranTo, tidied>>
        /\ now \in Int /\ now' \in Int /\ (~ClockSteps => now <= now')
    BY ConnTypes DEF RunClock, Clock, Tick, StepClockBack, scriptVars, Times
  <1>2. StartsPast'
    BY <1>1, RowTimes DEF TInv, StartsPast
  <1>3. ASSUME NEW w \in Wrappers PROVE RunOver(w)' /\ StartedBefore(w)'
    <2>1. ranTo[w] # NULL => ranTo[w] \in Int
      BY DEF IInv, RunTypeOK, Times
    <2> QED
      BY <1>1, <2>1 DEF TInv, RunOver, StartedBefore
  <1>4. ASSUME NEW i \in DOMAIN records' PROVE EndedAfter(i)'
    BY <1>1 DEF TInv, EndedAfter
  <1> QED
    BY <1>2, <1>3, <1>4 DEF TInv

LEMMA TidyTimed ==
    ASSUME IInv, TInv, NEW i \in Ids, Tidy(i)
    PROVE  TInv'
  <1>1. UNCHANGED <<conn, now, pc, sid, ranFrom, ranTo>>
    BY DEF Tidy, EndSessionAdmin, DiscardSessionAdmin, DeleteRecord, CloseRow, scriptVars
  \* What is left is as it was, but for the row the web user has closed.
  <1> DEFINE Shape ==
        /\ DOMAIN records' \subseteq DOMAIN records /\ tidied \subseteq tidied'
        /\ \A j \in DOMAIN records' : /\ records'[j].start = records[j].start
                                      /\ records'[j].pid = records[j].pid
                                      /\ j \in tidied' \/ records'[j] = records[j]
  <1>2. ASSUME DeleteRecord(i), UNCHANGED tidied
        PROVE  Shape
    BY <1>2 DEF DeleteRecord, Drop
  <1>3. ASSUME NEW row, row \in {Completed(records[i], now), Discarded(records[i])},
               i \in DOMAIN records, CloseRow(i, row), tidied' = tidied \cup {i}
        PROVE  Shape
    <2>1. records[i] \in Row
      BY <1>3, RowTimes
    <2>2. row.start = records[i].start /\ row.pid = records[i].pid
      BY <1>3, <2>1 DEF Completed, Discarded, Row
    <2>3. records' = [records EXCEPT ![i] = row] /\ records \in [DOMAIN records -> Row]
      BY <1>3 DEF CloseRow, IInv, ApiInv, StoreTypeOK
    <2> QED
      BY <1>3, <2>2, <2>3
  <1>4. Shape
    BY <1>2, <1>3 DEF Tidy, EndSessionAdmin, DiscardSessionAdmin, IsActive
  <1>5. StartsPast' /\ \A w \in Wrappers : RunOver(w)' /\ StartedBefore(w)'
    BY <1>1, <1>4 DEF TInv, StartsPast, RunOver, StartedBefore
  <1>6. ASSUME NEW j \in DOMAIN records' PROVE EndedAfter(j)'
    BY <1>1, <1>4 DEF TInv, EndedAfter
  <1> QED
    BY <1>5, <1>6 DEF TInv

\* A start is served now.
LEMMA StartServedTimed ==
    ASSUME IInv, TInv, NEW k \in Conns, ExecStart(k), UNCHANGED <<scriptVars, tidied>>
    PROVE  TInv'
  <1> DEFINE i == seq + 1
             w == k[1]
  <1>1. UNCHANGED <<pc, sid, ranFrom, ranTo>>
    BY DEF scriptVars
  <1>2. conn[k].phase = "authed" /\ k = <<w, 0>> /\ w \in Wrappers /\ conn[k].req = StartRequest(w)
    <2>1. conn[k].phase = "authed" /\ conn[k].req.op = "start"
      BY DEF ExecStart, Serving
    <2>2. EndRequest(w).op # "start"
      BY DEF EndRequest
    <2> QED
      BY <2>1, <2>2, LineRequest
  <1> DEFINE row == [client |-> Target(conn[k].req, conn[k].owner), pid |-> w, start |-> now,
                     end |-> NULL, duration |-> NULL, status |-> "active"]
  <1>3. /\ records' = Put(records, i, row) /\ UNCHANGED now /\ Reply(k, 200, i)
    BY <1>2 DEF ExecStart, StartSession, Insert, NextId, StartRequest
  <1>4. /\ DOMAIN records' = DOMAIN records \cup {i}
        /\ records'[i].start = now /\ records'[i].status = "active"
        /\ \A j \in DOMAIN records : j # i => records'[j] = records[j]
    BY <1>3 DEF Put
  <1>5. seq \in Nat /\ \A j \in DOMAIN records : j # i
    <2>1. \A j \in DOMAIN records : j \in Int /\ j <= seq
      BY DEF IInv, ApiInv, StoreTypeOK, StoreInv, RowsReferToClients, Ids
    <2> QED
      BY <2>1, ConnTypes
  <1>6. \A v \in Wrappers : sid[v] # i
    <2>1. ASSUME NEW v \in Wrappers PROVE sid[v] # i
      <3>1. sid[v] # NULL => sid[v] \in 1..seq
        BY DEF IInv, RowsOwned, Owned
      <3>2. i # NULL
        BY <1>5, Constants
      <3> QED
        BY <1>5, <3>1, <3>2
    <2> QED
      BY <2>1
  <1>7. \A v \in Wrappers, n \in 1..3 : conn'[<<v, n>>] = conn[<<v, n>>]
    BY <1>2, <1>3, Replied, Constants
  <1> HIDE DEF i, w
  <1>8. StartsPast'
    BY <1>3, <1>4, <1>5, RowTimes DEF TInv, StartsPast
  <1>9. ASSUME NEW v \in Wrappers PROVE RunOver(v)' /\ StartedBefore(v)'
    BY <1>1, <1>3, <1>4, <1>6, <1>7 DEF TInv, RunOver, StartedBefore
  <1>10. ASSUME NEW j \in DOMAIN records' PROVE EndedAfter(j)'
    BY <1>1, <1>4 DEF TInv, EndedAfter
  <1> QED
    BY <1>8, <1>9, <1>10 DEF TInv

\* An end is served now, after the command.
LEMMA EndServedTimed ==
    ASSUME IInv, TInv, NEW k \in Conns, ExecEnd(k), UNCHANGED <<scriptVars, tidied>>
    PROVE  TInv'
  <1> DEFINE w == k[1]
             i == conn[k].req.arg
  <1>1. UNCHANGED <<pc, sid, ranFrom, ranTo>>
    BY DEF scriptVars
  <1>2. /\ conn[k].phase = "authed" /\ w \in Wrappers /\ k = <<w, k[2]>> /\ k[2] \in 1..3
        /\ i = sid[w]
    <2>1. conn[k].phase = "authed" /\ conn[k].req.op = "end"
      BY DEF ExecEnd, Serving
    <2>2. StartRequest(w).op # "end" /\ EndRequest(w).arg = sid[w]
      BY DEF StartRequest, EndRequest
    <2> QED
      BY <2>1, <2>2, LineRequest, Constants
  <1>3. \A v \in Wrappers, n \in 1..3 : conn'[<<v, n>>].phase # "idle" => conn[<<v, n>>].phase # "idle"
    <2>1. \E status, x : Reply(k, status, x)
      BY DEF ExecEnd
    <2> QED
      BY <1>2, <2>1, Replied, Constants
  <1>4. ASSUME UNCHANGED <<records, now>>
        PROVE  TInv'
    BY <1>1, <1>3, <1>4, TimesUntouched
  <1>5. ASSUME MayEnd(k), CloseRow(i, Completed(records[i], now))
        PROVE  TInv'
    <2>1. i \in DOMAIN records /\ UNCHANGED now
      BY <1>5 DEF MayEnd, IsActive, EndMatches, CloseRow
    <2>2. records[i] \in Row /\ records[i].pid = w
      <3>1. i # NULL
        BY <2>1, RowTimes, IdIsNoNull
      <3>2. Owned(w, i)
        BY <1>2, <3>1 DEF IInv, RowsOwned
      <3> QED
        BY <2>1, <3>2, RowTimes DEF Owned
    <2> DEFINE row == Completed(records[i], now)
    <2>3. row.start = records[i].start /\ row.pid = w /\ row.end = now
      BY <2>2 DEF Completed, Row
    <2>4. /\ DOMAIN records' = DOMAIN records /\ records'[i] = row
          /\ \A j \in DOMAIN records : j # i => records'[j] = records[j]
      BY <1>5, <2>1 DEF CloseRow, IInv, ApiInv, StoreTypeOK
    <2>5. ranTo[w] # NULL /\ (~ClockSteps => ranTo[w] <= now)
      BY <1>2 DEF TInv, RunOver
    <2> HIDE DEF row, i, w
    <2>6. StartsPast' /\ \A v \in Wrappers : RunOver(v)' /\ StartedBefore(v)'
      BY <1>1, <1>3, <2>1, <2>3, <2>4 DEF TInv, StartsPast, RunOver, StartedBefore
    <2>7. ASSUME NEW j \in DOMAIN records' PROVE EndedAfter(j)'
      BY <1>1, <2>3, <2>4, <2>5 DEF TInv, EndedAfter
    <2> QED
      BY <2>6, <2>7 DEF TInv
  <1> QED
    BY <1>4, <1>5 DEF ExecEnd, storeVars

LEMMA ServeTimed ==
    ASSUME IInv, TInv, NEW k \in Conns, Serve(k)
    PROVE  TInv'
  <1>1. UNCHANGED <<scriptVars, tidied>> /\ (Authenticate(k) \/ ExecStart(k) \/ ExecEnd(k))
    BY DEF Serve
  <1>2. CASE Authenticate(k)
    <2>1. UNCHANGED <<records, now, pc, sid, ranFrom, ranTo>> /\ conn[k].phase = "sent"
      BY <1>1, <1>2 DEF Authenticate, storeVars, scriptVars
    <2>2. \A j \in Conns : j # k => conn'[j] = conn[j]
      BY <1>2, ConnTypes DEF Authenticate, Admit, Reply
    <2>3. \A v \in Wrappers, n \in 1..3 : conn'[<<v, n>>].phase # "idle" => conn[<<v, n>>].phase # "idle"
      BY <2>1, <2>2, Constants
    <2> QED
      BY <1>1, <2>1, <2>3, TimesUntouched
  <1> QED
    BY <1>1, <1>2, StartServedTimed, EndServedTimed

\* A step of the script that sends, gives up or goes on.
LEMMA ScriptTimed ==
    ASSUME IInv, TInv, NEW w \in Wrappers,
           \/ SendStart(w) \/ SendEnd(w) \/ GotEnd(w) \/ NoticeReset(w) \/ BreakConnection(w)
           \/ Kill(w)
    PROVE  TInv'
  <1>1. Line(w) \in Conns /\ Line(w) = <<w, attempt[w]>>
    BY Lines DEF Line
  <1>2. UNCHANGED <<records, now, tidied, sid, ranFrom, ranTo>>
    BY DEF SendStart, SendEnd, GotEnd, NoticeReset, BreakConnection, Kill, Submit, Receive, NoReply,
           apiVars, storeVars
  <1>3. \E l : pc' = [pc EXCEPT ![w] = l] /\ \/ l \in Over
                                             \/ pc[w] = "init" /\ l = "starting"
                                             \/ pc[w] \in {"ending", "reporting"} /\ l \in {"ending", "reporting"}
    BY DEF SendStart, SendEnd, GotEnd, NoticeReset, BreakConnection, Kill, NoReply, Retry, Goto, Over
  <1>4. \A v \in Wrappers : \/ pc'[v] = pc[v]
                            \/ pc'[v] \in Over
                            \/ pc[v] = "init" /\ pc'[v] = "starting"
                            \/ pc[v] \in {"ending", "reporting"} /\ pc'[v] \in {"ending", "reporting"}
    BY <1>3, ConnTypes
  <1>5. ASSUME NEW v \in Wrappers, NEW n \in 1..3, conn'[<<v, n>>].phase # "idle"
        PROVE  conn[<<v, n>>].phase # "idle" \/ pc[v] = "ending"
    <2>1. conn \in [Conns -> Exchange] /\ <<v, n>> \in Conns /\ Idle.phase = "idle"
      BY ConnTypes, Constants DEF Idle
    <2>2. CASE SendStart(w) \/ SendEnd(w)
      <3>1. \A j \in Conns : j # Line(w) => conn'[j] = conn[j]
        BY <1>1, <2>1, <2>2 DEF SendStart, SendEnd, Submit
      <3>2. CASE SendStart(w)
        <4>1. Line(w) = <<w, 0>>
          BY <1>1, <3>2 DEF SendStart, IInv, LinesInOrder, LineInOrder
        <4> QED
          BY <1>5, <2>1, <3>1, <4>1
      <3>3. CASE SendEnd(w)
        BY <1>1, <1>5, <2>1, <3>1, <3>3 DEF SendEnd
      <3> QED
        BY <2>2, <3>2, <3>3
    <2>3. CASE ~(SendStart(w) \/ SendEnd(w))
      <3>1. conn' = conn \/ conn' = [conn EXCEPT ![Line(w)] = Idle]
        BY <1>1, <2>1, <2>3 DEF GotEnd, NoticeReset, BreakConnection, Kill, Receive, apiVars
      <3> QED
        BY <1>1, <1>5, <2>1, <3>1
    <2> QED
      BY <2>2, <2>3
  <1> QED
    BY <1>2, <1>4, <1>5, TimesUntouched

\* Faults of the server, and tokens that come and go.
LEMMA OutsideTimed ==
    ASSUME IInv, TInv, ServerCrash \/ (\E k \in Conns : ServerFails(k)) \/ (\E t \in Tokens : Revoke(t))
    PROVE  TInv'
  <1>1. UNCHANGED <<records, now, tidied, pc, sid, ranFrom, ranTo>>
    BY DEF ServerCrash, ServerFails, Revoke, CrashRestart, ServeStore, AddApiToken, DeleteApiToken,
           Fail, storeVars, scriptVars
  <1>2. ASSUME NEW v \in Wrappers, NEW n \in 1..3, conn'[<<v, n>>].phase # "idle"
        PROVE  conn[<<v, n>>].phase # "idle"
    <2>1. <<v, n>> \in Conns
      BY Constants
    <2>2. CASE ServerCrash
      BY <1>2, <2>1, <2>2 DEF ServerCrash, CrashRestart, Idle
    <2>3. ASSUME NEW k \in Conns, ServerFails(k)
          PROVE  conn[<<v, n>>].phase # "idle"
      <3>1. conn[k].phase = "authed" /\ Reply(k, 500, NULL)
        BY <2>3 DEF ServerFails, Fail
      <3> QED
        BY <1>2, <2>1, <3>1, Replied
    <2>4. CASE \E t \in Tokens : Revoke(t)
      BY <1>2, <2>4 DEF Revoke
    <2> QED
      BY <2>2, <2>3, <2>4
  <1> QED
    BY <1>1, <1>2, TimesUntouched

LEMMA TimesKept == IInv /\ TInv /\ [RunNext]_runVars => TInv'
  <1> SUFFICES ASSUME IInv, TInv, [RunNext]_runVars PROVE TInv'
    OBVIOUS
  <1>1. CASE UNCHANGED runVars
    BY <1>1, TimesUntouched DEF runVars, apiVars, storeVars
  <1>2. ASSUME NEW w \in Wrappers,
               \/ SendStart(w) \/ GotStart(w) \/ FinishCommand(w) \/ SendEnd(w)
               \/ GotEnd(w) \/ NoticeReset(w) \/ BreakConnection(w) \/ Kill(w)
        PROVE  TInv'
    BY <1>2, StartTimed, FinishTimed, ScriptTimed
  <1>3. ASSUME NEW k \in Conns, Serve(k) \/ ServerFails(k)
        PROVE  TInv'
    BY <1>3, ServeTimed, OutsideTimed
  <1>4. CASE ServerCrash \/ RunClock
    BY <1>4, OutsideTimed, ClockTimed
  <1>5. ASSUME NEW i \in Ids, Tidy(i)
        PROVE  TInv'
    BY <1>5, TidyTimed
  <1>6. ASSUME NEW t \in Tokens, Revoke(t)
        PROVE  TInv'
    BY <1>6, OutsideTimed
  <1> QED
    BY <1>1, <1>2, <1>3, <1>4, <1>5, <1>6 DEF RunNext

\* While the clocks only move forward, a session its wrapper has closed spans
\* the command: it starts no later, and ends no earlier.
THEOREM RecordsCoverRuns == RunSpec => []RecordCoversRun
  <1>1. RunInit => TInv
    <2> SUFFICES ASSUME RunInit PROVE TInv
      OBVIOUS
    <2>1. records = << >> /\ \A k \in Conns : conn[k].phase = "idle"
      BY DEF RunInit, ApiInit, Idle
    <2> QED
      BY <2>1, Constants DEF RunInit, TInv, StartsPast, RunOver, StartedBefore
  <1>2. IInv /\ TInv => RecordCoversRun
    <2> SUFFICES ASSUME IInv, TInv, ~ClockSteps, NEW w \in Wrappers,
                        sid[w] \in DOMAIN records \ tidied, records[sid[w]].status = "completed"
                 PROVE  /\ records[sid[w]].start <= ranFrom[w]
                        /\ ranTo[w] # NULL
                        /\ ranTo[w] <= records[sid[w]].end
      BY DEF RecordCoversRun
    <2>1. records[sid[w]].pid = w
      <3>1. sid[w] # NULL
        BY RowTimes, IdIsNoNull
      <3>2. Owned(w, sid[w])
        BY <3>1 DEF IInv, RowsOwned
      <3> QED
        BY <3>2 DEF Owned
    <2> QED
      BY <2>1 DEF TInv, StartedBefore, EndedAfter
  <1> QED
    BY <1>1, <1>2, InvInitially, InvKept, TimesKept, PTL DEF RunSpec

-----------------------------------------------------------------------------
(* The faults behind a session left running *)

RowsOf(w) == {i \in DOMAIN records : records[i].pid = w}

\* A session of w is running that its token could still end.
Orphan(w) ==
    /\ TokenOf[w] \in DOMAIN tokens /\ MayBeEnded(w)
    /\ \E i \in RowsOf(w) : records[i].status = "active"

\* A start that was refused has left no row, and one whose outcome the script
\* does not know has cost a fault.
StartCharged(w) ==
    /\ conn[<<w, 0>>].phase = "replied" /\ conn[<<w, 0>>].code # 200 => RowsOf(w) = {}
    /\ pc[w] = "starting" /\ conn[<<w, 0>>].phase = "idle" => faults >= 1
    /\ pc[w] = "aborted" => faults >= 1 \/ (conn[<<w, 0>>].phase = "idle" /\ RowsOf(w) = {})

\* The session the script knows when it runs the command is its only one.
RowKnown(w) ==
    /\ conn[<<w, 0>>].phase = "replied" /\ conn[<<w, 0>>].code = 200 =>
          RowsOf(w) \subseteq {conn[<<w, 0>>].id}
    /\ pc[w] \in {"running", "ending", "reporting", "exited"} =>
          conn[<<w, 0>>].phase = "idle" /\ RowsOf(w) \subseteq {sid[w]}

\* As long as the session runs, each attempt that is over has cost a fault.
EndCharged(w) ==
    Orphan(w) =>
        /\ pc[w] \in {"ending", "reporting"} => faults >= attempt[w] - 1
        /\ pc[w] = "reporting" /\ conn[Line(w)].phase \in {"idle", "replied"} => faults >= attempt[w]
        /\ pc[w] = "reporting" /\ conn[Line(w)].phase = "replied" => conn[Line(w)].code # 200
        /\ pc[w] = "exited" => faults >= 3

Charged(w) == StartCharged(w) /\ RowKnown(w) /\ EndCharged(w)

CInv == \A w \in Wrappers : Charged(w)

LEMMA FaultCounts ==
    ASSUME IInv
    PROVE  /\ faults \in Int /\ faults >= 0 /\ \A w \in Wrappers : attempt[w] \in 0..3
           /\ Fault => faults' = faults + 1
  <1>1. faults \in 0..MaxFaults /\ MaxFaults \in Nat
    BY RunAssumption DEF IInv, RunTypeOK
  <1> QED
    BY <1>1, ConnTypes DEF Fault

\* Steps that start no session and bring no token back leave nobody with more.
LEMMA RowsShrink ==
    ASSUME IInv, NEW v \in Wrappers, DOMAIN records' \subseteq DOMAIN records,
           \A i \in DOMAIN records' :
              /\ records'[i].pid = records[i].pid
              /\ records'[i].status = "active" => records[i].status = "active",
           \A t \in issued : t \in DOMAIN tokens' => t \in DOMAIN tokens /\ tokens'[t] = tokens[t]
    PROVE  RowsOf(v)' \subseteq RowsOf(v) /\ (Orphan(v)' => Orphan(v))
  <1>1. \A i \in RowsOf(v)' : /\ i \in RowsOf(v) /\ TokenOf[v] \in issued
                              /\ records'[i].status = "active" => records[i].status = "active"
    BY DEF RowsOf, IInv, ClientOfToken
  <1>2. ASSUME Orphan(v)'
        PROVE  Orphan(v)
    <2>1. PICK i \in RowsOf(v)' : records'[i].status = "active"
      BY <1>2 DEF Orphan
    <2>2. TokenOf[v] \in DOMAIN tokens /\ tokens'[TokenOf[v]] = tokens[TokenOf[v]]
      BY <1>1, <1>2, <2>1 DEF Orphan
    <2> QED
      BY <1>1, <1>2, <2>1, <2>2 DEF Orphan, MayBeEnded
  <1> QED
    BY <1>1, <1>2

\* A wrapper the step does not touch.
LEMMA Bystander ==
    ASSUME IInv, NEW v \in Wrappers, Charged(v),
           RowsOf(v)' \subseteq RowsOf(v), Orphan(v)' => Orphan(v),
           pc'[v] = pc[v], attempt'[v] = attempt[v], sid'[v] = sid[v],
           \A n \in 0..3 : conn'[<<v, n>>] = conn[<<v, n>>],
           faults' = faults \/ faults' = faults + 1
    PROVE  Charged(v)'
  <1>1. faults \in Int /\ attempt[v] \in 0..3
    BY FaultCounts
  <1>2. conn'[<<v, 0>>] = conn[<<v, 0>>] /\ (conn[Line(v)])' = conn[Line(v)]
    BY <1>1 DEF Line
  <1>3. StartCharged(v)' /\ RowKnown(v)'
    BY <1>1, <1>2 DEF Charged, StartCharged, RowKnown
  <1>4. EndCharged(v)'
    BY <1>1, <1>2 DEF Charged, EndCharged
  <1> QED
    BY <1>3, <1>4 DEF Charged

ScriptStep(w) ==
    \/ SendStart(w) \/ GotStart(w) \/ FinishCommand(w) \/ SendEnd(w)
    \/ GotEnd(w) \/ NoticeReset(w) \/ BreakConnection(w) \/ Kill(w)

\* A step of w's script leaves the tables and the other wrappers alone.
LEMMA ScriptLocal ==
    ASSUME IInv, CInv, NEW w \in Wrappers, ScriptStep(w)
    PROVE  /\ RowsOf(w)' = RowsOf(w) /\ (Orphan(w)' => Orphan(w))
           /\ \A v \in Wrappers : v # w => Charged(v)'
  <1>1. UNCHANGED <<records, tokens>>
    BY DEF ScriptStep, SendStart, GotStart, FinishCommand, SendEnd, GotEnd, NoticeReset,
           BreakConnection, Kill, Submit, Receive, apiVars, storeVars
  <1>2. RowsOf(w)' = RowsOf(w) /\ \A v \in Wrappers : RowsOf(v)' \subseteq RowsOf(v) /\ (Orphan(v)' => Orphan(v))
    BY <1>1 DEF RowsOf, Orphan, MayBeEnded
  <1>3. Line(w) \in Conns /\ Line(w) = <<w, attempt[w]>>
    BY Lines DEF Line
  <1>4. conn' = conn \/ \E e : conn' = [conn EXCEPT ![Line(w)] = e]
    BY DEF ScriptStep, SendStart, GotStart, FinishCommand, SendEnd, GotEnd, NoticeReset,
           BreakConnection, Kill, Submit, Receive, apiVars
  <1>5. \A v \in Wrappers, n \in 0..3 : v # w => conn'[<<v, n>>] = conn[<<v, n>>]
    BY <1>3, <1>4, ConnTypes, Constants
  <1>6. \E l, a, s : /\ pc' = [pc EXCEPT ![w] = l]
                     /\ attempt' = attempt \/ attempt' = [attempt EXCEPT ![w] = a]
                     /\ sid' = sid \/ sid' = [sid EXCEPT ![w] = s]
    BY DEF ScriptStep, SendStart, GotStart, FinishCommand, SendEnd, GotEnd, NoticeReset,
           BreakConnection, Kill, NoReply, Retry, Goto, apiVars
  <1>7. \A v \in Wrappers : v # w => pc'[v] = pc[v] /\ attempt'[v] = attempt[v] /\ sid'[v] = sid[v]
    BY <1>6, ConnTypes
  <1>8. faults' = faults \/ faults' = faults + 1
    BY FaultCounts DEF ScriptStep, SendStart, GotStart, FinishCommand, SendEnd, GotEnd, NoticeReset,
           BreakConnection, Kill
  <1> QED
    BY <1>2, <1>5, <1>7, <1>8, Bystander DEF CInv

\* An attempt to end has come to nothing, which has been charged.
LEMMA RetryCharged ==
    ASSUME IInv, NEW w \in Wrappers, Charged(w), pc[w] = "reporting", Retry(w),
           RowsOf(w)' = RowsOf(w), Orphan(w)' => Orphan(w), sid'[w] = sid[w],
           conn'[<<w, 0>>] = conn[<<w, 0>>],
           faults' \in Int, Orphan(w) => faults' >= attempt[w]
    PROVE  Charged(w)'
  <1>1. attempt[w] \in 1..3
    BY Lines
  <1>2. \/ attempt[w] < 3 /\ pc'[w] = "ending" /\ attempt'[w] = attempt[w] + 1
        \/ attempt[w] = 3 /\ pc'[w] = "exited" /\ attempt'[w] = attempt[w]
    BY <1>1, ConnTypes DEF Retry, Goto
  <1>3. conn[<<w, 0>>].phase = "idle" /\ RowsOf(w) \subseteq {sid[w]}
    BY DEF Charged, RowKnown
  <1>4. StartCharged(w)' /\ RowKnown(w)'
    BY <1>2, <1>3 DEF StartCharged, RowKnown
  <1>5. EndCharged(w)'
    BY <1>1, <1>2 DEF EndCharged
  <1> QED
    BY <1>4, <1>5 DEF Charged

\* What the steps of the script do to the wrapper's own charges.
LEMMA StartSentCharged ==
    ASSUME IInv, CInv, NEW w \in Wrappers, SendStart(w)
    PROVE  Charged(w)'
  <1>1. pc[w] = "init" /\ attempt[w] = 0 /\ Line(w) = <<w, 0>> /\ Line(w) \in Conns
    BY Lines DEF SendStart, IInv, LinesInOrder, LineInOrder, Line
  <1>2. pc'[w] = "starting" /\ conn'[<<w, 0>>].phase = "sent"
    BY <1>1, ConnTypes DEF SendStart, Goto, Submit, Idle
  <1> QED
    BY <1>2 DEF Charged, StartCharged, RowKnown, EndCharged

LEMMA StartAnswerCharged ==
    ASSUME IInv, CInv, NEW w \in Wrappers, GotStart(w)
    PROVE  Charged(w)'
  <1>1. RowsOf(w)' = RowsOf(w) /\ Charged(w)
    BY ScriptLocal DEF ScriptStep, CInv
  <1>2. pc[w] = "starting" /\ Line(w) = <<w, 0>> /\ Line(w) \in Conns
    BY Lines DEF GotStart, IInv, LinesInOrder, LineInOrder, Line
  <1>3. conn[<<w, 0>>].phase = "replied" /\ conn'[<<w, 0>>].phase = "idle"
    BY <1>2, ConnTypes DEF GotStart, Receive, Idle
  <1>4. CASE conn[<<w, 0>>].code = 200
    <2>1. pc'[w] = "running" /\ sid'[w] = conn[<<w, 0>>].id
      BY <1>2, <1>4, ConnTypes DEF GotStart, Goto
    <2> QED
      BY <1>1, <1>3, <1>4, <2>1 DEF Charged, StartCharged, RowKnown, EndCharged
  <1>5. CASE conn[<<w, 0>>].code # 200
    <2>1. pc'[w] = "aborted"
      BY <1>2, <1>5, ConnTypes DEF GotStart, Goto
    <2> QED
      BY <1>1, <1>3, <1>5, <2>1 DEF Charged, StartCharged, RowKnown, EndCharged
  <1> QED
    BY <1>4, <1>5

LEMMA FinishCharged ==
    ASSUME IInv, CInv, NEW w \in Wrappers, FinishCommand(w)
    PROVE  Charged(w)'
  <1>1. RowsOf(w)' = RowsOf(w) /\ Charged(w)
    BY ScriptLocal DEF ScriptStep, CInv
  <1>2. /\ pc[w] = "running" /\ pc'[w] = "ending" /\ attempt'[w] = 1
        /\ UNCHANGED <<conn, sid, faults>>
    BY ConnTypes DEF FinishCommand, Goto, apiVars
  <1> QED
    BY <1>1, <1>2, FaultCounts DEF Charged, StartCharged, RowKnown, EndCharged

LEMMA EndSentCharged ==
    ASSUME IInv, CInv, NEW w \in Wrappers, SendEnd(w)
    PROVE  Charged(w)'
  <1>1. RowsOf(w)' = RowsOf(w) /\ (Orphan(w)' => Orphan(w)) /\ Charged(w)
    BY ScriptLocal DEF ScriptStep, CInv
  <1>2. /\ pc[w] = "ending" /\ Line(w) \in Conns /\ Line(w) = <<w, attempt[w]>>
        /\ attempt[w] \in 1..3
    BY Lines DEF SendEnd, Line
  <1>3. pc'[w] = "reporting" /\ UNCHANGED <<attempt, sid, faults>>
    BY <1>2, ConnTypes DEF SendEnd, Goto
  <1>4. conn'[Line(w)].phase = "sent" /\ Line(w)' = Line(w)
    BY <1>2, <1>3, ConnTypes DEF SendEnd, Submit, Idle, Line
  <1>5. conn'[<<w, 0>>] = conn[<<w, 0>>]
    BY <1>2, ConnTypes, Constants DEF SendEnd, Submit
  <1>6. StartCharged(w)' /\ RowKnown(w)'
    BY <1>1, <1>2, <1>3, <1>5 DEF Charged, StartCharged, RowKnown
  <1>7. (conn[Line(w)].phase)' = "sent"
    BY <1>4
  <1>8. EndCharged(w)'
    BY <1>1, <1>2, <1>3, <1>7 DEF Charged, EndCharged
  <1> QED
    BY <1>6, <1>8 DEF Charged

LEMMA EndAnswerCharged ==
    ASSUME IInv, CInv, NEW w \in Wrappers, GotEnd(w)
    PROVE  Charged(w)'
  <1>1. RowsOf(w)' = RowsOf(w) /\ (Orphan(w)' => Orphan(w)) /\ Charged(w)
    BY ScriptLocal DEF ScriptStep, CInv
  <1>2. /\ pc[w] = "reporting" /\ conn[Line(w)].phase = "replied" /\ UNCHANGED <<sid, faults>>
        /\ Line(w) \in Conns /\ Line(w) = <<w, attempt[w]>> /\ attempt[w] \in 1..3
    BY Lines DEF GotEnd, Receive, Line
  <1>3. conn'[<<w, 0>>] = conn[<<w, 0>>]
    BY <1>2, ConnTypes, Constants DEF GotEnd, Receive
  <1>4. CASE conn[Line(w)].code = 200
    <2>1. pc'[w] = "exited" /\ ~Orphan(w)
      BY <1>1, <1>2, <1>4, ConnTypes DEF GotEnd, Goto, Charged, EndCharged
    <2> QED
      BY <1>1, <1>2, <1>3, <2>1 DEF Charged, StartCharged, RowKnown, EndCharged
  <1>5. CASE conn[Line(w)].code # 200
    BY <1>1, <1>2, <1>3, <1>5, RetryCharged, FaultCounts DEF GotEnd, Charged, EndCharged
  <1> QED
    BY <1>4, <1>5

LEMMA ResetCharged ==
    ASSUME IInv, CInv, NEW w \in Wrappers, NoticeReset(w)
    PROVE  Charged(w)'
  <1>1. RowsOf(w)' = RowsOf(w) /\ (Orphan(w)' => Orphan(w)) /\ Charged(w)
    BY ScriptLocal DEF ScriptStep, CInv
  <1>2. conn[Line(w)].phase = "idle" /\ UNCHANGED <<conn, sid, faults>>
    BY DEF NoticeReset, NoReply, apiVars
  <1>3. CASE pc[w] = "starting"
    <2>1. Line(w) = <<w, 0>> /\ pc'[w] = "aborted"
      BY <1>3, ConnTypes DEF NoticeReset, NoReply, Goto, IInv, LinesInOrder, LineInOrder, Line
    <2> QED
      BY <1>1, <1>2, <1>3, <2>1 DEF Charged, StartCharged, RowKnown, EndCharged
  <1>4. CASE pc[w] = "reporting"
    BY <1>1, <1>2, <1>4, RetryCharged, FaultCounts DEF NoticeReset, NoReply, Charged, EndCharged
  <1> QED
    BY <1>3, <1>4 DEF NoticeReset, NoReply

LEMMA BreakCharged ==
    ASSUME IInv, CInv, NEW w \in Wrappers, BreakConnection(w)
    PROVE  Charged(w)'
  <1>1. RowsOf(w)' = RowsOf(w) /\ (Orphan(w)' => Orphan(w)) /\ Charged(w)
    BY ScriptLocal DEF ScriptStep, CInv
  <1>2. /\ faults \in Int /\ faults >= 0 /\ faults' = faults + 1 /\ UNCHANGED sid
        /\ Line(w) \in Conns /\ Line(w) = <<w, attempt[w]>>
    BY FaultCounts, Lines DEF BreakConnection, NoReply, Line
  <1>3. CASE pc[w] = "starting"
    <2>1. pc'[w] = "aborted"
      BY <1>3, ConnTypes DEF BreakConnection, NoReply, Goto
    <2>2. \A k \in Conns : conn'[k] = conn[k] \/ conn'[k] = Idle
      BY <1>2, ConnTypes DEF BreakConnection
    <2>3. conn'[<<w, 0>>] = conn[<<w, 0>>] \/ conn'[<<w, 0>>].phase = "idle"
      BY <2>2, Constants DEF Idle
    <2> QED
      BY <1>1, <1>2, <2>1, <2>3 DEF Charged, StartCharged, RowKnown, EndCharged
  <1>4. CASE pc[w] = "reporting"
    <2>1. attempt[w] \in 1..3
      BY <1>4, Lines
    <2>2. conn'[<<w, 0>>] = conn[<<w, 0>>]
      BY <1>2, <2>1, ConnTypes, Constants DEF BreakConnection
    <2>3. Orphan(w) => faults' >= attempt[w]
      BY <1>1, <1>2, <1>4, <2>1 DEF Charged, EndCharged
    <2> QED
      BY <1>1, <1>2, <1>4, <2>2, <2>3, RetryCharged DEF BreakConnection, NoReply
  <1> QED
    BY <1>3, <1>4 DEF BreakConnection, NoReply

LEMMA KillCharged ==
    ASSUME IInv, CInv, NEW w \in Wrappers, Kill(w)
    PROVE  Charged(w)'
  <1>1. RowsOf(w)' = RowsOf(w) /\ Charged(w)
    BY ScriptLocal DEF ScriptStep, CInv
  <1>2. pc'[w] = "killed" /\ UNCHANGED conn
    BY ConnTypes DEF Kill, Goto, apiVars
  <1> QED
    BY <1>1, <1>2 DEF Charged, StartCharged, RowKnown, EndCharged

LEMMA ScriptCharged ==
    ASSUME IInv, CInv, NEW w \in Wrappers, ScriptStep(w)
    PROVE  CInv'
  <1>1. Charged(w)'
    BY StartSentCharged, StartAnswerCharged, FinishCharged, EndSentCharged, EndAnswerCharged,
       ResetCharged, BreakCharged, KillCharged DEF ScriptStep
  <1> QED
    BY <1>1, ScriptLocal DEF CInv

\* The server lets a request of w in, or answers it without starting a session.
LEMMA AnswerCharged ==
    ASSUME IInv, NEW w \in Wrappers, Charged(w), NEW n \in 0..3,
           RowsOf(w)' \subseteq RowsOf(w), Orphan(w)' => Orphan(w), UNCHANGED scriptVars,
           faults' = faults \/ faults' = faults + 1,
           conn[<<w, n>>].phase \in {"sent", "authed"}, conn'[<<w, n>>].phase \in {"authed", "replied"},
           \A m \in 0..3 : m # n => conn'[<<w, m>>] = conn[<<w, m>>],
           conn'[<<w, n>>].phase = "replied" =>
              /\ n = 0 => conn'[<<w, n>>].code # 200
              /\ n # 0 /\ pc[w] = "reporting" /\ Orphan(w)' =>
                    conn'[<<w, n>>].code # 200 /\ faults' = faults + 1
    PROVE  Charged(w)'
  <1>1. UNCHANGED <<pc, attempt, sid>> /\ faults \in Int /\ faults >= 0 /\ attempt[w] \in 0..3
    BY FaultCounts DEF scriptVars
  <1>2. n = 0 => RowsOf(w) = {}
    BY DEF IInv, RowsOwned, StartPending, RowsOf
  <1>3. n = 0 \/ conn'[<<w, 0>>] = conn[<<w, 0>>]
    OBVIOUS
  <1>4. StartCharged(w)' /\ RowKnown(w)'
    BY <1>1, <1>2, <1>3 DEF Charged, StartCharged, RowKnown
  <1>5. ASSUME Orphan(w)'
        PROVE  /\ pc[w] \in {"ending", "reporting"} => faults' >= attempt[w] - 1
               /\ pc[w] = "reporting" /\ conn'[Line(w)].phase \in {"idle", "replied"} =>
                     faults' >= attempt[w]
               /\ pc[w] = "reporting" /\ conn'[Line(w)].phase = "replied" => conn'[Line(w)].code # 200
               /\ pc[w] = "exited" => faults' >= 3
    <2>1. \/ attempt[w] # n /\ conn'[Line(w)] = conn[Line(w)]
          \/ attempt[w] = n /\ Line(w) = <<w, n>>
      BY <1>1 DEF Line
    <2>2. pc[w] = "reporting" => attempt[w] # 0
      BY Lines
    <2> QED
      BY <1>1, <1>5, <2>1, <2>2 DEF Charged, EndCharged
  <1>6. EndCharged(w)'
    <2>1. (conn[Line(w)])' = conn'[Line(w)]
      BY <1>1 DEF Line
    <2> QED
      BY <1>1, <1>5, <2>1 DEF EndCharged
  <1> QED
    BY <1>4, <1>6 DEF Charged

\* What happens on the lines of one wrapper leaves the others alone.
LEMMA OthersCharged ==
    ASSUME IInv, CInv, NEW k \in Conns, UNCHANGED scriptVars,
           \A v \in Wrappers : v # k[1] => RowsOf(v)' \subseteq RowsOf(v) /\ (Orphan(v)' => Orphan(v)),
           \A j \in Conns : j # k => conn'[j] = conn[j],
           faults' = faults \/ faults' = faults + 1,
           Charged(k[1])'
    PROVE  CInv'
  <1>1. UNCHANGED <<pc, attempt, sid>>
    BY DEF scriptVars
  <1>2. ASSUME NEW v \in Wrappers, v # k[1]
        PROVE  Charged(v)'
    <2>1. \A n \in 0..3 : conn'[<<v, n>>] = conn[<<v, n>>]
      BY <1>2, Constants
    <2> QED
      BY <1>1, <1>2, <2>1, Bystander DEF CInv
  <1> QED
    BY <1>2 DEF CInv

\* A refused request has left no row, or its token is gone.
LEMMA AuthenticateCharged ==
    ASSUME IInv, CInv, NEW k \in Conns, Authenticate(k), UNCHANGED <<scriptVars, faults, tidied>>
    PROVE  CInv'
  <1> DEFINE w == k[1]
             n == k[2]
  <1>1. conn[k].phase = "sent" /\ UNCHANGED <<records, tokens>> /\ UNCHANGED <<scriptVars, faults>>
    BY DEF Authenticate, storeVars
  <1>2. /\ w \in Wrappers /\ k = <<w, n>> /\ n \in 0..3 /\ Charged(w)
        /\ conn[k].req = IF n = 0 THEN StartRequest(w) ELSE EndRequest(w)
    BY <1>1, LineRequest, Constants DEF CInv
  <1>3. \A v \in Wrappers : RowsOf(v)' \subseteq RowsOf(v) /\ (Orphan(v)' => Orphan(v))
    BY <1>1 DEF RowsOf, Orphan, MayBeEnded
  <1>4. /\ \A j \in Conns : j # k => conn'[j] = conn[j]
        /\ conn'[k].phase \in {"authed", "replied"}
        /\ conn'[k].phase = "replied" => conn'[k].code # 200 /\ ~(HasBearer(conn[k].req) /\ InScope(conn[k].req))
    <2>1. conn \in [Conns -> Exchange] /\ conn[k] \in Exchange
      BY ConnTypes
    <2>2. ASSUME NEW who, Admit(k, who)
          PROVE  conn'[k].phase = "authed" /\ \A j \in Conns : j # k => conn'[j] = conn[j]
      BY <2>1, <2>2 DEF Admit, Exchange
    <2> QED
      BY <2>2, Replied DEF Authenticate
  <1>5. n # 0 /\ Orphan(w) => HasBearer(conn[k].req) /\ InScope(conn[k].req)
    <2> SUFFICES ASSUME n # 0, Orphan(w) PROVE HasBearer(EndRequest(w)) /\ InScope(EndRequest(w))
      BY <1>2
    <2>1. HasBearer(EndRequest(w))
      BY DEF HasBearer, EndRequest, BearerOps, Orphan
    <2> DEFINE c == tokens[TokenOf[w]]
    <2>2. c \in Seq(STRING)
      BY ApiAssumption DEF Orphan, IInv, ApiInv, StoreTypeOK
    <2>3. ClientIdAllowed(c, c)
      BY <2>2 DEF ClientIdAllowed
    <2> QED
      BY <1>2, <2>1, <2>3, Targets DEF InScope, EndRequest
  <1>6. \A m \in 0..3 : m # n => conn'[<<w, m>>] = conn[<<w, m>>]
    BY <1>2, <1>4, Constants
  <1> HIDE DEF w, n
  <1>7. Charged(w)'
    BY <1>1, <1>2, <1>3, <1>4, <1>5, <1>6, AnswerCharged
  <1> QED
    BY <1>1, <1>3, <1>4, <1>7, OthersCharged DEF w

\* The wrapper's session is announced: the only row it has.
LEMMA StartServedCharged ==
    ASSUME IInv, CInv, NEW k \in Conns, ExecStart(k), UNCHANGED <<scriptVars, faults, tidied>>
    PROVE  CInv'
  <1> DEFINE w == k[1]
             i == seq + 1
  <1>1. conn[k].phase = "authed" /\ UNCHANGED <<pc, attempt, sid, tokens, faults>>
    BY DEF ExecStart, Serving, scriptVars, StartSession
  <1>2. w \in Wrappers /\ k = <<w, 0>> /\ conn[k].req = StartRequest(w) /\ Charged(w)
    <2>1. EndRequest(w).op # "start" /\ conn[k].req.op = "start"
      BY DEF EndRequest, ExecStart, Serving
    <2> QED
      BY <1>1, <2>1, LineRequest DEF CInv
  <1>3. \E row : row.pid = w /\ row.status = "active" /\ records' = Put(records, i, row)
    <2> DEFINE row == [client |-> Target(conn[k].req, conn[k].owner), pid |-> w, start |-> now,
                       end |-> NULL, duration |-> NULL, status |-> "active"]
    <2>1. records' = Put(records, i, row)
      BY <1>2 DEF ExecStart, StartSession, Insert, NextId, StartRequest
    <2>2. row.pid = w /\ row.status = "active"
      OBVIOUS
    <2> QED
      BY <2>1, <2>2
  <1>4. Reply(k, 200, i)
    BY DEF ExecStart, NextId
  <1>5. i \notin DOMAIN records
    <2>1. \A j \in DOMAIN records : j \in Int /\ j <= seq
      BY DEF IInv, ApiInv, StoreTypeOK, StoreInv, RowsReferToClients, Ids
    <2> QED
      BY <2>1, ConnTypes
  <1>6. /\ DOMAIN records' = DOMAIN records \cup {i} /\ records'[i].pid = w
        /\ \A j \in DOMAIN records : records'[j] = records[j]
    BY <1>3, <1>5 DEF Put
  <1>7. \A j \in DOMAIN records : records[j].pid # w
    BY <1>1, <1>2 DEF IInv, RowsOwned, StartPending
  <1> HIDE DEF i, w
  <1>8. RowsOf(w)' = {i}
    BY <1>6, <1>7 DEF RowsOf
  <1>9. \A v \in Wrappers : v # w => RowsOf(v)' \subseteq RowsOf(v) /\ (Orphan(v)' => Orphan(v))
    BY <1>1, <1>6 DEF RowsOf, Orphan, MayBeEnded
  <1>10. /\ conn'[<<w, 0>>].phase = "replied" /\ conn'[<<w, 0>>].code = 200 /\ conn'[<<w, 0>>].id = i
         /\ \A j \in Conns : j # k => conn'[j] = conn[j]
    BY <1>2, <1>4, Replied
  <1>11. pc[w] \notin {"running", "ending", "reporting", "exited"} /\ (pc[w] = "aborted" => faults >= 1)
    BY <1>1, <1>2 DEF Charged, RowKnown, StartCharged
  <1>12. Charged(w)'
    BY <1>1, <1>8, <1>10, <1>11 DEF Charged, StartCharged, RowKnown, EndCharged
  <1> QED
    BY <1>9, <1>10, <1>12, OthersCharged DEF w

\* The end finds the session, which is its only one, if there is one to find.
LEMMA EndServedCharged ==
    ASSUME IInv, CInv, NEW k \in Conns, ExecEnd(k), UNCHANGED <<scriptVars, faults, tidied>>
    PROVE  CInv'
  <1> DEFINE w == k[1]
             n == k[2]
  <1>1. conn[k].phase = "authed" /\ conn[k].req.op = "end" /\ UNCHANGED <<pc, attempt, sid>>
    BY DEF ExecEnd, Serving, scriptVars
  <1>2. w \in Wrappers /\ k = <<w, n>> /\ n \in 1..3 /\ conn[k].req = EndRequest(w) /\ Charged(w)
    <2>1. StartRequest(w).op # "end"
      BY DEF StartRequest
    <2> QED
      BY <1>1, <2>1, LineRequest, Constants DEF CInv
  <1>3. \A j \in Conns : j # k => conn'[j] = conn[j]
    BY Replied DEF ExecEnd
  <1>4. conn'[k].phase = "replied"
    BY Replied DEF ExecEnd
  <1>5. \A m \in 0..3 : m # n => conn'[<<w, m>>] = conn[<<w, m>>]
    BY <1>2, <1>3, Constants
  <1>6. /\ UNCHANGED <<tokens, issued>> /\ DOMAIN records' \subseteq DOMAIN records
        /\ \A i \in DOMAIN records' :
              /\ records'[i].pid = records[i].pid
              /\ records'[i].status = "active" => records[i].status = "active"
        /\ MayEnd(k) => sid[w] \in DOMAIN records' /\ records'[sid[w]].status = "completed"
    <2>1. conn[k].req.arg = sid[w]
      BY <1>2 DEF EndRequest
    <2>2. CASE UNCHANGED storeVars /\ ~MayEnd(k)
      BY <2>2 DEF storeVars
    <2>3. CASE MayEnd(k) /\ CloseRow(sid[w], Completed(records[sid[w]], now))
      <3>1. PICK i : i = sid[w]
        OBVIOUS
      <3>2. i \in DOMAIN records
        BY <2>1, <2>3, <3>1 DEF MayEnd, EndMatches, IsActive
      <3>3. records[i] \in Row /\ records \in [DOMAIN records -> Row]
        BY <3>2, RowTimes DEF IInv, ApiInv, StoreTypeOK
      <3>4. Completed(records[i], now).pid = records[i].pid /\ Completed(records[i], now).status = "completed"
        BY <3>3 DEF Completed, Row
      <3>5. records' = [records EXCEPT ![i] = Completed(records[i], now)] /\ UNCHANGED <<tokens, issued>>
        BY <2>3, <3>1 DEF CloseRow
      <3>6. /\ DOMAIN records' = DOMAIN records /\ records'[i] = Completed(records[i], now)
            /\ \A j \in DOMAIN records : j # i => records'[j] = records[j]
        BY <3>2, <3>3, <3>5
      <3>7. /\ DOMAIN records' \subseteq DOMAIN records
            /\ \A j \in DOMAIN records' :
                  /\ records'[j].pid = records[j].pid
                  /\ records'[j].status = "active" => records[j].status = "active"
        BY <3>4, <3>6
      <3> QED
        BY <3>1, <3>2, <3>4, <3>5, <3>6, <3>7
    <2> QED
      BY <2>1, <2>2, <2>3 DEF ExecEnd
  <1>7. \A v \in Wrappers : RowsOf(v)' \subseteq RowsOf(v) /\ (Orphan(v)' => Orphan(v))
    BY <1>6, RowsShrink
  <1>8. ~(pc[w] = "reporting" /\ Orphan(w)')
    <2> SUFFICES ASSUME pc[w] = "reporting", Orphan(w)' PROVE FALSE
      OBVIOUS
    <2>1. PICK i \in RowsOf(w)' : records'[i].status = "active"
      BY DEF Orphan
    <2>2. i \in RowsOf(w) /\ i \in DOMAIN records /\ records[i].pid = w /\ records[i].status = "active"
      BY <1>2, <1>6, <1>7, <2>1 DEF RowsOf
    <2>3. i = sid[w]
      BY <1>2, <2>2 DEF Charged, RowKnown
    <2>4. TokenOf[w] \in DOMAIN tokens /\ MayBeEnded(w)
      BY <1>2, <1>7 DEF Orphan
    <2>5. conn[k].owner = tokens[TokenOf[w]] /\ conn[k].owner # Admin
      BY <1>1, <2>4 DEF IInv, ClientOfToken
    <2>6. records[i].client = tokens[TokenOf[w]]
      BY <1>2, <2>2, <2>4 DEF IInv, ClientOfToken, MayBeEnded
    <2>7. MayEnd(k)
      <3>1. Target(conn[k].req, conn[k].owner) = conn[k].owner /\ conn[k].req.arg = i
        BY <1>2, <2>3, Targets DEF EndRequest
      <3> QED
        BY <2>2, <2>5, <2>6, <3>1 DEF MayEnd, EndMatches, IsActive
    <2> QED
      BY <1>6, <2>1, <2>3, <2>7
  <1> HIDE DEF w, n
  <1>9. Charged(w)'
    BY <1>1, <1>2, <1>4, <1>5, <1>7, <1>8, AnswerCharged
  <1> QED
    BY <1>3, <1>7, <1>9, OthersCharged DEF w

\* The transaction of a request of w fails.
LEMMA FailCharged ==
    ASSUME IInv, CInv, NEW k \in Conns, ServerFails(k)
    PROVE  CInv'
  <1> DEFINE w == k[1]
             n == k[2]
  <1>1. /\ conn[k].phase = "authed" /\ UNCHANGED <<records, tokens>> /\ UNCHANGED scriptVars
        /\ Reply(k, 500, NULL) /\ faults' = faults + 1
    BY FaultCounts DEF ServerFails, Fail, storeVars
  <1>2. w \in Wrappers /\ k = <<w, n>> /\ n \in 0..3 /\ Charged(w)
    BY Constants DEF CInv
  <1>3. \A v \in Wrappers : RowsOf(v)' \subseteq RowsOf(v) /\ (Orphan(v)' => Orphan(v))
    BY <1>1 DEF RowsOf, Orphan, MayBeEnded
  <1>4. /\ conn'[k].phase = "replied" /\ conn'[k].code = 500
        /\ \A j \in Conns : j # k => conn'[j] = conn[j]
    BY <1>1, Replied
  <1>5. \A m \in 0..3 : m # n => conn'[<<w, m>>] = conn[<<w, m>>]
    BY <1>2, <1>4, Constants
  <1> HIDE DEF w, n
  <1>6. Charged(w)'
    BY <1>1, <1>2, <1>3, <1>4, <1>5, AnswerCharged
  <1> QED
    BY <1>1, <1>3, <1>4, <1>6, OthersCharged DEF w

\* A crash is a fault that charges everybody.
LEMMA CrashCharged ==
    ASSUME IInv, CInv, ServerCrash
    PROVE  CInv'
  <1>1. /\ UNCHANGED <<records, pc, attempt, sid>> /\ faults' = faults + 1
        /\ faults \in Int /\ faults >= 0
    BY FaultCounts DEF ServerCrash, CrashRestart, ServeStore, AddApiToken, storeVars, scriptVars
  <1>2. \A j \in Conns : conn'[j].phase = "idle"
    BY DEF ServerCrash, CrashRestart, Idle
  <1>3. \A u \in issued : u \in DOMAIN tokens' => u \in DOMAIN tokens /\ tokens'[u] = tokens[u]
    BY DEF ServerCrash, CrashRestart, ServeStore, AddApiToken, Put, storeVars
  <1>4. ASSUME NEW w \in Wrappers
        PROVE  Charged(w)'
    <2>1. RowsOf(w)' \subseteq RowsOf(w) /\ (Orphan(w)' => Orphan(w)) /\ Charged(w)
      BY <1>1, <1>3, RowsShrink DEF CInv
    <2>2. conn'[<<w, 0>>].phase = "idle" /\ (conn[Line(w)].phase)' = "idle"
      <3>1. attempt[w] \in 0..3
        BY ConnTypes
      <3> QED
        BY <1>1, <1>2, <3>1, Constants DEF Line
    <2>3. StartCharged(w)' /\ RowKnown(w)'
      BY <1>1, <2>1, <2>2 DEF Charged, StartCharged, RowKnown
    <2>4. attempt[w] \in Int
      BY ConnTypes
    <2>5. EndCharged(w)'
      BY <1>1, <2>1, <2>2, <2>4 DEF Charged, EndCharged
    <2> QED
      BY <2>3, <2>5 DEF Charged
  <1> QED
    BY <1>4 DEF CInv

\* The web user and the clock charge nobody.
LEMMA OutsideCharged ==
    ASSUME IInv, CInv, RunClock \/ (\E i \in Ids : Tidy(i)) \/ (\E t \in Tokens : Revoke(t))
    PROVE  CInv'
  <1>1. UNCHANGED <<conn, pc, attempt, sid, faults>>
    BY DEF RunClock, Tidy, Revoke, scriptVars
  <1> DEFINE Fewer ==
        /\ DOMAIN records' \subseteq DOMAIN records
        /\ \A j \in DOMAIN records' :
              /\ records'[j].pid = records[j].pid
              /\ records'[j].status = "active" => records[j].status = "active"
        /\ \A t \in issued : t \in DOMAIN tokens' => t \in DOMAIN tokens /\ tokens'[t] = tokens[t]
  <1>2. ASSUME RunClock \/ (\E t \in Tokens : Revoke(t))
        PROVE  Fewer
    BY <1>2 DEF RunClock, Clock, Tick, StepClockBack, Revoke, DeleteApiToken, Drop
  <1>3. ASSUME NEW i \in Ids, DeleteRecord(i)
        PROVE  Fewer
    BY <1>3 DEF DeleteRecord, Drop
  <1>4. ASSUME NEW i \in Ids, IsActive(i), NEW row \in {Completed(records[i], now), Discarded(records[i])},
               CloseRow(i, row)
        PROVE  Fewer
    <2>1. i \in DOMAIN records /\ records[i] \in Row
      BY <1>4, RowTimes DEF IsActive
    <2>2. row.pid = records[i].pid /\ row.status # "active"
      BY <2>1, <1>4 DEF Completed, Discarded, Row
    <2>3. records' = [records EXCEPT ![i] = row] /\ UNCHANGED tokens /\ records \in [DOMAIN records -> Row]
      BY <1>4 DEF CloseRow, IInv, ApiInv, StoreTypeOK
    <2> QED
      BY <2>1, <2>2, <2>3
  <1>5. Fewer
    BY <1>2, <1>3, <1>4 DEF Tidy, EndSessionAdmin, DiscardSessionAdmin
  <1>6. ASSUME NEW v \in Wrappers
        PROVE  Charged(v)'
    <2>1. RowsOf(v)' \subseteq RowsOf(v) /\ (Orphan(v)' => Orphan(v))
      BY <1>5, RowsShrink
    <2> QED
      BY <1>1, <2>1, Bystander DEF CInv
  <1> QED
    BY <1>6 DEF CInv

LEMMA ChargesKept == IInv /\ CInv /\ [RunNext]_runVars => CInv'
  <1> SUFFICES ASSUME IInv, CInv, [RunNext]_runVars PROVE CInv'
    OBVIOUS
  <1>1. CASE UNCHANGED runVars
    <2>1. UNCHANGED <<conn, pc, attempt, sid, faults, records, tokens>>
      BY <1>1 DEF runVars, apiVars, storeVars
    <2>2. \A v \in Wrappers : RowsOf(v)' \subseteq RowsOf(v) /\ (Orphan(v)' => Orphan(v))
      BY <2>1 DEF RowsOf, Orphan, MayBeEnded
    <2> QED
      BY <2>1, <2>2, Bystander DEF CInv
  <1>2. ASSUME NEW w \in Wrappers, ScriptStep(w)
        PROVE  CInv'
    BY <1>2, ScriptCharged
  <1>3. ASSUME NEW k \in Conns, Serve(k) \/ ServerFails(k)
        PROVE  CInv'
    BY <1>3, AuthenticateCharged, StartServedCharged, EndServedCharged, FailCharged DEF Serve
  <1> QED
    BY <1>1, <1>2, <1>3, CrashCharged, OutsideCharged DEF RunNext, ScriptStep

\* A session that its wrapper leaves running although its token could end it
\* has cost faults: one when the start was announced in vain, three when the
\* end was.  A wrapper that was told another client than its token's may start
\* sessions it can never end (WrappersStaySeparate), and is excluded.
THEOREM OrphansAreFaults ==
    ASSUME \A w \in Wrappers : ClientOf[w] = NULL
    PROVE  RunSpec => []OrphansNeedFaults
  <1>1. RunInit => CInv
    <2> SUFFICES ASSUME RunInit, NEW w \in Wrappers PROVE Charged(w)
      BY DEF CInv
    <2>1. pc[w] = "init" /\ \A k \in Conns : conn[k].phase = "idle"
      BY DEF RunInit, ApiInit, Idle
    <2> QED
      BY <2>1, Constants DEF Charged, StartCharged, RowKnown, EndCharged
  <1>2. IInv /\ CInv => OrphansNeedFaults
    <2> SUFFICES ASSUME IInv, CInv, NEW w \in Wrappers, NEW i \in Ids, IsActive(i), records[i].pid = w,
                        TokenOf[w] \in DOMAIN tokens
                 PROVE  (pc[w] = "aborted" => faults >= 1) /\ (pc[w] = "exited" => faults >= 3)
      BY DEF OrphansNeedFaults
    <2>1. i \in RowsOf(w) /\ records[i].status = "active"
      BY DEF IsActive, RowsOf
    <2>2. Orphan(w) /\ Charged(w)
      BY <2>1 DEF Orphan, MayBeEnded, CInv
    <2> QED
      BY <2>1, <2>2 DEF Charged, StartCharged, EndCharged
  <1> QED
    BY <1>1, <1>2, InvInitially, InvKept, ChargesKept, PTL DEF RunSpec

=============================================================================
