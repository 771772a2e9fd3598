-------------------------- MODULE SessionStoreProofs --------------------------
(***************************************************************************)
(* Proofs about SessionStore: its types, its invariant StoreInv, that a    *)
(* closed row is final, and that it implements SessionLifecycle.           *)
(***************************************************************************)
EXTENDS SessionStore, TLAPS

-----------------------------------------------------------------------------
(* What the two shapes of write do to the records table *)

\* An INSERT appends one row under an id that was never used.
LEMMA InsertFacts ==
    ASSUME StoreTypeOK, RowsReferToClients, NEW row \in Row, Insert(row)
    PROVE  /\ seq' \in Ids
           /\ seq' = seq + 1
           /\ seq' \notin DOMAIN records
           /\ DOMAIN records' = DOMAIN records \cup {seq'}
           /\ records' \in [DOMAIN records' -> Row]
           /\ records'[seq'] = row
           /\ \A i \in DOMAIN records : records'[i] = records[i]
<1>1. seq \in Nat /\ seq' = seq + 1 /\ seq' \in Ids
  BY StoreAssumption DEF StoreTypeOK, Insert, NextId, Ids
<1>2. seq' \notin DOMAIN records
  BY <1>1 DEF RowsReferToClients
<1>3. records' = Put(records, seq', row)
  BY DEF Insert, NextId
<1>4. records \in [DOMAIN records -> Row]
  BY DEF StoreTypeOK
<1>5. /\ DOMAIN records' = DOMAIN records \cup {seq'}
      /\ records' \in [DOMAIN records \cup {seq'} -> Row]
      /\ records'[seq'] = row
      /\ \A z \in DOMAIN records : z # seq' => records'[z] = records[z]
  BY <1>3, <1>4 DEF Put
<1> QED
  BY <1>1, <1>2, <1>5

\* Closing an active row replaces it by one that differs in end, duration and
\* status only.
LEMMA CloseFacts ==
    ASSUME StoreTypeOK, NEW id \in DOMAIN records, NEW row \in Row, CloseRow(id, row)
    PROVE  /\ DOMAIN records' = DOMAIN records
           /\ records' \in [DOMAIN records -> Row]
           /\ records'[id] = row
           /\ \A i \in DOMAIN records : i # id => records'[i] = records[i]
           /\ UNCHANGED <<seq, lastSeen, tokens, issued, execEvents, now>>
BY DEF StoreTypeOK, CloseRow

\* The upsert of a client.
LEMMA EnsureFacts ==
    ASSUME StoreTypeOK, NEW c \in Clients, EnsureClient(c)
    PROVE  /\ DOMAIN lastSeen' = DOMAIN lastSeen \cup {c}
           /\ DOMAIN lastSeen' \subseteq Clients
           /\ lastSeen' \in [DOMAIN lastSeen' -> Int]
           /\ lastSeen'[c] = now
           /\ \A d \in DOMAIN lastSeen : d # c => lastSeen'[d] = lastSeen[d]
<1>1. now \in Int /\ lastSeen \in [DOMAIN lastSeen -> Int] /\ DOMAIN lastSeen \subseteq Clients
  BY StoreAssumption DEF StoreTypeOK, Times
<1> QED
  BY <1>1 DEF EnsureClient, Put

\* The rows the operations write are rows of the table.
LEMMA RowTypes ==
    ASSUME StoreTypeOK
    PROVE  /\ \A c \in Clients, p \in Pids \cup {NULL} :
                [client |-> c, pid |-> p, start |-> now, end |-> NULL,
                 duration |-> NULL, status |-> "active"] \in Row
           /\ \A c \in Clients, start, duration \in Int :
                [client |-> c, pid |-> NULL, start |-> start, end |-> start + duration,
                 duration |-> duration, status |-> "completed"] \in Row
           /\ \A i \in DOMAIN records :
                Completed(records[i], now) \in Row /\ Discarded(records[i]) \in Row
<1>1. now \in Int
  BY StoreAssumption DEF StoreTypeOK, Times
<1>2. ASSUME NEW i \in DOMAIN records
      PROVE  Completed(records[i], now) \in Row /\ Discarded(records[i]) \in Row
  <2>1. records[i] \in Row
    BY DEF StoreTypeOK
  <2>2. now - records[i].start \in Int
    BY <1>1, <2>1 DEF Row
  <2>3. Completed(records[i], now) \in Row
    BY <1>1, <2>1, <2>2 DEF Row, Completed, Status
  <2>4. Discarded(records[i]) \in Row
    BY <2>1 DEF Row, Discarded, Status
  <2> QED
    BY <2>3, <2>4
<1>3. \A c \in Clients, p \in Pids \cup {NULL} :
        [client |-> c, pid |-> p, start |-> now, end |-> NULL,
         duration |-> NULL, status |-> "active"] \in Row
  BY <1>1 DEF Row, Status
<1>4. \A c \in Clients, start, duration \in Int :
        [client |-> c, pid |-> NULL, start |-> start, end |-> start + duration,
         duration |-> duration, status |-> "completed"] \in Row
  BY DEF Row, Status
<1> QED
  BY <1>2, <1>3, <1>4

-----------------------------------------------------------------------------
(* Types *)

\* One step of the store keeps its types.
LEMMA StoreTypeStep ==
    ASSUME StoreTypeOK, RowsReferToClients, [StoreNext]_storeVars
    PROVE  StoreTypeOK'
<1> USE StoreAssumption
<1>1. ASSUME NEW c \in Clients, NEW p \in Pids \cup {NULL}, StartSession(c, p)
      PROVE  StoreTypeOK'
  <2> DEFINE row == [client |-> c, pid |-> p, start |-> now, end |-> NULL,
                     duration |-> NULL, status |-> "active"]
  <2>1. row \in Row
    BY RowTypes
  <2>2. Insert(row) /\ EnsureClient(c) /\ UNCHANGED <<tokens, issued, execEvents, now>>
    BY <1>1 DEF StartSession
  <2> HIDE DEF row
  <2>3. DOMAIN records' \subseteq Ids /\ seq' \in 0..MaxId /\ records' \in [DOMAIN records' -> Row]
    BY <2>1, <2>2, InsertFacts DEF StoreTypeOK, Ids
  <2>4. DOMAIN lastSeen' \subseteq Clients /\ lastSeen' \in [DOMAIN lastSeen' -> Int]
    BY <2>2, EnsureFacts
  <2> QED
    BY <2>2, <2>3, <2>4 DEF StoreTypeOK
<1>2. ASSUME NEW c \in Clients, NEW p \in Pids \cup {NULL}, LogExecEvent(c, p)
      PROVE  StoreTypeOK'
  <2>1. DOMAIN lastSeen' \subseteq Clients /\ lastSeen' \in [DOMAIN lastSeen' -> Int]
    BY <1>2, EnsureFacts DEF LogExecEvent
  <2>2. execEvents' \in Seq([client : Clients, pid : Pids \cup {NULL}])
    BY <1>2 DEF LogExecEvent, StoreTypeOK
  <2> QED
    BY <1>2, <2>1, <2>2 DEF LogExecEvent, StoreTypeOK
<1>3. ASSUME NEW id \in DOMAIN records, NEW row \in Row, CloseRow(id, row)
      PROVE  StoreTypeOK'
  BY <1>3, CloseFacts DEF StoreTypeOK
<1>4. ASSUME NEW id \in Ids, DeleteRecord(id)
      PROVE  StoreTypeOK'
  BY <1>4 DEF DeleteRecord, Drop, StoreTypeOK
<1>5. ASSUME NEW c \in Clients, NEW span \in ImportSpans, ImportRecord(c, span[1], span[2])
      PROVE  StoreTypeOK'
  <2> DEFINE row == [client |-> c, pid |-> NULL, start |-> span[1], end |-> span[1] + span[2],
                     duration |-> span[2], status |-> "completed"]
  <2>1. row \in Row
    BY RowTypes
  <2>2. Insert(row) /\ EnsureClient(c) /\ UNCHANGED <<tokens, issued, execEvents, now>>
    BY <1>5 DEF ImportRecord
  <2> HIDE DEF row
  <2>3. DOMAIN records' \subseteq Ids /\ seq' \in 0..MaxId /\ records' \in [DOMAIN records' -> Row]
    BY <2>1, <2>2, InsertFacts DEF StoreTypeOK, Ids
  <2>4. DOMAIN lastSeen' \subseteq Clients /\ lastSeen' \in [DOMAIN lastSeen' -> Int]
    BY <2>2, EnsureFacts
  <2> QED
    BY <2>2, <2>3, <2>4 DEF StoreTypeOK
<1>6. ASSUME NEW t \in Tokens, NEW c \in Clients, AddApiToken(t, c)
      PROVE  StoreTypeOK'
  BY <1>6 DEF AddApiToken, Put, StoreTypeOK
<1>7. ASSUME NEW t \in Tokens, DeleteApiToken(t)
      PROVE  StoreTypeOK'
  BY <1>7 DEF DeleteApiToken, Drop, StoreTypeOK
<1>8. CASE Tick
  BY <1>8 DEF Tick, StoreTypeOK, Times
<1>9. CASE StepClockBack
  BY <1>9 DEF StepClockBack, StoreTypeOK, Times
<1>10. CASE UNCHANGED storeVars
  BY <1>10 DEF storeVars, StoreTypeOK
<1>11. ASSUME NEW id \in Ids, NEW c \in Clients, EndSession(id, c)
       PROVE  StoreTypeOK'
  BY <1>3, <1>11, RowTypes DEF EndSession, EndMatches, IsActive
<1>12. ASSUME NEW id \in Ids, EndSessionAdmin(id) \/ DiscardSessionAdmin(id)
       PROVE  StoreTypeOK'
  BY <1>3, <1>12, RowTypes DEF EndSessionAdmin, DiscardSessionAdmin, IsActive
<1> QED
  BY <1>1, <1>2, <1>4, <1>5, <1>6, <1>7, <1>8, <1>9, <1>10, <1>11, <1>12 DEF StoreNext

-----------------------------------------------------------------------------
(* The invariant *)

\* Inserting a row whose columns agree, together with the upsert of its client,
\* keeps StoreInv (start_session and import_record).
LEMMA InsertKeepsInv ==
    ASSUME StoreTypeOK, StoreInv, NEW c \in Clients, NEW row \in Row,
           Insert(row), EnsureClient(c), UNCHANGED <<tokens, issued, execEvents, now>>,
           row.client = c,
           row.status = "completed" <=> row.end # NULL,
           row.end = NULL <=> row.duration = NULL,
           row.status = "completed" => row.duration = row.end - row.start,
           row.status # "completed" => row.start = now,
           row.status = "completed" => row.duration >= 0
    PROVE  StoreInv'
<1>1. /\ seq' = seq + 1
      /\ DOMAIN records' = DOMAIN records \cup {seq'}
      /\ records'[seq'] = row
      /\ \A i \in DOMAIN records : records'[i] = records[i]
  BY InsertFacts DEF StoreInv
<1>2. /\ DOMAIN lastSeen' = DOMAIN lastSeen \cup {c}
      /\ lastSeen'[c] = now
      /\ \A d \in DOMAIN lastSeen : d # c => lastSeen'[d] = lastSeen[d]
  BY EnsureFacts
<1>3. now \in Int /\ now' = now /\ seq \in Int
  BY StoreAssumption DEF StoreTypeOK, Times
<1>4. \A i \in DOMAIN records : records[i] \in Row /\ records[i].start \in Int
  BY DEF StoreTypeOK, Row
<1>5. RowsConsistent'
  BY <1>1 DEF StoreInv, RowsConsistent
<1>6. RowsReferToClients'
  <2>1. \A i \in DOMAIN records : i \in Int
    BY StoreAssumption DEF StoreTypeOK, Ids
  <2> QED
    BY <1>1, <1>2, <1>3, <2>1 DEF StoreInv, RowsReferToClients
<1>7. SeenSinceStart'
  <2> SUFFICES ASSUME ~ClockSteps, NEW i \in DOMAIN records', records'[i].status # "completed"
               PROVE  /\ records'[i].start <= lastSeen'[records'[i].client]
                      /\ lastSeen'[records'[i].client] <= now'
    BY DEF SeenSinceStart
  <2>1. CASE i = seq'
    BY <1>1, <1>2, <1>3, <2>1
  <2>2. CASE i # seq'
    <3>1. i \in DOMAIN records /\ records'[i] = records[i]
      BY <1>1, <2>2
    <3>2. /\ records[i].start <= lastSeen[records[i].client]
          /\ lastSeen[records[i].client] <= now
          /\ records[i].client \in DOMAIN lastSeen
      BY <3>1 DEF StoreInv, SeenSinceStart, RowsReferToClients
    <3>3. lastSeen[records[i].client] \in Int /\ records[i].start \in Int
      BY <1>4, <3>1, <3>2 DEF StoreTypeOK
    <3>4. CASE records[i].client = c
      BY <1>2, <1>3, <3>1, <3>2, <3>3, <3>4
    <3>5. CASE records[i].client # c
      BY <1>2, <1>3, <3>1, <3>2, <3>5
    <3> QED
      BY <3>4, <3>5
  <2> QED
    BY <2>1, <2>2
<1>8. DurationsNonNegative'
  BY <1>1 DEF StoreInv, DurationsNonNegative
<1> QED
  BY <1>5, <1>6, <1>7, <1>8 DEF StoreInv

\* Ending or discarding an active session keeps StoreInv: an active row started
\* no later than now, unless the clock is stepped.
LEMMA CloseKeepsInv ==
    ASSUME StoreTypeOK, StoreInv, NEW id \in DOMAIN records, records[id].status = "active",
           NEW row, row \in {Completed(records[id], now), Discarded(records[id])},
           CloseRow(id, row)
    PROVE  StoreInv'
<1> DEFINE old == records[id]
<1>1. old \in Row /\ old.start \in Int /\ now \in Int /\ now # NULL
  BY StoreAssumption DEF StoreTypeOK, Row, Times
<1>2. /\ DOMAIN records' = DOMAIN records
      /\ records'[id] = row
      /\ \A i \in DOMAIN records : i # id => records'[i] = records[i]
      /\ UNCHANGED <<seq, lastSeen, tokens, issued, execEvents, now>>
  <2>1. row \in Row
    BY RowTypes
  <2> QED
    BY <2>1, CloseFacts
<1>3. /\ row.client = old.client
      /\ row.start = old.start
      /\ \/ row.status = "completed" /\ row.end = now /\ row.duration = now - old.start
         \/ row.status = "discarded" /\ row.end = old.end /\ row.duration = old.duration
  BY <1>1 DEF Completed, Discarded, Row
<1>4. old.end = NULL /\ old.duration = NULL
  BY DEF StoreInv, RowsConsistent
<1>5. now - old.start \in Int /\ now - old.start # NULL
  BY <1>1, StoreAssumption
<1>6. RowsConsistent'
  <2>1. /\ row.status = "completed" <=> row.end # NULL
        /\ row.end = NULL <=> row.duration = NULL
        /\ row.status = "completed" => row.duration = row.end - row.start
    BY <1>1, <1>3, <1>4, <1>5
  <2> QED
    BY <1>2, <2>1 DEF StoreInv, RowsConsistent
<1>7. RowsReferToClients'
  BY <1>2, <1>3 DEF StoreInv, RowsReferToClients
<1>8. SeenSinceStart'
  BY <1>2, <1>3 DEF StoreInv, SeenSinceStart
<1>9. DurationsNonNegative'
  <2>1. ~ClockSteps /\ row.status = "completed" => row.duration >= 0
    <3>1. ~ClockSteps => /\ old.start <= lastSeen[old.client]
                         /\ lastSeen[old.client] <= now
                         /\ lastSeen[old.client] \in Int
      BY DEF StoreInv, SeenSinceStart, RowsReferToClients, StoreTypeOK
    <3> QED
      BY <1>1, <1>3, <3>1
  <2> QED
    BY <1>2, <2>1 DEF StoreInv, DurationsNonNegative
<1> QED
  BY <1>2, <1>6, <1>7, <1>8, <1>9 DEF StoreInv

\* One step of the store keeps its invariant.
LEMMA StoreInvStep ==
    ASSUME StoreTypeOK, StoreInv, [StoreNext]_storeVars
    PROVE  StoreInv'
<1> USE StoreAssumption
<1>1. ASSUME NEW c \in Clients, NEW p \in Pids \cup {NULL}, StartSession(c, p)
      PROVE  StoreInv'
  <2> DEFINE row == [client |-> c, pid |-> p, start |-> now, end |-> NULL,
                     duration |-> NULL, status |-> "active"]
  <2>1. row \in Row
    BY RowTypes
  <2>2. /\ row.client = c
        /\ row.status = "completed" <=> row.end # NULL
        /\ row.end = NULL <=> row.duration = NULL
        /\ row.status = "completed" => row.duration = row.end - row.start
        /\ row.status # "completed" => row.start = now
        /\ row.status = "completed" => row.duration >= 0
    OBVIOUS
  <2>3. Insert(row) /\ EnsureClient(c) /\ UNCHANGED <<tokens, issued, execEvents, now>>
    BY <1>1 DEF StartSession
  <2> HIDE DEF row
  <2> QED
    BY <2>1, <2>2, <2>3, InsertKeepsInv
<1>2. ASSUME NEW c \in Clients, NEW p \in Pids \cup {NULL}, LogExecEvent(c, p)
      PROVE  StoreInv'
  <2>1. UNCHANGED <<records, seq, tokens, issued, now>>
    BY <1>2 DEF LogExecEvent
  <2>2. /\ DOMAIN lastSeen' = DOMAIN lastSeen \cup {c}
        /\ lastSeen'[c] = now
        /\ \A d \in DOMAIN lastSeen : d # c => lastSeen'[d] = lastSeen[d]
    BY <1>2, EnsureFacts DEF LogExecEvent
  <2>3. SeenSinceStart'
    <3> SUFFICES ASSUME ~ClockSteps, NEW i \in DOMAIN records, records[i].status # "completed"
                 PROVE  /\ records[i].start <= lastSeen'[records[i].client]
                        /\ lastSeen'[records[i].client] <= now
      BY <2>1 DEF SeenSinceStart
    <3>1. /\ records[i].start <= lastSeen[records[i].client]
          /\ lastSeen[records[i].client] <= now
          /\ records[i].client \in DOMAIN lastSeen
          /\ lastSeen[records[i].client] \in Int
          /\ records[i].start \in Int
          /\ now \in Int
      BY DEF StoreInv, SeenSinceStart, RowsReferToClients, StoreTypeOK, Row, Times
    <3>2. CASE records[i].client = c
      BY <2>2, <3>1, <3>2
    <3>3. CASE records[i].client # c
      BY <2>2, <3>1, <3>3
    <3> QED
      BY <3>2, <3>3
  <2> QED
    BY <2>1, <2>2, <2>3
    DEF StoreInv, RowsConsistent, RowsReferToClients, DurationsNonNegative
<1>3. ASSUME NEW id \in Ids, DeleteRecord(id)
      PROVE  StoreInv'
  <2>1. /\ DOMAIN records' \subseteq DOMAIN records
        /\ \A i \in DOMAIN records' : records'[i] = records[i]
        /\ UNCHANGED <<seq, lastSeen, tokens, issued, execEvents, now>>
    BY <1>3 DEF DeleteRecord, Drop
  <2> QED
    BY <2>1
    DEF StoreInv, RowsConsistent, RowsReferToClients, SeenSinceStart, DurationsNonNegative
<1>4. ASSUME NEW c \in Clients, NEW span \in ImportSpans, ImportRecord(c, span[1], span[2])
      PROVE  StoreInv'
  <2> DEFINE row == [client |-> c, pid |-> NULL, start |-> span[1], end |-> span[1] + span[2],
                     duration |-> span[2], status |-> "completed"]
  <2>1. row \in Row
    BY RowTypes
  <2>2. span[1] \in Int /\ span[2] \in Int
    OBVIOUS
  <2>3. span[1] + span[2] \in Int /\ span[1] + span[2] > span[1]
    BY <1>4, <2>2 DEF ImportRecord, Importable
  <2>4. /\ row.client = c
        /\ row.status = "completed" <=> row.end # NULL
        /\ row.end = NULL <=> row.duration = NULL
        /\ row.status = "completed" => row.duration = row.end - row.start
        /\ row.status # "completed" => row.start = now
        /\ row.status = "completed" => row.duration >= 0
    BY <2>2, <2>3
  <2>5. Insert(row) /\ EnsureClient(c) /\ UNCHANGED <<tokens, issued, execEvents, now>>
    BY <1>4 DEF ImportRecord
  <2> HIDE DEF row
  <2> QED
    BY <2>1, <2>4, <2>5, InsertKeepsInv
<1>5. ASSUME NEW t \in Tokens, NEW c \in Clients, AddApiToken(t, c)
      PROVE  StoreInv'
  BY <1>5
  DEF AddApiToken, Put, StoreInv, RowsConsistent, RowsReferToClients, SeenSinceStart,
      DurationsNonNegative
<1>6. ASSUME NEW t \in Tokens, DeleteApiToken(t)
      PROVE  StoreInv'
  BY <1>6
  DEF DeleteApiToken, Drop, StoreInv, RowsConsistent, RowsReferToClients, SeenSinceStart,
      DurationsNonNegative
<1>7. CASE Tick
  <2>1. now \in Int /\ now' = now + 1
        /\ UNCHANGED <<records, seq, lastSeen, tokens, issued, execEvents>>
    BY <1>7 DEF Tick, StoreTypeOK, Times
  <2>2. SeenSinceStart'
    <3> SUFFICES ASSUME ~ClockSteps, NEW i \in DOMAIN records, records[i].status # "completed"
                 PROVE  /\ records[i].start <= lastSeen[records[i].client]
                        /\ lastSeen[records[i].client] <= now'
      BY <2>1 DEF SeenSinceStart
    <3>1. /\ records[i].start <= lastSeen[records[i].client]
          /\ lastSeen[records[i].client] <= now
          /\ lastSeen[records[i].client] \in Int
      BY DEF StoreInv, SeenSinceStart, RowsReferToClients, StoreTypeOK
    <3> QED
      BY <2>1, <3>1
  <2> QED
    BY <2>1, <2>2 DEF StoreInv, RowsConsistent, RowsReferToClients, DurationsNonNegative
<1>8. CASE StepClockBack
  BY <1>8
  DEF StepClockBack, StoreInv, RowsConsistent, RowsReferToClients, SeenSinceStart,
      DurationsNonNegative
<1>9. CASE UNCHANGED storeVars
  BY <1>9
  DEF storeVars, StoreInv, RowsConsistent, RowsReferToClients, SeenSinceStart,
      DurationsNonNegative
<1>10. ASSUME NEW id \in Ids, NEW c \in Clients, EndSession(id, c)
       PROVE  StoreInv'
  BY <1>10, CloseKeepsInv DEF EndSession, EndMatches, IsActive
<1>11. ASSUME NEW id \in Ids, EndSessionAdmin(id) \/ DiscardSessionAdmin(id)
       PROVE  StoreInv'
  BY <1>11, CloseKeepsInv DEF EndSessionAdmin, DiscardSessionAdmin, IsActive
<1> QED
  BY <1>1, <1>2, <1>3, <1>4, <1>5, <1>6, <1>7, <1>8, <1>9, <1>10, <1>11 DEF StoreNext

\* Every state of the store is well typed: in particular ids stay within the
\* bound and a row never holds a value its columns do not admit.
THEOREM StoreTypeCorrect == StoreSpec => []StoreTypeOK
<1>1. StoreInit => StoreTypeOK /\ StoreInv
  BY StoreAssumption
  DEF StoreInit, StoreTypeOK, StoreInv, RowsConsistent, RowsReferToClients, SeenSinceStart,
      DurationsNonNegative, Times
<1>2. StoreTypeOK /\ StoreInv /\ [StoreNext]_storeVars => (StoreTypeOK /\ StoreInv)'
  BY StoreTypeStep, StoreInvStep DEF StoreInv
<1> QED
  BY <1>1, <1>2, PTL DEF StoreSpec

\* The columns of every row agree, rows refer to known clients and to ids
\* AUTOINCREMENT has passed, and while the clock only moves forward durations
\* are not negative.
THEOREM StoreInvariant == StoreSpec => []StoreInv
<1>1. StoreInit => StoreTypeOK /\ StoreInv
  BY StoreAssumption
  DEF StoreInit, StoreTypeOK, StoreInv, RowsConsistent, RowsReferToClients, SeenSinceStart,
      DurationsNonNegative, Times
<1>2. StoreTypeOK /\ StoreInv /\ [StoreNext]_storeVars => (StoreTypeOK /\ StoreInv)'
  BY StoreTypeStep, StoreInvStep DEF StoreInv
<1> QED
  BY <1>1, <1>2, PTL DEF StoreSpec

-----------------------------------------------------------------------------
(* The shapes of a step, as far as the records table is concerned *)

\* A new last row, active or completed.
Appends(row) ==
    /\ seq' = seq + 1 /\ seq' \in Ids /\ seq' \notin DOMAIN records
    /\ DOMAIN records' = DOMAIN records \cup {seq'}
    /\ records'[seq'] = row /\ row.client \in Clients
    /\ row.status \in {"active", "completed"}
    /\ \A i \in DOMAIN records : records'[i] = records[i]

\* An active row closed, its client kept.
Closes(id) ==
    /\ id \in DOMAIN records /\ records[id].status = "active"
    /\ DOMAIN records' = DOMAIN records /\ seq' = seq
    /\ records'[id].client = records[id].client
    /\ records'[id].status \in {"completed", "discarded"}
    /\ \A i \in DOMAIN records : i # id => records'[i] = records[i]

Deletes(id) ==
    /\ id \in DOMAIN records /\ seq' = seq
    /\ DOMAIN records' = DOMAIN records \ {id}
    /\ \A i \in DOMAIN records \ {id} : records'[i] = records[i]

\* Every step of the store appends a row, closes one, deletes one or leaves
\* the table alone.
LEMMA RecordsStep ==
    ASSUME StoreTypeOK, StoreInv, [StoreNext]_storeVars
    PROVE  \/ \E row \in Row : Appends(row)
           \/ \E id \in Ids : Closes(id) \/ Deletes(id)
           \/ UNCHANGED <<records, seq>>
<1>1. ASSUME NEW c \in Clients, NEW p \in Pids \cup {NULL}, StartSession(c, p)
      PROVE  \E row \in Row : Appends(row)
  <2> DEFINE row == [client |-> c, pid |-> p, start |-> now, end |-> NULL,
                     duration |-> NULL, status |-> "active"]
  <2>1. row \in Row
    BY RowTypes
  <2>2. Insert(row)
    BY <1>1 DEF StartSession
  <2>3. row.client \in Clients /\ row.status = "active"
    OBVIOUS
  <2> HIDE DEF row
  <2>4. Appends(row)
    BY <2>1, <2>2, <2>3, InsertFacts DEF Appends, StoreInv
  <2> QED
    BY <2>1, <2>4
<1>2. ASSUME NEW c \in Clients, NEW span \in ImportSpans, ImportRecord(c, span[1], span[2])
      PROVE  \E row \in Row : Appends(row)
  <2> DEFINE row == [client |-> c, pid |-> NULL, start |-> span[1], end |-> span[1] + span[2],
                     duration |-> span[2], status |-> "completed"]
  <2>1. row \in Row
    BY StoreAssumption, RowTypes
  <2>2. Insert(row)
    BY <1>2 DEF ImportRecord
  <2>3. row.client \in Clients /\ row.status = "completed"
    OBVIOUS
  <2> HIDE DEF row
  <2>4. Appends(row)
    BY <2>1, <2>2, <2>3, InsertFacts DEF Appends, StoreInv
  <2> QED
    BY <2>1, <2>4
<1>3. ASSUME NEW id \in Ids, IsActive(id), NEW row,
             row \in {Completed(records[id], now), Discarded(records[id])}, CloseRow(id, row)
      PROVE  Closes(id)
  <2>1. records[id] \in Row /\ id \in DOMAIN records /\ records[id].status = "active"
    BY <1>3 DEF StoreTypeOK, IsActive
  <2>2. row.client = records[id].client /\ row.status \in {"completed", "discarded"}
    BY <1>3, <2>1 DEF Completed, Discarded, Row
  <2>3. row \in Row
    BY <1>3, <2>1, RowTypes
  <2> QED
    BY <1>3, <2>1, <2>2, <2>3, CloseFacts DEF Closes
<1>4. ASSUME NEW id \in Ids, DeleteRecord(id)
      PROVE  Deletes(id)
  BY <1>4 DEF DeleteRecord, Drop, Deletes
<1>5. ASSUME NEW id \in Ids, NEW c \in Clients, EndSession(id, c)
      PROVE  Closes(id)
  BY <1>3, <1>5 DEF EndSession, EndMatches
<1>6. ASSUME NEW id \in Ids, EndSessionAdmin(id) \/ DiscardSessionAdmin(id)
      PROVE  Closes(id)
  BY <1>3, <1>6 DEF EndSessionAdmin, DiscardSessionAdmin
<1>7. ASSUME \/ \E c \in Clients, p \in Pids \cup {NULL} : LogExecEvent(c, p)
             \/ \E t \in Tokens, c \in Clients : AddApiToken(t, c)
             \/ \E t \in Tokens : DeleteApiToken(t)
             \/ Tick
             \/ StepClockBack
             \/ UNCHANGED storeVars
      PROVE  UNCHANGED <<records, seq>>
  BY <1>7 DEF LogExecEvent, AddApiToken, DeleteApiToken, Tick, StepClockBack, storeVars
<1> QED
  BY <1>1, <1>2, <1>4, <1>5, <1>6, <1>7 DEF StoreNext

\* No step of the store changes a closed row but by deleting it.
LEMMA ClosedRowsStep ==
    ASSUME StoreTypeOK, StoreInv, [StoreNext]_storeVars
    PROVE  ClosedRowsKept
<1>1. ASSUME NEW row \in Row, Appends(row)
      PROVE  ClosedRowsKept
  BY <1>1 DEF Appends, ClosedRowsKept
<1>2. ASSUME NEW id \in Ids, Closes(id) \/ Deletes(id)
      PROVE  ClosedRowsKept
  BY <1>2 DEF Closes, Deletes, ClosedRowsKept
<1>3. ASSUME UNCHANGED <<records, seq>>
      PROVE  ClosedRowsKept
  BY <1>3 DEF ClosedRowsKept
<1> QED
  BY <1>1, <1>2, <1>3, RecordsStep

\* A closed row stays as it is until it is deleted: end_session and
\* discard_session_admin match active rows only, and no other UPDATE exists.
THEOREM ClosedRowsAreFinal == StoreSpec => ClosedIsFinal
<1>1. StoreTypeOK /\ StoreInv /\ [StoreNext]_storeVars => [ClosedRowsKept]_storeVars
  BY ClosedRowsStep
<1> QED
  BY <1>1, StoreTypeCorrect, StoreInvariant, PTL DEF StoreSpec, ClosedIsFinal

-----------------------------------------------------------------------------
(* Refinement of SessionLifecycle *)

\* An id is unborn exactly when it is above seq, whatever has been deleted.
LEMMA Stages ==
    ASSUME StoreTypeOK, NEW i \in Ids
    PROVE  /\ StageOf(i) \in Lifecycle!Stages
           /\ StageOf(i) = "unborn" <=> i > seq
BY DEF StoreTypeOK, Row, Status, StageOf, Lifecycle!Stages

\* A new row is the birth of the next id.
LEMMA AppendIsCreate ==
    ASSUME StoreTypeOK, StoreInv, NEW row \in Row, Appends(row)
    PROVE  Lifecycle!LifecycleNext
<1>0. PICK i \in Ids : i = seq'
  BY DEF Appends
<1>1. seq \in Int /\ Ids \subseteq Int /\ i = seq + 1 /\ i \in Ids /\ Lifecycle!Ids = Ids
  BY StoreAssumption, <1>0 DEF Appends, StoreTypeOK, Ids, Lifecycle!Ids
<1>2. StageOf(i) = "unborn" /\ \A j \in 1..(i - 1) : j \in Ids /\ StageOf(j) # "unborn"
  <2>1. \A j \in 1..(i - 1) : j \in Ids /\ ~(j > seq)
    BY <1>1, StoreAssumption DEF Ids
  <2> QED
    BY <1>1, <2>1, Stages
<1>3. \A j \in Ids : j # i => StageOf(j)' = StageOf(j) /\ OwnerOf(j)' = OwnerOf(j)
  BY <1>0, <1>1 DEF Appends, StageOf, OwnerOf
<1>4. StageOf(i)' = row.status /\ OwnerOf(i)' = row.client
  BY <1>0, <1>1 DEF Appends, StageOf, OwnerOf
<1>5. [j \in Ids |-> StageOf(j)]' = [[j \in Ids |-> StageOf(j)] EXCEPT ![i] = row.status]
  BY <1>1, <1>3, <1>4
<1>6. [j \in Ids |-> OwnerOf(j)]' = [[j \in Ids |-> OwnerOf(j)] EXCEPT ![i] = row.client]
  BY <1>1, <1>3, <1>4
<1>7. Lifecycle!Create(i, row.client, row.status)
  BY <1>1, <1>2, <1>5, <1>6 DEF Lifecycle!Create
<1> QED
  BY <1>1, <1>7 DEF Appends, Lifecycle!LifecycleNext, Lifecycle!Open, Lifecycle!Restore

\* An UPDATE closes the session, a DELETE forgets it.
LEMMA UpdateIsCloseOrForget ==
    ASSUME StoreTypeOK, StoreInv, NEW id \in Ids, Closes(id) \/ Deletes(id)
    PROVE  Lifecycle!LifecycleNext
<1>1. seq \in Int /\ Ids \subseteq Int /\ id <= seq /\ seq' = seq /\ Lifecycle!Ids = Ids
  BY StoreAssumption
  DEF Closes, Deletes, StoreTypeOK, StoreInv, RowsReferToClients, Ids, Lifecycle!Ids
<1>2. \A j \in Ids : j # id => StageOf(j)' = StageOf(j) /\ OwnerOf(j)' = OwnerOf(j)
  BY <1>1 DEF Closes, Deletes, StageOf, OwnerOf
<1>3. CASE Closes(id)
  <2>1. /\ StageOf(id) = "active"
        /\ StageOf(id)' = records'[id].status
        /\ OwnerOf(id)' = OwnerOf(id)
    BY <1>1, <1>3 DEF Closes, StageOf, OwnerOf
  <2>2. [j \in Ids |-> StageOf(j)]'
            = [[j \in Ids |-> StageOf(j)] EXCEPT ![id] = records'[id].status]
    BY <1>2, <2>1
  <2>3. [j \in Ids |-> OwnerOf(j)]' = [j \in Ids |-> OwnerOf(j)]
    BY <1>2, <2>1
  <2>4. Lifecycle!Close(id, records'[id].status)
    BY <1>1, <1>3, <2>1, <2>2, <2>3 DEF Closes, Lifecycle!Close, Lifecycle!Closed
  <2> QED
    BY <1>1, <1>3, <2>4 DEF Closes, Lifecycle!LifecycleNext, Lifecycle!Closed
<1>4. CASE Deletes(id)
  <2>1. /\ StageOf(id) \notin {"unborn", "deleted"}
        /\ StageOf(id)' = "deleted"
        /\ OwnerOf(id)' = NULL
    BY <1>1, <1>4 DEF Deletes, StageOf, OwnerOf, StoreTypeOK, Row, Status
  <2>2. [j \in Ids |-> StageOf(j)]' = [[j \in Ids |-> StageOf(j)] EXCEPT ![id] = "deleted"]
    BY <1>2, <2>1
  <2>3. [j \in Ids |-> OwnerOf(j)]' = [[j \in Ids |-> OwnerOf(j)] EXCEPT ![id] = NULL]
    BY <1>2, <2>1
  <2>4. Lifecycle!Forget(id)
    BY <2>1, <2>2, <2>3 DEF Lifecycle!Forget
  <2> QED
    BY <1>1, <2>4 DEF Lifecycle!LifecycleNext
<1> QED
  BY <1>3, <1>4

\* A step of the store is one of the life of a session, or none.
LEMMA LifecycleStep ==
    ASSUME StoreTypeOK, StoreInv, [StoreNext]_storeVars
    PROVE  [Lifecycle!LifecycleNext]_Lifecycle!lifecycleVars
<1>1. ASSUME UNCHANGED <<records, seq>>
      PROVE  UNCHANGED Lifecycle!lifecycleVars
  BY <1>1 DEF Lifecycle!lifecycleVars, StageOf, OwnerOf
<1> QED
  BY <1>1, RecordsStep, AppendIsCreate, UpdateIsCloseOrForget

\* Without rows no session is born.
LEMMA LifecycleBegins ==
    ASSUME records = << >>, seq = 0
    PROVE  Lifecycle!LifecycleInit
BY StoreAssumption
DEF Lifecycle!LifecycleInit, Lifecycle!Ids, Ids, StageOf, OwnerOf

\* The store implements SessionLifecycle: ids are handed out once and in order
\* whatever is deleted, owners do not change, sessions close once.
THEOREM StoreImplementsLifecycle == StoreSpec => ImplementsLifecycle
<1>1. StoreInit => Lifecycle!LifecycleInit
  BY LifecycleBegins DEF StoreInit
<1>2. StoreTypeOK /\ StoreInv /\ [StoreNext]_storeVars
        => [Lifecycle!LifecycleNext]_Lifecycle!lifecycleVars
  BY LifecycleStep
<1> QED
  BY <1>1, <1>2, StoreTypeCorrect, StoreInvariant, PTL
  DEF StoreSpec, ImplementsLifecycle, Lifecycle!LifecycleSpec

=============================================================================
