----------------------------- MODULE BackupProofs ------------------------------
(***************************************************************************)
(* For any requests, size of the database and number of faults: backups    *)
(* whose files are named in different seconds are snapshots, do not make   *)
(* each other fail, and leave no file behind without a fault.  That two    *)
(* backups in one second are none of this is BackupSameSecond.cfg's.  The  *)
(* rotation never removes the last complete backup, whichever seconds name *)
(* the server's temporary files.                                           *)
(***************************************************************************)
EXTENDS BackupClient, SequenceTheorems, TLAPS

\* The handler has its temporary file.
Holding == {"copying", "copied", "reading"}

NamesDiffer ==
    /\ \A j, k \in Reqs : req[j].name = req[k].name /\ req[j].name # NULL => j = k
    /\ \A k \in Reqs : req[k].phase \in Holding \cup {"named"} => req[k].name \in Times

\* A file belongs to the request whose name it has.
FilesOwned ==
    /\ \A s \in DOMAIN temps :
        /\ req[temps[s]].name = s
        /\ req[temps[s]].phase \notin {"idle", "checking", "named"}
        /\ faults = 0 => req[temps[s]].phase \in Holding
    /\ \A k \in Reqs : req[k].phase \in Holding =>
        /\ req[k].name \in DOMAIN temps
        /\ temps[req[k].name] = k
        /\ req[k].file = k

\* What has been copied is all of the version the copy is from, one that has
\* been current since the request; what has been read is what has been copied.
OneVersion(k) ==
    LET r == req[k] IN
    /\ r.phase # "idle" => r.begun \in 0..version
    /\ r.phase \in Holding \cup {"done"} => r.src \in r.begun..version
    /\ r.phase = "copying" =>
        /\ r.src = version /\ Len(r.body) < Chunks
        /\ \A i \in 1..Len(r.body) : content[k][i] = r.src
    /\ r.phase \in {"copied", "reading"} => \A i \in 1..Chunks : content[k][i] = r.src
    /\ r.phase = "copied" => r.body = << >>
    /\ r.phase \in {"reading", "done"} =>
        /\ Len(r.body) <= Chunks
        /\ \A i \in 1..Len(r.body) : r.body[i] = r.src
    /\ r.phase = "done" => Len(r.body) = Chunks

IInv ==
    /\ ServerTypeOK
    /\ NamesDiffer
    /\ FilesOwned
    /\ \A k \in Reqs : OneVersion(k)
    /\ FailsOnlyByFault

-----------------------------------------------------------------------------
(* A step of one request *)

LEMMA Constants == Chunks \in Nat \ {0} /\ NULL \notin Int /\ NULL \notin Reqs
  BY ServerAssumption

\* A version is kept by requests that a step does not touch.
LEMMA Untouched ==
    ASSUME NEW j \in Reqs, OneVersion(j), req'[j] = req[j], content'[j] = content[j], version' = version
    PROVE  OneVersion(j)'
  BY DEF OneVersion

-----------------------------------------------------------------------------
(* The steps of the handler *)

LEMMA InvInitially == ServerInit => IInv
  <1> SUFFICES ASSUME ServerInit PROVE IInv
    OBVIOUS
  <1>1. ServerTypeOK
    <2>1. << >> \in Seq(Versions \cup {NULL})
      OBVIOUS
    <2>2. req \in [Reqs -> ReqState]
      BY <2>1 DEF ServerInit, ReqState, Phases
    <2>3. content \in [Reqs -> [1..Chunks -> Versions \cup {NULL}]]
      BY DEF ServerInit, Blank
    <2>4. temps = << >> /\ DOMAIN temps = {}
      BY DEF ServerInit
    <2> QED
      BY <2>2, <2>3, <2>4, ServerAssumption DEF ServerInit, ServerTypeOK, Versions, Times
  <1> QED
    BY <1>1 DEF ServerInit, IInv, NamesDiffer, FilesOwned, OneVersion, FailsOnlyByFault, Holding

LEMMA BeginKeepsInv ==
    ASSUME IInv, NEW k \in Reqs, Begin(k)
    PROVE  IInv'
  <1> USE DEF IInv
  <1>1. /\ req' = [req EXCEPT ![k].phase = "checking", ![k].begun = version]
        /\ req[k].phase = "idle"
        /\ UNCHANGED <<version, lock, temps, content, now, faults>>
    BY DEF Begin
  <1>2. /\ req[k] \in ReqState /\ req' \in [Reqs -> ReqState]
        /\ req'[k].phase = "checking" /\ req'[k].begun = version /\ req'[k].name = req[k].name
        /\ \A j \in Reqs : j # k => req'[j] = req[j]
    <2>1. /\ req[k] \in ReqState
          /\ req'[k] = [req[k] EXCEPT !.phase = "checking", !.begun = version]
          /\ req'[k] \in ReqState
      BY <1>1 DEF ServerTypeOK, ReqState, Phases
    <2> QED
      BY <1>1, <2>1 DEF ServerTypeOK, ReqState
  <1>3. ServerTypeOK'
    BY <1>1, <1>2 DEF ServerTypeOK
  <1>4. NamesDiffer'
    BY <1>1, <1>2 DEF NamesDiffer, Holding
  <1>5. FilesOwned'
    BY <1>1, <1>2 DEF FilesOwned, Holding, ServerTypeOK
  <1>6. ASSUME NEW j \in Reqs PROVE OneVersion(j)'
    <2>1. CASE j = k
      BY <1>1, <1>2, <2>1, ServerAssumption DEF OneVersion, Holding, ServerTypeOK, Versions
    <2> QED
      BY <1>1, <1>2, <2>1, Untouched
  <1>7. FailsOnlyByFault'
    BY <1>1, <1>2 DEF FailsOnlyByFault
  <1> QED
    BY <1>3, <1>4, <1>5, <1>6, <1>7

LEMMA CheckKeepsInv ==
    ASSUME IInv, ~SameSecond, NEW k \in Reqs, Check(k)
    PROVE  IInv'
  <1> USE DEF IInv
  <1>1. /\ req' = [req EXCEPT ![k].phase = "named", ![k].name = now]
        /\ req[k].phase = "checking" /\ \A j \in Reqs : req[j].name # now
        /\ UNCHANGED <<version, lock, temps, content, now, faults>>
    BY DEF Check
  <1>2. /\ req[k] \in ReqState /\ req' \in [Reqs -> ReqState]
        /\ req'[k].phase = "named" /\ req'[k].begun = req[k].begun /\ req'[k].name = now
        /\ \A j \in Reqs : j # k => req'[j] = req[j]
    BY <1>1 DEF ServerTypeOK, ReqState, Phases
  <1>3. ServerTypeOK'
    BY <1>1, <1>2 DEF ServerTypeOK
  <1>4. NamesDiffer'
    BY <1>1, <1>2 DEF NamesDiffer, Holding, ServerTypeOK
  <1>5. FilesOwned'
    BY <1>1, <1>2 DEF FilesOwned, Holding, ServerTypeOK
  <1>6. ASSUME NEW j \in Reqs PROVE OneVersion(j)'
    <2>1. CASE j = k
      BY <1>1, <1>2, <2>1 DEF OneVersion, Holding
    <2> QED
      BY <1>1, <1>2, <2>1, Untouched
  <1>7. FailsOnlyByFault'
    BY <1>1, <1>2 DEF FailsOnlyByFault
  <1> QED
    BY <1>3, <1>4, <1>5, <1>6, <1>7

LEMMA OpenTempKeepsInv ==
    ASSUME IInv, NEW k \in Reqs, OpenTemp(k)
    PROVE  IInv'
  <1> USE DEF IInv
  <1> DEFINE name == req[k].name
  <1>1. req[k] \in ReqState /\ req[k].phase = "named" /\ name \in Times /\ name # NULL
    BY ServerAssumption DEF OpenTemp, ServerTypeOK, NamesDiffer, Times
  <1>2. name \notin DOMAIN temps
    BY <1>1 DEF FilesOwned, NamesDiffer, ServerTypeOK
  <1>3. /\ temps' = [s \in DOMAIN temps \cup {name} |-> IF s = name THEN k ELSE temps[s]]
        /\ req' = [req EXCEPT ![k].phase = "copying", ![k].file = k, ![k].src = version,
                              ![k].body = << >>]
        /\ lock = NULL /\ lock' = k
        /\ UNCHANGED <<version, content, now, faults>>
    BY <1>2 DEF OpenTemp
  <1>4. \A j \in Reqs : j # k => req'[j] = req[j]
    BY <1>3 DEF ServerTypeOK
  <1>5. /\ req' \in [Reqs -> ReqState]
        /\ req'[k].phase = "copying" /\ req'[k].begun = req[k].begun /\ req'[k].name = name
        /\ req'[k].file = k /\ req'[k].src = version /\ req'[k].body = << >>
    <2>1. << >> \in Seq(Versions \cup {NULL})
      OBVIOUS
    <2> QED
      BY <1>1, <1>3, <2>1 DEF ServerTypeOK, ReqState, Phases
  <1>6. ServerTypeOK'
    <2>1. DOMAIN temps' \subseteq Times /\ temps' \in [DOMAIN temps' -> Reqs]
      BY <1>1, <1>3 DEF ServerTypeOK
    <2>2. \A j \in Reqs : lock' = j <=> req'[j].phase = "copying"
      BY <1>3, <1>4, <1>5, Constants DEF ServerTypeOK
    <2> QED
      BY <1>3, <1>5, <2>1, <2>2 DEF ServerTypeOK
  <1>7. NamesDiffer'
    BY <1>1, <1>4, <1>5 DEF NamesDiffer, Holding
  <1>8. FilesOwned'
    <2>1. ASSUME NEW s \in DOMAIN temps'
          PROVE  /\ req'[temps'[s]].name = s
                 /\ req'[temps'[s]].phase \notin {"idle", "checking", "named"}
                 /\ faults' = 0 => req'[temps'[s]].phase \in Holding
      <3>1. CASE s = name
        BY <1>3, <1>5, <3>1 DEF Holding
      <3>2. CASE s # name
        <4>1. s \in DOMAIN temps /\ temps'[s] = temps[s] /\ temps[s] # k /\ temps[s] \in Reqs
          BY <1>1, <1>3, <3>2 DEF FilesOwned, ServerTypeOK
        <4>2. req'[temps'[s]] = req[temps[s]] /\ faults' = faults
          BY <1>3, <1>4, <4>1
        <4> QED
          BY <4>1, <4>2 DEF FilesOwned
      <3> QED
        BY <3>1, <3>2
    <2>2. ASSUME NEW j \in Reqs, req'[j].phase \in Holding
          PROVE  /\ req'[j].name \in DOMAIN temps' /\ temps'[req'[j].name] = j
                 /\ req'[j].file = j
      <3>1. CASE j = k
        BY <1>3, <1>5, <3>1
      <3>2. CASE j # k
        <4>1. req'[j] = req[j] /\ req[j].name # name
          BY <1>1, <1>4, <3>2 DEF NamesDiffer
        <4>2. req[j].name \in DOMAIN temps /\ temps[req[j].name] = j /\ req[j].file = j
          BY <2>2, <4>1 DEF FilesOwned
        <4>3. \A s \in DOMAIN temps : s # name => s \in DOMAIN temps' /\ temps'[s] = temps[s]
          BY <1>3
        <4> QED
          BY <4>1, <4>2, <4>3
      <3> QED
        BY <3>1, <3>2
    <2> QED
      BY <2>1, <2>2 DEF FilesOwned
  <1>9. ASSUME NEW j \in Reqs PROVE OneVersion(j)'
    <2>1. CASE j = k
      BY <1>1, <1>3, <1>5, <2>1, Constants DEF OneVersion, Holding, ServerTypeOK, Versions
    <2> QED
      BY <1>3, <1>4, <2>1, Untouched
  <1>10. FailsOnlyByFault'
    BY <1>3, <1>4, <1>5 DEF FailsOnlyByFault
  <1> QED
    BY <1>6, <1>7, <1>8, <1>9, <1>10

LEMMA CopyChunkKeepsInv ==
    ASSUME IInv, NEW k \in Reqs, CopyChunk(k)
    PROVE  IInv'
  <1> USE DEF IInv
  <1> DEFINE n == Len(req[k].body) + 1
             last == n = Chunks
  <1>1. /\ req[k] \in ReqState /\ req[k].phase = "copying" /\ req[k].file = k
        /\ req[k].body \in Seq(Versions \cup {NULL}) /\ n \in 1..Chunks /\ req[k].src = version
        /\ version \in Versions /\ \A i \in 1..(n - 1) : content[k][i] = version
    <2>1. req[k] \in ReqState /\ req[k].phase = "copying" /\ OneVersion(k)
      BY DEF CopyChunk, ServerTypeOK
    <2>2. req[k].body \in Seq(Versions \cup {NULL})
      BY <2>1 DEF ReqState
    <2> QED
      BY <2>1, <2>2, Constants DEF OneVersion, FilesOwned, Holding, ServerTypeOK
  <1>2. /\ content' = [content EXCEPT ![k][n] = version]
        /\ UNCHANGED <<version, temps, now, faults>>
    BY <1>1 DEF CopyChunk
  <1>3. /\ content' \in [Reqs -> [1..Chunks -> Versions \cup {NULL}]]
        /\ \A i \in 1..n : content'[k][i] = version
        /\ \A j \in Reqs : j # k => content'[j] = content[j]
    <2>1. content' \in [Reqs -> [1..Chunks -> Versions \cup {NULL}]]
      BY <1>1, <1>2 DEF ServerTypeOK
    <2>2. \A j \in Reqs : j # k => content'[j] = content[j]
      BY <1>2 DEF ServerTypeOK
    <2>3. content'[k] = [content[k] EXCEPT ![n] = version] /\ DOMAIN content[k] = 1..Chunks
      BY <1>2 DEF ServerTypeOK
    <2>4. \A i \in 1..n : content'[k][i] = version
      <3>1. n \in 1..Chunks /\ \A i \in 1..(n - 1) : content[k][i] = version
        BY <1>1
      <3> HIDE DEF n
      <3> QED
        BY <2>3, <3>1, Constants
    <2> QED
      BY <2>1, <2>2, <2>4
  <1>4. \E b \in Seq(Versions \cup {NULL}), p \in {"copying", "copied"} :
            /\ req' = [req EXCEPT ![k] = [req[k] EXCEPT !.phase = p, !.body = b]]
            /\ p = "copying" => n < Chunks /\ Len(b) = n /\ lock' = lock
            /\ p = "copied" => n = Chunks /\ b = << >> /\ lock' = NULL
    <2>1. CASE n < Chunks
      <3> DEFINE b == Append(req[k].body, NULL)
      <3>1. /\ req' = [req EXCEPT ![k].body = Append(@, NULL)]
            /\ UNCHANGED lock
        BY <2>1 DEF CopyChunk
      <3>2. b \in Seq(Versions \cup {NULL}) /\ Len(b) = n
        BY <1>1
      <3>3. req' = [req EXCEPT ![k] = [req[k] EXCEPT !.phase = "copying", !.body = b]]
        BY <1>1, <3>1 DEF ServerTypeOK, ReqState
      <3> QED
        BY <2>1, <3>1, <3>2, <3>3
    <2>2. CASE ~(n < Chunks)
      <3>1. req' = [req EXCEPT ![k] = [req[k] EXCEPT !.phase = "copied", !.body = << >>]]
            /\ lock' = NULL
        BY <2>2 DEF CopyChunk, ServerTypeOK, ReqState
      <3>2. << >> \in Seq(Versions \cup {NULL}) /\ n = Chunks
        BY <1>1, <2>2, Constants
      <3> QED
        BY <3>1, <3>2
    <2> QED
      BY <2>1, <2>2
  <1>5. PICK b \in Seq(Versions \cup {NULL}), p \in {"copying", "copied"} : <1>4!(b, p)
    BY <1>4
  <1>6. /\ req' \in [Reqs -> ReqState]
        /\ req'[k].phase = p /\ req'[k].body = b
        /\ req'[k].begun = req[k].begun /\ req'[k].name = req[k].name
        /\ req'[k].file = k /\ req'[k].src = version
        /\ \A j \in Reqs : j # k => req'[j] = req[j]
    BY <1>1, <1>5 DEF ServerTypeOK, ReqState, Phases
  <1>7. ServerTypeOK'
    <2>1. \A j \in Reqs : lock' = j <=> req'[j].phase = "copying"
      BY <1>1, <1>5, <1>6, Constants DEF ServerTypeOK
    <2>2. lock' \in Reqs \cup {NULL}
      BY <1>5 DEF ServerTypeOK
    <2> QED
      BY <1>2, <1>3, <1>6, <2>1, <2>2 DEF ServerTypeOK
  <1>8. NamesDiffer'
    BY <1>1, <1>6 DEF NamesDiffer, Holding
  <1>9. FilesOwned'
    BY <1>1, <1>2, <1>5, <1>6 DEF FilesOwned, Holding, ServerTypeOK
  <1>10. ASSUME NEW j \in Reqs PROVE OneVersion(j)'
    <2>1. CASE j = k
      <3>1. version \in Int /\ Chunks \in Nat
        BY <1>1, Constants, ServerAssumption DEF Versions
      <3>2. req[k].begun \in 0..version
        BY <1>1 DEF OneVersion
      <3> QED
        BY <1>1, <1>2, <1>3, <1>5, <1>6, <2>1, <3>1, <3>2 DEF OneVersion, Holding
    <2>2. CASE j # k
      BY <1>2, <1>3, <1>6, <2>2, Untouched
    <2> QED
      BY <2>1, <2>2
  <1>11. FailsOnlyByFault'
    BY <1>2, <1>6 DEF FailsOnlyByFault
  <1> QED
    BY <1>7, <1>8, <1>9, <1>10, <1>11

LEMMA OpenReadKeepsInv ==
    ASSUME IInv, NEW k \in Reqs, OpenRead(k)
    PROVE  IInv'
  <1> USE DEF IInv
  <1>1. req[k] \in ReqState /\ req[k].phase = "copied" /\ req[k].name \in DOMAIN temps
        /\ temps[req[k].name] = k
    BY DEF OpenRead, ServerTypeOK, FilesOwned, Holding
  <1>2. /\ req' = [req EXCEPT ![k].phase = "reading", ![k].file = k]
        /\ UNCHANGED <<version, lock, temps, content, now, faults>>
    BY <1>1 DEF OpenRead
  <1>3. /\ req' \in [Reqs -> ReqState]
        /\ req'[k].phase = "reading" /\ req'[k].file = k /\ req'[k].body = req[k].body
        /\ req'[k].begun = req[k].begun /\ req'[k].name = req[k].name /\ req'[k].src = req[k].src
        /\ \A j \in Reqs : j # k => req'[j] = req[j]
    BY <1>1, <1>2 DEF ServerTypeOK, ReqState, Phases
  <1>4. ServerTypeOK'
    BY <1>1, <1>2, <1>3 DEF ServerTypeOK
  <1>5. NamesDiffer'
    BY <1>1, <1>3 DEF NamesDiffer, Holding
  <1>6. FilesOwned'
    BY <1>1, <1>2, <1>3 DEF FilesOwned, Holding, ServerTypeOK
  <1>7. ASSUME NEW j \in Reqs PROVE OneVersion(j)'
    <2>1. CASE j = k
      BY <1>1, <1>2, <1>3, <2>1, Constants DEF OneVersion, Holding
    <2> QED
      BY <1>2, <1>3, <2>1, Untouched
  <1>8. FailsOnlyByFault'
    BY <1>2, <1>3 DEF FailsOnlyByFault
  <1> QED
    BY <1>4, <1>5, <1>6, <1>7, <1>8

LEMMA ReadChunkKeepsInv ==
    ASSUME IInv, NEW k \in Reqs, ReadChunk(k)
    PROVE  IInv'
  <1> USE DEF IInv
  <1> DEFINE n == Len(req[k].body) + 1
             b == Append(req[k].body, content[k][n])
  <1>1. /\ req[k] \in ReqState /\ req[k].phase = "reading" /\ req[k].file = k
        /\ req[k].body \in Seq(Versions \cup {NULL}) /\ n \in 1..Chunks /\ OneVersion(k)
    <2>1. req[k] \in ReqState /\ req[k].phase = "reading" /\ OneVersion(k) /\ Len(req[k].body) < Chunks
      BY DEF ReadChunk, ServerTypeOK
    <2>2. req[k].body \in Seq(Versions \cup {NULL})
      BY <2>1 DEF ReqState
    <2> QED
      BY <2>1, <2>2, Constants DEF FilesOwned, Holding
  <1>2. /\ req' = [req EXCEPT ![k].body = b]
        /\ UNCHANGED <<version, lock, temps, content, now, faults>>
    BY <1>1 DEF ReadChunk
  <1>3. /\ content[k][n] \in Versions \cup {NULL} /\ content[k][n] = req[k].src
        /\ \A i \in 1..(n - 1) : req[k].body[i] = req[k].src
    <2>1. content[k][n] \in Versions \cup {NULL}
      BY <1>1 DEF ServerTypeOK
    <2>2. /\ \A i \in 1..Chunks : content[k][i] = req[k].src
          /\ \A i \in 1..Len(req[k].body) : req[k].body[i] = req[k].src
      BY <1>1 DEF OneVersion
    <2>3. n - 1 = Len(req[k].body)
      BY <1>1
    <2> QED
      BY <1>1, <2>1, <2>2, <2>3
  <1>4. /\ b \in Seq(Versions \cup {NULL}) /\ Len(b) = n
        /\ \A i \in 1..n : b[i] = req[k].src
    BY <1>1, <1>3
  <1>5. /\ req' \in [Reqs -> ReqState]
        /\ req'[k].phase = "reading" /\ req'[k].file = k /\ req'[k].body = b
        /\ req'[k].begun = req[k].begun /\ req'[k].name = req[k].name /\ req'[k].src = req[k].src
        /\ \A j \in Reqs : j # k => req'[j] = req[j]
    <2> HIDE DEF b
    <2> QED
      BY <1>1, <1>2, <1>4 DEF ServerTypeOK, ReqState
  <1>6. ServerTypeOK'
    BY <1>1, <1>2, <1>5 DEF ServerTypeOK
  <1>7. NamesDiffer'
    BY <1>1, <1>5 DEF NamesDiffer, Holding
  <1>8. FilesOwned'
    BY <1>1, <1>2, <1>5 DEF FilesOwned, Holding, ServerTypeOK
  <1>9. ASSUME NEW j \in Reqs PROVE OneVersion(j)'
    <2>1. CASE j = k
      <3>1. req[k].src \in req[k].begun..version /\ req[k].begun \in 0..version
        BY <1>1 DEF OneVersion, Holding
      <3>2. Len(req'[k].body) \in 1..Chunks /\ \A i \in 1..Len(req'[k].body) : req'[k].body[i] = req[k].src
        BY <1>1, <1>4, <1>5
      <3>3. \A i \in 1..Chunks : content'[k][i] = req[k].src
        BY <1>1, <1>2 DEF OneVersion
      <3> QED
        BY <1>2, <1>5, <2>1, <3>1, <3>2, <3>3, Constants DEF OneVersion, Holding
    <2> QED
      BY <1>2, <1>5, <2>1, Untouched
  <1>10. FailsOnlyByFault'
    BY <1>2, <1>5 DEF FailsOnlyByFault
  <1> QED
    BY <1>6, <1>7, <1>8, <1>9, <1>10

LEMMA RemoveTempKeepsInv ==
    ASSUME IInv, NEW k \in Reqs, RemoveTemp(k)
    PROVE  IInv'
  <1> USE DEF IInv
  <1> DEFINE name == req[k].name
  <1>1. /\ req[k] \in ReqState /\ req[k].phase = "reading" /\ OneVersion(k)
        /\ Len(req[k].body) = Chunks /\ name \in DOMAIN temps /\ temps[name] = k /\ name # NULL
    BY ServerAssumption
    DEF RemoveTemp, ServerTypeOK, FilesOwned, NamesDiffer, Holding, Times
  <1>2. /\ temps' = [s \in DOMAIN temps \ {name} |-> temps[s]]
        /\ req' = [req EXCEPT ![k].phase = "done"]
        /\ UNCHANGED <<version, lock, content, now, faults>>
    BY DEF RemoveTemp, RemovedTemps, Goto
  <1>3. /\ req' \in [Reqs -> ReqState]
        /\ req'[k].phase = "done" /\ req'[k].body = req[k].body
        /\ req'[k].begun = req[k].begun /\ req'[k].name = name /\ req'[k].src = req[k].src
        /\ \A j \in Reqs : j # k => req'[j] = req[j]
    BY <1>1, <1>2 DEF ServerTypeOK, ReqState, Phases
  <1>4. ServerTypeOK'
    <2>1. DOMAIN temps' \subseteq Times /\ temps' \in [DOMAIN temps' -> Reqs]
      BY <1>2 DEF ServerTypeOK
    <2>2. \A j \in Reqs : lock' = j <=> req'[j].phase = "copying"
      BY <1>1, <1>2, <1>3 DEF ServerTypeOK
    <2> QED
      BY <1>2, <1>3, <2>1, <2>2 DEF ServerTypeOK
  <1>5. NamesDiffer'
    BY <1>1, <1>3 DEF NamesDiffer, Holding
  <1>6. FilesOwned'
    <2>1. \A s \in DOMAIN temps' : /\ s \in DOMAIN temps /\ s # name /\ temps'[s] = temps[s]
                                   /\ temps[s] \in Reqs /\ temps[s] # k
      BY <1>1, <1>2 DEF FilesOwned, ServerTypeOK
    <2>2. \A j \in Reqs : j # k => req[j].name # name
      BY <1>1 DEF NamesDiffer
    <2>3. \A s \in DOMAIN temps : s # name => s \in DOMAIN temps' /\ temps'[s] = temps[s]
      BY <1>2
    <2>4. ASSUME NEW s \in DOMAIN temps'
          PROVE  /\ req'[temps'[s]].name = s
                 /\ req'[temps'[s]].phase \notin {"idle", "checking", "named"}
                 /\ faults' = 0 => req'[temps'[s]].phase \in Holding
      <3>1. req'[temps'[s]] = req[temps[s]] /\ faults' = faults /\ s \in DOMAIN temps
        BY <1>2, <1>3, <2>1
      <3> QED
        BY <3>1 DEF FilesOwned
    <2>5. ASSUME NEW j \in Reqs, req'[j].phase \in Holding
          PROVE  /\ req'[j].name \in DOMAIN temps' /\ temps'[req'[j].name] = j
                 /\ req'[j].file = j
      <3>1. j # k /\ req'[j] = req[j]
        BY <1>3, <2>5 DEF Holding
      <3>2. req[j].name \in DOMAIN temps /\ temps[req[j].name] = j /\ req[j].file = j
        BY <2>5, <3>1 DEF FilesOwned
      <3> QED
        BY <2>2, <2>3, <3>1, <3>2
    <2> QED
      BY <2>4, <2>5 DEF FilesOwned
  <1>7. ASSUME NEW j \in Reqs PROVE OneVersion(j)'
    <2>1. CASE j = k
      BY <1>1, <1>2, <1>3, <2>1, Constants DEF OneVersion, Holding
    <2> QED
      BY <1>2, <1>3, <2>1, Untouched
  <1>8. FailsOnlyByFault'
    BY <1>2, <1>3 DEF FailsOnlyByFault
  <1> QED
    BY <1>4, <1>5, <1>6, <1>7, <1>8

\* Whatever ends a request early is a fault, and it changes nothing but
\* phases, to failed ones, and the mutex.
LEMMA FaultKeepsInv ==
    ASSUME IInv, Fault, UNCHANGED <<version, temps, content, now>>, req' \in [Reqs -> ReqState],
           \A k \in Reqs : \/ req'[k] = req[k]
                           \/ req'[k] = [req[k] EXCEPT !.phase = "failed"] /\ req[k].phase # "idle",
           lock' \in Reqs \cup {NULL},
           \A k \in Reqs : lock' = k <=> req'[k].phase = "copying"
    PROVE  IInv'
  <1> USE DEF IInv
  <1>1. faults' \in 0..MaxFaults /\ faults' # 0
    BY ServerAssumption DEF Fault, ServerTypeOK
  <1>2. ASSUME NEW k \in Reqs
        PROVE  /\ req[k] \in ReqState
               /\ req'[k].name = req[k].name
               /\ req'[k] = req[k] \/ (req'[k].phase = "failed" /\ req'[k].begun = req[k].begun
                                        /\ req[k].phase # "idle")
    BY DEF ServerTypeOK, ReqState
  <1>3. ServerTypeOK'
    BY <1>1 DEF ServerTypeOK
  <1>4. NamesDiffer'
    BY <1>2 DEF NamesDiffer, Holding
  <1>5. FilesOwned'
    BY <1>1, <1>2 DEF FilesOwned, Holding, ServerTypeOK
  <1>6. ASSUME NEW j \in Reqs PROVE OneVersion(j)'
    BY <1>2 DEF OneVersion, Holding
  <1>7. FailsOnlyByFault'
    BY <1>1 DEF FailsOnlyByFault
  <1> QED
    BY <1>3, <1>4, <1>5, <1>6, <1>7

LEMMA WriterKeepsInv ==
    ASSUME IInv, HandlerWrites \/ OtherProcessWrites
    PROVE  IInv'
  <1> USE DEF IInv
  <1>1. /\ version \in 0..MaxVersion /\ version < MaxVersion /\ version' = version + 1
        /\ UNCHANGED <<lock, temps, content, now, faults>>
        /\ MaxVersion \in Nat
    BY ServerAssumption DEF HandlerWrites, OtherProcessWrites, ServerTypeOK, Versions
  <1>2. version' \in Versions
    BY <1>1 DEF Versions
  <1>3. CASE lock = NULL
    <2>1. UNCHANGED req
      BY <1>3 DEF HandlerWrites, OtherProcessWrites
    <2>2. \A k \in Reqs : req[k].phase # "copying"
      BY <1>3, Constants DEF ServerTypeOK
    <2>3. ServerTypeOK'
      BY <1>1, <1>2, <2>1 DEF ServerTypeOK
    <2>4. NamesDiffer' /\ FilesOwned' /\ FailsOnlyByFault'
      BY <1>1, <2>1 DEF NamesDiffer, FilesOwned, FailsOnlyByFault
    <2>5. ASSUME NEW j \in Reqs PROVE OneVersion(j)'
      BY <1>1, <2>1, <2>2 DEF OneVersion, Holding
    <2> QED
      BY <2>3, <2>4, <2>5
  <1>4. CASE lock # NULL
    <2> DEFINE k == lock
    <2>1. /\ k \in Reqs /\ req[k] \in ReqState /\ req[k].phase = "copying" /\ OneVersion(k)
          /\ \A j \in Reqs : req[j].phase = "copying" => j = k
      BY <1>4 DEF ServerTypeOK
    <2>2. req' = [req EXCEPT ![k].src = version', ![k].body = << >>]
      BY <1>1, <1>4 DEF HandlerWrites, OtherProcessWrites, StartOver
    <2>3. /\ req' \in [Reqs -> ReqState]
          /\ req'[k].phase = "copying" /\ req'[k].file = req[k].file /\ req'[k].body = << >>
          /\ req'[k].begun = req[k].begun /\ req'[k].name = req[k].name
          /\ req'[k].src = version'
          /\ \A j \in Reqs : j # k => req'[j] = req[j]
      <3>1. << >> \in Seq(Versions \cup {NULL})
        OBVIOUS
      <3> QED
        BY <1>2, <2>1, <2>2, <3>1 DEF ServerTypeOK, ReqState
    <2>4. ServerTypeOK'
      BY <1>1, <1>2, <2>1, <2>3 DEF ServerTypeOK
    <2>5. NamesDiffer'
      BY <2>1, <2>3 DEF NamesDiffer, Holding
    <2>6. FilesOwned'
      BY <1>1, <2>1, <2>3 DEF FilesOwned, Holding, ServerTypeOK
    <2>7. ASSUME NEW j \in Reqs PROVE OneVersion(j)'
      <3>1. CASE j = k
        BY <1>1, <2>1, <2>3, <3>1, Constants DEF OneVersion, Holding
      <3>2. CASE j # k
        <4>1. req'[j] = req[j] /\ req[j].phase # "copying"
          BY <2>1, <2>3, <3>2
        <4> QED
          BY <1>1, <4>1 DEF OneVersion, Holding
      <3> QED
        BY <3>1, <3>2
    <2>8. FailsOnlyByFault'
      BY <1>1, <2>1, <2>3 DEF FailsOnlyByFault
    <2> QED
      BY <2>4, <2>5, <2>6, <2>7, <2>8
  <1> QED
    BY <1>3, <1>4

\* A request that fails, is dropped or dies with the server.
LEMMA EndedEarlyKeepsInv ==
    ASSUME IInv, NEW k \in Reqs, HandlerFails(k) \/ Dropped(k) \/ Crash
    PROVE  IInv'
  <1> USE DEF IInv
  <1>1. Fault /\ UNCHANGED <<version, temps, content, now>>
    BY DEF HandlerFails, Dropped, Crash
  <1>2. ASSUME NEW j \in Reqs
        PROVE  req[j] \in ReqState /\ [req[j] EXCEPT !.phase = "failed"] \in ReqState
    BY DEF ServerTypeOK, ReqState, Phases
  <1>3. CASE HandlerFails(k) \/ Dropped(k)
    <2>1. req' = [req EXCEPT ![k] = [req[k] EXCEPT !.phase = "failed"]] /\ req[k].phase # "idle"
      BY <1>3 DEF HandlerFails, Dropped, Goto, ServerTypeOK, ReqState
    <2>2. /\ req' \in [Reqs -> ReqState] /\ req'[k] = [req[k] EXCEPT !.phase = "failed"]
          /\ req'[k].phase = "failed" /\ \A j \in Reqs : j # k => req'[j] = req[j]
      BY <1>2, <2>1 DEF ServerTypeOK, ReqState
    <2>3. /\ lock' \in Reqs \cup {NULL}
          /\ \A j \in Reqs : lock' = j <=> req'[j].phase = "copying"
      BY <1>3, <2>2, Constants DEF HandlerFails, Dropped, LockAfterError, ServerTypeOK
    <2> QED
      BY <1>1, <2>1, <2>2, <2>3, FaultKeepsInv
  <1>4. CASE Crash
    <2>1. /\ lock' = NULL
          /\ req' = [j \in Reqs |-> IF req[j].phase \in {"idle", "done"} THEN req[j]
                                    ELSE [req[j] EXCEPT !.phase = "failed"]]
      BY <1>4 DEF Crash
    <2>2. ASSUME NEW j \in Reqs
          PROVE  /\ req'[j] \in ReqState
                 /\ \/ req'[j] = req[j] /\ req[j].phase # "copying"
                    \/ /\ req'[j] = [req[j] EXCEPT !.phase = "failed"] /\ req'[j].phase = "failed"
                       /\ req[j].phase # "idle"
      <3>1. [req[j] EXCEPT !.phase = "failed"].phase = "failed"
        BY <1>2 DEF ReqState
      <3> QED
        BY <1>2, <2>1, <3>1
    <2>3. req' \in [Reqs -> ReqState]
      BY <2>1, <2>2
    <2>4. \A j \in Reqs : lock' = j <=> req'[j].phase = "copying"
      BY <2>1, <2>2, Constants
    <2> QED
      BY <1>1, <2>1, <2>2, <2>3, <2>4, FaultKeepsInv
  <1> QED
    BY <1>3, <1>4

-----------------------------------------------------------------------------
(* The specification *)

LEMMA UnchangedKeepsInv ==
    ASSUME IInv, UNCHANGED <<version, lock, temps, content, req>>,
           now' \in Times, faults' \in 0..MaxFaults, faults = 0 \/ faults' # 0
    PROVE  IInv'
  BY DEF IInv, ServerTypeOK, NamesDiffer, FilesOwned, OneVersion, FailsOnlyByFault

LEMMA HandleKeepsInv ==
    ASSUME IInv, ~SameSecond, NEW k \in Reqs, Handle(k)
    PROVE  IInv'
  BY CheckKeepsInv, OpenTempKeepsInv, CopyChunkKeepsInv, OpenReadKeepsInv, ReadChunkKeepsInv,
     RemoveTempKeepsInv, EndedEarlyKeepsInv
  DEF Handle

LEMMA InvKept == ~SameSecond /\ IInv /\ [ClientNext]_clientVars => IInv'
  <1> SUFFICES ASSUME ~SameSecond, IInv, [ClientNext]_clientVars PROVE IInv'
    OBVIOUS
  <1>1. ASSUME UNCHANGED serverVars PROVE IInv'
    BY <1>1, UnchangedKeepsInv DEF serverVars, IInv, ServerTypeOK
  <1>2. ASSUME Server PROVE IInv'
    <2>1. ASSUME Tick PROVE IInv'
      <3>1. now' \in Times /\ faults' \in 0..MaxFaults
        BY <2>1, ServerAssumption DEF Tick, IInv, ServerTypeOK, Times
      <3> QED
        BY <2>1, <3>1, UnchangedKeepsInv DEF Tick
    <2>2. ASSUME Crash PROVE IInv'
      <3>1. CASE Reqs = {}
        BY <2>2, <3>1, FaultKeepsInv DEF Crash
      <3> QED
        BY <2>2, <3>1, EndedEarlyKeepsInv
    <2> QED
      BY <1>2, <2>1, <2>2, BeginKeepsInv, HandleKeepsInv, WriterKeepsInv DEF Server
  <1>3. ASSUME NEW r \in Runs, WriteFails(r) PROVE IInv'
    <2>1. now' \in Times /\ faults' \in 0..MaxFaults /\ faults' # 0
      BY <1>3, ServerAssumption DEF WriteFails, Fault, IInv, ServerTypeOK
    <2> QED
      BY <1>3, <2>1, UnchangedKeepsInv DEF WriteFails
  <1>4. ASSUME NEW r \in Runs, Ask(r) PROVE IInv'
    BY <1>4, BeginKeepsInv, ClientAssumption DEF Ask
  <1> QED
    BY <1>1, <1>2, <1>3, <1>4
    DEF ClientNext, Resolve, GetReply, WriteAll, ListOld, RemoveOld, clientVars

\* Backups of different seconds do not meet in their files: each has its own,
\* and under the mutex one version of the database goes into it.
THEOREM BackupsApart == ASSUME ~SameSecond PROVE ClientSpec => []IInv
  <1>1. ClientInit => IInv
    BY InvInitially DEF ClientInit
  <1>2. IInv /\ [ClientNext]_clientVars => IInv'
    BY InvKept
  <1> QED
    BY <1>1, <1>2, PTL DEF ClientSpec

\* A reply carries one version, current between the request and the reply,
\* though the copy is read without the mutex, whatever writes, fails or crashes.
THEOREM RepliesAreSnapshots == ASSUME ~SameSecond PROVE ClientSpec => []SnapshotReplies
  <1>1. IInv => SnapshotReplies
    <2> SUFFICES ASSUME IInv, NEW k \in Reqs, req[k].phase = "done"
                 PROVE  \E v \in req[k].begun..version : req[k].body = [i \in 1..Chunks |-> v]
      BY DEF SnapshotReplies
    <2>1. /\ req[k].src \in req[k].begun..version /\ Len(req[k].body) = Chunks
          /\ \A i \in 1..Len(req[k].body) : req[k].body[i] = req[k].src
      BY DEF IInv, OneVersion, Holding
    <2>2. req[k].body \in Seq(Versions \cup {NULL})
      BY DEF IInv, ServerTypeOK, ReqState
    <2>3. req[k].body = [i \in 1..Chunks |-> req[k].src]
      BY <2>1, <2>2
    <2> QED
      BY <2>1, <2>3
  <1> QED
    BY <1>1, BackupsApart, PTL

\* Without a fault no backup fails, whatever others are taken at the same time.
THEOREM BackupsDoNotFail == ASSUME ~SameSecond PROVE ClientSpec => []FailsOnlyByFault
  <1>1. IInv => FailsOnlyByFault
    BY DEF IInv
  <1> QED
    BY <1>1, BackupsApart, PTL

\* Without a fault every temporary file has a request that will remove it.
THEOREM NoFileLeftBehind == ASSUME ~SameSecond PROVE ClientSpec => []TempsAccounted
  <1>1. IInv => TempsAccounted
    BY DEF IInv, TempsAccounted, FilesOwned, Holding, ServerTypeOK
  <1> QED
    BY <1>1, BackupsApart, PTL

-----------------------------------------------------------------------------
(* The rotation of the files *)

Names == {dir[i] : i \in DOMAIN dir}

\* Names occur once in the listing, and each is that of a run that got that far.
DirOwned ==
    /\ \A i, j \in DOMAIN dir : dir[i] = dir[j] => i = j
    /\ \A n \in Names : \E r \in Runs : target[r] = n /\ cpc[r] \notin {"init", "resolved", "waiting"}

\* Runs follow one another, each under a name of its own.
RunsApart ==
    /\ \A q, r \in Runs : cpc[q] \notin Over /\ cpc[r] \notin Over => q = r
    /\ \A q, r \in Runs : target[q] = target[r] /\ target[q] # NULL => q = r
    /\ \A r \in Runs : cpc[r] # "init" => target[r] # NULL

\* What a run has saved it does not remove.
SavedKept(r) ==
    /\ cpc[r] \in {"saved", "removing"} => target[r] \in complete
    /\ cpc[r] = "saved" => dir # << >> /\ dir[1] = target[r]
    /\ cpc[r] = "removing" => \A i \in DOMAIN victims[r] : victims[r][i] # target[r]

RotationTypeOK ==
    /\ cpc \in [Runs -> Over \cup {"resolved", "waiting", "writing", "saved", "removing"}]
    /\ target \in [Runs -> Times \cup {NULL}]
    /\ victims \in [Runs -> Seq(Times)]
    /\ dir \in Seq(Times)
    /\ complete \subseteq Names
    /\ now \in Times

RInv ==
    /\ RotationTypeOK
    /\ DirOwned
    /\ RunsApart
    /\ \A r \in Runs : SavedKept(r)
    /\ SomeCompleteBackup

LEMMA SecondNotNull == \A t \in Times : t # NULL
  <1>1. \A t \in Times : t \in Int
    BY DEF Times
  <1> QED
    BY <1>1, ServerAssumption

\* The listing without a name is the rest of it.
LEMMA WithoutOne ==
    ASSUME dir \in Seq(Times), \A i, j \in DOMAIN dir : dir[i] = dir[j] => i = j,
           NEW n
    PROVE  /\ Without(n) \in Seq(Times)
           /\ {Without(n)[i] : i \in DOMAIN Without(n)} = Names \ {n}
           /\ \A i, j \in DOMAIN Without(n) : Without(n)[i] = Without(n)[j] => i = j
  <1>1. DOMAIN dir = 1..Len(dir) /\ Len(dir) \in Nat
    OBVIOUS
  <1>2. CASE ~\E i \in DOMAIN dir : dir[i] = n
    <2>1. Without(n) = dir
      BY <1>2 DEF Without
    <2> QED
      BY <1>2, <2>1 DEF Names
  <1>3. CASE \E i \in DOMAIN dir : dir[i] = n
    <2> DEFINE k == CHOOSE j \in DOMAIN dir : dir[j] = n
               before == SubSeq(dir, 1, k - 1)
               after == SubSeq(dir, k + 1, Len(dir))
    <2>1. k \in 1..Len(dir) /\ dir[k] = n
      BY <1>1, <1>3
    <2>2. Without(n) = before \o after
      BY <1>3 DEF Without
    <2> HIDE DEF k
    <2>3. /\ before \in Seq(Times) /\ Len(before) = k - 1
          /\ \A i \in 1..(k - 1) : before[i] = dir[i]
      BY <1>1, <2>1, SubSeqProperties
    <2>4. /\ after \in Seq(Times) /\ Len(after) = Len(dir) - k
          /\ \A i \in 1..(Len(dir) - k) : after[i] = dir[i + k]
      <3>1. k + 1 \in Int /\ Len(dir) \in Int /\ \A i \in (k + 1)..Len(dir) : dir[i] \in Times
        BY <1>1, <2>1
      <3>2. /\ after \in Seq(Times)
            /\ Len(after) = IF k + 1 <= Len(dir) THEN Len(dir) - (k + 1) + 1 ELSE 0
            /\ \A i \in 1..(Len(dir) - (k + 1) + 1) : after[i] = dir[k + 1 + i - 1]
        BY <3>1, SubSeqProperties
      <3> HIDE DEF after
      <3>3. Len(after) = Len(dir) - k
        <4>1. Len(after) = IF k + 1 <= Len(dir) THEN Len(dir) - (k + 1) + 1 ELSE 0
          BY <3>2
        <4>2. k \in Int /\ Len(dir) \in Int /\ k <= Len(dir)
          BY <1>1, <2>1
        <4> QED
          BY <4>1, <4>2
      <3>4. ASSUME NEW i \in 1..(Len(dir) - k)
            PROVE  after[i] = dir[i + k]
        <4>1. i \in 1..(Len(dir) - (k + 1) + 1) /\ k + 1 + i - 1 = i + k
          BY <1>1, <2>1
        <4> QED
          BY <3>2, <4>1
      <3> QED
        BY <3>2, <3>3, <3>4
    <2> HIDE DEF before, after
    <2> DEFINE w == Without(n)
    <2>5. /\ w \in Seq(Times) /\ Len(w) = Len(dir) - 1
          /\ \A i \in 1..(k - 1) : w[i] = dir[i]
          /\ \A i \in k..(Len(dir) - 1) : w[i] = dir[i + 1]
      <3>1. /\ w \in Seq(Times) /\ Len(w) = Len(before) + Len(after)
            /\ \A i \in 1..(Len(before) + Len(after)) :
                  w[i] = IF i <= Len(before) THEN before[i] ELSE after[i - Len(before)]
        <4>1. /\ before \o after \in Seq(Times) /\ Len(before \o after) = Len(before) + Len(after)
              /\ \A i \in 1..(Len(before) + Len(after)) :
                    (before \o after)[i] = IF i <= Len(before) THEN before[i] ELSE after[i - Len(before)]
          BY <2>3, <2>4, ConcatProperties
        <4> QED
          BY <2>2, <4>1
      <3>2. \A i \in 1..(k - 1) : w[i] = before[i]
        BY <1>1, <2>1, <2>3, <2>4, <3>1
      <3>3. \A i \in k..(Len(dir) - 1) : w[i] = after[i - (k - 1)]
        BY <1>1, <2>1, <2>3, <2>4, <3>1
      <3>4. \A i \in k..(Len(dir) - 1) : i - (k - 1) \in 1..(Len(dir) - k) /\ i - (k - 1) + k = i + 1
        BY <1>1, <2>1
      <3>5. \A i \in k..(Len(dir) - 1) : w[i] = dir[i + 1]
        BY <2>4, <3>3, <3>4
      <3> QED
        BY <1>1, <2>1, <2>3, <2>4, <3>1, <3>2, <3>5
    <2> HIDE DEF w
    <2>6. DOMAIN w = 1..(Len(dir) - 1)
      BY <2>5
    <2>7. \A i \in DOMAIN w : \E j \in DOMAIN dir : j # k /\ w[i] = dir[j] /\ (j = i \/ j = i + 1)
      <3> SUFFICES ASSUME NEW i \in DOMAIN w
                   PROVE  \E j \in DOMAIN dir : j # k /\ w[i] = dir[j] /\ (j = i \/ j = i + 1)
        OBVIOUS
      <3>1. CASE i < k
        <4>1. i \in 1..(k - 1) /\ i \in DOMAIN dir
          BY <1>1, <2>1, <2>6, <3>1
        <4> QED
          BY <2>5, <3>1, <4>1
      <3>2. CASE ~(i < k)
        <4>1. i \in k..(Len(dir) - 1) /\ i + 1 \in DOMAIN dir /\ i + 1 # k
          BY <1>1, <2>1, <2>6, <3>2
        <4> QED
          BY <2>5, <4>1
      <3> QED
        BY <3>1, <3>2
    <2>8. \A j \in DOMAIN dir : j # k => \E i \in DOMAIN w : w[i] = dir[j]
      <3> SUFFICES ASSUME NEW j \in DOMAIN dir, j # k PROVE \E i \in DOMAIN w : w[i] = dir[j]
        OBVIOUS
      <3>1. CASE j < k
        <4>1. j \in 1..(k - 1) /\ j \in DOMAIN w
          BY <1>1, <2>1, <2>6, <3>1
        <4> QED
          BY <2>5, <4>1
      <3>2. CASE j > k
        <4>1. j - 1 \in k..(Len(dir) - 1) /\ j - 1 \in DOMAIN w /\ j - 1 + 1 = j
          BY <1>1, <2>1, <2>6, <3>2
        <4> QED
          BY <2>5, <4>1
      <3> QED
        BY <1>1, <2>1, <3>1, <3>2
    <2>9. {w[i] : i \in DOMAIN w} = Names \ {n}
      BY <1>1, <2>1, <2>7, <2>8 DEF Names
    <2>10. \A i, j \in DOMAIN w : w[i] = w[j] => i = j
      <3> SUFFICES ASSUME NEW i \in DOMAIN w, NEW j \in DOMAIN w, w[i] = w[j] PROVE i = j
        OBVIOUS
      <3>1. i \in 1..(Len(dir) - 1) /\ j \in 1..(Len(dir) - 1)
        BY <2>6
      <3> DEFINE at(x) == IF x < k THEN x ELSE x + 1
      <3>2. \A x \in 1..(Len(dir) - 1) : at(x) \in DOMAIN dir /\ w[x] = dir[at(x)]
        <4> SUFFICES ASSUME NEW x \in 1..(Len(dir) - 1) PROVE at(x) \in DOMAIN dir /\ w[x] = dir[at(x)]
          OBVIOUS
        <4>1. CASE x < k
          <5>1. x \in 1..(k - 1) /\ x \in DOMAIN dir
            BY <1>1, <2>1, <4>1
          <5> QED
            BY <2>5, <4>1, <5>1
        <4>2. CASE ~(x < k)
          <5>1. x \in k..(Len(dir) - 1) /\ x + 1 \in DOMAIN dir
            BY <1>1, <2>1, <4>2
          <5> QED
            BY <2>5, <4>2, <5>1
        <4> QED
          BY <4>1, <4>2
      <3>3. at(i) = at(j)
        BY <3>1, <3>2
      <3> QED
        BY <2>1, <3>1, <3>3
    <2> QED
      BY <2>5, <2>9, <2>10 DEF w
  <1> QED
    BY <1>2, <1>3

\* A run under way goes on alone; whatever it does to the directory, it leaves
\* each name in it once, and its own only when it has written the file.
LEMMA RunGoesOn ==
    ASSUME RInv, NEW r \in Runs, cpc[r] \notin Over,
           NEW l \in (Over \ {"init"}) \cup {"waiting", "writing", "saved", "removing"},
           cpc' = [cpc EXCEPT ![r] = l], UNCHANGED <<target, now>>,
           victims' \in [Runs -> Seq(Times)], dir' \in Seq(Times),
           \A i, j \in DOMAIN dir' : dir'[i] = dir'[j] => i = j,
           \A n \in Names' : \/ n \in Names /\ n # target[r]
                             \/ n = target[r] /\ l # "waiting",
           complete' \subseteq Names', SavedKept(r)',
           l \in {"saved", "removing", "exited"} => complete' # {},
           complete # {} => complete' # {}
    PROVE  RInv'
  <1>1. /\ cpc'[r] = l /\ \A q \in Runs : q # r => cpc'[q] = cpc[q]
        /\ cpc' \in [Runs -> Over \cup {"resolved", "waiting", "writing", "saved", "removing"}]
    BY DEF RInv, RotationTypeOK, Over
  <1>2. \A q \in Runs : q # r => cpc[q] \in Over
    BY DEF RInv, RunsApart
  <1>3. RotationTypeOK'
    BY <1>1 DEF RInv, RotationTypeOK
  <1>4. DirOwned'
    <2>1. ASSUME NEW n \in Names'
          PROVE  \E q \in Runs : target'[q] = n /\ cpc'[q] \notin {"init", "resolved", "waiting"}
      <3>1. CASE n \in Names /\ n # target[r]
        <4>1. PICK q \in Runs : target[q] = n /\ cpc[q] \notin {"init", "resolved", "waiting"}
          BY <3>1 DEF RInv, DirOwned
        <4> QED
          BY <1>1, <3>1, <4>1
      <3>2. CASE n = target[r] /\ l # "waiting"
        BY <1>1, <3>2 DEF Over
      <3> QED
        BY <3>1, <3>2
    <2> QED
      BY <2>1 DEF DirOwned
  <1>5. RunsApart'
    BY <1>1, <1>2 DEF RInv, RunsApart, Over
  <1>6. \A q \in Runs : SavedKept(q)'
    BY <1>1, <1>2 DEF SavedKept, Over
  <1>7. SomeCompleteBackup'
    BY <1>1 DEF RInv, SomeCompleteBackup
  <1> QED
    BY <1>3, <1>4, <1>5, <1>6, <1>7 DEF RInv

\* What nobody's run does leaves the directory alone.
LEMMA DirectoryUntouched ==
    ASSUME RInv, UNCHANGED <<cpc, target, victims, dir, complete>>, now' \in Times
    PROVE  RInv'
  BY DEF RInv, RotationTypeOK, Names, DirOwned, RunsApart, SavedKept, SomeCompleteBackup

LEMMA ResolveRotates ==
    ASSUME RInv, NEW r \in Runs, Resolve(r)
    PROVE  RInv'
  <1>1. /\ cpc[r] = "init" /\ \A q \in Runs : cpc[q] \in Over /\ target[q] # now
        /\ target' = [target EXCEPT ![r] = now] /\ cpc' = [cpc EXCEPT ![r] = "resolved"]
        /\ UNCHANGED <<victims, dir, complete, now>>
    BY DEF Resolve, Advance, serverVars
  <1>2. /\ cpc'[r] = "resolved" /\ target'[r] = now /\ now # NULL
        /\ \A q \in Runs : q # r => cpc'[q] = cpc[q] /\ target'[q] = target[q]
    BY <1>1, SecondNotNull DEF RInv, RotationTypeOK
  <1>3. RotationTypeOK'
    BY <1>1 DEF RInv, RotationTypeOK, Names
  <1>4. DirOwned'
    <2>1. \A n \in Names' : \E q \in Runs : /\ q # r /\ target[q] = n
                                           /\ cpc[q] \notin {"init", "resolved", "waiting"}
      BY <1>1 DEF RInv, DirOwned, Names
    <2> QED
      BY <1>1, <1>2, <2>1 DEF RInv, DirOwned
  <1>5. RunsApart'
    BY <1>1, <1>2 DEF RInv, RunsApart
  <1>6. \A q \in Runs : SavedKept(q)'
    BY <1>1, <1>2 DEF SavedKept, Over
  <1>7. SomeCompleteBackup'
    BY <1>1, <1>2 DEF RInv, SomeCompleteBackup
  <1> QED
    BY <1>3, <1>4, <1>5, <1>6, <1>7 DEF RInv

\* A run that has not written yet has no file.
LEMMA NotWrittenYet ==
    ASSUME RInv, NEW r \in Runs, cpc[r] \in {"resolved", "waiting"}
    PROVE  target[r] \in Times /\ target[r] \notin Names
  BY DEF RInv, RotationTypeOK, RunsApart, DirOwned

\* The file comes first when it has been written, the others stay.
LEMMA WrittenFirst ==
    ASSUME RInv, NEW t \in Times, Written(t)
    PROVE  /\ dir' \in Seq(Times) /\ dir' # << >> /\ dir'[1] = t
           /\ Names' = Names \cup {t}
           /\ \A i, j \in DOMAIN dir' : dir'[i] = dir'[j] => i = j
  <1> DEFINE w == Without(t)
  <1>1. /\ w \in Seq(Times) /\ {w[i] : i \in DOMAIN w} = Names \ {t}
        /\ \A i, j \in DOMAIN w : w[i] = w[j] => i = j
    BY WithoutOne DEF RInv, RotationTypeOK, DirOwned
  <1>2. dir' = <<t>> \o w
    BY DEF Written
  <1> HIDE DEF w
  <1>3. <<t>> \in Seq(Times) /\ Len(<<t>>) = 1 /\ <<t>>[1] = t
    OBVIOUS
  <1>4. /\ dir' \in Seq(Times) /\ Len(dir') = 1 + Len(w)
        /\ \A i \in 1..(1 + Len(w)) : dir'[i] = IF i <= 1 THEN <<t>>[i] ELSE w[i - 1]
    <2>1. /\ <<t>> \o w \in Seq(Times) /\ Len(<<t>> \o w) = Len(<<t>>) + Len(w)
          /\ \A i \in 1..(Len(<<t>>) + Len(w)) :
                (<<t>> \o w)[i] = IF i <= Len(<<t>>) THEN <<t>>[i] ELSE w[i - Len(<<t>>)]
      BY <1>1, <1>3, ConcatProperties
    <2> QED
      BY <1>2, <1>3, <2>1
  <1>5. Len(w) \in Nat /\ DOMAIN w = 1..Len(w) /\ DOMAIN dir' = 1..(1 + Len(w))
    BY <1>1, <1>4
  <1>6. dir'[1] = t /\ \A i \in 2..(1 + Len(w)) : i - 1 \in DOMAIN w /\ dir'[i] = w[i - 1]
    <2>1. dir'[1] = t
      BY <1>3, <1>4, <1>5
    <2>2. ASSUME NEW i \in 2..(1 + Len(w))
          PROVE  i - 1 \in DOMAIN w /\ dir'[i] = w[i - 1]
      <3>1. i \in 1..(1 + Len(w)) /\ ~(i <= 1) /\ i - 1 \in 1..Len(w)
        BY <1>5
      <3> QED
        BY <1>4, <1>5, <3>1
    <2> QED
      BY <2>1, <2>2
  <1>7. \A i \in DOMAIN w : i + 1 \in 2..(1 + Len(w)) /\ dir'[i + 1] = w[i]
    <2> SUFFICES ASSUME NEW i \in DOMAIN w PROVE i + 1 \in 2..(1 + Len(w)) /\ dir'[i + 1] = w[i]
      OBVIOUS
    <2>1. i + 1 \in 2..(1 + Len(w)) /\ (i + 1) - 1 = i
      BY <1>5
    <2> QED
      BY <1>6, <2>1
  <1>8. Names' = Names \cup {t}
    <2>1. \A n \in Names' : n = t \/ n \in Names \ {t}
      <3> SUFFICES ASSUME NEW i \in DOMAIN dir' PROVE dir'[i] = t \/ dir'[i] \in Names \ {t}
        BY DEF Names
      <3>1. i = 1 \/ i \in 2..(1 + Len(w))
        BY <1>5
      <3>2. ASSUME i \in 2..(1 + Len(w))
            PROVE  dir'[i] \in Names \ {t}
        BY <1>1, <1>6, <3>2
      <3> QED
        BY <1>6, <3>1, <3>2
    <2>2. t \in Names'
      <3>1. 1 \in DOMAIN dir'
        BY <1>5
      <3> QED
        BY <1>6, <3>1 DEF Names
    <2>3. ASSUME NEW n \in Names \ {t}
          PROVE  n \in Names'
      <3>1. PICK i \in DOMAIN w : w[i] = n
        BY <1>1
      <3>2. i + 1 \in DOMAIN dir' /\ dir'[i + 1] = n
        BY <1>5, <1>7, <3>1
      <3> QED
        BY <3>2 DEF Names
    <2> QED
      BY <2>1, <2>2, <2>3
  <1>9. ASSUME NEW i \in DOMAIN dir', NEW j \in DOMAIN dir', dir'[i] = dir'[j]
        PROVE  i = j
    <2>1. ASSUME NEW x \in 2..(1 + Len(w))
          PROVE  dir'[x] # t
      <3>1. x - 1 \in DOMAIN w /\ dir'[x] = w[x - 1]
        BY <1>6
      <3>2. w[x - 1] \in {w[y] : y \in DOMAIN w}
        BY <3>1
      <3> QED
        BY <1>1, <3>1, <3>2
    <2>2. (i = 1 \/ i \in 2..(1 + Len(w))) /\ (j = 1 \/ j \in 2..(1 + Len(w)))
      BY <1>5
    <2>3. CASE i = 1 \/ j = 1
      BY <1>6, <1>9, <2>1, <2>2, <2>3
    <2>4. CASE i # 1 /\ j # 1
      <3>1. w[i - 1] = w[j - 1] /\ i - 1 \in DOMAIN w /\ j - 1 \in DOMAIN w
        BY <1>6, <1>9, <2>2, <2>4
      <3>2. i - 1 = j - 1
        BY <1>1, <3>1
      <3> QED
        BY <1>5, <3>2
    <2> QED
      BY <2>3, <2>4
  <1>10. dir' # << >>
    <2>1. Len(dir') # 0
      BY <1>4, <1>5
    <2> QED
      BY <2>1
  <1> QED
    BY <1>4, <1>6, <1>8, <1>9, <1>10

\* Nothing is written or removed: the run goes on to l.
LEMMA FilesStay ==
    ASSUME RInv, NEW r \in Runs, cpc[r] \notin Over,
           NEW l \in (Over \ {"init"}) \cup {"waiting", "writing", "saved", "removing"},
           cpc' = [cpc EXCEPT ![r] = l], UNCHANGED <<target, now, dir, complete>>,
           l = "waiting" => target[r] \notin Names,
           victims' \in [Runs -> Seq(Times)], SavedKept(r)',
           l = "exited" => complete # {}
    PROVE  RInv'
  <1>1. Names' = Names
    BY DEF Names
  <1>2. l \in {"saved", "removing", "exited"} => complete' # {}
    <2>1. cpc'[r] = l
      BY DEF RInv, RotationTypeOK
    <2> QED
      BY <2>1 DEF SavedKept
  <1> QED
    BY <1>1, <1>2, RunGoesOn DEF RInv, RotationTypeOK, DirOwned

LEMMA AskRotates ==
    ASSUME RInv, NEW r \in Runs, Ask(r)
    PROVE  RInv'
  <1>1. /\ cpc[r] = "resolved" /\ cpc' = [cpc EXCEPT ![r] = "waiting"]
        /\ UNCHANGED <<target, victims, dir, complete, now>>
    BY DEF Ask, Advance, Begin
  <1>2. cpc'[r] = "waiting" /\ target[r] \notin Names
    BY <1>1, NotWrittenYet DEF RInv, RotationTypeOK
  <1>3. SavedKept(r)'
    BY <1>2 DEF SavedKept
  <1> QED
    BY <1>1, <1>2, <1>3, FilesStay DEF RInv, RotationTypeOK, Over

\* Without a reply the run is over; with one it has a new file, which is no
\* backup yet, and takes none away.
LEMMA GetReplyRotates ==
    ASSUME RInv, NEW r \in Runs, GetReply(r)
    PROVE  RInv'
  <1>1. cpc[r] = "waiting" /\ UNCHANGED <<target, victims, now>>
    BY DEF GetReply, serverVars
  <1>2. target[r] \in Times /\ target[r] \notin Names
    BY <1>1, NotWrittenYet
  <1>3. CASE cpc' = [cpc EXCEPT ![r] = "failed"] /\ UNCHANGED <<dir, complete>>
    <2>1. cpc'[r] = "failed"
      BY <1>3 DEF RInv, RotationTypeOK
    <2>2. SavedKept(r)'
      BY <2>1 DEF SavedKept
    <2> QED
      BY <1>1, <1>3, <2>2, FilesStay DEF RInv, RotationTypeOK, Over
  <1>4. CASE /\ Written(target[r]) /\ complete' = complete \ {target[r]}
             /\ cpc' = [cpc EXCEPT ![r] = "writing"]
    <2>1. /\ dir' \in Seq(Times) /\ Names' = Names \cup {target[r]}
          /\ \A i, j \in DOMAIN dir' : dir'[i] = dir'[j] => i = j
      BY <1>2, <1>4, WrittenFirst
    <2>2. complete' = complete
      BY <1>2, <1>4 DEF RInv, RotationTypeOK
    <2>3. cpc'[r] = "writing"
      BY <1>4 DEF RInv, RotationTypeOK
    <2>4. SavedKept(r)'
      BY <2>3 DEF SavedKept
    <2>5. \A n \in Names' : \/ n \in Names /\ n # target[r]
                            \/ n = target[r] /\ "writing" # "waiting"
      BY <2>1
    <2>6. complete' \subseteq Names'
      BY <2>1, <2>2 DEF RInv, RotationTypeOK
    <2>7. victims' \in [Runs -> Seq(Times)] /\ UNCHANGED <<target, now>> /\ cpc[r] \notin Over
      BY <1>1 DEF RInv, RotationTypeOK, Over
    <2>8. "writing" \in (Over \ {"init"}) \cup {"waiting", "writing", "saved", "removing"}
      OBVIOUS
    <2> QED
      BY <1>4, <2>1, <2>2, <2>4, <2>5, <2>6, <2>7, <2>8, RunGoesOn
  <1> QED
    BY <1>3, <1>4 DEF GetReply, Advance

LEMMA WriteAllRotates ==
    ASSUME RInv, NEW r \in Runs, WriteAll(r)
    PROVE  RInv'
  <1>1. /\ cpc[r] = "writing" /\ UNCHANGED <<target, victims, now>>
        /\ Written(target[r]) /\ complete' = complete \cup {target[r]}
        /\ cpc' = [cpc EXCEPT ![r] = "saved"]
    BY DEF WriteAll, Advance, serverVars
  <1>2. target[r] \in Times
    BY <1>1 DEF RInv, RotationTypeOK, RunsApart
  <1>3. /\ dir' \in Seq(Times) /\ dir' # << >> /\ dir'[1] = target[r]
        /\ Names' = Names \cup {target[r]}
        /\ \A i, j \in DOMAIN dir' : dir'[i] = dir'[j] => i = j
    BY <1>1, <1>2, WrittenFirst
  <1>4. cpc'[r] = "saved"
    BY <1>1 DEF RInv, RotationTypeOK
  <1>5. SavedKept(r)'
    BY <1>1, <1>3, <1>4 DEF SavedKept
  <1>6. \A n \in Names' : \/ n \in Names /\ n # target[r]
                          \/ n = target[r] /\ "saved" # "waiting"
    BY <1>3
  <1>7. complete' \subseteq Names' /\ complete' # {}
    BY <1>1, <1>3 DEF RInv, RotationTypeOK
  <1>8. victims' \in [Runs -> Seq(Times)] /\ UNCHANGED <<target, now>> /\ cpc[r] \notin Over
    BY <1>1 DEF RInv, RotationTypeOK, Over
  <1>9. "saved" \in (Over \ {"init"}) \cup {"waiting", "writing", "saved", "removing"}
    OBVIOUS
  <1> QED
    BY <1>1, <1>3, <1>5, <1>6, <1>7, <1>8, <1>9, RunGoesOn

LEMMA WriteFailsRotates ==
    ASSUME RInv, NEW r \in Runs, WriteFails(r)
    PROVE  RInv'
  <1>1. /\ cpc[r] = "writing" /\ cpc' = [cpc EXCEPT ![r] = "failed"]
        /\ UNCHANGED <<target, victims, dir, complete, now>>
    BY DEF WriteFails, Advance
  <1>2. cpc'[r] = "failed"
    BY <1>1 DEF RInv, RotationTypeOK
  <1>3. SavedKept(r)'
    BY <1>2 DEF SavedKept
  <1> QED
    BY <1>1, <1>3, FilesStay DEF RInv, RotationTypeOK, Over

\* At least one file is kept, so the one just written is.
LEMMA ListOldRotates ==
    ASSUME RInv, NEW r \in Runs, ListOld(r)
    PROVE  RInv'
  <1>1. /\ cpc[r] = "saved" /\ cpc' = [cpc EXCEPT ![r] = "removing"]
        /\ victims' = [victims EXCEPT ![r] = Old]
        /\ UNCHANGED <<target, dir, complete, now>>
    BY DEF ListOld, Advance, serverVars
  <1>2. cpc'[r] = "removing" /\ target[r] \in complete /\ dir # << >> /\ dir[1] = target[r]
    BY <1>1 DEF RInv, RotationTypeOK, SavedKept
  <1>3. Keep \in Nat /\ Keep >= 1
    BY ClientAssumption
  <1>4. Len(dir) \in Nat /\ DOMAIN dir = 1..Len(dir) /\ 1 \in DOMAIN dir
    BY <1>2 DEF RInv, RotationTypeOK
  <1>5. \A i \in (Keep + 1)..Len(dir) : i \in DOMAIN dir /\ dir[i] \in Times /\ dir[i] # target[r]
    <2> SUFFICES ASSUME NEW i \in (Keep + 1)..Len(dir)
                 PROVE  i \in DOMAIN dir /\ dir[i] \in Times /\ dir[i] # target[r]
      OBVIOUS
    <2>1. i \in 1..Len(dir) /\ i # 1
      BY <1>3, <1>4
    <2>2. i \in DOMAIN dir
      BY <1>4, <2>1
    <2>3. dir[i] \in Times
      BY <2>2 DEF RInv, RotationTypeOK
    <2> QED
      BY <1>2, <1>4, <2>1, <2>2, <2>3 DEF RInv, DirOwned
  <1>6. /\ Old \in Seq(Times)
        /\ Len(Old) = IF Keep + 1 <= Len(dir) THEN Len(dir) - (Keep + 1) + 1 ELSE 0
        /\ \A i \in 1..(Len(dir) - (Keep + 1) + 1) : Old[i] = dir[Keep + 1 + i - 1]
    <2>1. Keep + 1 \in Int /\ Len(dir) \in Int /\ \A i \in (Keep + 1)..Len(dir) : dir[i] \in Times
      BY <1>3, <1>4, <1>5
    <2>2. /\ SubSeq(dir, Keep + 1, Len(dir)) \in Seq(Times)
          /\ Len(SubSeq(dir, Keep + 1, Len(dir))) =
                IF Keep + 1 <= Len(dir) THEN Len(dir) - (Keep + 1) + 1 ELSE 0
          /\ \A i \in 1..(Len(dir) - (Keep + 1) + 1) :
                SubSeq(dir, Keep + 1, Len(dir))[i] = dir[Keep + 1 + i - 1]
      BY <2>1, SubSeqProperties
    <2> QED
      BY <2>2 DEF Old
  <1>7. \A i \in DOMAIN Old : Old[i] # target[r]
    <2> SUFFICES ASSUME NEW i \in DOMAIN Old PROVE Old[i] # target[r]
      OBVIOUS
    <2> DEFINE n == Len(Old)
    <2>1. i \in 1..n /\ n = IF Keep + 1 <= Len(dir) THEN Len(dir) - (Keep + 1) + 1 ELSE 0
      BY <1>6
    <2> HIDE DEF n
    <2>2. /\ i \in 1..(Len(dir) - (Keep + 1) + 1)
          /\ Keep + 1 + i - 1 \in (Keep + 1)..Len(dir)
      <3>1. CASE Keep + 1 <= Len(dir)
        <4>1. n = Len(dir) - (Keep + 1) + 1
          BY <2>1, <3>1
        <4> QED
          BY <1>3, <1>4, <2>1, <3>1, <4>1
      <3>2. CASE ~(Keep + 1 <= Len(dir))
        <4>1. n = 0
          BY <2>1, <3>2
        <4> QED
          BY <2>1, <4>1
      <3> QED
        BY <3>1, <3>2
    <2> QED
      BY <1>5, <1>6, <2>2
  <1>8. victims' \in [Runs -> Seq(Times)] /\ victims'[r] = Old
    BY <1>1, <1>6 DEF RInv, RotationTypeOK
  <1>9. SavedKept(r)'
    <2>1. SavedKept(r)' <=> /\ target[r] \in complete
                            /\ \A i \in DOMAIN Old : Old[i] # target[r]
      BY <1>1, <1>2, <1>8 DEF SavedKept
    <2> QED
      BY <1>2, <1>7, <2>1
  <1> QED
    BY <1>1, <1>8, <1>9, FilesStay DEF Over

LEMMA RemoveOldRotates ==
    ASSUME RInv, NEW r \in Runs, RemoveOld(r)
    PROVE  RInv'
  <1>1. cpc[r] = "removing" /\ UNCHANGED <<target, now>>
    BY DEF RemoveOld, serverVars
  <1>2. target[r] \in complete /\ victims[r] \in Seq(Times)
        /\ \A i \in DOMAIN victims[r] : victims[r][i] # target[r]
    BY <1>1 DEF RInv, RotationTypeOK, SavedKept
  <1>3. CASE cpc' = [cpc EXCEPT ![r] = "exited"] /\ UNCHANGED <<victims, dir, complete>>
    <2>1. cpc'[r] = "exited"
      BY <1>3 DEF RInv, RotationTypeOK
    <2>2. SavedKept(r)'
      BY <2>1 DEF SavedKept
    <2> QED
      BY <1>1, <1>2, <1>3, <2>2, FilesStay DEF RInv, RotationTypeOK, Over
  <1>4. CASE victims[r] # << >> /\ UNCHANGED cpc
    <2>1. /\ victims[r] # << >> /\ dir' = Without(Head(victims[r]))
          /\ complete' = complete \ {Head(victims[r])}
          /\ victims' = [victims EXCEPT ![r] = Tail(@)]
      BY <1>4 DEF RemoveOld, Advance, RInv, RotationTypeOK
    <2> DEFINE n == Head(victims[r])
    <2>2. n # target[r]
      BY <1>2, <2>1
    <2>3. /\ dir' \in Seq(Times) /\ Names' = Names \ {n}
          /\ \A i, j \in DOMAIN dir' : dir'[i] = dir'[j] => i = j
      <3>1. /\ Without(n) \in Seq(Times)
            /\ {Without(n)[i] : i \in DOMAIN Without(n)} = Names \ {n}
            /\ \A i, j \in DOMAIN Without(n) : Without(n)[i] = Without(n)[j] => i = j
        BY WithoutOne DEF RInv, RotationTypeOK, DirOwned
      <3>2. dir' = Without(n)
        BY <2>1
      <3>3. Names' = {dir'[i] : i \in DOMAIN dir'}
        BY DEF Names
      <3> HIDE DEF n
      <3> QED
        BY <3>1, <3>2, <3>3
    <2>4. /\ Tail(victims[r]) \in Seq(Times) /\ victims' \in [Runs -> Seq(Times)]
          /\ victims'[r] = Tail(victims[r])
      BY <1>2, <2>1 DEF RInv, RotationTypeOK
    <2>5. \A i \in DOMAIN Tail(victims[r]) : Tail(victims[r])[i] # target[r]
      BY <1>2, <2>1
    <2> HIDE DEF n
    <2>6. target[r] \in complete' /\ complete' \subseteq Names'
      BY <1>2, <2>1, <2>2, <2>3 DEF RInv, RotationTypeOK, n
    <2>7. SavedKept(r)'
      <3>1. cpc'[r] = "removing"
        BY <1>1, <1>4
      <3> QED
        BY <1>1, <2>4, <2>5, <2>6, <3>1 DEF SavedKept
    <2>8. cpc' = [cpc EXCEPT ![r] = "removing"]
      BY <1>1, <1>4 DEF RInv, RotationTypeOK
    <2>9. \A m \in Names' : \/ m \in Names /\ m # target[r]
                            \/ m = target[r] /\ "removing" # "waiting"
      BY <2>3
    <2>10. complete' # {}
      BY <2>6
    <2> QED
      BY <1>1, <2>3, <2>4, <2>6, <2>7, <2>8, <2>9, <2>10, RunGoesOn DEF Over
  <1> QED
    BY <1>3, <1>4 DEF RemoveOld, Advance

\* No handler, writer or crash of the server concerns the directory.
LEMMA ServerRotates ==
    ASSUME RInv, Server
    PROVE  RInv'
  <1>1. now' \in Times
    <2>1. ASSUME Tick PROVE now' \in Times
      BY <2>1, ServerAssumption DEF Tick, RInv, RotationTypeOK, Times
    <2>2. CASE UNCHANGED now
      BY <2>2 DEF RInv, RotationTypeOK
    <2> QED
      BY <2>1, <2>2
      DEF Server, Begin, Handle, Check, OpenTemp, CopyChunk, OpenRead, ReadChunk, RemoveTemp,
          HandlerFails, Dropped, HandlerWrites, OtherProcessWrites, Crash
  <1> QED
    BY <1>1, DirectoryUntouched DEF Server

\* The rotation goes as RInv says, also where backups of one second spoil each
\* other on the server.
THEOREM Rotation == ClientSpec => []RInv
  <1>1. ClientInit => RInv
    <2> SUFFICES ASSUME ClientInit PROVE RInv
      OBVIOUS
    <2>1. /\ dir = << >> /\ DOMAIN dir = {} /\ complete = {} /\ now = 0
          /\ cpc = [r \in Runs |-> "init"] /\ target = [r \in Runs |-> NULL]
          /\ victims = [r \in Runs |-> << >>]
      BY DEF ClientInit, ServerInit
    <2>2. RotationTypeOK
      BY <2>1, ServerAssumption DEF RotationTypeOK, Names, Times, Over
    <2>3. DirOwned /\ RunsApart
      BY <2>1 DEF DirOwned, RunsApart, Names, Over
    <2>4. (\A r \in Runs : SavedKept(r)) /\ SomeCompleteBackup
      BY <2>1 DEF SavedKept, SomeCompleteBackup
    <2> QED
      BY <2>2, <2>3, <2>4 DEF RInv
  <1>2. RInv /\ [ClientNext]_clientVars => RInv'
    <2>1. ASSUME RInv, UNCHANGED clientVars PROVE RInv'
      BY <2>1, DirectoryUntouched DEF clientVars, serverVars, RInv, RotationTypeOK
    <2> QED
      BY <2>1, ServerRotates, ResolveRotates, AskRotates, GetReplyRotates, WriteAllRotates,
         WriteFailsRotates, ListOldRotates, RemoveOldRotates
      DEF ClientNext
  <1> QED
    BY <1>1, <1>2, PTL DEF ClientSpec

\* Once a run of the client has saved a complete backup the directory holds one
\* for ever, whatever runs, failed or not, come after and however few are kept.
THEOREM LastBackupKept == ClientSpec => []SomeCompleteBackup
  <1>1. RInv => SomeCompleteBackup
    BY DEF RInv
  <1> QED
    BY <1>1, Rotation, PTL

\* Client, server and files stay what their types say, with an owner for every
\* temporary file.
THEOREM BackupsWellFormed == ASSUME ~SameSecond PROVE ClientSpec => []BackupInv
  <1>1. RInv /\ IInv /\ TempsAccounted => BackupInv
    BY DEF RInv, RotationTypeOK, IInv, BackupInv, ClientTypeOK, Names
  <1> QED
    BY <1>1, Rotation, BackupsApart, NoFileLeftBehind, PTL

=============================================================================
