--------------------------- MODULE EbpfDaemonProofs ----------------------------
(***************************************************************************)
(* For any programs, pids, queue, faults and restarts: the daemon's        *)
(* tracker leads to running sessions only, no session of a running program *)
(* is ended, a failed exec that was exported is kept, and a session        *)
(* without an end has one of the causes that UnendedExplained lists.       *)
(***************************************************************************)
EXTENDS EbpfDaemon, SessionStoreProofs

-----------------------------------------------------------------------------
(* The inductive invariant *)

\* Whatever the daemon has still to send or to write.
Items ==
    Lines(file) \cup Lines(rest) \cup Lines(kept) \cup (IF call = NULL THEN {} ELSE {call.item})

\* What the daemon holds at each place of its program.
Modes ==
    /\ dpc = "down" => call = NULL
    /\ dpc = "rewrite" => call = NULL /\ kept # << >>
    /\ dpc # "loop" => tracker = << >>
    /\ dpc # "replay" => rest = << >>
    /\ dpc \in {"down", "loop"} => kept = << >>
    /\ dpc = "replay" /\ call # NULL => rest # << >> /\ call.item = Head(rest)

\* Rows, items and events are of execs that have happened.
AllSpent ==
    /\ \A i \in DOMAIN records : records[i].pid \in spent
    /\ \A n \in DOMAIN queue : queue[n].kind # "exit" =>
          queue[n].exec \in spent /\ queue[n].pid = PidOf[queue[n].exec]
    /\ \A it \in Items : it.kind # "end" => it.exec \in spent

\* An end is for a session of a program that is gone, which the tracker has left.
EndsApart ==
    \A it \in Items : it.kind = "end" =>
        /\ it.sid \in DOMAIN records
        /\ ~Running(records[it.sid].pid)
        /\ \A p \in DOMAIN tracker : tracker[p] # it.sid

\* A start that has been served and not yet returned.
Started == call # NULL /\ call.stage = "ok" /\ call.item.kind = "start"

StartedOwn ==
    Started =>
        /\ IsActive(call.sid) /\ records[call.sid].pid = call.item.exec
        /\ \A p \in DOMAIN tracker : tracker[p] # call.sid
        /\ \A it \in Items : it.kind = "end" => it.sid # call.sid

\* What runs under a pid whose exit is on its way came later: it has no row and
\* no item yet, and its own event comes after the exit.
ExitsAreLate ==
    \A n \in DOMAIN queue :
        LET e == image[queue[n].pid] IN
        queue[n].kind = "exit" /\ e # NoExec =>
            /\ \A i \in DOMAIN records : records[i].pid # e
            /\ \A it \in Items : it.exec # e
            /\ \A m \in DOMAIN queue : m < n => queue[m].exec # e

IInv ==
    /\ StoreTypeOK /\ StoreInv /\ DaemonTypeOK
    /\ Modes
    /\ AllSpent
    /\ EndsApart
    /\ StartedOwn
    /\ ExitsAreLate
    /\ TrackerLeadsToOwn
    /\ EndedAfterExit

-----------------------------------------------------------------------------
(* Files, queues and types *)

LEMMA LinesAppended ==
    ASSUME NEW S, NEW s \in Seq(S), NEW x \in S
    PROVE  Append(s, x) \in Seq(S) /\ Lines(Append(s, x)) = Lines(s) \cup {x}
  <1>1. /\ Append(s, x) \in Seq(S) /\ Len(Append(s, x)) = Len(s) + 1 /\ Len(s) \in Nat
        /\ \A i \in 1..Len(s) : Append(s, x)[i] = s[i]
        /\ Append(s, x)[Len(s) + 1] = x
        /\ DOMAIN s = 1..Len(s) /\ DOMAIN Append(s, x) = 1..Len(Append(s, x))
    OBVIOUS
  <1>2. DOMAIN Append(s, x) = DOMAIN s \cup {Len(s) + 1}
    BY <1>1
  <1> QED
    BY <1>1, <1>2 DEF Lines

LEMMA LinesHeadTail ==
    ASSUME NEW S, NEW s \in Seq(S), s # << >>
    PROVE  /\ Head(s) \in S /\ Tail(s) \in Seq(S)
           /\ Lines(s) = Lines(Tail(s)) \cup {Head(s)}
  <1>1. /\ Head(s) \in S /\ Head(s) = s[1] /\ Tail(s) \in Seq(S)
        /\ Len(s) \in Nat \ {0} /\ Len(Tail(s)) = Len(s) - 1
        /\ \A i \in 1..(Len(s) - 1) : Tail(s)[i] = s[i + 1]
        /\ DOMAIN s = 1..Len(s) /\ DOMAIN Tail(s) = 1..Len(Tail(s))
    OBVIOUS
  <1>2. ASSUME NEW x \in Lines(s) PROVE x \in Lines(Tail(s)) \cup {Head(s)}
    <2>1. PICK i \in 1..Len(s) : x = s[i]
      BY <1>1, <1>2 DEF Lines
    <2>2. CASE i = 1
      BY <1>1, <2>1, <2>2
    <2>3. CASE i # 1
      <3>1. i - 1 \in 1..(Len(s) - 1) /\ (i - 1) + 1 = i
        BY <1>1, <2>1, <2>3
      <3>2. i - 1 \in DOMAIN Tail(s) /\ Tail(s)[i - 1] = x
        BY <1>1, <2>1, <3>1
      <3> QED
        BY <3>2 DEF Lines
    <2> QED
      BY <2>2, <2>3
  <1>3. ASSUME NEW x \in Lines(Tail(s)) PROVE x \in Lines(s)
    <2>1. PICK i \in 1..(Len(s) - 1) : x = Tail(s)[i]
      BY <1>1, <1>3 DEF Lines
    <2>2. i + 1 \in DOMAIN s /\ s[i + 1] = x
      BY <1>1, <2>1
    <2> QED
      BY <2>2 DEF Lines
  <1>4. Head(s) \in Lines(s)
    <2>1. 1 \in DOMAIN s
      BY <1>1
    <2> QED
      BY <1>1, <2>1 DEF Lines
  <1>5. Lines(s) = Lines(Tail(s)) \cup {Head(s)}
    BY <1>2, <1>3, <1>4
  <1> QED
    BY <1>1, <1>5

LEMMA LinesEmpty == Lines(<< >>) = {}
  BY DEF Lines

LEMMA ItemFacts ==
    /\ \A it \in Item : IF it.kind = "end" THEN it.exec = NULL /\ it.sid \in Ids
                        ELSE it.kind \in {"start", "failed"} /\ it.exec \in Execs /\ it.sid = NULL
    /\ \A e \in Execs : e # NULL /\ e # NoExec /\ PidOf[e] \in OsPids /\ e \in Pids
    /\ \A i \in Ids : EndItem(i) \in Item
    /\ \A e \in Execs : ItemOf("start", e) \in Item /\ ItemOf("failed", e) \in Item
    /\ \A it \in Item : Request(it) \in Calls /\ Request(it) # NULL
    /\ \A c \in Calls : /\ c # NULL /\ c.item \in Item /\ c.sid \in Ids \cup {NULL}
                        /\ c.stage \in {"sent", "ok", "error"}
  <1>1. \A e \in Execs : e # NULL /\ e # NoExec /\ PidOf[e] \in OsPids /\ e \in Pids
    BY StoreAssumption, KernelAssumption, DaemonAssumption
  <1>2. \A it \in Item : Request(it) \in Calls
    BY DEF Request, Calls
  <1>3. \A c \in Calls : c.item \in Item /\ c.sid \in Ids \cup {NULL} /\ c.stage \in {"sent", "ok", "error"}
    BY DEF Calls
  <1>4. NULL \notin Calls
    BY DaemonAssumption
  <1> QED
    BY <1>1, <1>2, <1>3, <1>4 DEF Item, EndItem, ItemOf

LEMMA EventFacts ==
    \A x \in Event : IF x.kind = "exit" THEN x.exec = NoExec /\ x.pid \in OsPids
                     ELSE x.kind \in {"success", "failed"} /\ x.exec \in Execs /\ x.pid \in OsPids
  BY DEF Event

LEMMA Types ==
    ASSUME IInv
    PROVE  /\ file \in Seq(Item) /\ rest \in Seq(Item) /\ kept \in Seq(Item)
           /\ queue \in Seq(Event) /\ Len(queue) <= QueueCap
           /\ call \in Calls \cup {NULL} /\ spent \subseteq Execs /\ unseen \subseteq Execs
           /\ image \in [OsPids -> Execs \cup {NoExec}]
           /\ Items \subseteq Item
           /\ \A i \in DOMAIN records : i \in Ids /\ records[i].pid \in Execs
  <1>1. /\ file \in Seq(Item) /\ rest \in Seq(Item) /\ kept \in Seq(Item)
        /\ queue \in Seq(Event) /\ Len(queue) <= QueueCap
        /\ call \in Calls \cup {NULL} /\ spent \subseteq Execs /\ unseen \subseteq Execs
        /\ image \in [OsPids -> Execs \cup {NoExec}]
    BY DEF IInv, DaemonTypeOK, KernelTypeOK
  <1>2. Lines(file) \subseteq Item /\ Lines(rest) \subseteq Item /\ Lines(kept) \subseteq Item
    BY <1>1 DEF Lines
  <1>3. Items \subseteq Item
    BY <1>1, <1>2, ItemFacts DEF Items
  <1>4. \A i \in DOMAIN records : i \in Ids /\ records[i].pid \in Execs
    BY <1>1 DEF IInv, StoreTypeOK, AllSpent
  <1> QED
    BY <1>1, <1>3, <1>4

\* Events come in at the end of the queue.
LEMMA QueueAppended ==
    ASSUME NEW q \in Seq(Event), NEW x \in Event
    PROVE  /\ Append(q, x) \in Seq(Event) /\ Len(Append(q, x)) = Len(q) + 1
           /\ \A n \in DOMAIN q : n < Len(q) + 1 /\ n \in Int
           /\ DOMAIN Append(q, x) = DOMAIN q \cup {Len(q) + 1} /\ Len(q) \in Nat
           /\ \A n \in DOMAIN q : Append(q, x)[n] = q[n]
           /\ Append(q, x)[Len(q) + 1] = x
  <1>1. /\ Append(q, x) \in Seq(Event) /\ Len(Append(q, x)) = Len(q) + 1 /\ Len(q) \in Nat
        /\ DOMAIN q = 1..Len(q) /\ DOMAIN Append(q, x) = 1..(Len(q) + 1)
        /\ \A n \in 1..Len(q) : Append(q, x)[n] = q[n]
        /\ Append(q, x)[Len(q) + 1] = x
    OBVIOUS
  <1> QED
    BY <1>1

LEMMA QueueTail ==
    ASSUME NEW q \in Seq(Event), q # << >>
    PROVE  /\ Tail(q) \in Seq(Event) /\ Len(Tail(q)) = Len(q) - 1 /\ Len(q) \in Nat
           /\ Head(q) = q[1] /\ 1 \in DOMAIN q /\ q[1] \in Event
           /\ \A n \in DOMAIN Tail(q) : n \in Int /\ n + 1 \in DOMAIN q /\ Tail(q)[n] = q[n + 1] /\ 1 < n + 1
           /\ \A n \in DOMAIN q : n # 1 => n - 1 \in DOMAIN Tail(q) /\ Tail(q)[n - 1] = q[n]
           /\ \A n \in DOMAIN q : n \in Int /\ q[n] \in Event
  <1>1. /\ Tail(q) \in Seq(Event) /\ Len(Tail(q)) = Len(q) - 1 /\ Len(q) \in Nat \ {0}
        /\ Head(q) = q[1]
        /\ DOMAIN q = 1..Len(q) /\ DOMAIN Tail(q) = 1..(Len(q) - 1)
        /\ \A n \in 1..(Len(q) - 1) : Tail(q)[n] = q[n + 1]
        /\ \A n \in 1..Len(q) : q[n] \in Event
    OBVIOUS
  <1>2. \A n \in 1..Len(q) : n # 1 => n - 1 \in 1..(Len(q) - 1) /\ (n - 1) + 1 = n
    BY <1>1
  <1> QED
    BY <1>1, <1>2

-----------------------------------------------------------------------------
(* The kernel *)

\* An event that comes in: the exit of what its pid ran until now, or an exec
\* that has just happened.
NewEvent(x) ==
    IF x.kind = "exit" THEN image'[x.pid] \in {NoExec} \cup (Execs \ spent)
    ELSE /\ x.exec \in spent' \ spent /\ x.pid = PidOf[x.exec]
         /\ x.kind = "success" => image'[x.pid] = x.exec

LEMMA KernelEffect ==
    ASSUME IInv, NEW a \in BOOLEAN, KernelStep(a)
    PROVE  /\ KernelTypeOK' /\ spent \subseteq spent' /\ unseen \subseteq unseen'
           /\ \A p \in OsPids : image'[p] \in {image[p], NoExec} \cup (Execs \ spent)
           /\ \/ queue' = queue
              \/ \E x \in Event : queue' = Append(queue, x) /\ NewEvent(x)
           /\ \A e \in spent : Running(e) => \/ Running(e)' \/ e \in unseen'
                                             \/ queue' = Append(queue, ExitEvent(PidOf[e]))
  <1>1. /\ image \in [OsPids -> Execs \cup {NoExec}] /\ queue \in Seq(Event)
        /\ Len(queue) <= QueueCap /\ Len(queue) \in Nat /\ QueueCap \in Nat
        /\ spent \subseteq Execs /\ active \subseteq OsPids /\ unseen \subseteq Execs
        /\ NoExec \notin Execs /\ \A e \in Execs : PidOf[e] \in OsPids
        /\ Threaded \subseteq Execs
    BY KernelAssumption, ItemFacts DEF IInv, DaemonTypeOK, KernelTypeOK
  <1>2. ASSUME NEW x \in Event, HasRoom(a), queue' = Append(queue, x)
        PROVE  queue' \in Seq(Event) /\ Len(queue') <= QueueCap
    BY <1>1, <1>2, QueueAppended DEF HasRoom
  <1>3. ASSUME NEW e \in Execs, ExecSucceeds(e, a)
        PROVE  /\ KernelTypeOK' /\ spent \subseteq spent' /\ unseen \subseteq unseen'
               /\ \A p \in OsPids : image'[p] \in {image[p], NoExec} \cup (Execs \ spent)
               /\ \/ queue' = queue
                  \/ \E x \in Event : queue' = Append(queue, x) /\ NewEvent(x)
               /\ \A f \in spent : Running(f) => Running(f)' \/ f \in unseen'
    <2>1. /\ e \notin spent /\ spent' = spent \cup {e} /\ image' = [image EXCEPT ![PidOf[e]] = e]
          /\ unseen' = unseen \cup ({image[PidOf[e]]} \ {NoExec})
      BY <1>3 DEF ExecSucceeds
    <2>2. ExecEvent("success", e) \in Event
      BY <1>1 DEF ExecEvent, Event
    <2>3. /\ queue' \in Seq(Event) /\ Len(queue') <= QueueCap /\ active' \subseteq OsPids
      BY <1>1, <1>2, <1>3, <2>2 DEF ExecSucceeds
    <2>4. image' \in [OsPids -> Execs \cup {NoExec}] /\ unseen' \subseteq Execs
      BY <1>1, <2>1
    <2>5. image'[PidOf[e]] = e /\ \A p \in OsPids : p # PidOf[e] => image'[p] = image[p]
      BY <1>1, <2>1
    <2>6. NewEvent(ExecEvent("success", e))
      BY <2>1, <2>5 DEF NewEvent, ExecEvent
    <2>7. \A f \in spent : Running(f) => Running(f)' \/ f \in unseen'
      BY <1>1, <2>1, <2>5 DEF Running
    <2>8. KernelTypeOK'
      BY <1>1, <2>1, <2>3, <2>4 DEF KernelTypeOK
    <2>9. queue' = queue \/ \E x \in Event : queue' = Append(queue, x) /\ NewEvent(x)
      BY <1>3, <2>2, <2>6 DEF ExecSucceeds
    <2> QED
      BY <2>1, <2>5, <2>7, <2>8, <2>9
  <1>4. ASSUME NEW e \in Execs, ExecFails(e, a)
        PROVE  /\ KernelTypeOK' /\ spent \subseteq spent' /\ UNCHANGED <<unseen, image>>
               /\ \/ queue' = queue
                  \/ \E x \in Event : queue' = Append(queue, x) /\ NewEvent(x)
    <2>1. e \notin spent /\ spent' = spent \cup {e} /\ UNCHANGED <<unseen, image, active>>
      BY <1>4 DEF ExecFails
    <2>2. ExecEvent("failed", e) \in Event /\ NewEvent(ExecEvent("failed", e))
      BY <1>1, <2>1 DEF ExecEvent, Event, NewEvent
    <2>3. \/ queue' = queue
          \/ HasRoom(a) /\ queue' = Append(queue, ExecEvent("failed", e))
      BY <1>4 DEF ExecFails
    <2>4. queue' \in Seq(Event) /\ Len(queue') <= QueueCap
      BY <1>1, <1>2, <2>2, <2>3
    <2> QED
      BY <1>1, <2>1, <2>2, <2>3, <2>4 DEF KernelTypeOK
  <1>5. ASSUME NEW p \in OsPids, NEW v \in {NoExec} \cup (Execs \ spent),
               image[p] # NoExec, image' = [image EXCEPT ![p] = v],
               spent \subseteq spent', spent' \subseteq Execs, active' = active \ {p},
               \/ HasRoom(a) /\ queue' = Append(queue, ExitEvent(p)) /\ UNCHANGED unseen
               \/ unseen' = unseen \cup {image[p]} /\ UNCHANGED queue
        PROVE  /\ KernelTypeOK' /\ unseen \subseteq unseen'
               /\ \A q \in OsPids : image'[q] \in {image[q], NoExec} \cup (Execs \ spent)
               /\ \/ queue' = queue
                  \/ \E x \in Event : queue' = Append(queue, x) /\ NewEvent(x)
               /\ \A f \in spent : Running(f) => \/ Running(f)' \/ f \in unseen'
                                                 \/ queue' = Append(queue, ExitEvent(PidOf[f]))
    <2>1. image'[p] = v /\ \A q \in OsPids : q # p => image'[q] = image[q]
      BY <1>1, <1>5
    <2>2. image' \in [OsPids -> Execs \cup {NoExec}] /\ image[p] \in Execs
      BY <1>1, <1>5
    <2>3. ExitEvent(p) \in Event /\ NewEvent(ExitEvent(p))
      BY <2>1 DEF ExitEvent, Event, NewEvent
    <2>4. queue' \in Seq(Event) /\ Len(queue') <= QueueCap
      BY <1>1, <1>2, <1>5, <2>3
    <2>5. KernelTypeOK'
      BY <1>1, <1>5, <2>2, <2>4 DEF KernelTypeOK
    <2>6. ASSUME NEW f \in spent, Running(f)
          PROVE  Running(f)' \/ f \in unseen' \/ queue' = Append(queue, ExitEvent(PidOf[f]))
      <3>1. PidOf[f] \in OsPids /\ image[PidOf[f]] = f
        BY <1>1, <2>6 DEF Running
      <3>2. CASE PidOf[f] = p
        BY <1>5, <3>1, <3>2
      <3>3. CASE PidOf[f] # p
        BY <2>1, <3>1, <3>3 DEF Running
      <3> QED
        BY <3>2, <3>3
    <2> QED
      BY <1>5, <2>1, <2>3, <2>5, <2>6
  <1>6. ASSUME NEW e \in Execs, ExecInThread(e, a)
        PROVE  /\ PidOf[e] \in OsPids /\ e \notin spent /\ spent' = spent \cup {e}
               /\ image[PidOf[e]] # NoExec
               /\ image' = [image EXCEPT ![PidOf[e]] = e] /\ active' = active \ {PidOf[e]}
               /\ \/ HasRoom(a) /\ queue' = Append(queue, ExitEvent(PidOf[e])) /\ UNCHANGED unseen
                  \/ unseen' = unseen \cup {image[PidOf[e]]} /\ UNCHANGED queue
    BY <1>1, <1>6 DEF ExecInThread
  <1>7. ASSUME NEW p \in OsPids, ProcessExits(p, a)
        PROVE  /\ image[p] # NoExec /\ spent' = spent
               /\ image' = [image EXCEPT ![p] = NoExec] /\ active' = active \ {p}
               /\ \/ HasRoom(a) /\ queue' = Append(queue, ExitEvent(p)) /\ UNCHANGED unseen
                  \/ unseen' = unseen \cup {image[p]} /\ UNCHANGED queue
    BY <1>7 DEF ProcessExits
  <1>8. CASE \E e \in Execs : ExecSucceeds(e, a)
    BY <1>3, <1>8
  <1>9. CASE \E e \in Execs : ExecFails(e, a)
    BY <1>4, <1>9 DEF Running
  <1>10. CASE \E e \in Execs : ExecInThread(e, a)
    <2>1. PICK e \in Execs : ExecInThread(e, a)
      BY <1>10
    <2>2. spent \subseteq spent' /\ spent' \subseteq Execs /\ e \in {NoExec} \cup (Execs \ spent)
      BY <1>1, <1>6, <2>1
    <2> QED
      BY <1>5, <1>6, <2>1, <2>2
  <1>11. CASE \E p \in OsPids : ProcessExits(p, a)
    <2>1. PICK p \in OsPids : ProcessExits(p, a)
      BY <1>11
    <2>2. spent \subseteq spent' /\ spent' \subseteq Execs
      BY <1>1, <1>7, <2>1
    <2> QED
      BY <1>5, <1>7, <2>1, <2>2
  <1> QED
    BY <1>8, <1>9, <1>10, <1>11 DEF KernelStep

LEMMA KernelKeepsInv ==
    ASSUME IInv, Kernel
    PROVE  IInv'
  <1> DEFINE a == dpc # "down"
  <1>1. /\ UNCHANGED <<records, seq, lastSeen, tokens, issued, execEvents, now>>
        /\ UNCHANGED <<dpc, call, tracker, file, rest, kept, faults, restarts, untracked, returned>>
        /\ a \in BOOLEAN /\ KernelStep(a)
    BY DEF Kernel, storeVars, daemonVars
  <1> HIDE DEF a
  <1>2. /\ KernelTypeOK' /\ spent \subseteq spent'
        /\ \A p \in OsPids : image'[p] \in {image[p], NoExec} \cup (Execs \ spent)
        /\ \/ queue' = queue
           \/ \E x \in Event : queue' = Append(queue, x) /\ NewEvent(x)
    BY <1>1, KernelEffect
  <1>3. Items' = Items
    BY <1>1 DEF Items, Lines
  <1>4. StoreTypeOK' /\ StoreInv'
    BY <1>1 DEF IInv, StoreTypeOK, StoreInv, RowsConsistent, RowsReferToClients, SeenSinceStart,
                DurationsNonNegative
  <1>5. DaemonTypeOK'
    BY <1>1, <1>2 DEF IInv, DaemonTypeOK
  <1>6. Modes'
    BY <1>1 DEF IInv, Modes
  <1>7. \A e \in spent : Running(e)' => Running(e)
    <2>1. \A e \in spent : e \in Execs /\ e # NoExec /\ PidOf[e] \in OsPids
      BY ItemFacts, Types
    <2> QED
      BY <1>2, <2>1 DEF Running
  <1>8. AllSpent'
    <2>1. ASSUME NEW n \in DOMAIN queue', queue'[n].kind # "exit"
          PROVE  queue'[n].exec \in spent' /\ queue'[n].pid = PidOf[queue'[n].exec]
      <3>1. CASE queue' = queue
        BY <1>2, <2>1, <3>1 DEF IInv, AllSpent
      <3>2. ASSUME NEW x \in Event, queue' = Append(queue, x), NewEvent(x)
            PROVE  queue'[n].exec \in spent' /\ queue'[n].pid = PidOf[queue'[n].exec]
        <4>1. (n \in DOMAIN queue /\ queue'[n] = queue[n]) \/ queue'[n] = x
          BY <2>1, <3>2, QueueAppended, Types
        <4> QED
          BY <1>2, <2>1, <3>2, <4>1 DEF IInv, AllSpent, NewEvent
      <3> QED
        BY <1>2, <3>1, <3>2
    <2> QED
      BY <1>1, <1>2, <1>3, <2>1 DEF IInv, AllSpent
  <1>9. EndsApart'
    <2>1. \A it \in Items : it.kind = "end" =>
            it.sid \in DOMAIN records /\ records[it.sid].pid \in spent /\ ~Running(records[it.sid].pid)
      BY DEF IInv, EndsApart, AllSpent
    <2>2. \A it \in Items : it.kind = "end" => ~Running(records[it.sid].pid)'
      BY <1>1, <1>7, <2>1 DEF Running
    <2> QED
      BY <1>1, <1>3, <2>2 DEF IInv, EndsApart, Running
  <1>10. StartedOwn'
    BY <1>1, <1>3 DEF IInv, StartedOwn, Started, IsActive
  <1>11. ExitsAreLate'
    <2> SUFFICES ASSUME NEW n \in DOMAIN queue', queue'[n].kind = "exit",
                        image'[queue'[n].pid] # NoExec
                 PROVE  LET e == image'[queue'[n].pid] IN
                        /\ \A i \in DOMAIN records : records[i].pid # e
                        /\ \A it \in Items : it.exec # e
                        /\ \A m \in DOMAIN queue' : m < n => queue'[m].exec # e
      BY <1>1, <1>3 DEF ExitsAreLate
    <2> DEFINE e == image'[queue'[n].pid]
    <2>1. queue \in Seq(Event) /\ queue' \in Seq(Event)
      BY <1>2, Types DEF KernelTypeOK
    <2>2. queue'[n] \in Event /\ queue'[n].pid \in OsPids
      BY <2>1, EventFacts
    \* What has just come is of no row, item or event yet.
    <2>3. ASSUME e \in Execs \ spent
          PROVE  /\ \A i \in DOMAIN records : records[i].pid # e
                 /\ \A it \in Items : it.exec # e
                 /\ \A m \in DOMAIN queue : queue[m].exec # e
      <3>1. \A i \in DOMAIN records : records[i].pid # e
        BY <2>3 DEF IInv, AllSpent
      <3>2. \A it \in Items : it.exec # e
        BY <2>3, ItemFacts, Types DEF IInv, AllSpent
      <3>3. \A m \in DOMAIN queue : queue[m].exec # e
        <4>1. \A m \in DOMAIN queue : queue[m] \in Event
          BY <2>1
        <4> QED
          BY <2>3, <4>1, EventFacts, ItemFacts DEF IInv, AllSpent
      <3> QED
        BY <3>1, <3>2, <3>3
    <2>4. CASE queue' = queue
      <3>1. CASE e = image[queue[n].pid]
        BY <2>4, <3>1 DEF IInv, ExitsAreLate
      <3>2. CASE e \in Execs \ spent
        BY <2>3, <2>4, <3>2
      <3> QED
        BY <1>2, <2>2, <2>4, <3>1, <3>2
    <2>5. ASSUME NEW x \in Event, queue' = Append(queue, x), NewEvent(x)
          PROVE  /\ \A i \in DOMAIN records : records[i].pid # e
                 /\ \A it \in Items : it.exec # e
                 /\ \A m \in DOMAIN queue' : m < n => queue'[m].exec # e
      <3>1. /\ Len(queue) \in Nat /\ DOMAIN queue' = DOMAIN queue \cup {Len(queue) + 1}
            /\ \A m \in DOMAIN queue : m \in Int /\ m < Len(queue) + 1 /\ queue'[m] = queue[m]
            /\ queue'[Len(queue) + 1] = x
        BY <2>1, <2>5, QueueAppended
      <3>2. \A m \in DOMAIN queue' : m < n => m \in DOMAIN queue /\ queue'[m] = queue[m]
        BY <3>1
      <3>3. CASE e \in Execs \ spent
        BY <2>3, <3>2, <3>3
      <3>4. CASE n = Len(queue) + 1 /\ e \notin Execs \ spent
        BY <2>5, <3>1, <3>4 DEF NewEvent
      <3>5. CASE n \in DOMAIN queue /\ e = image[queue[n].pid]
        <4>1. queue[n] = queue'[n]
          BY <3>1, <3>5
        <4>2. /\ \A i \in DOMAIN records : records[i].pid # e
              /\ \A it \in Items : it.exec # e
              /\ \A m \in DOMAIN queue : m < n => queue[m].exec # e
          BY <3>5, <4>1 DEF IInv, ExitsAreLate
        <4> QED
          BY <3>2, <4>2
      <3>6. n \in DOMAIN queue => queue[n] = queue'[n]
        BY <3>1
      <3> QED
        BY <1>2, <2>2, <3>1, <3>3, <3>4, <3>5, <3>6
    <2> QED
      BY <1>2, <2>4, <2>5
  <1>12. TrackerLeadsToOwn'
    BY <1>1 DEF IInv, TrackerLeadsToOwn, IsActive
  <1>13. EndedAfterExit'
    BY <1>1, <1>7 DEF IInv, EndedAfterExit, AllSpent, Running
  <1> QED
    BY <1>4, <1>5, <1>6, <1>8, <1>9, <1>10, <1>11, <1>12, <1>13 DEF IInv

-----------------------------------------------------------------------------
(* The daemon *)

\* A step that starts nothing and takes nothing up.
LEMMA HousekeepingKeepsInv ==
    ASSUME IInv, UNCHANGED <<image, spent, storeVars>>, DaemonTypeOK', Modes', Items' \subseteq Items,
           queue' = queue \/ queue' = << >>,
           \A p \in DOMAIN tracker' : p \in DOMAIN tracker /\ tracker'[p] = tracker[p],
           Started' => call' = call
    PROVE  IInv'
  <1>1. UNCHANGED <<records, seq, lastSeen, tokens, issued, execEvents, now>>
    BY DEF storeVars
  <1>2. StoreTypeOK' /\ StoreInv'
    BY <1>1 DEF IInv, StoreTypeOK, StoreInv, RowsConsistent, RowsReferToClients, SeenSinceStart,
                DurationsNonNegative
  <1>3. \A n \in DOMAIN queue' : n \in DOMAIN queue /\ queue' = queue
    OBVIOUS
  <1>4. AllSpent'
    BY <1>1, <1>3 DEF IInv, AllSpent
  <1>5. EndsApart'
    BY <1>1 DEF IInv, EndsApart, Running
  <1>6. StartedOwn'
    BY <1>1 DEF IInv, StartedOwn, Started, IsActive
  <1>7. ExitsAreLate'
    BY <1>1, <1>3 DEF IInv, ExitsAreLate
  <1>8. TrackerLeadsToOwn' /\ EndedAfterExit'
    BY <1>1 DEF IInv, TrackerLeadsToOwn, EndedAfterExit, IsActive, Running
  <1> QED
    BY <1>2, <1>4, <1>5, <1>6, <1>7, <1>8 DEF IInv

\* Loading or unloading the programs empties what the kernel holds for them.
LEMMA ReloadTypes ==
    ASSUME IInv, Reload, UNCHANGED <<image, spent, unseen>>
    PROVE  KernelTypeOK' /\ queue' = << >>
  <1>1. << >> \in Seq(Event) /\ Len(<< >>) = 0 /\ QueueCap \in Nat
    BY KernelAssumption
  <1> QED
    BY <1>1 DEF IInv, DaemonTypeOK, KernelTypeOK, Reload

\* Whose sessions the daemon loses is told by the rows.
LEMMA LostTypes ==
    ASSUME IInv
    PROVE  /\ \A P \in SUBSET DOMAIN tracker : Lost(P) \subseteq Execs
           /\ Unanswered \subseteq Execs /\ Forgotten \subseteq Execs
  <1>1. ASSUME NEW P \in SUBSET DOMAIN tracker
        PROVE  Lost(P) \subseteq Execs
    BY Types DEF Lost, IInv, TrackerLeadsToOwn, IsActive
  <1>2. Unanswered \subseteq Execs
    BY Types, ItemFacts DEF Unanswered
  <1>3. ASSUME call # NULL, call.item.kind = "end"
        PROVE  records[call.item.sid].pid \in Execs
    <2>1. call.item \in Items
      BY <1>3 DEF Items
    <2> QED
      BY <1>3, <2>1, Types DEF IInv, EndsApart
  <1> QED
    BY <1>1, <1>2, <1>3 DEF Forgotten

LEMMA KernelUntouched ==
    ASSUME IInv, UNCHANGED kernelVars
    PROVE  KernelTypeOK' /\ UNCHANGED <<image, spent, unseen, queue>>
  BY DEF IInv, DaemonTypeOK, KernelTypeOK, kernelVars

LEMMA StartKeepsInv ==
    ASSUME IInv, Start
    PROVE  IInv'
  <1>1. /\ dpc = "down" /\ Reload /\ rest' = file /\ kept' = << >>
        /\ dpc' = IF file = << >> THEN "loop" ELSE "replay"
        /\ UNCHANGED <<image, spent, unseen, storeVars, call, tracker, file, faults, restarts,
                       untracked, returned>>
    BY DEF Start
  <1>2. KernelTypeOK' /\ queue' = << >>
    BY <1>1, ReloadTypes
  <1>3. << >> \in Seq(Item)
    OBVIOUS
  <1>4. DaemonTypeOK'
    BY <1>1, <1>2, <1>3 DEF IInv, DaemonTypeOK
  <1>5. Modes'
    BY <1>1 DEF IInv, Modes
  <1>6. Items' \subseteq Items
    BY <1>1, LinesEmpty DEF Items, Lines
  <1>7. Started' => call' = call
    BY <1>1
  <1> QED
    BY <1>1, <1>2, <1>4, <1>5, <1>6, <1>7, HousekeepingKeepsInv

LEMMA ReplayNextKeepsInv ==
    ASSUME IInv, ReplayNext
    PROVE  IInv'
  <1>1. /\ dpc = "replay" /\ call = NULL /\ rest # << >> /\ call' = Request(Head(rest))
        /\ UNCHANGED <<kernelVars, storeVars, dpc, tracker, file, rest, kept, faults, restarts,
                       untracked, returned>>
    BY DEF ReplayNext
  <1>2. KernelTypeOK' /\ UNCHANGED <<image, spent, unseen, queue>>
    BY <1>1, KernelUntouched
  <1>3. Head(rest) \in Item /\ Head(rest) \in Lines(rest)
    BY <1>1, Types, LinesHeadTail
  <1>4. call' \in Calls /\ call'.item = Head(rest) /\ call'.stage = "sent"
    BY <1>1, <1>3, ItemFacts DEF Request
  <1>5. DaemonTypeOK'
    BY <1>1, <1>2, <1>4 DEF IInv, DaemonTypeOK
  <1>6. Modes'
    BY <1>1, <1>4 DEF IInv, Modes
  <1>7. Items' \subseteq Items
    <2>1. /\ Lines(file)' = Lines(file) /\ Lines(rest)' = Lines(rest) /\ Lines(kept)' = Lines(kept)
      BY <1>1 DEF Lines
    <2> QED
      BY <1>3, <1>4, <2>1 DEF Items
  <1>8. ~Started'
    BY <1>4 DEF Started
  <1> QED
    BY <1>1, <1>2, <1>5, <1>6, <1>7, <1>8, HousekeepingKeepsInv

LEMMA ReplayEndKeepsInv ==
    ASSUME IInv, ReplayEnd
    PROVE  IInv'
  <1>1. /\ dpc = "replay" /\ call = NULL /\ rest = << >> /\ file' = << >>
        /\ dpc' = IF kept = << >> THEN "loop" ELSE "rewrite"
        /\ UNCHANGED <<kernelVars, storeVars, call, tracker, rest, kept, faults, restarts,
                       untracked, returned>>
    BY DEF ReplayEnd
  <1>2. KernelTypeOK' /\ UNCHANGED <<image, spent, unseen, queue>>
    BY <1>1, KernelUntouched
  <1>3. << >> \in Seq(Item)
    OBVIOUS
  <1>4. DaemonTypeOK'
    BY <1>1, <1>2, <1>3 DEF IInv, DaemonTypeOK
  <1>5. Modes'
    BY <1>1 DEF IInv, Modes
  <1>6. Items' \subseteq Items
    <2>1. Lines(rest)' = Lines(rest) /\ Lines(kept)' = Lines(kept) /\ Lines(file)' = {}
      BY <1>1 DEF Lines
    <2> QED
      BY <1>1, <2>1 DEF Items
  <1>7. ~Started'
    BY <1>1 DEF Started
  <1> QED
    BY <1>1, <1>2, <1>4, <1>5, <1>6, <1>7, HousekeepingKeepsInv

LEMMA RewriteLineKeepsInv ==
    ASSUME IInv, RewriteLine
    PROVE  IInv'
  <1>1. /\ dpc = "rewrite" /\ file' = Append(file, Head(kept)) /\ kept' = Tail(kept)
        /\ dpc' = IF Tail(kept) = << >> THEN "loop" ELSE "rewrite"
        /\ UNCHANGED <<kernelVars, storeVars, call, tracker, rest, faults, restarts,
                       untracked, returned>>
    BY DEF RewriteLine
  <1>2. KernelTypeOK' /\ UNCHANGED <<image, spent, unseen, queue>>
    BY <1>1, KernelUntouched
  <1>3. /\ Head(kept) \in Item /\ Tail(kept) \in Seq(Item)
        /\ Lines(kept) = Lines(Tail(kept)) \cup {Head(kept)}
        /\ Append(file, Head(kept)) \in Seq(Item)
        /\ Lines(Append(file, Head(kept))) = Lines(file) \cup {Head(kept)}
    <2>1. kept # << >> /\ kept \in Seq(Item) /\ file \in Seq(Item)
      BY <1>1, Types DEF IInv, Modes
    <2> QED
      BY <2>1, LinesHeadTail, LinesAppended
  <1>4. DaemonTypeOK'
    BY <1>1, <1>2, <1>3 DEF IInv, DaemonTypeOK
  <1>5. Modes'
    BY <1>1 DEF IInv, Modes
  <1>6. Items' \subseteq Items
    <2>1. /\ Lines(file)' = Lines(file) \cup {Head(kept)} /\ Lines(rest)' = Lines(rest)
          /\ Lines(kept)' = Lines(Tail(kept))
      BY <1>1, <1>3 DEF Lines
    <2> QED
      BY <1>1, <1>3, <2>1 DEF Items
  <1>7. ~Started'
    BY <1>1 DEF Started, IInv, Modes
  <1> QED
    BY <1>1, <1>2, <1>4, <1>5, <1>6, <1>7, HousekeepingKeepsInv

LEMMA CallFailsKeepsInv ==
    ASSUME IInv, CallFails
    PROVE  IInv'
  <1>1. /\ call # NULL /\ faults < MaxFaults /\ faults' = faults + 1
        /\ call' = [call EXCEPT !.stage = "error", !.sid = NULL]
        /\ untracked' = untracked \cup Unanswered
        /\ UNCHANGED <<kernelVars, storeVars, dpc, tracker, file, rest, kept, restarts, returned>>
    BY DEF CallFails, Answer
  <1>2. KernelTypeOK' /\ UNCHANGED <<image, spent, unseen, queue>>
    BY <1>1, KernelUntouched
  <1>3. call' \in Calls /\ call'.item = call.item /\ call'.stage = "error" /\ call' # NULL
    <2>1. call \in Calls
      BY <1>1, Types
    <2>2. call' \in Calls /\ call'.item = call.item /\ call'.stage = "error"
      BY <1>1, <2>1 DEF Calls
    <2> QED
      BY <2>2, ItemFacts
  <1>4. faults' \in 0..MaxFaults
    BY <1>1, DaemonAssumption DEF IInv, DaemonTypeOK
  <1>5. DaemonTypeOK'
    BY <1>1, <1>2, <1>3, <1>4, LostTypes DEF IInv, DaemonTypeOK
  <1>6. Modes'
    BY <1>1, <1>3 DEF IInv, Modes
  <1>7. Items' \subseteq Items
    BY <1>1, <1>3 DEF Items, Lines
  <1>8. ~Started'
    BY <1>3 DEF Started
  <1> QED
    BY <1>1, <1>2, <1>5, <1>6, <1>7, <1>8, HousekeepingKeepsInv

LEMMA GoDownKeepsInv ==
    ASSUME IInv, Shutdown \/ Crash
    PROVE  IInv'
  <1>1. /\ restarts < MaxRestarts /\ restarts' = restarts + 1 /\ dpc' = "down" /\ Reload
        /\ tracker' = << >> /\ call' = NULL /\ rest' = << >> /\ kept' = << >>
        /\ untracked' = untracked \cup Forgotten
        /\ UNCHANGED <<image, spent, unseen, storeVars, file, faults, returned>>
    BY DEF Shutdown, Crash, GoDown
  <1>2. KernelTypeOK' /\ queue' = << >>
    BY <1>1, ReloadTypes
  <1>3. restarts' \in 0..MaxRestarts /\ << >> \in Seq(Item)
    BY <1>1, DaemonAssumption DEF IInv, DaemonTypeOK
  <1>4. DOMAIN tracker' = {} /\ tracker' \in [DOMAIN tracker' -> Ids]
    BY <1>1
  <1>5. DaemonTypeOK'
    BY <1>1, <1>2, <1>3, <1>4, LostTypes DEF IInv, DaemonTypeOK
  <1>6. Modes'
    BY <1>1 DEF Modes
  <1>7. Items' \subseteq Items
    BY <1>1, LinesEmpty DEF Items, Lines
  <1>8. ~Started'
    BY <1>1 DEF Started
  <1> QED
    BY <1>1, <1>2, <1>4, <1>5, <1>6, <1>7, <1>8, HousekeepingKeepsInv

\* The oldest event is taken; what it asks for is of its own exec, or is the
\* end of the session the tracker has for its pid.
LEMMA TakeEventKeepsInv ==
    ASSUME IInv, TakeEvent
    PROVE  IInv'
  <1> DEFINE ev == queue[1]
             Asked(it) ==
                /\ it.kind # "end" => ev.kind # "exit" /\ it.exec = ev.exec /\ UNCHANGED tracker
                /\ it.kind = "end" => /\ ev.kind = "exit" /\ ev.pid \in DOMAIN tracker
                                      /\ it.sid = tracker[ev.pid]
                                      /\ tracker' = Drop(tracker, ev.pid)
  <1>1. /\ dpc = "loop" /\ call = NULL /\ queue # << >> /\ queue' = Tail(queue)
        /\ UNCHANGED <<image, spent, active, unseen, storeVars, dpc, file, rest, kept, faults,
                       restarts, untracked, returned>>
    BY DEF TakeEvent
  <1>2. UNCHANGED <<records, seq, lastSeen, tokens, issued, execEvents, now>>
    BY <1>1 DEF storeVars
  <1>3. /\ queue \in Seq(Event) /\ Tail(queue) \in Seq(Event)
        /\ Len(Tail(queue)) = Len(queue) - 1 /\ Len(queue) \in Nat
        /\ Head(queue) = ev /\ 1 \in DOMAIN queue /\ ev \in Event
        /\ \A n \in DOMAIN queue' : n \in Int /\ n + 1 \in DOMAIN queue /\ queue'[n] = queue[n + 1]
                                    /\ 1 < n + 1
    BY <1>1, QueueTail, Types
  <1>4. KernelTypeOK'
    <2>1. Len(queue') <= QueueCap
      BY <1>1, <1>3, KernelAssumption, Types
    <2> QED
      BY <1>1, <1>3, <2>1 DEF IInv, DaemonTypeOK, KernelTypeOK
  <1>5. \/ UNCHANGED <<call, tracker>>
        \/ \E it \in Item : call' = Request(it) /\ Asked(it)
    <2>1. CASE ev.kind # "exit" /\ ev.exec \notin Denied
      <3>1. ev.exec \in Execs
        BY <1>3, <2>1, EventFacts
      <3> DEFINE it == ItemOf(IF ev.kind = "success" THEN "start" ELSE "failed", ev.exec)
      <3>2. call' = Request(it) /\ UNCHANGED tracker
        BY <1>3, <2>1 DEF TakeEvent
      <3>3. it \in Item /\ it.kind # "end" /\ it.exec = ev.exec
        BY <3>1, ItemFacts DEF ItemOf
      <3> QED
        BY <2>1, <3>2, <3>3
    <2>2. CASE ev.kind = "exit" /\ Untrack(ev.pid)
      <3>1. ev.pid \in DOMAIN tracker /\ tracker' = Drop(tracker, ev.pid)
        BY <2>2 DEF Untrack
      <3>2. tracker[ev.pid] \in Ids
        BY <3>1 DEF IInv, DaemonTypeOK
      <3>3. call' = Request(EndItem(tracker[ev.pid]))
        BY <1>3, <2>2, <3>1 DEF TakeEvent
      <3>4. EndItem(tracker[ev.pid]) \in Item
        BY <3>2, ItemFacts
      <3>5. Asked(EndItem(tracker[ev.pid]))
        BY <2>2, <3>1 DEF EndItem
      <3> QED
        BY <3>3, <3>4, <3>5
    <2> QED
      BY <1>3, <2>1, <2>2 DEF TakeEvent
  <1>6. /\ \A p \in DOMAIN tracker' : p \in DOMAIN tracker /\ tracker'[p] = tracker[p]
        /\ tracker' \in [DOMAIN tracker' -> Ids]
    <2>1. tracker \in [DOMAIN tracker -> Ids]
      BY DEF IInv, DaemonTypeOK
    <2>2. UNCHANGED tracker \/ tracker' = Drop(tracker, ev.pid)
      BY <1>5
    <2> QED
      BY <2>1, <2>2 DEF Drop
  <1>7. call' \in Calls \cup {NULL} /\ (call' # NULL => call'.stage = "sent")
    <2>1. \A it \in Item : Request(it) \in Calls /\ Request(it).stage = "sent"
      BY ItemFacts DEF Request
    <2> QED
      BY <1>1, <1>5, <2>1
  <1>8. ASSUME NEW it \in Items'
        PROVE  it \in Items \/ (it \in Item /\ Asked(it))
    <2>1. Lines(file)' = Lines(file) /\ Lines(rest)' = Lines(rest) /\ Lines(kept)' = Lines(kept)
      BY <1>1 DEF Lines
    <2>2. CASE it \in Lines(file) \cup Lines(rest) \cup Lines(kept)
      BY <2>2 DEF Items
    <2>3. CASE call' # NULL /\ it = call'.item
      <3>1. PICK x \in Item : call' = Request(x) /\ Asked(x)
        BY <1>1, <1>5, <2>3
      <3>2. it = x
        BY <2>3, <3>1 DEF Request
      <3> QED
        BY <3>1, <3>2
    <2> QED
      BY <1>8, <2>1, <2>2, <2>3 DEF Items
  <1>9. StoreTypeOK' /\ StoreInv'
    BY <1>2 DEF IInv, StoreTypeOK, StoreInv, RowsConsistent, RowsReferToClients, SeenSinceStart,
                DurationsNonNegative
  <1>10. DaemonTypeOK'
    <2>1. DOMAIN tracker' \subseteq OsPids
      BY <1>6 DEF IInv, DaemonTypeOK
    <2> QED
      BY <1>1, <1>4, <1>6, <1>7, <2>1 DEF IInv, DaemonTypeOK
  <1>11. Modes'
    BY <1>1 DEF IInv, Modes
  <1>12. AllSpent'
    <2>1. \A n \in DOMAIN queue' : queue'[n].kind # "exit" =>
              queue'[n].exec \in spent' /\ queue'[n].pid = PidOf[queue'[n].exec]
      BY <1>1, <1>3 DEF IInv, AllSpent
    <2>2. \A it \in Items' : it.kind # "end" => it.exec \in spent'
      BY <1>1, <1>3, <1>8 DEF IInv, AllSpent
    <2> QED
      BY <1>1, <1>2, <2>1, <2>2 DEF IInv, AllSpent
  <1>13. EndsApart'
    <2> SUFFICES ASSUME NEW it \in Items', it.kind = "end"
                 PROVE  /\ it.sid \in DOMAIN records /\ ~Running(records[it.sid].pid)
                        /\ \A p \in DOMAIN tracker' : tracker'[p] # it.sid
      BY <1>1, <1>2 DEF EndsApart, Running
    <2>1. CASE it \in Items
      BY <1>6, <2>1 DEF IInv, EndsApart
    <2>2. CASE Asked(it)
      <3>1. /\ ev.kind = "exit" /\ ev.pid \in DOMAIN tracker /\ it.sid = tracker[ev.pid]
            /\ tracker' = Drop(tracker, ev.pid)
        BY <2>2
      <3>2. /\ \A p \in DOMAIN tracker : /\ tracker[p] \in DOMAIN records
                                         /\ PidOf[records[tracker[p]].pid] = p
        BY DEF IInv, TrackerLeadsToOwn, IsActive
      <3>3. ~Running(records[it.sid].pid)
        <4>1. records[it.sid].pid \in Execs /\ PidOf[records[it.sid].pid] = ev.pid
          BY <3>1, <3>2, Types
        <4>2. image[ev.pid] # NoExec => records[it.sid].pid # image[ev.pid]
          BY <1>3, <3>1, <3>2 DEF IInv, ExitsAreLate
        <4> QED
          BY <4>1, <4>2, KernelAssumption DEF Running
      <3>4. \A p \in DOMAIN tracker' : tracker'[p] # it.sid
        BY <3>1, <3>2 DEF Drop
      <3> QED
        BY <3>1, <3>2, <3>3, <3>4
    <2> QED
      BY <1>8, <2>1, <2>2
  <1>14. StartedOwn'
    BY <1>7 DEF StartedOwn, Started
  <1>15. ExitsAreLate'
    <2> SUFFICES ASSUME NEW n \in DOMAIN queue', queue'[n].kind = "exit",
                        image[queue'[n].pid] # NoExec
                 PROVE  LET e == image[queue'[n].pid] IN
                        /\ \A i \in DOMAIN records : records[i].pid # e
                        /\ \A it \in Items' : it.exec # e
                        /\ \A m \in DOMAIN queue' : m < n => queue'[m].exec # e
      BY <1>1, <1>2 DEF ExitsAreLate
    <2> DEFINE e == image[queue'[n].pid]
    <2>1. /\ n \in Int /\ n + 1 \in DOMAIN queue /\ queue'[n] = queue[n + 1] /\ 1 < n + 1
      BY <1>3
    <2>2. /\ \A i \in DOMAIN records : records[i].pid # e
          /\ \A it \in Items : it.exec # e
          /\ \A m \in DOMAIN queue : m < n + 1 => queue[m].exec # e
      BY <2>1 DEF IInv, ExitsAreLate
    <2>3. ASSUME NEW it \in Items'
          PROVE  it.exec # e
      <3>1. CASE it.kind = "end"
        <4>1. it \in Items \/ it \in Item
          BY <1>8
        <4>2. it.exec = NULL /\ e \in Execs
          <5>1. it \in Item
            BY <4>1, Types
          <5>2. queue[n + 1] \in Event
            BY <1>3, <2>1
          <5>3. image[queue[n + 1].pid] \in Execs \cup {NoExec}
            BY <5>2, EventFacts, Types
          <5> QED
            BY <2>1, <3>1, <5>1, <5>3, ItemFacts
        <4> QED
          BY <4>2, ItemFacts
      <3>2. CASE it.kind # "end"
        BY <1>3, <1>8, <2>1, <2>2, <3>2
      <3> QED
        BY <3>1, <3>2
    <2>4. \A m \in DOMAIN queue' : m < n => queue'[m].exec # e
      <3>1. \A m \in DOMAIN queue' : m < n => m + 1 < n + 1
        BY <1>3, <2>1
      <3> QED
        BY <1>3, <2>2, <3>1
    <2> QED
      BY <2>2, <2>3, <2>4
  <1>16. TrackerLeadsToOwn' /\ EndedAfterExit'
    BY <1>1, <1>2, <1>6 DEF IInv, TrackerLeadsToOwn, EndedAfterExit, IsActive, Running
  <1> QED
    BY <1>9, <1>10, <1>11, <1>12, <1>13, <1>14, <1>15, <1>16 DEF IInv

\* What a call's return adds to "returned" is of its own item.
LEMMA ReturnTypes ==
    ASSUME IInv, Return
    PROVE  /\ call \in Calls /\ call.item \in Item /\ call.item \in Items /\ call' = NULL
           /\ returned' \subseteq Execs
           /\ UNCHANGED <<kernelVars, storeVars, dpc, faults, restarts>>
  <1>1. /\ call # NULL /\ call' = NULL
        /\ returned' = returned \cup (IF call.item.kind = "failed" THEN {call.item.exec} ELSE {})
        /\ UNCHANGED <<kernelVars, storeVars, dpc, faults, restarts>>
    BY DEF Return
  <1>2. call \in Calls /\ call.item \in Item
    BY <1>1, Types, ItemFacts
  <1>3. call.item \in Items
    BY <1>1 DEF Items
  <1>4. returned' \subseteq Execs
    BY <1>1, <1>2, ItemFacts DEF IInv, DaemonTypeOK
  <1> QED
    BY <1>1, <1>2, <1>3, <1>4

LEMMA ReturnKeepsInv ==
    ASSUME IInv, Return
    PROVE  IInv'
  <1>1. /\ call \in Calls /\ call.item \in Item /\ call.item \in Items /\ call # NULL /\ call' = NULL
        /\ returned' \subseteq Execs
        /\ UNCHANGED <<kernelVars, storeVars, dpc, faults, restarts>>
    BY ReturnTypes DEF Return
  <1>2. KernelTypeOK' /\ UNCHANGED <<image, spent, unseen, queue>>
    BY <1>1, KernelUntouched
  <1>3. ~Started'
    BY <1>1 DEF Started
  <1>4. file \in Seq(Item) /\ rest \in Seq(Item) /\ kept \in Seq(Item)
    BY Types
  <1>5. ASSUME UNCHANGED tracker, DaemonTypeOK', Modes', Items' \subseteq Items
        PROVE  IInv'
    BY <1>1, <1>2, <1>3, <1>5, HousekeepingKeepsInv
  \* The session that was started goes into the tracker.
  <1>6. ASSUME dpc = "loop", call.stage = "ok", call.item.kind = "start",
               NEW stale \in SUBSET DOMAIN tracker,
               Track(PidOf[call.item.exec], call.sid, stale), UNCHANGED <<file, rest, kept>>
        PROVE  IInv'
    <2> DEFINE p == PidOf[call.item.exec]
    <2>1. /\ tracker' = Put([q \in DOMAIN tracker \ stale |-> tracker[q]], p, call.sid)
          /\ untracked' = untracked \cup Lost(stale \cup (DOMAIN tracker \cap {p}))
      BY <1>6 DEF Track
    <2>2. /\ IsActive(call.sid) /\ records[call.sid].pid = call.item.exec
          /\ \A q \in DOMAIN tracker : tracker[q] # call.sid
          /\ \A it \in Items : it.kind = "end" => it.sid # call.sid
      BY <1>1, <1>6 DEF IInv, StartedOwn, Started
    <2>3. call.item.exec \in Execs /\ p \in OsPids /\ call.sid \in Ids
      BY <1>1, <1>6, <2>2, ItemFacts, Types DEF IsActive
    <2>4. /\ DOMAIN tracker' = (DOMAIN tracker \ stale) \cup {p}
          /\ tracker' \in [DOMAIN tracker' -> Ids]
          /\ \A q \in DOMAIN tracker' : \/ q = p /\ tracker'[q] = call.sid
                                        \/ q \in DOMAIN tracker /\ tracker'[q] = tracker[q]
      BY <2>1, <2>3 DEF Put, IInv, DaemonTypeOK
    <2>5. DaemonTypeOK'
      <3>1. untracked' \subseteq Execs
        <4>1. stale \cup (DOMAIN tracker \cap {p}) \in SUBSET DOMAIN tracker
          OBVIOUS
        <4> QED
          BY <2>1, <4>1, LostTypes DEF IInv, DaemonTypeOK
      <3>2. DOMAIN tracker' \subseteq OsPids
        BY <2>3, <2>4 DEF IInv, DaemonTypeOK
      <3> QED
        BY <1>1, <1>2, <1>6, <2>4, <3>1, <3>2 DEF IInv, DaemonTypeOK
    <2>6. Items' \subseteq Items
      BY <1>1, <1>6 DEF Items, Lines
    <2>7. UNCHANGED <<records, seq, lastSeen, tokens, issued, execEvents, now>>
      BY <1>1 DEF storeVars
    <2>8. StoreTypeOK' /\ StoreInv'
      BY <2>7 DEF IInv, StoreTypeOK, StoreInv, RowsConsistent, RowsReferToClients, SeenSinceStart,
                  DurationsNonNegative
    <2>9. Modes'
      BY <1>1, <1>6 DEF IInv, Modes
    <2>10. AllSpent'
      BY <1>2, <2>6, <2>7 DEF IInv, AllSpent
    <2>11. EndsApart'
      BY <1>2, <2>2, <2>4, <2>6, <2>7 DEF IInv, EndsApart, Running
    <2>12. StartedOwn'
      BY <1>3 DEF StartedOwn
    <2>13. ExitsAreLate'
      BY <1>2, <2>6, <2>7 DEF IInv, ExitsAreLate
    <2>14. TrackerLeadsToOwn'
      BY <2>2, <2>4, <2>7 DEF IInv, TrackerLeadsToOwn, IsActive
    <2>15. EndedAfterExit'
      BY <1>2, <2>7 DEF IInv, EndedAfterExit, Running
    <2> QED
      BY <2>5, <2>8, <2>9, <2>10, <2>11, <2>12, <2>13, <2>14, <2>15 DEF IInv
  <1>7. CASE dpc = "loop" /\ UNCHANGED <<tracker, untracked, file, rest, kept>>
    <2>1. DaemonTypeOK'
      BY <1>1, <1>2, <1>7 DEF IInv, DaemonTypeOK
    <2>2. Modes'
      BY <1>1, <1>7 DEF IInv, Modes
    <2>3. Items' \subseteq Items
      BY <1>1, <1>7 DEF Items, Lines
    <2> QED
      BY <1>5, <1>7, <2>1, <2>2, <2>3
  <1>8. CASE dpc = "loop" /\ Keep(call.item) /\ UNCHANGED <<tracker, untracked, rest, kept>>
    <2>1. /\ file' = Append(file, call.item) /\ file' \in Seq(Item)
          /\ Lines(Append(file, call.item)) = Lines(file) \cup {call.item}
      BY <1>1, <1>4, <1>8, LinesAppended DEF Keep
    <2>2. DaemonTypeOK'
      BY <1>1, <1>2, <1>8, <2>1 DEF IInv, DaemonTypeOK
    <2>3. Modes'
      BY <1>1, <1>8 DEF IInv, Modes
    <2>4. Items' \subseteq Items
      <3>1. /\ Lines(file)' = Lines(file) \cup {call.item}
            /\ Lines(rest)' = Lines(rest) /\ Lines(kept)' = Lines(kept)
        BY <1>8, <2>1 DEF Lines
      <3> QED
        BY <1>1, <3>1 DEF Items
    <2> QED
      BY <1>5, <1>8, <2>2, <2>3, <2>4
  <1>9. CASE ReturnInReplay
    <2>1. /\ dpc = "replay" /\ rest' = Tail(rest)
          /\ kept' = IF call.stage = "ok" THEN kept ELSE Append(kept, call.item)
          /\ untracked' = untracked \cup
                (IF call.stage = "ok" /\ call.item.kind = "start" THEN {call.item.exec} ELSE {})
          /\ UNCHANGED <<tracker, file>>
      BY <1>9 DEF ReturnInReplay
    <2>2. rest # << >> /\ call.item = Head(rest)
      BY <1>1, <2>1 DEF IInv, Modes
    <2>3. /\ rest' \in Seq(Item) /\ Lines(rest) = Lines(Tail(rest)) \cup {Head(rest)}
          /\ Append(kept, call.item) \in Seq(Item)
          /\ Lines(Append(kept, call.item)) = Lines(kept) \cup {call.item}
      BY <1>1, <1>4, <2>1, <2>2, LinesHeadTail, LinesAppended
    <2>4. kept' \in Seq(Item)
      BY <1>4, <2>1, <2>3
    <2>5. untracked' \subseteq Execs
      BY <1>1, <2>1, ItemFacts DEF IInv, DaemonTypeOK
    <2>6. DaemonTypeOK'
      BY <1>1, <1>2, <2>1, <2>3, <2>4, <2>5 DEF IInv, DaemonTypeOK
    <2>7. Modes'
      BY <1>1, <2>1 DEF IInv, Modes
    <2>8. Items' \subseteq Items
      <3>1. /\ Lines(file)' = Lines(file) /\ Lines(rest)' = Lines(Tail(rest))
            /\ Lines(kept)' = Lines(kept) \/ Lines(kept)' = Lines(Append(kept, call.item))
        BY <2>1 DEF Lines
      <3> QED
        BY <1>1, <2>3, <3>1 DEF Items
    <2> QED
      BY <1>5, <2>1, <2>6, <2>7, <2>8
  <1>10. CASE ReturnInLoop
    <2>1. dpc = "loop" /\ UNCHANGED <<rest, kept>>
      BY <1>10 DEF ReturnInLoop
    <2>2. CASE call.stage = "ok" /\ call.item.kind = "start"
      <3>1. PICK stale \in (IF Evicts THEN SUBSET DOMAIN tracker ELSE {{}}) :
                Track(PidOf[call.item.exec], call.sid, stale)
        BY <1>10, <2>2 DEF ReturnInLoop
      <3>2. stale \in SUBSET DOMAIN tracker
        BY <3>1
      <3>3. UNCHANGED file
        BY <1>10, <2>2 DEF ReturnInLoop
      <3> QED
        BY <1>6, <2>1, <2>2, <3>1, <3>2, <3>3
    <2>3. CASE ~(call.stage = "ok" /\ call.item.kind = "start")
      <3>1. \/ UNCHANGED <<tracker, untracked, file>>
            \/ Keep(call.item) /\ UNCHANGED <<tracker, untracked>>
        BY <1>10, <2>3 DEF ReturnInLoop
      <3> QED
        BY <1>7, <1>8, <2>1, <3>1
    <2> QED
      BY <2>2, <2>3
  <1> QED
    BY <1>9, <1>10 DEF Return

\* What every answer of the server leaves alone.
LEMMA ServeFrame ==
    ASSUME IInv, Serve
    PROVE  /\ call \in Calls /\ call # NULL /\ call.stage = "sent"
           /\ call.item \in Item /\ call.item \in Items
           /\ UNCHANGED <<kernelVars, dpc, tracker, file, rest, kept, faults, restarts, untracked,
                          returned>>
           /\ UNCHANGED <<image, spent, unseen, queue>>
           /\ KernelTypeOK'
  <1>1. /\ call # NULL /\ call.stage = "sent"
        /\ UNCHANGED <<kernelVars, dpc, tracker, file, rest, kept, faults, restarts, untracked,
                       returned>>
    BY DEF Serve
  <1>2. call \in Calls /\ call.item \in Item /\ call.item \in Items
    BY <1>1, Types, ItemFacts DEF Items
  <1>3. KernelTypeOK' /\ UNCHANGED <<image, spent, unseen, queue>>
    BY <1>1, KernelUntouched
  <1> QED
    BY <1>1, <1>2, <1>3

\* The answer changes the stage of the call, not what it is about.
LEMMA AnswerFacts ==
    ASSUME call \in Calls, NEW stage \in {"ok", "error"}, NEW id \in Ids \cup {NULL},
           Answer(stage, id)
    PROVE  call' \in Calls /\ call' # NULL /\ call'.item = call.item /\ call'.stage = stage
           /\ call'.sid = id
  <1>1. call' \in Calls /\ call'.item = call.item /\ call'.stage = stage /\ call'.sid = id
    BY DEF Answer, Calls
  <1> QED
    BY <1>1, ItemFacts

\* What the four answers have in common.
LEMMA ServedParts ==
    ASSUME IInv, Serve, NEW stage \in {"ok", "error"}, NEW id \in Ids \cup {NULL},
           Answer(stage, id), [StoreNext]_storeVars
    PROVE  /\ StoreTypeOK' /\ StoreInv' /\ DaemonTypeOK' /\ Modes' /\ Items' = Items
           /\ Started' <=> (stage = "ok" /\ call.item.kind = "start")
           /\ call'.sid = id /\ call'.item = call.item
  <1>1. StoreTypeOK' /\ StoreInv'
    BY StoreTypeStep, StoreInvStep DEF IInv, StoreInv
  <1>2. call' \in Calls /\ call' # NULL /\ call'.item = call.item /\ call'.stage = stage
        /\ call'.sid = id
    BY ServeFrame, AnswerFacts
  <1>3. UNCHANGED <<dpc, tracker, file, rest, kept, faults, restarts, untracked, returned>>
        /\ KernelTypeOK' /\ call # NULL
    BY ServeFrame
  <1>4. DaemonTypeOK'
    BY <1>2, <1>3 DEF IInv, DaemonTypeOK
  <1>5. Modes'
    BY <1>2, <1>3 DEF IInv, Modes
  <1>6. Items' = Items
    BY <1>2, <1>3 DEF Items, Lines
  <1>7. Started' <=> (stage = "ok" /\ call.item.kind = "start")
    BY <1>2 DEF Started
  <1> QED
    BY <1>1, <1>2, <1>4, <1>5, <1>6, <1>7

LEMMA ServeKeepsInv ==
    ASSUME IInv, Serve
    PROVE  IInv'
  <1> DEFINE item == call.item
  <1>1. /\ call \in Calls /\ call # NULL /\ call.stage = "sent" /\ item \in Item /\ item \in Items
        /\ UNCHANGED <<dpc, tracker, image, spent, unseen, queue>>
    BY ServeFrame
  <1>2. Host \in Clients /\ NULL \in Ids \cup {NULL}
    BY DaemonAssumption
  \* A row that goes in or is closed, and everything that is left.
  <1>3. ASSUME item.kind = "start", StartSession(Host, item.exec), Answer("ok", NextId)
        PROVE  IInv'
    <2>1. item.exec \in Execs /\ item.exec \in Pids
      BY <1>1, <1>3, ItemFacts
    <2> DEFINE row == [client |-> Host, pid |-> item.exec, start |-> now,
                       end |-> NULL, duration |-> NULL, status |-> "active"]
    <2>2. row \in Row /\ row.pid = item.exec /\ row.status = "active"
      BY <1>2, <2>1, RowTypes DEF IInv
    <2>3. Insert(row)
      BY <1>3 DEF StartSession
    <2> HIDE DEF row
    <2>4. /\ seq' \in Ids /\ seq' = seq + 1 /\ seq' \notin DOMAIN records
          /\ DOMAIN records' = DOMAIN records \cup {seq'}
          /\ records'[seq'] = row
          /\ \A i \in DOMAIN records : records'[i] = records[i]
      BY <2>2, <2>3, InsertFacts DEF IInv, StoreInv
    <2>5. [StoreNext]_storeVars
      BY <1>2, <1>3, <2>1 DEF StoreNext
    <2>6. Answer("ok", seq') /\ NextId = seq'
      BY <1>3, <2>4 DEF NextId
    <2>7. /\ StoreTypeOK' /\ StoreInv' /\ DaemonTypeOK' /\ Modes' /\ Items' = Items
          /\ call'.sid = seq' /\ call'.item = item
      BY <2>4, <2>5, <2>6, ServedParts
    <2>8. AllSpent'
      <3>1. item.exec \in spent
        BY <1>1, <1>3 DEF IInv, AllSpent
      <3> QED
        BY <1>1, <2>2, <2>4, <2>7, <3>1 DEF IInv, AllSpent
    <2>9. EndsApart'
      BY <1>1, <2>4, <2>7 DEF IInv, EndsApart, Running
    <2>10. StartedOwn'
      <3>1. \A q \in DOMAIN tracker : tracker[q] # seq'
        BY <2>4 DEF IInv, TrackerLeadsToOwn, IsActive
      <3>2. \A it \in Items : it.kind = "end" => it.sid # seq'
        BY <2>4 DEF IInv, EndsApart
      <3> QED
        BY <1>1, <2>2, <2>4, <2>7, <3>1, <3>2 DEF StartedOwn, IsActive
    <2>11. ExitsAreLate'
      <3>1. ASSUME NEW n \in DOMAIN queue, queue[n].kind = "exit", image[queue[n].pid] # NoExec,
                   NEW i \in DOMAIN records'
            PROVE  records'[i].pid # image[queue[n].pid]
        <4>1. CASE i \in DOMAIN records
          BY <2>4, <3>1, <4>1 DEF IInv, ExitsAreLate
        <4>2. CASE i = seq'
          BY <1>1, <2>2, <2>4, <3>1, <4>2 DEF IInv, ExitsAreLate
        <4> QED
          BY <2>4, <4>1, <4>2
      <3> QED
        BY <1>1, <2>7, <3>1 DEF IInv, ExitsAreLate
    <2>12. TrackerLeadsToOwn'
      BY <1>1, <2>4 DEF IInv, TrackerLeadsToOwn, IsActive
    <2>13. EndedAfterExit'
      BY <1>1, <2>2, <2>4 DEF IInv, EndedAfterExit, Running
    <2> QED
      BY <2>7, <2>8, <2>9, <2>10, <2>11, <2>12, <2>13 DEF IInv
  <1>4. ASSUME item.kind = "end", EndSession(item.sid, Host), Answer("ok", NULL)
        PROVE  IInv'
    <2>1. item.sid \in DOMAIN records /\ item.sid \in Ids /\ ~Running(records[item.sid].pid)
          /\ \A p \in DOMAIN tracker : tracker[p] # item.sid
      BY <1>1, <1>4, ItemFacts DEF IInv, EndsApart
    <2> DEFINE row == Completed(records[item.sid], now)
    <2>2. row \in Row /\ CloseRow(item.sid, row)
      BY <1>4, <2>1, RowTypes DEF EndSession, IInv
    <2>3. row.pid = records[item.sid].pid /\ row.status = "completed"
      <3>1. records[item.sid] \in Row
        BY <2>1 DEF IInv, StoreTypeOK
      <3> QED
        BY <3>1 DEF Completed, Row
    <2> HIDE DEF row
    <2>4. /\ DOMAIN records' = DOMAIN records /\ records'[item.sid] = row
          /\ \A i \in DOMAIN records : i # item.sid => records'[i] = records[i]
      BY <2>1, <2>2, CloseFacts DEF IInv
    <2>5. [StoreNext]_storeVars
      BY <1>2, <1>4, <2>1 DEF StoreNext
    <2>6. /\ StoreTypeOK' /\ StoreInv' /\ DaemonTypeOK' /\ Modes' /\ Items' = Items /\ ~Started'
      BY <1>2, <1>4, <2>5, ServedParts
    <2>7. \A i \in DOMAIN records : records'[i].pid = records[i].pid
      BY <2>3, <2>4
    <2>8. AllSpent'
      BY <1>1, <2>4, <2>6, <2>7 DEF IInv, AllSpent
    <2>9. EndsApart'
      BY <1>1, <2>4, <2>6, <2>7 DEF IInv, EndsApart, Running
    <2>10. StartedOwn'
      BY <2>6 DEF StartedOwn
    <2>11. ExitsAreLate'
      BY <1>1, <2>4, <2>6, <2>7 DEF IInv, ExitsAreLate
    <2>12. TrackerLeadsToOwn'
      BY <1>1, <2>1, <2>4 DEF IInv, TrackerLeadsToOwn, IsActive
    <2>13. EndedAfterExit'
      BY <1>1, <2>1, <2>3, <2>4 DEF IInv, EndedAfterExit, Running
    <2> QED
      BY <2>6, <2>8, <2>9, <2>10, <2>11, <2>12, <2>13 DEF IInv
  <1>5. ASSUME NEW stage \in {"ok", "error"}, Answer(stage, NULL), [StoreNext]_storeVars,
               UNCHANGED records, stage = "error" \/ item.kind # "start"
        PROVE  IInv'
    <2>1. /\ StoreTypeOK' /\ StoreInv' /\ DaemonTypeOK' /\ Modes' /\ Items' = Items /\ ~Started'
      BY <1>2, <1>5, ServedParts
    <2>2. AllSpent' /\ ExitsAreLate'
      BY <1>1, <1>5, <2>1 DEF IInv, AllSpent, ExitsAreLate
    <2>3. EndsApart' /\ StartedOwn'
      BY <1>1, <1>5, <2>1 DEF IInv, EndsApart, StartedOwn, Running
    <2>4. TrackerLeadsToOwn' /\ EndedAfterExit'
      BY <1>1, <1>5 DEF IInv, TrackerLeadsToOwn, EndedAfterExit, IsActive, Running
    <2> QED
      BY <2>1, <2>2, <2>3, <2>4 DEF IInv
  <1>6. ASSUME item.kind = "failed", LogExecEvent(Host, item.exec), Answer("ok", NULL)
        PROVE  IInv'
    <2>1. item.exec \in Pids
      BY <1>1, <1>6, ItemFacts
    <2>2. [StoreNext]_storeVars /\ UNCHANGED records
      BY <1>2, <1>6, <2>1 DEF StoreNext, LogExecEvent
    <2> QED
      BY <1>5, <1>6, <2>2
  <1>7. ASSUME Answer("error", NULL), UNCHANGED storeVars
        PROVE  IInv'
    BY <1>5, <1>7 DEF storeVars
  <1> QED
    BY <1>3, <1>4, <1>6, <1>7 DEF Serve

-----------------------------------------------------------------------------
(* The theorems *)

LEMMA InvInitially ==
    ASSUME DaemonInit
    PROVE  IInv
  <1>1. /\ KernelInit /\ StoreInit /\ dpc = "down" /\ call = NULL /\ tracker = << >>
        /\ file = << >> /\ rest = << >> /\ kept = << >>
        /\ faults = 0 /\ restarts = 0 /\ untracked = {} /\ returned = {}
    BY DEF DaemonInit
  <1>2. /\ << >> \in Seq(Event) /\ Len(<< >>) = 0 /\ << >> \in Seq(Item)
        /\ << >> \in Seq([client : Clients, pid : Pids \cup {NULL}])
        /\ \A S : [x \in {} |-> x] \in [{} -> S]
    OBVIOUS
  <1>3. DOMAIN records = {} /\ DOMAIN tracker = {} /\ DOMAIN queue = {} /\ DOMAIN tokens = {}
        /\ DOMAIN lastSeen = {}
    BY <1>1 DEF StoreInit, KernelInit
  <1>4. KernelTypeOK
    BY <1>1, <1>2, KernelAssumption DEF KernelInit, KernelTypeOK
  <1>5. StoreTypeOK
    BY <1>1, <1>2, <1>3, StoreAssumption DEF StoreInit, StoreTypeOK, Times
  <1>6. StoreInv
    BY <1>3 DEF StoreInv, RowsConsistent, RowsReferToClients, SeenSinceStart, DurationsNonNegative
  <1>7. DaemonTypeOK
    BY <1>1, <1>2, <1>3, <1>4, DaemonAssumption DEF DaemonTypeOK
  <1>8. Items = {}
    BY <1>1, LinesEmpty DEF Items
  <1>9. Modes
    BY <1>1 DEF Modes
  <1>10. AllSpent /\ EndsApart /\ ExitsAreLate
    BY <1>3, <1>8 DEF AllSpent, EndsApart, ExitsAreLate
  <1>11. StartedOwn
    BY <1>1 DEF StartedOwn, Started
  <1>12. TrackerLeadsToOwn /\ EndedAfterExit
    BY <1>3 DEF TrackerLeadsToOwn, EndedAfterExit
  <1> QED
    BY <1>5, <1>6, <1>7, <1>9, <1>10, <1>11, <1>12 DEF IInv

LEMMA InvKept ==
    ASSUME IInv, [EbpfNext]_ebpfVars
    PROVE  IInv'
  <1>1. CASE Kernel
    BY <1>1, KernelKeepsInv
  <1>2. CASE Start
    BY <1>2, StartKeepsInv
  <1>3. CASE ReplayNext
    BY <1>3, ReplayNextKeepsInv
  <1>4. CASE ReplayEnd
    BY <1>4, ReplayEndKeepsInv
  <1>5. CASE RewriteLine
    BY <1>5, RewriteLineKeepsInv
  <1>6. CASE TakeEvent
    BY <1>6, TakeEventKeepsInv
  <1>7. CASE Return
    BY <1>7, ReturnKeepsInv
  <1>8. CASE Serve
    BY <1>8, ServeKeepsInv
  <1>9. CASE CallFails
    BY <1>9, CallFailsKeepsInv
  <1>10. CASE Shutdown \/ Crash
    BY <1>10, GoDownKeepsInv
  <1>11. CASE UNCHANGED ebpfVars
    <2>1. /\ UNCHANGED <<kernelVars, storeVars>>
          /\ UNCHANGED <<dpc, call, tracker, file, rest, kept, faults, restarts, untracked, returned>>
      BY <1>11 DEF ebpfVars, daemonVars
    <2>2. KernelTypeOK' /\ UNCHANGED <<image, spent, unseen, queue>>
      BY <2>1, KernelUntouched
    <2>3. DaemonTypeOK'
      BY <2>1, <2>2 DEF IInv, DaemonTypeOK
    <2>4. Modes' /\ Items' = Items
      BY <2>1 DEF IInv, Modes, Items, Lines
    <2> QED
      BY <2>1, <2>2, <2>3, <2>4, HousekeepingKeepsInv
  <1> QED
    BY <1>1, <1>2, <1>3, <1>4, <1>5, <1>6, <1>7, <1>8, <1>9, <1>10, <1>11 DEF EbpfNext

LEMMA InvAlways == EbpfSpec => []IInv
  <1>1. DaemonInit => IInv
    BY InvInitially
  <1>2. IInv /\ [EbpfNext]_ebpfVars => IInv'
    BY InvKept
  <1> QED
    BY <1>1, <1>2, PTL DEF EbpfSpec

\* The tracker of the main loop: whatever is lost, late, replayed or evicted, a
\* pid in it leads to a running session that was started for that pid.
THEOREM TrackerLeads == EbpfSpec => []DaemonInv
  <1>1. IInv => DaemonInv
    BY DEF IInv, DaemonInv
  <1> QED
    BY <1>1, InvAlways, PTL

\* No late, replayed or lost message, and no pid used again, makes the daemon
\* end the session of a program that still runs.
THEOREM EndsAreLate == EbpfSpec => []EndedAfterExit
  <1>1. IInv => EndedAfterExit
    BY DEF IInv
  <1> QED
    BY <1>1, InvAlways, PTL

\* What each step of kernel and daemon is to the store.
LEMMA EbpfStepIsStoreStep ==
    ASSUME IInv, [EbpfNext]_ebpfVars
    PROVE  [StoreNext]_storeVars
  <1>1. ASSUME Serve
        PROVE  [StoreNext]_storeVars
    <2> DEFINE item == call.item
    <2>1. call # NULL /\ call \in Calls /\ item \in Items
      BY <1>1 DEF Serve, IInv, DaemonTypeOK, Items
    <2>2. CASE item.kind = "start" /\ StartSession(Host, item.exec)
      <3>1. item.exec \in Pids
        BY <2>1, <2>2, ItemFacts
      <3> QED
        BY <2>2, <3>1, DaemonAssumption DEF StoreNext
    <2>3. CASE item.kind = "failed" /\ LogExecEvent(Host, item.exec)
      <3>1. item.exec \in Pids
        BY <2>1, <2>3, ItemFacts
      <3> QED
        BY <2>3, <3>1, DaemonAssumption DEF StoreNext
    <2>4. CASE item.kind = "end" /\ EndSession(item.sid, Host)
      <3>1. item.sid \in Ids
        BY <2>1, <2>4, ItemFacts
      <3> QED
        BY <2>4, <3>1, DaemonAssumption DEF StoreNext
    <2> QED
      BY <1>1, <2>2, <2>3, <2>4 DEF Serve
  <1>2. ASSUME Kernel \/ Start \/ ReplayNext \/ ReplayEnd \/ RewriteLine \/ TakeEvent \/ Return
               \/ CallFails \/ Shutdown \/ Crash
        PROVE  UNCHANGED storeVars
    BY <1>2 DEF Kernel, Start, ReplayNext, ReplayEnd, RewriteLine, TakeEvent, Return, CallFails,
                Shutdown, Crash, GoDown
  <1>3. CASE UNCHANGED ebpfVars
    BY <1>3 DEF ebpfVars
  <1> QED
    BY <1>1, <1>2, <1>3 DEF EbpfNext

\* Whatever the daemon replays, loses or sends late, sessions live the life of
\* SessionLifecycle, and a closed one stays as it is.
THEOREM EbpfImplementsLifecycle == EbpfSpec => ImplementsLifecycle /\ ClosedIsFinal
  <1>1. DaemonInit => StoreInit
    BY DEF DaemonInit
  <1>2. IInv /\ [EbpfNext]_ebpfVars => [StoreNext]_storeVars
    BY EbpfStepIsStoreStep
  <1>3. EbpfSpec => StoreSpec
    BY <1>1, <1>2, InvAlways, PTL DEF EbpfSpec, StoreSpec
  <1> QED
    BY <1>3, StoreImplementsLifecycle, ClosedRowsAreFinal

-----------------------------------------------------------------------------
(* What becomes of failed execs and of sessions without an end *)

\* What a daemon that dies here leaves on disk, or is about to write back.
Stored == Lines(file) \cup (IF dpc = "rewrite" THEN Lines(kept) ELSE {})

Logged(e) == \E n \in DOMAIN execEvents : execEvents[n].pid = e

\* Nothing is left to be done about the item.
Settled(it) ==
    /\ it.kind = "failed" => Logged(it.exec)
    /\ it.kind = "end" => ~IsActive(it.sid)

\* Replay works through what the file holds, and forgets what it has settled.
Replaying ==
    dpc = "replay" =>
        /\ \A it \in Lines(rest) \cup Lines(kept) : it \in Lines(file)
        /\ \A it \in Lines(file) : Settled(it) \/ it \in Lines(rest) \cup Lines(kept)

OkSettled == call # NULL /\ call.stage = "ok" => Settled(call.item)

FailuresStored == \A e \in returned : Logged(e) \/ ItemOf("failed", e) \in Stored

\* The exec runs, or its exit is behind the m-th event, or the daemon will not
\* hear of it.
Followed(e, m) ==
    \/ e \in unseen \cup untracked
    \/ Running(e)
    \/ \E n \in DOMAIN queue : n > m /\ queue[n] = ExitEvent(PidOf[e])

StartsFollowed ==
    /\ \A m \in DOMAIN queue : queue[m].kind = "success" => Followed(queue[m].exec, m)
    /\ dpc = "loop" /\ call # NULL /\ call.item.kind = "start" => Followed(call.item.exec, 0)

\* Who will see to it that the session ends.
RowFollowed(i) ==
    \/ records[i].pid \in unseen \cup untracked
    \/ EndItem(i) \in Stored
    \/ call # NULL /\ call.item = EndItem(i) /\ call.stage # "ok"
    \/ Followed(records[i].pid, 0) /\ \E p \in DOMAIN tracker : tracker[p] = i
    \/ Started /\ call.sid = i

RowsFollowed == \A i \in DOMAIN records : IsActive(i) => RowFollowed(i)

FInv ==
    /\ Replaying
    /\ OkSettled
    /\ FailuresStored
    /\ StartsFollowed
    /\ RowsFollowed

\* A step that leaves the programs, the events and the tables alone.
LEMMA Quiet ==
    ASSUME UNCHANGED <<image, unseen, queue, storeVars>>, untracked \subseteq untracked'
    PROVE  /\ \A e, m : Followed(e, m) => Followed(e, m)'
           /\ \A e : Logged(e)' <=> Logged(e)
           /\ \A it : Settled(it)' <=> Settled(it)
           /\ \A i : IsActive(i)' <=> IsActive(i)
           /\ UNCHANGED <<records, execEvents>>
  <1>1. UNCHANGED <<records, execEvents>>
    BY DEF storeVars
  <1>2. ASSUME NEW e, NEW m, Followed(e, m)
        PROVE  Followed(e, m)'
    BY <1>2 DEF Followed, Running
  <1>3. \A e : Logged(e)' <=> Logged(e)
    BY <1>1 DEF Logged
  <1>4. \A i : IsActive(i)' <=> IsActive(i)
    BY <1>1 DEF IsActive
  <1>5. \A it : Settled(it)' <=> Settled(it)
    BY <1>3, <1>4 DEF Settled
  <1> QED
    BY <1>1, <1>2, <1>3, <1>4, <1>5

\* Execs still followed after a step of the kernel, as far as any event in the
\* queue can tell.
LEMMA KernelFollows ==
    ASSUME IInv, Kernel, NEW e \in spent, NEW m \in Int, m <= Len(queue), Followed(e, m)
    PROVE  Followed(e, m)'
  <1> DEFINE a == dpc # "down"
  <1>1. a \in BOOLEAN /\ KernelStep(a) /\ UNCHANGED <<untracked, storeVars>>
    BY DEF Kernel, daemonVars
  <1> HIDE DEF a
  <1>2. /\ unseen \subseteq unseen'
        /\ \/ queue' = queue
           \/ \E x \in Event : queue' = Append(queue, x) /\ NewEvent(x)
        /\ Running(e) => Running(e)' \/ e \in unseen' \/ queue' = Append(queue, ExitEvent(PidOf[e]))
    BY <1>1, KernelEffect
  <1>3. queue \in Seq(Event) /\ e \in Execs /\ PidOf[e] \in OsPids
    BY Types, ItemFacts
  <1>4. \A x \in Event : queue' = Append(queue, x) =>
            /\ DOMAIN queue \subseteq DOMAIN queue' /\ Len(queue) \in Nat
            /\ \A n \in DOMAIN queue : queue'[n] = queue[n]
            /\ Len(queue) + 1 \in DOMAIN queue' /\ queue'[Len(queue) + 1] = x
    BY <1>3, QueueAppended
  <1>5. CASE e \in unseen \cup untracked
    BY <1>1, <1>2, <1>5 DEF Followed
  <1>6. CASE Running(e)
    <2>1. CASE queue' = Append(queue, ExitEvent(PidOf[e]))
      <3>1. ExitEvent(PidOf[e]) \in Event
        BY <1>3 DEF ExitEvent, Event
      <3>2. Len(queue) + 1 > m /\ Len(queue) + 1 \in DOMAIN queue'
            /\ queue'[Len(queue) + 1] = ExitEvent(PidOf[e])
        BY <1>4, <2>1, <3>1
      <3> QED
        BY <3>2 DEF Followed
    <2> QED
      BY <1>2, <1>6, <2>1 DEF Followed
  <1>7. CASE \E n \in DOMAIN queue : n > m /\ queue[n] = ExitEvent(PidOf[e])
    BY <1>2, <1>4, <1>7 DEF Followed
  <1> QED
    BY <1>5, <1>6, <1>7 DEF Followed

LEMMA KernelKeepsFollowed ==
    ASSUME IInv, FInv, Kernel
    PROVE  FInv'
  <1> DEFINE a == dpc # "down"
  <1>1. /\ UNCHANGED <<dpc, call, tracker, file, rest, kept, untracked, returned, storeVars>>
        /\ UNCHANGED <<records, execEvents>>
        /\ a \in BOOLEAN /\ KernelStep(a)
    BY DEF Kernel, daemonVars, storeVars
  <1> HIDE DEF a
  <1>2. /\ unseen \subseteq unseen'
        /\ \/ queue' = queue
           \/ \E x \in Event : queue' = Append(queue, x) /\ NewEvent(x)
    BY <1>1, KernelEffect
  <1>3. queue \in Seq(Event) /\ Len(queue) \in Nat /\ DOMAIN queue = 1..Len(queue)
    BY Types
  <1>4. Stored' = Stored /\ Lines(file)' = Lines(file) /\ Lines(rest)' = Lines(rest)
        /\ Lines(kept)' = Lines(kept)
    BY <1>1 DEF Stored, Lines
  <1>5. \A it : Settled(it)' <=> Settled(it)
    BY <1>1 DEF Settled, Logged, IsActive
  <1>6. Replaying' /\ OkSettled'
    BY <1>1, <1>4, <1>5 DEF FInv, Replaying, OkSettled
  <1>7. FailuresStored'
    BY <1>1, <1>4 DEF FInv, FailuresStored, Logged
  <1>8. StartsFollowed'
    <2>1. ASSUME NEW m \in DOMAIN queue', queue'[m].kind = "success"
          PROVE  Followed(queue[m].exec, m)'
      <3>1. CASE m \in DOMAIN queue /\ queue'[m] = queue[m]
        <4>1. queue[m].exec \in spent /\ Followed(queue[m].exec, m)
          BY <2>1, <3>1 DEF IInv, AllSpent, FInv, StartsFollowed
        <4>2. PICK f \in spent : f = queue[m].exec
          BY <4>1
        <4>3. m \in Int /\ m <= Len(queue)
          BY <1>3, <3>1
        <4>4. Followed(f, m)'
          BY <4>1, <4>2, <4>3, KernelFollows
        <4> QED
          BY <3>1, <4>2, <4>4 DEF Followed, Running
      <3>2. ASSUME NEW x \in Event, queue'[m] = x, NewEvent(x)
            PROVE  Followed(queue[m].exec, m)'
        BY <2>1, <3>2 DEF NewEvent, Followed, Running
      <3>3. \A x \in Event : queue' = Append(queue, x) =>
                (m \in DOMAIN queue /\ queue'[m] = queue[m]) \/ queue'[m] = x
        BY <1>3, <2>1, QueueAppended
      <3> QED
        BY <1>2, <2>1, <3>1, <3>2, <3>3
    <2>2. ASSUME dpc = "loop", call # NULL, call.item.kind = "start"
          PROVE  Followed(call.item.exec, 0)'
      <3>1. call.item \in Items
        BY <2>2 DEF Items
      <3>2. call.item.exec \in spent /\ Followed(call.item.exec, 0)
        BY <2>2, <3>1 DEF IInv, AllSpent, FInv, StartsFollowed
      <3>3. PICK f \in spent : f = call.item.exec
        BY <3>2
      <3>4. Followed(f, 0)'
        BY <1>3, <3>2, <3>3, KernelFollows
      <3> QED
        BY <1>1, <3>3, <3>4 DEF Followed, Running
    <2> QED
      BY <1>1, <2>1, <2>2 DEF StartsFollowed
  <1>9. RowsFollowed'
    <2> SUFFICES ASSUME NEW i \in DOMAIN records, IsActive(i)
                 PROVE  RowFollowed(i)'
      BY <1>1 DEF RowsFollowed, IsActive
    <2>1. RowFollowed(i)
      BY DEF FInv, RowsFollowed
    <2>2. PICK e \in spent : e = records[i].pid
      BY DEF IInv, AllSpent
    <2>3. Followed(e, 0) => Followed(e, 0)'
      BY <1>3, KernelFollows
    <2>4. Followed(records[i].pid, 0) => Followed(records[i].pid, 0)'
      BY <1>1, <2>2, <2>3 DEF Followed, Running
    <2> QED
      BY <1>1, <1>2, <1>4, <2>1, <2>4 DEF RowFollowed, Started
  <1> QED
    BY <1>6, <1>7, <1>8, <1>9 DEF FInv

\* Nothing becomes unfollowed by a step that only files items away.
LEMMA FiledKeepsFollowed ==
    ASSUME IInv, FInv, UNCHANGED <<image, unseen, storeVars>>, untracked \subseteq untracked',
           UNCHANGED <<tracker, returned>>, call = NULL,
           \/ UNCHANGED queue
           \/ queue' = << >> /\ tracker = << >>,
           call' = NULL \/ (dpc' # "loop" /\ call' # NULL /\ call'.stage = "sent"),
           \A it \in Stored : Settled(it) \/ it \in Stored',
           Replaying'
    PROVE  FInv'
  <1>1. UNCHANGED <<records, execEvents>>
    BY DEF storeVars
  <1>2. /\ \A e : Logged(e)' <=> Logged(e)
        /\ \A i : IsActive(i)' <=> IsActive(i)
    BY <1>1 DEF Logged, IsActive
  <1>3. OkSettled'
    BY DEF OkSettled
  <1>4. FailuresStored'
    <2>1. ASSUME NEW e \in returned
          PROVE  Logged(e)' \/ ItemOf("failed", e) \in Stored'
      <3>1. ItemOf("failed", e).kind = "failed" /\ ItemOf("failed", e).exec = e
        BY DEF ItemOf
      <3> QED
        BY <1>2, <2>1, <3>1 DEF FInv, FailuresStored, Settled
    <2> QED
      BY <2>1 DEF FailuresStored, ItemOf
  <1>5. StartsFollowed'
    <2>1. CASE queue' = << >>
      BY <2>1 DEF StartsFollowed
    <2>2. CASE UNCHANGED queue
      BY <1>1, <2>2, Quiet DEF StartsFollowed, FInv
    <2> QED
      BY <2>1, <2>2
  <1>6. RowsFollowed'
    <2> SUFFICES ASSUME NEW i \in DOMAIN records, IsActive(i)
                 PROVE  RowFollowed(i)'
      BY <1>1, <1>2 DEF RowsFollowed
    <2>1. RowFollowed(i)
      BY DEF FInv, RowsFollowed
    <2>2. CASE records[i].pid \in unseen \cup untracked
      BY <1>1, <2>2 DEF RowFollowed
    <2>3. CASE EndItem(i) \in Stored
      <3>1. EndItem(i).kind = "end" /\ EndItem(i).sid = i
        BY DEF EndItem
      <3>2. EndItem(i) \in Stored'
        BY <2>3, <3>1 DEF Settled
      <3> QED
        BY <3>2 DEF RowFollowed, EndItem
    <2>4. CASE Followed(records[i].pid, 0) /\ \E p \in DOMAIN tracker : tracker[p] = i
      <3>1. UNCHANGED queue
        BY <2>4
      <3>2. Followed(records[i].pid, 0)'
        BY <1>1, <2>4, <3>1 DEF Followed, Running
      <3> QED
        BY <2>4, <3>2 DEF RowFollowed
    <2> QED
      BY <2>1, <2>2, <2>3, <2>4 DEF RowFollowed, Started
  <1> QED
    BY <1>3, <1>4, <1>5, <1>6 DEF FInv

LEMMA StartKeepsFollowed ==
    ASSUME IInv, FInv, Start
    PROVE  FInv'
  <1>1. /\ dpc = "down" /\ queue' = << >> /\ rest' = file /\ kept' = << >>
        /\ dpc' \in {"loop", "replay"}
        /\ UNCHANGED <<image, spent, unseen, storeVars, call, tracker, file, untracked, returned>>
    BY DEF Start, Reload
  <1>2. call = NULL /\ tracker = << >>
    BY <1>1 DEF IInv, Modes
  <1>3. Stored' = Lines(file) /\ Stored = Lines(file)
    BY <1>1 DEF Stored, Lines
  <1>4. Replaying'
    BY <1>1, LinesEmpty DEF Replaying, Lines
  <1> QED
    BY <1>1, <1>2, <1>3, <1>4, FiledKeepsFollowed

LEMMA ReplayNextKeepsFollowed ==
    ASSUME IInv, FInv, ReplayNext
    PROVE  FInv'
  <1>1. /\ dpc = "replay" /\ call = NULL /\ rest # << >> /\ call' = Request(Head(rest))
        /\ UNCHANGED <<kernelVars, storeVars, dpc, tracker, file, rest, kept, untracked, returned>>
    BY DEF ReplayNext
  <1>2. UNCHANGED <<image, spent, unseen, queue, records, execEvents>>
    BY <1>1 DEF kernelVars, storeVars
  <1>3. Head(rest) \in Item
    BY <1>1, Types, LinesHeadTail
  <1>4. call' # NULL /\ call'.stage = "sent"
    BY <1>1, <1>3, ItemFacts DEF Request
  <1>5. /\ Stored' = Stored
        /\ Lines(file)' = Lines(file) /\ Lines(rest)' = Lines(rest) /\ Lines(kept)' = Lines(kept)
    BY <1>1 DEF Stored, Lines
  <1>6. Replaying'
    BY <1>1, <1>2, <1>5 DEF FInv, Replaying, Settled, Logged, IsActive
  <1> QED
    BY <1>1, <1>2, <1>4, <1>5, <1>6, FiledKeepsFollowed

LEMMA ReplayEndKeepsFollowed ==
    ASSUME IInv, FInv, ReplayEnd
    PROVE  FInv'
  <1>1. /\ dpc = "replay" /\ call = NULL /\ rest = << >> /\ file' = << >>
        /\ dpc' = IF kept = << >> THEN "loop" ELSE "rewrite"
        /\ UNCHANGED <<kernelVars, storeVars, call, tracker, kept, untracked, returned>>
    BY DEF ReplayEnd
  <1>2. UNCHANGED <<image, spent, unseen, queue>>
    BY <1>1 DEF kernelVars
  <1>3. \A it \in Lines(file) : Settled(it) \/ it \in Lines(kept)
    BY <1>1, LinesEmpty DEF FInv, Replaying
  <1>4. Stored = Lines(file) /\ Stored' = Lines(kept)
    <2>1. Lines(file)' = {} /\ Lines(kept)' = Lines(kept)
      BY <1>1 DEF Lines
    <2>2. dpc' = "loop" => Lines(kept) = {}
      BY <1>1, LinesEmpty
    <2> QED
      BY <1>1, <2>1, <2>2 DEF Stored
  <1>5. Replaying'
    BY <1>1 DEF Replaying
  <1> QED
    BY <1>1, <1>2, <1>3, <1>4, <1>5, FiledKeepsFollowed

LEMMA RewriteLineKeepsFollowed ==
    ASSUME IInv, FInv, RewriteLine
    PROVE  FInv'
  <1>1. /\ dpc = "rewrite" /\ file' = Append(file, Head(kept)) /\ kept' = Tail(kept)
        /\ dpc' = IF Tail(kept) = << >> THEN "loop" ELSE "rewrite"
        /\ UNCHANGED <<kernelVars, storeVars, call, tracker, untracked, returned>>
    BY DEF RewriteLine
  <1>2. UNCHANGED <<image, spent, unseen, queue>>
    BY <1>1 DEF kernelVars
  <1>3. call = NULL /\ kept # << >> /\ kept \in Seq(Item) /\ file \in Seq(Item)
    BY <1>1, Types DEF IInv, Modes
  <1>4. /\ Lines(kept) = Lines(Tail(kept)) \cup {Head(kept)}
        /\ Lines(Append(file, Head(kept))) = Lines(file) \cup {Head(kept)}
    BY <1>3, LinesHeadTail, LinesAppended
  <1>5. Stored = Lines(file) \cup Lines(kept) /\ Stored' = Stored
    <2>1. Lines(file)' = Lines(Append(file, Head(kept))) /\ Lines(kept)' = Lines(Tail(kept))
      BY <1>1 DEF Lines
    <2>2. Stored = Lines(file) \cup Lines(kept)
      BY <1>1 DEF Stored
    <2>3. dpc' = "loop" => Lines(Tail(kept)) = {}
      BY <1>1, LinesEmpty
    <2>4. Stored' = Lines(file)' \cup Lines(kept)'
      BY <1>1, <2>1, <2>3 DEF Stored
    <2> QED
      BY <1>4, <2>1, <2>2, <2>4
  <1>6. Replaying'
    BY <1>1 DEF Replaying
  <1> QED
    BY <1>1, <1>2, <1>3, <1>5, <1>6, FiledKeepsFollowed

\* A daemon that goes away takes what it knew of its sessions with it, and says
\* so; what it had failed to send is on disk, unless it was just writing that.
LEMMA GoDownKeepsFollowed ==
    ASSUME IInv, FInv, Shutdown \/ Crash, "rewrite" \notin Crashes
    PROVE  FInv'
  <1>1. /\ dpc' = "down" /\ queue' = << >> /\ dpc # "rewrite"
        /\ tracker' = << >> /\ call' = NULL
        /\ untracked' = untracked \cup Forgotten
        /\ UNCHANGED <<image, spent, unseen, storeVars, file, returned>>
    BY DEF Shutdown, Crash, GoDown, Reload
  <1>2. UNCHANGED <<records, execEvents>>
    BY <1>1 DEF storeVars
  <1>3. Stored' = Stored
    BY <1>1 DEF Stored, Lines
  <1>4. Replaying' /\ OkSettled'
    BY <1>1 DEF Replaying, OkSettled
  <1>5. FailuresStored'
    BY <1>1, <1>2, <1>3 DEF FInv, FailuresStored, Logged, ItemOf
  <1>6. StartsFollowed'
    BY <1>1 DEF StartsFollowed
  <1>7. RowsFollowed'
    <2> SUFFICES ASSUME NEW i \in DOMAIN records, IsActive(i)
                 PROVE  RowFollowed(i)'
      BY <1>2 DEF RowsFollowed, IsActive
    <2>1. RowFollowed(i)
      BY DEF FInv, RowsFollowed
    <2>2. CASE EndItem(i) \in Stored
      BY <1>3, <2>2 DEF RowFollowed, EndItem
    <2>3. CASE call # NULL /\ call.item = EndItem(i)
      <3>1. call.item.kind = "end" /\ call.item.sid = i
        BY <2>3 DEF EndItem
      <3> QED
        BY <1>1, <1>2, <2>3, <3>1 DEF RowFollowed, Forgotten
    <2>4. CASE \E p \in DOMAIN tracker : tracker[p] = i
      BY <1>1, <1>2, <2>4 DEF RowFollowed, Forgotten, Lost
    <2>5. CASE Started /\ call.sid = i
      <3>1. records[i].pid = call.item.exec
        BY <2>5 DEF IInv, StartedOwn
      <3> QED
        BY <1>1, <1>2, <2>5, <3>1 DEF RowFollowed, Forgotten, Unanswered, Started
    <2>6. CASE records[i].pid \in unseen \cup untracked
      BY <1>1, <1>2, <2>6 DEF RowFollowed
    <2> QED
      BY <2>1, <2>2, <2>3, <2>4, <2>5, <2>6 DEF RowFollowed
  <1> QED
    BY <1>4, <1>5, <1>6, <1>7 DEF FInv

LEMMA CallFailsKeepsFollowed ==
    ASSUME IInv, FInv, CallFails
    PROVE  FInv'
  <1>1. /\ call # NULL /\ call' = [call EXCEPT !.stage = "error", !.sid = NULL]
        /\ untracked' = untracked \cup Unanswered
        /\ UNCHANGED <<kernelVars, storeVars, dpc, tracker, file, rest, kept, returned>>
    BY DEF CallFails, Answer
  <1>2. call \in Calls /\ call' # NULL /\ call'.item = call.item /\ call'.stage = "error"
    <2>1. call \in Calls
      BY <1>1, Types
    <2>2. call' \in Calls /\ call'.item = call.item /\ call'.stage = "error"
      BY <1>1, <2>1 DEF Calls
    <2> QED
      BY <2>1, <2>2, ItemFacts
  <1>3. UNCHANGED <<image, spent, unseen, queue>>
    BY <1>1 DEF kernelVars
  <1>4. /\ \A e, m : Followed(e, m) => Followed(e, m)'
        /\ \A e : Logged(e)' <=> Logged(e)
        /\ \A it : Settled(it)' <=> Settled(it)
        /\ \A i : IsActive(i)' <=> IsActive(i)
        /\ UNCHANGED <<records, execEvents>>
    BY <1>1, <1>3, Quiet
  <1>5. /\ Stored' = Stored
        /\ Lines(file)' = Lines(file) /\ Lines(rest)' = Lines(rest) /\ Lines(kept)' = Lines(kept)
    BY <1>1 DEF Stored, Lines
  <1>6. Replaying' /\ OkSettled'
    BY <1>1, <1>2, <1>4, <1>5 DEF FInv, Replaying, OkSettled
  <1>7. FailuresStored'
    BY <1>1, <1>4, <1>5 DEF FInv, FailuresStored, ItemOf
  <1>8. StartsFollowed'
    <2>1. \A m \in DOMAIN queue : queue[m].kind = "success" => Followed(queue[m].exec, m)'
      BY <1>3, <1>4 DEF FInv, StartsFollowed, Followed, Running
    <2>2. dpc = "loop" /\ call.item.kind = "start" => Followed(call.item.exec, 0)'
      BY <1>1, <1>2, <1>3 DEF FInv, StartsFollowed, Followed, Running
    <2> QED
      BY <1>1, <1>2, <1>3, <2>1, <2>2 DEF StartsFollowed
  <1>9. RowsFollowed'
    <2> SUFFICES ASSUME NEW i \in DOMAIN records, IsActive(i)
                 PROVE  RowFollowed(i)'
      BY <1>4 DEF RowsFollowed
    <2>1. RowFollowed(i)
      BY DEF FInv, RowsFollowed
    <2>2. CASE Started /\ call.sid = i
      <3>1. records[i].pid = call.item.exec
        BY <2>2 DEF IInv, StartedOwn
      <3> QED
        BY <1>1, <1>4, <2>2, <3>1 DEF RowFollowed, Unanswered, Started
    <2>3. Followed(records[i].pid, 0) => Followed(records[i].pid, 0)'
      BY <1>1, <1>3, <1>4 DEF Followed, Running
    <2> QED
      BY <1>1, <1>2, <1>3, <1>4, <1>5, <2>1, <2>2, <2>3 DEF RowFollowed, EndItem
  <1> QED
    BY <1>6, <1>7, <1>8, <1>9 DEF FInv

\* Of the events, only an exit ends the following, and only of its pid's session.
LEMMA TakeEventKeepsFollowed ==
    ASSUME IInv, FInv, TakeEvent
    PROVE  FInv'
  <1> DEFINE ev == queue[1]
  <1>1. /\ dpc = "loop" /\ call = NULL /\ queue # << >> /\ queue' = Tail(queue)
        /\ UNCHANGED <<image, spent, unseen, storeVars, dpc, file, rest, kept, untracked, returned>>
    BY DEF TakeEvent
  <1>2. UNCHANGED <<records, execEvents>>
    BY <1>1 DEF storeVars
  <1>3. /\ queue \in Seq(Event) /\ Head(queue) = ev /\ 1 \in DOMAIN queue /\ ev \in Event
        /\ \A n \in DOMAIN queue' : n \in Int /\ n + 1 \in DOMAIN queue /\ queue'[n] = queue[n + 1]
        /\ \A n \in DOMAIN queue : n # 1 => n - 1 \in DOMAIN queue' /\ queue'[n - 1] = queue[n]
        /\ \A n \in DOMAIN queue : n \in Int
    BY <1>1, QueueTail, Types
  \* What the call is for, and what becomes of the tracker.
  <1>4. \/ UNCHANGED <<call, tracker>> /\ (ev.kind = "exit" => ev.pid \notin DOMAIN tracker)
        \/ /\ ev.kind = "success" /\ UNCHANGED tracker
           /\ call' = Request(ItemOf("start", ev.exec))
        \/ /\ ev.kind = "failed" /\ UNCHANGED tracker
           /\ call' = Request(ItemOf("failed", ev.exec))
        \/ /\ ev.kind = "exit" /\ ev.pid \in DOMAIN tracker /\ tracker' = Drop(tracker, ev.pid)
           /\ call' = Request(EndItem(tracker[ev.pid]))
    BY <1>3, EventFacts DEF TakeEvent, Untrack
  <1>5. call' # NULL => call'.stage = "sent"
    BY <1>1, <1>4 DEF Request
  <1>6. Stored' = Stored
    BY <1>1 DEF Stored, Lines
  <1>7. Replaying' /\ OkSettled'
    BY <1>1, <1>5 DEF Replaying, OkSettled
  <1>8. FailuresStored'
    BY <1>1, <1>2, <1>6 DEF FInv, FailuresStored, Logged, ItemOf
  \* An event further down the queue has moved up by one.
  <1>9. ASSUME NEW e, NEW m \in Nat, Followed(e, m + 1)
        PROVE  Followed(e, m)'
    <2>1. CASE \E n \in DOMAIN queue : n > m + 1 /\ queue[n] = ExitEvent(PidOf[e])
      <3>1. PICK n \in DOMAIN queue : n > m + 1 /\ queue[n] = ExitEvent(PidOf[e])
        BY <2>1
      <3>2. n \in Int /\ n # 1
        BY <1>3, <3>1
      <3>3. n - 1 \in DOMAIN queue' /\ n - 1 > m /\ queue'[n - 1] = ExitEvent(PidOf[e])
        BY <1>3, <3>1, <3>2
      <3> QED
        BY <3>3 DEF Followed
    <2> QED
      BY <1>1, <1>9, <2>1 DEF Followed, Running
  <1>10. ASSUME NEW e, Followed(e, 0), ev # ExitEvent(PidOf[e])
         PROVE  Followed(e, 0)'
    <2>1. Followed(e, 0 + 1)
      <3>1. \A n \in DOMAIN queue : n > 0 /\ n # 1 => n > 0 + 1
        BY <1>3
      <3> QED
        BY <1>10, <3>1 DEF Followed
    <2> QED
      BY <1>9, <2>1
  <1>11. StartsFollowed'
    <2>1. ASSUME NEW m \in DOMAIN queue', queue'[m].kind = "success"
          PROVE  Followed(queue[m].exec, m)'
      <3>1. m \in Nat /\ m + 1 \in DOMAIN queue /\ queue'[m] = queue[m + 1]
        <4>1. queue' \in Seq(Event)
          BY <1>1, <1>3
        <4> QED
          BY <1>3, <2>1, <4>1
      <3>2. Followed(queue[m + 1].exec, m + 1)
        BY <2>1, <3>1 DEF FInv, StartsFollowed
      <3>3. PICK f : f = queue[m + 1].exec
        OBVIOUS
      <3>4. Followed(f, m)'
        BY <1>9, <3>1, <3>2, <3>3
      <3> QED
        BY <3>1, <3>3, <3>4 DEF Followed, Running
    <2>2. ASSUME call' # NULL, call'.item.kind = "start"
          PROVE  Followed(call.item.exec, 0)'
      <3>1. ev.kind = "success" /\ call'.item.exec = ev.exec
        BY <1>1, <1>4, <2>2 DEF Request, ItemOf, EndItem
      <3>2. Followed(queue[1].exec, 0 + 1)
        BY <1>3, <3>1 DEF FInv, StartsFollowed
      <3>3. PICK f : f = ev.exec
        OBVIOUS
      <3>4. Followed(f, 0)'
        BY <1>9, <3>2, <3>3
      <3> QED
        BY <3>1, <3>3, <3>4 DEF Followed, Running
    <2> QED
      BY <1>1, <2>1, <2>2 DEF StartsFollowed
  <1>12. RowsFollowed'
    <2> SUFFICES ASSUME NEW i \in DOMAIN records, IsActive(i)
                 PROVE  RowFollowed(i)'
      BY <1>2 DEF RowsFollowed, IsActive
    <2>1. RowFollowed(i)
      BY DEF FInv, RowsFollowed
    <2>2. ASSUME Followed(records[i].pid, 0), NEW p \in DOMAIN tracker, tracker[p] = i
          PROVE  RowFollowed(i)'
      <3>1. PidOf[records[i].pid] = p
        BY <2>2 DEF IInv, TrackerLeadsToOwn
      <3>2. CASE ev.kind = "exit" /\ ev.pid = p
        <4>1. call' = Request(EndItem(i))
          BY <1>4, <2>2, <3>2
        <4>2. EndItem(i) \in Item
          BY Types, ItemFacts
        <4>3. call' # NULL /\ call'.item = EndItem(i) /\ call'.stage = "sent"
          BY <4>1, <4>2, ItemFacts DEF Request
        <4> QED
          BY <4>3 DEF RowFollowed, EndItem
      <3>3. CASE ~(ev.kind = "exit" /\ ev.pid = p)
        <4>1. p \in DOMAIN tracker' /\ tracker'[p] = i
          BY <1>4, <2>2, <3>3 DEF Drop
        <4>2. PICK f : f = records[i].pid
          OBVIOUS
        <4>3. Followed(f, 0)'
          <5>1. ev # ExitEvent(PidOf[f])
            BY <3>1, <3>3, <4>2 DEF ExitEvent
          <5> QED
            BY <1>10, <2>2, <4>2, <5>1
        <4>4. Followed(records[i].pid, 0)'
          BY <1>2, <4>2, <4>3 DEF Followed, Running
        <4> QED
          BY <4>1, <4>4 DEF RowFollowed
      <3> QED
        BY <3>2, <3>3
    <2>3. CASE records[i].pid \in unseen \cup untracked
      BY <1>1, <1>2, <2>3 DEF RowFollowed
    <2>4. CASE EndItem(i) \in Stored
      BY <1>6, <2>4 DEF RowFollowed, EndItem
    <2> QED
      BY <1>1, <2>1, <2>2, <2>3, <2>4 DEF RowFollowed, Started
  <1> QED
    BY <1>7, <1>8, <1>11, <1>12 DEF FInv

LEMMA ReturnKeepsFollowed ==
    ASSUME IInv, FInv, Return
    PROVE  FInv'
  <1> DEFINE item == call.item
  <1>1. /\ call \in Calls /\ item \in Item /\ item \in Items /\ call # NULL /\ call.stage # "sent"
        /\ call' = NULL
        /\ returned' = returned \cup (IF item.kind = "failed" THEN {item.exec} ELSE {})
        /\ UNCHANGED <<kernelVars, storeVars, dpc>>
    BY ReturnTypes DEF Return
  <1>2. call.stage \in {"ok", "error"}
    BY <1>1, ItemFacts
  <1>3. UNCHANGED <<image, spent, unseen, queue>>
    BY <1>1 DEF kernelVars
  <1>4. file \in Seq(Item) /\ rest \in Seq(Item) /\ kept \in Seq(Item)
    BY Types
  \* What every way to return gives the rest of the argument.
  <1>5. /\ untracked \subseteq untracked'
        /\ \A it \in Stored : it \in Stored'
        /\ call.stage = "error" => item \in Stored'
        /\ Replaying'
        /\ Started => \/ item.exec \in untracked'
                      \/ dpc = "loop" /\ \E p \in DOMAIN tracker' : tracker'[p] = call.sid
        /\ \A p \in DOMAIN tracker : \/ records[tracker[p]].pid \in untracked'
                                     \/ p \in DOMAIN tracker' /\ tracker'[p] = tracker[p]
    <2>1. CASE ReturnInReplay
      <3>1. /\ dpc = "replay" /\ rest' = Tail(rest)
            /\ kept' = IF call.stage = "ok" THEN kept ELSE Append(kept, item)
            /\ untracked' = untracked \cup
                  (IF call.stage = "ok" /\ item.kind = "start" THEN {item.exec} ELSE {})
            /\ UNCHANGED <<tracker, file>>
        BY <2>1 DEF ReturnInReplay
      <3>2. rest # << >> /\ item = Head(rest)
        BY <1>1, <3>1 DEF IInv, Modes
      <3>3. /\ Lines(rest) = Lines(Tail(rest)) \cup {item}
            /\ Lines(Append(kept, item)) = Lines(kept) \cup {item}
        BY <1>1, <1>4, <3>2, LinesHeadTail, LinesAppended
      <3>4. /\ Lines(file)' = Lines(file) /\ Lines(rest)' = Lines(Tail(rest))
            /\ Lines(kept)' = IF call.stage = "ok" THEN Lines(kept) ELSE Lines(Append(kept, item))
        BY <3>1 DEF Lines
      <3>5. Stored = Lines(file) /\ Stored' = Lines(file)
        BY <1>1, <3>1, <3>4 DEF Stored
      <3>6. /\ \A it \in Lines(rest) \cup Lines(kept) : it \in Lines(file)
            /\ \A it \in Lines(file) : Settled(it) \/ it \in Lines(rest) \cup Lines(kept)
            /\ call.stage = "ok" => Settled(item)
        BY <1>1, <3>1 DEF FInv, Replaying, OkSettled
      <3>7. \A it : Settled(it)' <=> Settled(it)
        BY <1>1, <1>3, <3>1, Quiet
      <3>8. Replaying'
        <4>1. \A it \in Lines(rest)' \cup Lines(kept)' : it \in Lines(file)'
          BY <3>3, <3>4, <3>6
        <4>2. \A it \in Lines(file)' : Settled(it)' \/ it \in Lines(rest)' \cup Lines(kept)'
          BY <3>3, <3>4, <3>6, <3>7
        <4> QED
          BY <4>1, <4>2 DEF Replaying
      <3>9. call.stage = "error" => item \in Stored'
        BY <3>3, <3>5, <3>6
      <3> QED
        BY <3>1, <3>5, <3>8, <3>9 DEF Started
    <2>2. CASE ReturnInLoop
      <3>1. dpc = "loop" /\ UNCHANGED <<rest, kept>>
        BY <2>2 DEF ReturnInLoop
      <3>2. Replaying'
        BY <1>1, <3>1 DEF Replaying
      <3>3. Stored = Lines(file) /\ Stored' = Lines(file)'
        BY <1>1, <3>1 DEF Stored
      <3>4. CASE call.stage = "ok" /\ item.kind = "start"
        <4>1. PICK stale \in (IF Evicts THEN SUBSET DOMAIN tracker ELSE {{}}) :
                  Track(PidOf[item.exec], call.sid, stale)
          BY <2>2, <3>4 DEF ReturnInLoop
        <4>2. UNCHANGED file
          BY <2>2, <3>4 DEF ReturnInLoop
        <4> DEFINE p == PidOf[item.exec]
        <4>3. /\ tracker' = Put([q \in DOMAIN tracker \ stale |-> tracker[q]], p, call.sid)
              /\ untracked' = untracked \cup Lost(stale \cup (DOMAIN tracker \cap {p}))
          BY <4>1 DEF Track
        <4>4. p \in DOMAIN tracker' /\ tracker'[p] = call.sid
          BY <4>3 DEF Put
        <4>5. ASSUME NEW q \in DOMAIN tracker
              PROVE  \/ records[tracker[q]].pid \in untracked'
                     \/ q \in DOMAIN tracker' /\ tracker'[q] = tracker[q]
          <5>1. CASE q \in stale \/ q = p
            BY <4>3, <5>1 DEF Lost
          <5>2. CASE q \notin stale /\ q # p
            BY <4>3, <5>2 DEF Put
          <5> QED
            BY <5>1, <5>2
        <4>6. Stored' = Stored
          BY <3>3, <4>2 DEF Lines
        <4> QED
          BY <1>2, <3>1, <3>2, <3>4, <4>3, <4>4, <4>5, <4>6
      <3>5. CASE call.stage = "ok" /\ item.kind # "start"
        <4>1. UNCHANGED <<tracker, untracked, file>>
          BY <2>2, <3>5 DEF ReturnInLoop
        <4>2. Stored' = Stored
          BY <3>3, <4>1 DEF Lines
        <4> QED
          BY <3>2, <3>5, <4>1, <4>2 DEF Started
      <3>6. CASE call.stage = "error"
        <4>1. Keep(item) /\ UNCHANGED <<tracker, untracked>>
          BY <2>2, <3>6 DEF ReturnInLoop
        <4>2. Stored' = Stored \cup {item}
          <5>1. Lines(Append(file, item)) = Lines(file) \cup {item}
            BY <1>1, <1>4, LinesAppended
          <5>2. Lines(file)' = Lines(Append(file, item))
            BY <4>1 DEF Keep, Lines
          <5> QED
            BY <3>3, <5>1, <5>2
        <4> QED
          BY <3>2, <3>6, <4>1, <4>2 DEF Started
      <3> QED
        BY <1>2, <3>4, <3>5, <3>6
    <2> QED
      BY <2>1, <2>2 DEF Return
  <1>6. /\ \A e, m : Followed(e, m) => Followed(e, m)'
        /\ \A e : Logged(e)' <=> Logged(e)
        /\ \A i : IsActive(i)' <=> IsActive(i)
        /\ UNCHANGED <<records, execEvents>>
    BY <1>1, <1>3, <1>5, Quiet
  <1>7. OkSettled'
    BY <1>1 DEF OkSettled
  <1>8. FailuresStored'
    <2> SUFFICES ASSUME NEW e \in returned'
                 PROVE  Logged(e)' \/ ItemOf("failed", e) \in Stored'
      BY DEF FailuresStored, ItemOf
    <2>1. CASE e \in returned
      BY <1>5, <1>6, <2>1 DEF FInv, FailuresStored
    <2>2. CASE item.kind = "failed" /\ e = item.exec
      <3>1. item = ItemOf("failed", e)
        BY <1>1, <2>2 DEF Item, ItemOf
      <3>2. CASE call.stage = "ok"
        BY <1>1, <1>6, <2>2, <3>2 DEF FInv, OkSettled, Settled
      <3> QED
        BY <1>2, <1>5, <3>1, <3>2
    <2> QED
      BY <1>1, <2>1, <2>2
  <1>9. StartsFollowed'
    <2>1. ASSUME NEW m \in DOMAIN queue, queue[m].kind = "success"
          PROVE  Followed(queue[m].exec, m)'
      BY <1>3, <1>5, <2>1 DEF FInv, StartsFollowed, Followed, Running
    <2> QED
      BY <1>1, <1>3, <2>1 DEF StartsFollowed
  <1>10. RowsFollowed'
    <2> SUFFICES ASSUME NEW i \in DOMAIN records, IsActive(i)
                 PROVE  RowFollowed(i)'
      BY <1>6 DEF RowsFollowed
    <2>1. RowFollowed(i)
      BY DEF FInv, RowsFollowed
    <2>2. Followed(records[i].pid, 0) => Followed(records[i].pid, 0)'
      BY <1>3, <1>5, <1>6 DEF Followed, Running
    <2>3. CASE records[i].pid \in unseen \cup untracked
      BY <1>3, <1>5, <1>6, <2>3 DEF RowFollowed
    <2>4. CASE EndItem(i) \in Stored
      BY <1>5, <2>4 DEF RowFollowed, EndItem
    <2>5. CASE item = EndItem(i) /\ call.stage # "ok"
      <3>1. EndItem(i) \in Stored'
        BY <1>2, <1>5, <2>5
      <3> QED
        BY <3>1 DEF RowFollowed, EndItem
    <2>6. CASE Followed(records[i].pid, 0) /\ \E p \in DOMAIN tracker : tracker[p] = i
      <3>1. PICK p \in DOMAIN tracker : tracker[p] = i
        BY <2>6
      <3>2. CASE records[i].pid \in untracked'
        BY <1>6, <3>2 DEF RowFollowed
      <3>3. CASE p \in DOMAIN tracker' /\ tracker'[p] = i
        BY <2>2, <2>6, <3>3 DEF RowFollowed
      <3> QED
        BY <1>5, <3>1, <3>2, <3>3
    <2>7. CASE Started /\ call.sid = i
      <3>1. records[i].pid = item.exec
        BY <2>7 DEF IInv, StartedOwn
      <3>2. CASE item.exec \in untracked'
        BY <1>6, <3>1, <3>2 DEF RowFollowed
      <3>3. CASE dpc = "loop" /\ \E p \in DOMAIN tracker' : tracker'[p] = i
        <4>1. Followed(records[i].pid, 0)
          BY <2>7, <3>1, <3>3 DEF FInv, StartsFollowed, Started
        <4> QED
          BY <2>2, <3>3, <4>1 DEF RowFollowed
      <3> QED
        BY <1>5, <2>7, <3>2, <3>3
    <2> QED
      BY <2>1, <2>3, <2>4, <2>5, <2>6, <2>7 DEF RowFollowed
  <1> QED
    BY <1>5, <1>7, <1>8, <1>9, <1>10 DEF FInv

\* What an answer does to the tables and to the call: nothing is taken back,
\* the only new row is the one of the start, and "ok" means done.
Answered ==
    /\ call' # NULL /\ call'.item = call.item
    /\ \A e : Logged(e) => Logged(e)'
    /\ \A i \in DOMAIN records : /\ i \in DOMAIN records' /\ records'[i].pid = records[i].pid
                                 /\ IsActive(i)' => IsActive(i)
    /\ \A i \in DOMAIN records' : i \in DOMAIN records \/ (Started' /\ call'.sid = i)
    /\ call'.stage = "ok" => Settled(call.item)'
    /\ call.item.kind = "end" /\ IsActive(call.item.sid)' => call'.stage # "ok"

LEMMA ServeAnswers ==
    ASSUME IInv, Serve
    PROVE  Answered
  <1> DEFINE item == call.item
  <1>1. call \in Calls /\ call # NULL /\ item \in Item /\ item \in Items
    BY ServeFrame
  <1>2. Host \in Clients /\ NULL \in Ids \cup {NULL}
    BY DaemonAssumption
  <1>3. ASSUME item.kind = "start", StartSession(Host, item.exec), Answer("ok", NextId)
        PROVE  Answered
    <2>1. item.exec \in Execs /\ item.exec \in Pids
      BY <1>1, <1>3, ItemFacts
    <2> DEFINE row == [client |-> Host, pid |-> item.exec, start |-> now,
                       end |-> NULL, duration |-> NULL, status |-> "active"]
    <2>2. row \in Row
      BY <1>2, <2>1, RowTypes DEF IInv
    <2>3. Insert(row) /\ UNCHANGED execEvents
      BY <1>3 DEF StartSession
    <2> HIDE DEF row
    <2>4. /\ seq' \in Ids /\ seq' = seq + 1 /\ DOMAIN records' = DOMAIN records \cup {seq'}
          /\ \A i \in DOMAIN records : records'[i] = records[i]
      BY <2>2, <2>3, InsertFacts DEF IInv, StoreInv
    <2>5. Answer("ok", seq')
      BY <1>3, <2>4 DEF NextId
    <2>6. call' # NULL /\ call'.item = item /\ call'.stage = "ok" /\ call'.sid = seq'
      BY <1>1, <2>4, <2>5, AnswerFacts
    <2>7. Started' /\ Settled(call.item)'
      BY <1>3, <2>6 DEF Started, Settled
    <2> QED
      BY <1>3, <2>3, <2>4, <2>6, <2>7 DEF Answered, Logged, IsActive
  <1>4. ASSUME item.kind = "end", EndSession(item.sid, Host), Answer("ok", NULL)
        PROVE  Answered
    <2>1. item.sid \in DOMAIN records
      BY <1>1, <1>4 DEF IInv, EndsApart
    <2> DEFINE row == Completed(records[item.sid], now)
    <2>2. row \in Row /\ CloseRow(item.sid, row)
      BY <1>4, <2>1, RowTypes DEF EndSession, IInv
    <2>3. row.pid = records[item.sid].pid /\ row.status = "completed"
      <3>1. records[item.sid] \in Row
        BY <2>1 DEF IInv, StoreTypeOK
      <3> QED
        BY <3>1 DEF Completed, Row
    <2> HIDE DEF row
    <2>4. /\ DOMAIN records' = DOMAIN records /\ records'[item.sid] = row
          /\ \A i \in DOMAIN records : i # item.sid => records'[i] = records[i]
          /\ UNCHANGED execEvents
      BY <2>1, <2>2, CloseFacts DEF IInv
    <2>5. call' # NULL /\ call'.item = item /\ call'.stage = "ok"
      BY <1>1, <1>2, <1>4, AnswerFacts
    <2>6. ~IsActive(item.sid)'
      BY <2>3, <2>4, <2>5 DEF IsActive
    <2>7. Settled(call.item)'
      BY <1>4, <2>5, <2>6 DEF Settled, IsActive
    <2> QED
      BY <1>4, <2>3, <2>4, <2>5, <2>6, <2>7 DEF Answered, Logged, IsActive
  <1>5. ASSUME item.kind = "failed", LogExecEvent(Host, item.exec), Answer("ok", NULL)
        PROVE  Answered
    <2>1. /\ UNCHANGED records
          /\ execEvents' = Append(execEvents, [client |-> Host, pid |-> item.exec])
      BY <1>5 DEF LogExecEvent
    <2>2. /\ call' # NULL /\ call'.item = item /\ call'.stage = "ok"
      BY <1>1, <1>2, <1>5, AnswerFacts
    <2>3. \A e : (Logged(e) \/ e = item.exec) => Logged(e)'
      <3> DEFINE S == [client : Clients, pid : Pids \cup {NULL}]
                 x == [client |-> Host, pid |-> item.exec]
      <3>1. item.exec \in Pids
        BY <1>1, <1>5, ItemFacts
      <3>2. execEvents \in Seq(S) /\ x \in S
        BY <1>2, <3>1 DEF IInv, StoreTypeOK
      <3>3. x.pid = item.exec
        OBVIOUS
      <3> HIDE DEF S, x
      <3>4. /\ DOMAIN execEvents \subseteq DOMAIN Append(execEvents, x)
            /\ \A n \in DOMAIN execEvents : Append(execEvents, x)[n] = execEvents[n]
            /\ Len(execEvents) + 1 \in DOMAIN Append(execEvents, x)
            /\ Append(execEvents, x)[Len(execEvents) + 1] = x
        BY <3>2
      <3>5. execEvents' = Append(execEvents, x)
        BY <2>1 DEF x
      <3> QED
        BY <3>3, <3>4, <3>5 DEF Logged
    <2>4. Settled(call.item)'
      BY <1>5, <2>2, <2>3 DEF Settled, Logged
    <2> QED
      BY <1>5, <2>1, <2>2, <2>3, <2>4 DEF Answered, IsActive
  <1>6. ASSUME Answer("error", NULL), UNCHANGED storeVars
        PROVE  Answered
    <2>1. UNCHANGED <<records, execEvents>>
      BY <1>6 DEF storeVars
    <2>2. call' # NULL /\ call'.item = item /\ call'.stage = "error"
      BY <1>1, <1>2, <1>6, AnswerFacts
    <2> QED
      BY <2>1, <2>2 DEF Answered, Logged, IsActive
  <1> QED
    BY <1>3, <1>4, <1>5, <1>6 DEF Serve

LEMMA ServeKeepsFollowed ==
    ASSUME IInv, FInv, Serve
    PROVE  FInv'
  <1>1. /\ call # NULL /\ call.stage = "sent" /\ call.item \in Items
        /\ UNCHANGED <<dpc, tracker, file, rest, kept, untracked, returned>>
        /\ UNCHANGED <<image, spent, unseen, queue>>
    BY ServeFrame
  <1>2. /\ call' # NULL /\ call'.item = call.item
        /\ \A e : Logged(e) => Logged(e)'
        /\ \A i \in DOMAIN records : /\ i \in DOMAIN records' /\ records'[i].pid = records[i].pid
                                     /\ IsActive(i)' => IsActive(i)
        /\ \A i \in DOMAIN records' : i \in DOMAIN records \/ (Started' /\ call'.sid = i)
        /\ call'.stage = "ok" => Settled(call.item)'
        /\ call.item.kind = "end" /\ IsActive(call.item.sid)' => call'.stage # "ok"
    BY ServeAnswers DEF Answered
  <1>3. /\ Stored' = Stored
        /\ Lines(file)' = Lines(file) /\ Lines(rest)' = Lines(rest) /\ Lines(kept)' = Lines(kept)
    BY <1>1 DEF Stored, Lines
  <1>4. ASSUME NEW it \in Items, Settled(it)
        PROVE  Settled(it)'
    <2>1. it.kind = "end" => it.sid \in DOMAIN records
      BY DEF IInv, EndsApart
    <2> QED
      BY <1>2, <1>4, <2>1 DEF Settled
  <1>5. Lines(file) \subseteq Items
    BY DEF Items
  <1>6. Replaying'
    BY <1>1, <1>3, <1>4, <1>5 DEF FInv, Replaying
  <1>7. OkSettled'
    BY <1>2 DEF OkSettled, Settled
  <1>8. FailuresStored'
    BY <1>1, <1>2, <1>3 DEF FInv, FailuresStored, ItemOf
  <1>9. StartsFollowed'
    <2>1. \A m \in DOMAIN queue : queue[m].kind = "success" => Followed(queue[m].exec, m)'
      BY <1>1 DEF FInv, StartsFollowed, Followed, Running
    <2>2. dpc = "loop" /\ call.item.kind = "start" => Followed(call.item.exec, 0)'
      BY <1>1, <1>2 DEF FInv, StartsFollowed, Followed, Running
    <2> QED
      BY <1>1, <1>2, <2>1, <2>2 DEF StartsFollowed
  <1>10. RowsFollowed'
    <2> SUFFICES ASSUME NEW i \in DOMAIN records', IsActive(i)'
                 PROVE  RowFollowed(i)'
      BY DEF RowsFollowed
    <2>1. CASE Started' /\ call'.sid = i
      BY <2>1 DEF RowFollowed, Started
    <2>2. CASE i \in DOMAIN records
      <3>1. RowFollowed(i) /\ records'[i].pid = records[i].pid
        BY <1>2, <2>2 DEF FInv, RowsFollowed
      <3>2. Followed(records[i].pid, 0) => Followed(records[i].pid, 0)'
        BY <1>1, <3>1 DEF Followed, Running
      <3>3. call.item = EndItem(i) => call'.item = EndItem(i) /\ call'.stage # "ok"
        <4>1. EndItem(i).kind = "end" /\ EndItem(i).sid = i
          BY DEF EndItem
        <4> QED
          BY <1>2, <4>1
      <3>4. ~Started
        BY <1>1 DEF Started
      <3> QED
        BY <1>1, <1>2, <1>3, <3>1, <3>2, <3>3, <3>4 DEF RowFollowed, EndItem
    <2> QED
      BY <1>2, <2>1, <2>2
  <1> QED
    BY <1>6, <1>7, <1>8, <1>9, <1>10 DEF FInv

LEMMA FollowedInitially ==
    ASSUME DaemonInit
    PROVE  FInv
  <1>1. /\ dpc = "down" /\ call = NULL /\ returned = {} /\ DOMAIN queue = {} /\ DOMAIN records = {}
    BY DEF DaemonInit, KernelInit, StoreInit
  <1> QED
    BY <1>1 DEF FInv, Replaying, OkSettled, FailuresStored, StartsFollowed, RowsFollowed

LEMMA FollowedKept ==
    ASSUME IInv, FInv, [EbpfNext]_ebpfVars, "rewrite" \notin Crashes
    PROVE  FInv'
  <1>1. CASE Kernel
    BY <1>1, KernelKeepsFollowed
  <1>2. CASE Start
    BY <1>2, StartKeepsFollowed
  <1>3. CASE ReplayNext
    BY <1>3, ReplayNextKeepsFollowed
  <1>4. CASE ReplayEnd
    BY <1>4, ReplayEndKeepsFollowed
  <1>5. CASE RewriteLine
    BY <1>5, RewriteLineKeepsFollowed
  <1>6. CASE TakeEvent
    BY <1>6, TakeEventKeepsFollowed
  <1>7. CASE Return
    BY <1>7, ReturnKeepsFollowed
  <1>8. CASE Serve
    BY <1>8, ServeKeepsFollowed
  <1>9. CASE CallFails
    BY <1>9, CallFailsKeepsFollowed
  <1>10. CASE Shutdown \/ Crash
    BY <1>10, GoDownKeepsFollowed
  <1>11. CASE UNCHANGED ebpfVars
    <2>1. /\ UNCHANGED <<image, unseen, queue, storeVars>>
          /\ UNCHANGED <<dpc, call, tracker, file, rest, kept, untracked, returned>>
      BY <1>11 DEF ebpfVars, kernelVars, daemonVars
    <2>2. UNCHANGED <<records, execEvents>>
      BY <2>1 DEF storeVars
    <2>3. Replaying' /\ OkSettled' /\ FailuresStored'
      BY <2>1, <2>2 DEF FInv, Replaying, OkSettled, FailuresStored, Stored, Lines, Settled, Logged,
                        IsActive, ItemOf
    <2>4. StartsFollowed'
      BY <2>1 DEF FInv, StartsFollowed, Followed, Running
    <2>5. RowsFollowed'
      BY <2>1, <2>2 DEF FInv, RowsFollowed, RowFollowed, Followed, Running, Stored, Lines, Started,
                        IsActive, EndItem
    <2> QED
      BY <2>3, <2>4, <2>5 DEF FInv
  <1> QED
    BY <1>1, <1>2, <1>3, <1>4, <1>5, <1>6, <1>7, <1>8, <1>9, <1>10, <1>11 DEF EbpfNext

LEMMA FollowedAlways ==
    ASSUME "rewrite" \notin Crashes
    PROVE  EbpfSpec => []FInv
  <1>1. DaemonInit => FInv
    BY FollowedInitially
  <1>2. IInv /\ FInv /\ [EbpfNext]_ebpfVars => FInv'
    BY FollowedKept
  <1> QED
    BY <1>1, <1>2, InvAlways, PTL DEF EbpfSpec

\* A failed exec whose export has returned is in the exec_events table, or in
\* the retry file or the replay, through any failures, restarts and crashes:
\* all but a crash while the file is written back, which loses what was not.
THEOREM FailedExecsKept ==
    ASSUME "rewrite" \notin Crashes
    PROVE  EbpfSpec => []FailuresKept
  <1>1. FInv => FailuresKept
    BY DEF FInv, FailuresStored, FailuresKept, Stored, Logged
  <1> QED
    BY <1>1, FollowedAlways, PTL

\* A daemon with nothing left to do has left no session without an end but for
\* the named causes, unless it crashed while the file was written back.
THEOREM SessionsAccountedFor ==
    ASSUME "rewrite" \notin Crashes
    PROVE  EbpfSpec => []UnendedExplained
  <1>1. ASSUME IInv, FInv
        PROVE  UnendedExplained
    <2> SUFFICES ASSUME dpc = "loop", call = NULL, queue = << >>, NEW i \in Ids, IsActive(i)
                 PROVE  \/ Running(records[i].pid)
                        \/ records[i].pid \in unseen \cup untracked
                        \/ EndItem(i) \in Lines(file)
      BY DEF UnendedExplained, Idle
    <2>1. RowFollowed(i)
      BY <1>1 DEF FInv, RowsFollowed, IsActive
    <2>2. Stored = Lines(file) /\ ~Started /\ DOMAIN queue = {}
      BY DEF Stored, Started
    <2> QED
      BY <2>1, <2>2 DEF RowFollowed, Followed
  <1> QED
    BY <1>1, InvAlways, FollowedAlways, PTL

=============================================================================
