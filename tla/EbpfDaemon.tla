------------------------------ MODULE EbpfDaemon ------------------------------
(***************************************************************************)
(* The tspan-ebpf daemon (src/tspan-ebpf/src): its main loop, the tracker  *)
(* of sessions by pid, and the retry file that failed exports are appended *)
(* to and that is replayed at the next start.  It is composed with the     *)
(* kernel side (EbpfKernel) and with the server's database (SessionStore); *)
(* a handler's critical section is one step (SessionApi), so a request is  *)
(* served in one step here too.                                            *)
(*                                                                         *)
(* The process_id of a row, and of a row of exec_events, is its exec       *)
(* instance here, which also tells apart what the command column does.     *)
(*                                                                         *)
(* The daemon makes one call at a time.  A call may fail before it is      *)
(* served or lose its reply; either way the exporter returns an error.     *)
(* The retry file survives the daemon; tracker, queue and BPF maps do not. *)
(***************************************************************************)
EXTENDS EbpfKernel, SessionStore

CONSTANTS
    Host,           \* the client id the daemon builds (build_client_id)
    Denied,         \* exec instances the filter rejects
    MaxFaults,      \* bound: failed calls
    MaxRestarts,    \* bound: shutdowns and crashes
    Crashes,        \* where the daemon may crash: values of dpc
    Evicts          \* whether sessions may outlive TRACKER_STALE_SECS

\* What the daemon writes to the retry file, and what it has in flight.
Item == [kind : {"start", "failed"}, exec : Execs, sid : {NULL}]
            \cup [kind : {"end"}, exec : {NULL}, sid : Ids]

Calls == [item : Item, stage : {"sent", "ok", "error"}, sid : Ids \cup {NULL}]

ASSUME DaemonAssumption ==
    /\ NULL \notin Calls
    /\ Host \in Clients /\ Denied \subseteq Execs /\ Execs \subseteq Pids
    /\ MaxFaults \in Nat /\ MaxRestarts \in Nat
    /\ Crashes \subseteq {"replay", "rewrite", "loop"} /\ Evicts \in BOOLEAN

VARIABLES
    dpc,            \* down, replay, rewrite or loop
    call,           \* the request in flight, or NULL
    tracker,        \* pid -> session id
    file,           \* the retry file, one item per line
    rest, kept,     \* replay: lines to come, lines to write back
    faults, restarts,
    untracked,      \* execs with a session the tracker will not lead to
    returned        \* failed execs whose export has returned

daemonVars == <<dpc, call, tracker, file, rest, kept, faults, restarts, untracked, returned>>

ebpfVars == <<kernelVars, storeVars, daemonVars>>

DaemonTypeOK ==
    /\ KernelTypeOK
    /\ dpc \in {"down", "replay", "rewrite", "loop"}
    /\ call \in Calls \cup {NULL}
    /\ DOMAIN tracker \subseteq OsPids /\ tracker \in [DOMAIN tracker -> Ids]
    /\ {file, rest, kept} \subseteq Seq(Item)
    /\ faults \in 0..MaxFaults /\ restarts \in 0..MaxRestarts
    /\ untracked \subseteq Execs /\ returned \subseteq Execs

DaemonInit ==
    /\ KernelInit /\ StoreInit
    /\ dpc = "down" /\ call = NULL /\ tracker = << >>
    /\ file = << >> /\ rest = << >> /\ kept = << >>
    /\ faults = 0 /\ restarts = 0 /\ untracked = {} /\ returned = {}

ItemOf(kind, e) == [kind |-> kind, exec |-> e, sid |-> NULL]
EndItem(id) == [kind |-> "end", exec |-> NULL, sid |-> id]

Request(item) == [item |-> item, stage |-> "sent", sid |-> NULL]

-----------------------------------------------------------------------------
(* Start, replay *)

\* load_and_attach, then replay what the file holds.
Start ==
    /\ dpc = "down"
    /\ Reload
    /\ dpc' = IF file = << >> THEN "loop" ELSE "replay"
    /\ rest' = file
    /\ kept' = << >>
    /\ UNCHANGED <<image, spent, unseen, storeVars, call, tracker, file, faults, restarts,
                   untracked, returned>>

ReplayNext ==
    /\ dpc = "replay" /\ call = NULL /\ rest # << >>
    /\ call' = Request(Head(rest))
    /\ UNCHANGED <<kernelVars, storeVars, dpc, tracker, file, rest, kept, faults, restarts,
                   untracked, returned>>

\* The file is removed, or truncated to be written back line by line.
ReplayEnd ==
    /\ dpc = "replay" /\ call = NULL /\ rest = << >>
    /\ dpc' = IF kept = << >> THEN "loop" ELSE "rewrite"
    /\ file' = << >>
    /\ UNCHANGED <<kernelVars, storeVars, call, tracker, rest, kept, faults, restarts,
                   untracked, returned>>

RewriteLine ==
    /\ dpc = "rewrite"
    /\ file' = Append(file, Head(kept))
    /\ kept' = Tail(kept)
    /\ dpc' = IF Tail(kept) = << >> THEN "loop" ELSE "rewrite"
    /\ UNCHANGED <<kernelVars, storeVars, call, tracker, rest, faults, restarts,
                   untracked, returned>>

-----------------------------------------------------------------------------
(* Main loop *)

\* Not in the code: the session of a pid is looked up, not taken out.
UntrackPeeks(p) == p \in DOMAIN tracker /\ UNCHANGED tracker

\* Tracker::remove.
Untrack(p) == p \in DOMAIN tracker /\ tracker' = Drop(tracker, p)

\* A call for the event, or nothing: the filter rejects it, or it is the exit
\* of a process without a tracked session.
TakeEvent ==
    /\ dpc = "loop" /\ call = NULL /\ queue # << >>
    /\ LET ev == Head(queue) IN
        \/ /\ ev.kind # "exit" /\ ev.exec \in Denied
           /\ UNCHANGED <<call, tracker>>
        \/ /\ ev.kind # "exit" /\ ev.exec \notin Denied
           /\ call' = Request(ItemOf(IF ev.kind = "success" THEN "start" ELSE "failed", ev.exec))
           /\ UNCHANGED tracker
        \/ /\ ev.kind = "exit" /\ Untrack(ev.pid)
           /\ call' = Request(EndItem(tracker[ev.pid]))
        \/ /\ ev.kind = "exit" /\ ev.pid \notin DOMAIN tracker
           /\ UNCHANGED <<call, tracker>>
    /\ queue' = Tail(queue)
    /\ UNCHANGED <<image, spent, active, unseen, storeVars, dpc, file, rest, kept, faults,
                   restarts, untracked, returned>>

\* The execs of the sessions under these pids in the tracker.
Lost(pids) == {records[tracker[p]].pid : p \in pids}

\* Not in the code: an insert that keeps the entry the pid already has.
TrackFirst(p, id, stale) ==
    /\ tracker' = IF p \in DOMAIN tracker THEN tracker ELSE Put(tracker, p, id)
    /\ UNCHANGED untracked

\* Tracker::insert: evict what is stale, then insert or replace.
Track(p, id, stale) ==
    /\ tracker' = Put([q \in DOMAIN tracker \ stale |-> tracker[q]], p, id)
    /\ untracked' = untracked \cup Lost(stale \cup (DOMAIN tracker \cap {p}))

\* Not in the code: only sessions are written to the retry file.
KeepSessions(item) ==
    IF item.kind = "failed" THEN UNCHANGED file ELSE file' = Append(file, item)

\* RetryBuffer::append.
Keep(item) == file' = Append(file, item)

\* Not in the code: the reply to a start is used without a look at its status.
ReturnInLoopUnchecked ==
    /\ dpc = "loop"
    /\ IF call.item.kind = "start"
       THEN Track(PidOf[call.item.exec], call.sid, {}) /\ UNCHANGED file
       ELSE Keep(call.item) /\ UNCHANGED <<tracker, untracked>>
    /\ UNCHANGED <<rest, kept>>

ReturnInLoop ==
    /\ dpc = "loop"
    /\ \/ /\ call.stage = "ok" /\ call.item.kind = "start"
          /\ \E stale \in IF Evicts THEN SUBSET DOMAIN tracker ELSE {{}} :
                Track(PidOf[call.item.exec], call.sid, stale)
          /\ UNCHANGED file
       \/ /\ call.stage = "ok" /\ call.item.kind # "start"
          /\ UNCHANGED <<tracker, untracked, file>>
       \/ /\ call.stage = "error"
          /\ Keep(call.item)
          /\ UNCHANGED <<tracker, untracked>>
    /\ UNCHANGED <<rest, kept>>

\* Not in the code: an item that fails is tried again before the next one.
ReturnInReplayRetries ==
    /\ dpc = "replay"
    /\ rest' = IF call.stage = "ok" THEN Tail(rest) ELSE rest
    /\ UNCHANGED <<kept, tracker, file, untracked>>

\* replay only asks whether the call succeeded: the id of a session it starts
\* is dropped.
ReturnInReplay ==
    /\ dpc = "replay"
    /\ rest' = Tail(rest)
    /\ kept' = IF call.stage = "ok" THEN kept ELSE Append(kept, call.item)
    /\ untracked' = untracked \cup
          (IF call.stage = "ok" /\ call.item.kind = "start" THEN {call.item.exec} ELSE {})
    /\ UNCHANGED <<tracker, file>>

Return ==
    /\ call # NULL /\ call.stage # "sent"
    /\ ReturnInLoop \/ ReturnInReplay
    /\ call' = NULL
    /\ returned' = returned \cup (IF call.item.kind = "failed" THEN {call.item.exec} ELSE {})
    /\ UNCHANGED <<kernelVars, storeVars, dpc, faults, restarts>>

-----------------------------------------------------------------------------
(* The server, failed calls and the end of the daemon *)

Answer(stage, id) == call' = [call EXCEPT !.stage = stage, !.sid = id]

Serve ==
    /\ call # NULL /\ call.stage = "sent"
    /\ LET item == call.item IN
        \/ item.kind = "start" /\ StartSession(Host, item.exec) /\ Answer("ok", NextId)
        \/ item.kind = "failed" /\ LogExecEvent(Host, item.exec) /\ Answer("ok", NULL)
        \/ item.kind = "end" /\ EndSession(item.sid, Host) /\ Answer("ok", NULL)
        \/ /\ item.kind = "end" /\ ~EndMatches(item.sid, Host)
           /\ Answer("error", NULL) /\ UNCHANGED storeVars
    /\ UNCHANGED <<kernelVars, dpc, tracker, file, rest, kept, faults, restarts, untracked,
                   returned>>

\* The execs of a start that was served and whose reply is lost.
Unanswered ==
    IF call # NULL /\ call.stage = "ok" /\ call.item.kind = "start" THEN {call.item.exec} ELSE {}

CallFails ==
    /\ faults < MaxFaults /\ faults' = faults + 1
    /\ call # NULL /\ call.stage # "error"
    /\ Answer("error", NULL)
    /\ untracked' = untracked \cup Unanswered
    /\ UNCHANGED <<kernelVars, storeVars, dpc, tracker, file, rest, kept, restarts, returned>>

\* The sessions a daemon that goes away stops following.
Forgotten ==
    Lost(DOMAIN tracker) \cup Unanswered \cup
        (IF call # NULL /\ call.item.kind = "end" THEN {records[call.item.sid].pid} ELSE {})

GoDown ==
    /\ restarts < MaxRestarts /\ restarts' = restarts + 1
    /\ dpc' = "down"
    /\ Reload
    /\ tracker' = << >> /\ call' = NULL /\ rest' = << >> /\ kept' = << >>
    /\ untracked' = untracked \cup Forgotten
    /\ UNCHANGED <<image, spent, unseen, storeVars, file, faults, returned>>

\* SIGTERM: the poll task stops, what is in the channel is still processed
\* (TakeEvent), the rest of the ring buffer is not.  Sessions still tracked
\* are logged as orphans and left running.
Shutdown == dpc = "loop" /\ call = NULL /\ GoDown

\* Until replay is over SIGTERM kills the daemon as well: it has no handler yet.
Crash == dpc \in Crashes /\ GoDown

Kernel == KernelStep(dpc # "down") /\ UNCHANGED <<storeVars, daemonVars>>

EbpfNext ==
    \/ Kernel
    \/ Start
    \/ ReplayNext
    \/ ReplayEnd
    \/ RewriteLine
    \/ TakeEvent
    \/ Return
    \/ Serve
    \/ CallFails
    \/ Shutdown
    \/ Crash

EbpfSpec == DaemonInit /\ [][EbpfNext]_ebpfVars

\* The daemon's loop runs and a call returns: the server answers or the
\* connection breaks.  Nothing restarts the daemon.
EbpfFairness ==
    /\ WF_ebpfVars(ReplayNext)
    /\ WF_ebpfVars(ReplayEnd)
    /\ WF_ebpfVars(RewriteLine)
    /\ WF_ebpfVars(TakeEvent)
    /\ WF_ebpfVars(Return)
    /\ WF_ebpfVars(Serve)

EbpfFairSpec == EbpfSpec /\ EbpfFairness

-----------------------------------------------------------------------------
(* Properties *)

Running(e) == image[PidOf[e]] = e

Lines(seqOfItems) == {seqOfItems[i] : i \in DOMAIN seqOfItems}

Idle == dpc = "loop" /\ call = NULL /\ queue = << >>

\* The tracker leads each pid to a running session that was started for an
\* exec of that pid, and no two pids to the same one.
TrackerLeadsToOwn ==
    \A p \in DOMAIN tracker :
        /\ IsActive(tracker[p])
        /\ PidOf[records[tracker[p]].pid] = p

DaemonInv == DaemonTypeOK /\ TrackerLeadsToOwn

\* A session is ended only when its program is gone: late, replayed and lost
\* messages and the reuse of pids never end the session of a running program.
EndedAfterExit ==
    \A i \in DOMAIN records :
        records[i].status = "completed" => ~Running(records[i].pid)

\* Where sessions without an end come from.  When the daemon has nothing left
\* to do, the session of a program that is gone has been ended, or its end is
\* in the retry file; the exceptions are programs that ended without an exit
\* event of their own (replaced by another exec, or the event did not fit) and
\* sessions the tracker lost (restart, eviction, lost reply, replayed start).
UnendedExplained ==
    Idle =>
        \A i \in Ids :
            IsActive(i) =>
                LET e == records[i].pid IN
                \/ Running(e)
                \/ e \in unseen \cup untracked
                \/ EndItem(i) \in Lines(file)

\* A failed exec whose export returned is in the exec_events table or in the
\* retry file (or on its way from one to the other): "failed exports are
\* buffered to a local JSONL file and replayed" (tspan-ebpf/README.md:31).
FailuresKept ==
    \A e \in returned :
        \/ \E n \in DOMAIN execEvents : execEvents[n].pid = e
        \/ ItemOf("failed", e) \in Lines(file) \cup Lines(rest) \cup Lines(kept)

\* Replay comes to an end, whatever fails: an item the server keeps refusing
\* does not keep the daemon from accepting new events.
ReplayEnds == dpc \in {"replay", "rewrite"} ~> dpc \in {"loop", "down"}

\* "ExecSuccess -> start -> track PID locally -> on ProcessExit -> end"
\* (tspan-ebpf/README.md:29): a program that is gone has no running session
\* once the daemon has handled every event, if no call failed and the daemon
\* was never restarted.
EveryExitEndsSession ==
    Idle /\ faults = 0 /\ restarts = 0 =>
        \A i \in Ids : IsActive(i) => Running(records[i].pid)

=============================================================================
