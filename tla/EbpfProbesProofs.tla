--------------------------- MODULE EbpfProbesProofs ----------------------------
(***************************************************************************)
(* For any execs, cpus, slots and queue: the probes mix arguments up only  *)
(* in the two ways EbpfProbes names, and implement EbpfKernel, on which    *)
(* the model of the daemon rests.                                          *)
(***************************************************************************)
EXTENDS EbpfProbes, TLAPS

MaybeExec == Execs \cup {NoExec}

RingEvent ==
    [kind : {"success", "failed", "exit"}, pid : OsPids, exec : MaybeExec,
     args : MaybeExec, strayed : BOOLEAN]

\* What the proofs need of the types.
Types ==
    /\ rb \in Seq(RingEvent)
    /\ spent \subseteq Execs
    /\ attached \in BOOLEAN
    /\ DOMAIN calls \subseteq Execs \ spent
    /\ ctx \in [Tids -> MaybeExec]
    /\ scratch \in [Cpus -> [Slots -> MaybeExec]]

\* A task is in one call; the context under its id is that of the call or none,
\* and its slot is the call's unless the call was disturbed.
CallsOwnContexts ==
    /\ \A e, f \in DOMAIN calls : TidOf[e] = TidOf[f] => e = f
    /\ ~attached => \A t \in Tids : ctx[t] = NoExec
    /\ \A e \in DOMAIN calls :
        /\ calls[e] \in Cpus
        /\ ctx[TidOf[e]] # NoExec =>
            /\ ctx[TidOf[e]] = e
            /\ scratch[calls[e]][Slot[TidOf[e]]] = e \/ e \in disturbed

IInv == Types /\ CallsOwnContexts /\ ContextsFreed /\ ArgumentsExplained

-----------------------------------------------------------------------------
(* Identifiers, and what becomes of the ring buffer *)

LEMMA Ids ==
    ASSUME NEW e \in Execs
    PROVE  TidOf[e] \in Tids /\ PidOf[e] \in OsPids /\ Slot[TidOf[e]] \in Slots /\ e # NoExec
  BY ProbesAssumption DEF Tids

\* What it takes for an event to be explained.
Explained(x) == x.kind # "exit" => x.args = x.exec \/ x.strayed

LEMMA RingAppended ==
    ASSUME Types, ArgumentsExplained, NEW x \in RingEvent, Explained(x), rb' = Append(rb, x)
    PROVE  rb' \in Seq(RingEvent) /\ ArgumentsExplained'
  <1>1. rb \in Seq(RingEvent)
    BY DEF Types
  <1>2. rb' \in Seq(RingEvent) /\ Len(rb') = Len(rb) + 1
    BY <1>1
  <1>3. ASSUME NEW i \in DOMAIN rb'
        PROVE  Explained(rb'[i])
    <2>1. i \in 1..(Len(rb) + 1)
      BY <1>2, <1>3
    <2>2. CASE i = Len(rb) + 1
      BY <1>1, <2>2
    <2>3. CASE i # Len(rb) + 1
      <3>1. i \in DOMAIN rb /\ rb'[i] = rb[i]
        BY <1>1, <2>1, <2>3
      <3> QED
        BY <3>1 DEF ArgumentsExplained, Explained
    <2> QED
      BY <2>2, <2>3
  <1> QED
    BY <1>2, <1>3 DEF ArgumentsExplained, Explained

LEMMA RingTaken ==
    ASSUME Types, ArgumentsExplained, rb # << >>, rb' = Tail(rb)
    PROVE  rb' \in Seq(RingEvent) /\ ArgumentsExplained'
  <1>1. rb \in Seq(RingEvent)
    BY DEF Types
  <1>2. rb' \in Seq(RingEvent) /\ \A i \in DOMAIN rb' : i + 1 \in DOMAIN rb /\ rb'[i] = rb[i + 1]
    BY <1>1
  <1> QED
    BY <1>2 DEF ArgumentsExplained

-----------------------------------------------------------------------------
(* The invariant *)

LEMMA InvInitially == ProbesInit => IInv
  <1> SUFFICES ASSUME ProbesInit PROVE IInv
    OBVIOUS
  <1>1. Types
    <2>1. << >> \in Seq(RingEvent) /\ DOMAIN << >> = {}
      OBVIOUS
    <2>2. ctx \in [Tids -> MaybeExec] /\ scratch \in [Cpus -> [Slots -> MaybeExec]]
      BY DEF ProbesInit, NoContexts, Unwritten, MaybeExec
    <2> QED
      BY <2>1, <2>2 DEF ProbesInit, Types
  <1>2. CallsOwnContexts /\ ContextsFreed /\ ArgumentsExplained
    BY DEF ProbesInit, CallsOwnContexts, ContextsFreed, ArgumentsExplained, NoContexts
  <1> QED
    BY <1>1, <1>2 DEF IInv

LEMMA EnterKeepsInv ==
    ASSUME IInv, NEW e \in Execs, NEW c \in Cpus, Enter(e, c)
    PROVE  IInv'
  <1> USE DEF IInv
  <1> DEFINE t == TidOf[e]
  <1>1. t \in Tids /\ Slot[t] \in Slots /\ e # NoExec
    BY Ids
  <1>2. DOMAIN calls' = DOMAIN calls \cup {e} /\ calls'[e] = c
        /\ \A f \in DOMAIN calls : f # e /\ TidOf[f] # t /\ calls'[f] = calls[f]
    BY DEF Enter
  <1>3. UNCHANGED <<spent, attached, rb>> /\ e \notin spent
    BY DEF Enter, procVars
  <1>4. CASE attached
    <2>1. ctx' = [ctx EXCEPT ![t] = e] /\ scratch' = [scratch EXCEPT ![c][Slot[t]] = e]
      BY <1>4 DEF Enter, SlotOf
    <2>2. Types'
      BY <1>1, <1>2, <1>3, <2>1 DEF Types, MaybeExec
    <2>3. ctx'[t] = e /\ scratch'[c][Slot[t]] = e
      BY <1>1, <2>1 DEF Types
    <2>4. ASSUME NEW f \in DOMAIN calls
          PROVE  ctx'[TidOf[f]] = ctx[TidOf[f]] /\ Slot[TidOf[f]] \in Slots
      BY <1>1, <1>2, <2>1, Ids DEF Types
    <2>5. ASSUME NEW f \in DOMAIN calls,
                 scratch'[calls[f]][Slot[TidOf[f]]] # scratch[calls[f]][Slot[TidOf[f]]]
          PROVE  f \in disturbed'
      <3>1. calls[f] \in Cpus /\ Slot[TidOf[f]] \in Slots
        BY <2>4 DEF CallsOwnContexts
      <3>2. calls[f] = c /\ Slot[TidOf[f]] = Slot[t]
        BY <1>1, <2>1, <2>5, <3>1 DEF Types
      <3> QED
        BY <3>2 DEF Enter
    <2>6. CallsOwnContexts'
      <3>1. disturbed \subseteq disturbed'
        BY DEF Enter
      <3>2. \A f, g \in DOMAIN calls' : TidOf[f] = TidOf[g] => f = g
        BY <1>2 DEF CallsOwnContexts
      <3>3. ASSUME NEW f \in DOMAIN calls', ctx'[TidOf[f]] # NoExec
            PROVE  ctx'[TidOf[f]] = f
                   /\ (scratch'[calls'[f]][Slot[TidOf[f]]] = f \/ f \in disturbed')
        <4>1. CASE f = e
          BY <1>2, <2>3, <4>1
        <4>2. CASE f \in DOMAIN calls
          BY <1>2, <2>4, <2>5, <3>1, <3>3, <4>2 DEF CallsOwnContexts
        <4> QED
          BY <1>2, <4>1, <4>2
      <3>4. \A f \in DOMAIN calls' : calls'[f] \in Cpus
        BY <1>2 DEF CallsOwnContexts
      <3> QED
        BY <1>3, <1>4, <3>2, <3>3, <3>4 DEF CallsOwnContexts
    <2>7. ContextsFreed'
      BY <1>1, <1>2, <1>3, <2>1, <2>3 DEF ContextsFreed, Types
    <2> QED
      BY <1>3, <2>2, <2>6, <2>7 DEF ArgumentsExplained
  <1>5. CASE ~attached
    <2>1. UNCHANGED <<ctx, scratch>> /\ \A u \in Tids : ctx[u] = NoExec
      BY <1>5 DEF Enter, CallsOwnContexts
    <2>2. Types'
      BY <1>2, <1>3, <2>1 DEF Types
    <2>3. \A f \in DOMAIN calls' : TidOf[f] \in Tids
      BY <2>2, Ids DEF Types
    <2>4. CallsOwnContexts'
      BY <1>2, <1>3, <2>1, <2>3 DEF CallsOwnContexts
    <2> QED
      BY <1>3, <2>1, <2>2, <2>4 DEF ContextsFreed, ArgumentsExplained
  <1> QED
    BY <1>4, <1>5 DEF Types

\* A call is over and its context, if any, is freed.
LEMMA CallOverKeepsInv ==
    ASSUME IInv, NEW e \in DOMAIN calls, Over(e), spent' = spent \cup {e},
           ctx' = [ctx EXCEPT ![TidOf[e]] = NoExec] \/ (TidOf[e] \notin OsPids /\ ctx' = ctx),
           rb' \in Seq(RingEvent), ArgumentsExplained',
           UNCHANGED <<attached, scratch, disturbed>>
    PROVE  IInv'
  <1> USE DEF IInv
  <1> DEFINE t == TidOf[e]
  <1>1. e \in Execs /\ t \in Tids
    BY Ids DEF Types
  <1>2. DOMAIN calls' = DOMAIN calls \ {e} /\ \A f \in DOMAIN calls' : calls'[f] = calls[f]
    BY DEF Over
  <1>3. \A u \in Tids : ctx'[u] = ctx[u] \/ (u = t /\ ctx'[u] = NoExec)
    BY DEF Types
  <1>4. \A f \in DOMAIN calls : TidOf[f] \in Tids
    BY Ids DEF Types
  <1>5. Types'
    BY <1>1, <1>2 DEF Types, MaybeExec
  <1>6. \A f \in DOMAIN calls' : f # e /\ TidOf[f] # t
    BY <1>2 DEF CallsOwnContexts
  <1>7. CallsOwnContexts'
    <2>1. \A f, g \in DOMAIN calls' : TidOf[f] = TidOf[g] => f = g
      BY <1>2 DEF CallsOwnContexts
    <2>2. ~attached => \A u \in Tids : ctx'[u] = NoExec
      BY <1>3 DEF CallsOwnContexts
    <2>3. \A f \in DOMAIN calls' : ctx'[TidOf[f]] = ctx[TidOf[f]]
      BY <1>2, <1>3, <1>4, <1>6
    <2> QED
      BY <1>2, <2>1, <2>2, <2>3 DEF CallsOwnContexts
  <1>8. ContextsFreed'
    <2> SUFFICES ASSUME NEW u \in Tids, ctx'[u] # NoExec
                 PROVE  \/ ctx'[u] \in DOMAIN calls' /\ TidOf[ctx'[u]] = u
                        \/ u \notin OsPids /\ ctx'[u] \in spent'
      BY DEF ContextsFreed
    <2>1. ctx'[u] = ctx[u]
      BY <1>3
    <2>2. CASE ctx[u] = e /\ u = t
      <3>1. ctx' = ctx
        BY <1>1, <2>1, <2>2, <1>3 DEF Types
      <3>2. u \notin OsPids
        BY <1>1, <2>2, <3>1 DEF Types
      <3> QED
        BY <2>1, <2>2, <3>2
    <2>3. CASE ~(ctx[u] = e /\ u = t)
      BY <1>2, <2>1, <2>3 DEF ContextsFreed
    <2> QED
      BY <2>2, <2>3
  <1> QED
    BY <1>5, <1>7, <1>8

\* What the exit probe reports is the exec that entered.
LEMMA ReportedExec ==
    ASSUME IInv, NEW e \in DOMAIN calls, NEW c \in Cpus, ctx[TidOf[e]] # NoExec,
           NEW kind \in {"success", "failed"}
    PROVE  /\ attached
           /\ ExecEvent(kind, e, c) \in RingEvent
           /\ Explained(ExecEvent(kind, e, c))
           /\ Plain(ExecEvent(kind, e, c)) = K!ExecEvent(kind, e)
  <1> DEFINE t == TidOf[e]
  <1>1. e \in Execs /\ t \in Tids /\ PidOf[e] \in OsPids /\ Slot[t] \in Slots
    BY Ids DEF IInv, Types
  <1>2. attached /\ ctx[t] = e /\ (scratch[calls[e]][Slot[t]] = e \/ e \in disturbed)
    BY <1>1 DEF IInv, CallsOwnContexts
  <1>3. scratch[c][Slot[t]] \in MaybeExec
    BY <1>1 DEF IInv, Types
  <1>4. scratch[c][Slot[t]] = e \/ calls[e] # c \/ e \in disturbed
    BY <1>2
  <1>5. (calls[e] # c \/ e \in disturbed) \in BOOLEAN
    OBVIOUS
  <1>6. ExecEvent(kind, e, c) \in RingEvent
    BY <1>1, <1>2, <1>3, <1>5 DEF ExecEvent, RingEvent, SlotOf, MaybeExec
  <1>7. Explained(ExecEvent(kind, e, c))
    BY <1>2, <1>4 DEF Explained, ExecEvent, SlotOf
  <1>8. Plain(ExecEvent(kind, e, c)) = K!ExecEvent(kind, e)
    BY <1>2 DEF Plain, ExecEvent, K!ExecEvent
  <1> QED
    BY <1>2, <1>6, <1>7, <1>8

LEMMA ExitProbeKeepsInv ==
    ASSUME IInv, NEW e \in DOMAIN calls, NEW c \in Cpus, NEW kind \in {"success", "failed"},
           ExitProbe(e, kind, c), Over(e), spent' = spent \cup {e},
           UNCHANGED <<attached, scratch, disturbed>>
    PROVE  IInv'
  <1>1. rb' \in Seq(RingEvent) /\ ArgumentsExplained'
    <2>1. CASE UNCHANGED rb
      BY <2>1 DEF IInv, Types, ArgumentsExplained
    <2>2. CASE ctx[TidOf[e]] # NoExec /\ rb' = Append(rb, ExecEvent(kind, e, c))
      BY <2>2, ReportedExec, RingAppended DEF IInv
    <2> QED
      BY <2>1, <2>2 DEF ExitProbe, Report
  <1> QED
    BY <1>1, CallOverKeepsInv DEF ExitProbe

LEMMA ExitEventRing ==
    ASSUME IInv, NEW p \in OsPids, ProcessExitProbe(p)
    PROVE  rb' \in Seq(RingEvent) /\ ArgumentsExplained'
  <1>1. CASE UNCHANGED rb
    BY <1>1 DEF IInv, Types, ArgumentsExplained
  <1>2. CASE rb' = Append(rb, ExitEvent(p))
    <2>1. ExitEvent(p) \in RingEvent /\ Explained(ExitEvent(p))
      BY DEF ExitEvent, RingEvent, Explained, MaybeExec
    <2> QED
      BY <1>2, <2>1, RingAppended DEF IInv
  <1> QED
    BY <1>1, <1>2 DEF ProcessExitProbe

LEMMA InvKept == IInv /\ [ProbesNext]_probeVars => IInv'
  <1> SUFFICES ASSUME IInv, [ProbesNext]_probeVars PROVE IInv'
    OBVIOUS
  <1>1. ASSUME NEW e \in Execs, NEW c \in Cpus, Enter(e, c) PROVE IInv'
    BY <1>1, EnterKeepsInv
  <1>2. ASSUME NEW e \in Execs, NEW c \in Cpus, Fails(e, c) PROVE IInv'
    BY <1>2, ExitProbeKeepsInv DEF Fails
  <1>3. ASSUME NEW e \in Execs, NEW c \in Cpus, Succeeds(e, c) PROVE IInv'
    BY <1>3, ExitProbeKeepsInv DEF Succeeds, CallsOf
  <1>4. ASSUME NEW e \in Execs, SucceedsInThread(e) PROVE IInv'
    <2>1. e \in DOMAIN calls /\ PidOf[e] \in OsPids /\ TidOf[e] \notin OsPids
      BY <1>4, Ids, ProbesAssumption DEF SucceedsInThread, CallsOf
    <2>2. rb' \in Seq(RingEvent) /\ ArgumentsExplained'
      BY <1>4, <2>1, ExitEventRing DEF SucceedsInThread
    <2> QED
      BY <1>4, <2>1, <2>2, CallOverKeepsInv DEF SucceedsInThread
  <1>5. ASSUME NEW p \in OsPids, ProcessExits(p) PROVE IInv'
    <2>1. rb' \in Seq(RingEvent) /\ ArgumentsExplained'
      BY <1>5, ExitEventRing DEF ProcessExits
    <2> QED
      BY <1>5, <2>1 DEF ProcessExits, IInv, Types, CallsOwnContexts, ContextsFreed
  <1>6. ASSUME Attach PROVE IInv'
    BY <1>6 DEF Attach, procVars, IInv, Types, CallsOwnContexts, ContextsFreed, ArgumentsExplained
  <1>7. ASSUME Detach PROVE IInv'
    <2>1. Types'
      <3>1. << >> \in Seq(RingEvent)
        OBVIOUS
      <3>2. ctx' \in [Tids -> MaybeExec] /\ scratch' \in [Cpus -> [Slots -> MaybeExec]]
        BY <1>7 DEF Detach, NoContexts, Unwritten, MaybeExec
      <3> QED
        BY <1>7, <3>1, <3>2 DEF Detach, IInv, Types
    <2>2. \A t \in Tids : ctx'[t] = NoExec
      BY <1>7 DEF Detach, NoContexts
    <2>3. \A e \in DOMAIN calls : TidOf[e] \in Tids
      BY Ids DEF IInv, Types
    <2>4. CallsOwnContexts' /\ ContextsFreed' /\ ArgumentsExplained'
      BY <1>7, <2>2, <2>3 DEF Detach, IInv, CallsOwnContexts, ContextsFreed, ArgumentsExplained
    <2> QED
      BY <2>1, <2>4 DEF IInv
  <1>8. ASSUME Take PROVE IInv'
    <2>1. rb' \in Seq(RingEvent) /\ ArgumentsExplained'
      BY <1>8, RingTaken DEF Take, IInv
    <2> QED
      BY <1>8, <2>1 DEF Take, procVars, IInv, Types, CallsOwnContexts, ContextsFreed
  <1>9. ASSUME UNCHANGED probeVars PROVE IInv'
    BY <1>9 DEF probeVars, procVars, IInv, Types, CallsOwnContexts, ContextsFreed, ArgumentsExplained
  <1> QED
    BY <1>1, <1>2, <1>3, <1>4, <1>5, <1>6, <1>7, <1>8, <1>9 DEF ProbesNext

\* The inductive invariant holds of every run of the probes.
THEOREM ProbesInvariant == ProbesSpec => []IInv
  BY InvInitially, InvKept, PTL DEF ProbesSpec

\* The two causes ArgumentsExplained names are the only ones, and contexts are
\* freed as ContextsFreed says, for any number of tasks, cpus and slots.
THEOREM ProbesMixUpNothingElse == ProbesSpec => [](ArgumentsExplained /\ ContextsFreed)
  <1>1. IInv => ArgumentsExplained /\ ContextsFreed
    BY DEF IInv
  <1> QED
    BY <1>1, ProbesInvariant, PTL

-----------------------------------------------------------------------------
(* The refinement: the queue of EbpfKernel is the ring buffer without what *)
(* the daemon's model leaves out.                                          *)

PlainQueue(s) == [i \in DOMAIN s |-> Plain(s[i])]

LEMMA QueueLength ==
    ASSUME NEW s \in Seq(RingEvent)
    PROVE  Len(PlainQueue(s)) = Len(s) /\ DOMAIN PlainQueue(s) = 1..Len(s)
  BY DEF PlainQueue

LEMMA QueueAppended ==
    ASSUME NEW s \in Seq(RingEvent), NEW x \in RingEvent
    PROVE  PlainQueue(Append(s, x)) = Append(PlainQueue(s), Plain(x))
  <1> DEFINE R == {Plain(y) : y \in RingEvent}
  <1>1. PlainQueue(s) \in Seq(R) /\ Len(PlainQueue(s)) = Len(s)
    <2>1. \A i \in 1..Len(s) : s[i] \in RingEvent /\ Plain(s[i]) \in R
      OBVIOUS
    <2> QED
      BY <2>1 DEF PlainQueue
  <1>2. Plain(x) \in R
    OBVIOUS
  <1>3. DOMAIN PlainQueue(Append(s, x)) = 1..(Len(s) + 1)
    BY DEF PlainQueue
  <1>4. Append(PlainQueue(s), Plain(x)) = [i \in 1..(Len(s) + 1) |->
            IF i = Len(s) + 1 THEN Plain(x) ELSE Plain(s[i])]
    <2> HIDE DEF R
    <2> QED
      BY <1>1, <1>2 DEF PlainQueue
  <1>5. PlainQueue(Append(s, x)) = [i \in 1..(Len(s) + 1) |->
            IF i = Len(s) + 1 THEN Plain(x) ELSE Plain(s[i])]
    BY DEF PlainQueue
  <1> QED
    BY <1>4, <1>5

LEMMA QueueTaken ==
    ASSUME NEW s \in Seq(RingEvent), s # << >>
    PROVE  PlainQueue(s) # << >> /\ PlainQueue(Tail(s)) = Tail(PlainQueue(s))
  BY DEF PlainQueue

\* The exit probe that closes a call is an execve of EbpfKernel, taken when it
\* reports with the probes attached, else as if they were not.
LEMMA ReportMaps ==
    ASSUME IInv, NEW e \in DOMAIN calls, NEW c \in Cpus, NEW kind \in {"success", "failed"},
           ExitProbe(e, kind, c)
    PROVE  \/ /\ attached /\ Len(PlainQueue(rb)) < QueueCap
              /\ PlainQueue(rb') = Append(PlainQueue(rb), K!ExecEvent(kind, e))
              /\ active' = IF kind = "success" THEN active \cup {PidOf[e]} ELSE active
           \/ UNCHANGED <<rb, active>>
  <1>1. rb \in Seq(RingEvent)
    BY DEF IInv, Types
  <1>2. CASE ctx[TidOf[e]] # NoExec /\ Room
    <2>1. /\ rb' = Append(rb, ExecEvent(kind, e, c))
          /\ active' = IF kind = "success" THEN active \cup {PidOf[e]} ELSE active
      BY <1>2 DEF ExitProbe, Report
    <2>2. attached /\ PlainQueue(rb') = Append(PlainQueue(rb), K!ExecEvent(kind, e))
      BY <1>1, <1>2, <2>1, ReportedExec, QueueAppended
    <2> QED
      BY <1>1, <1>2, <2>1, <2>2, QueueLength DEF Room
  <1>3. CASE ~(ctx[TidOf[e]] # NoExec /\ Room)
    BY <1>3 DEF ExitProbe, Report
  <1> QED
    BY <1>2, <1>3

LEMMA FailsMaps ==
    ASSUME IInv, NEW e \in Execs, NEW c \in Cpus, Fails(e, c)
    PROVE  \E a \in BOOLEAN : K!ExecFails(e, a)
  <1>1. e \in DOMAIN calls /\ e \notin spent
    BY DEF Fails, IInv, Types
  <1>2. ExitProbe(e, "failed", c) /\ spent' = spent \cup {e} /\ UNCHANGED <<image, unseen>>
    BY DEF Fails
  <1>3. CASE /\ attached /\ Len(PlainQueue(rb)) < QueueCap
             /\ PlainQueue(rb') = Append(PlainQueue(rb), K!ExecEvent("failed", e))
             /\ active' = active
    <2>1. K!ExecFails(e, TRUE)
      BY <1>1, <1>2, <1>3 DEF K!ExecFails, K!HasRoom, PlainQueue
    <2> QED
      BY <2>1
  <1>4. CASE UNCHANGED <<rb, active>>
    <2>1. K!ExecFails(e, FALSE)
      BY <1>1, <1>2, <1>4 DEF K!ExecFails, K!HasRoom
    <2> QED
      BY <2>1
  <1> QED
    BY <1>1, <1>2, <1>3, <1>4, ReportMaps

LEMMA SucceedsMaps ==
    ASSUME IInv, NEW e \in Execs, NEW c \in Cpus, Succeeds(e, c)
    PROVE  \E a \in BOOLEAN : K!ExecSucceeds(e, a)
  <1>1. e \in DOMAIN calls /\ e \notin spent
    BY DEF Succeeds, CallsOf, IInv, Types
  <1>2. /\ ExitProbe(e, "success", c) /\ spent' = spent \cup {e}
        /\ image' = [image EXCEPT ![PidOf[e]] = e]
        /\ unseen' = unseen \cup ({image[PidOf[e]]} \ {NoExec})
    BY DEF Succeeds
  <1>3. CASE /\ attached /\ Len(PlainQueue(rb)) < QueueCap
             /\ PlainQueue(rb') = Append(PlainQueue(rb), K!ExecEvent("success", e))
             /\ active' = active \cup {PidOf[e]}
    <2>1. K!ExecSucceeds(e, TRUE)
      BY <1>1, <1>2, <1>3 DEF K!ExecSucceeds, K!HasRoom, PlainQueue
    <2> QED
      BY <2>1
  <1>4. CASE UNCHANGED <<rb, active>>
    <2>1. K!ExecSucceeds(e, FALSE)
      BY <1>1, <1>2, <1>4 DEF K!ExecSucceeds, K!HasRoom
    <2> QED
      BY <2>1
  <1> QED
    BY <1>1, <1>2, <1>3, <1>4, ReportMaps

\* The probe on the exit of a main thread reports as EbpfKernel says.
LEMMA ExitProbeMaps ==
    ASSUME IInv, NEW p \in OsPids, ProcessExitProbe(p)
    PROVE  /\ active' = active \ {p}
           /\ \/ /\ p \in active /\ attached /\ Len(PlainQueue(rb)) < QueueCap
                 /\ PlainQueue(rb') = Append(PlainQueue(rb), K!ExitEvent(p))
                 /\ UNCHANGED unseen
              \/ /\ ~(p \in active /\ attached /\ Len(PlainQueue(rb)) < QueueCap)
                 /\ unseen' = unseen \cup {image[p]}
                 /\ UNCHANGED rb
  <1>1. rb \in Seq(RingEvent)
    BY DEF IInv, Types
  <1>2. Room <=> Len(PlainQueue(rb)) < QueueCap
    BY <1>1, QueueLength DEF Room
  <1>3. CASE p \in active /\ attached /\ Room
    <2>1. rb' = Append(rb, ExitEvent(p)) /\ UNCHANGED unseen /\ active' = active \ {p}
      BY <1>3 DEF ProcessExitProbe
    <2>2. ExitEvent(p) \in RingEvent /\ Plain(ExitEvent(p)) = K!ExitEvent(p)
      BY DEF ExitEvent, RingEvent, MaybeExec, Plain, K!ExitEvent
    <2> QED
      BY <1>1, <1>2, <1>3, <2>1, <2>2, QueueAppended
  <1>4. CASE ~(p \in active /\ attached /\ Room)
    BY <1>2, <1>4 DEF ProcessExitProbe
  <1> QED
    BY <1>3, <1>4

LEMMA ThreadMaps ==
    ASSUME IInv, NEW e \in Execs, SucceedsInThread(e)
    PROVE  K!ExecInThread(e, attached)
  <1>1. e \in DOMAIN calls /\ e \notin spent /\ e \in Threaded /\ PidOf[e] \in OsPids
    BY Ids, ProbesAssumption DEF SucceedsInThread, CallsOf, IInv, Types
  <1>2. /\ image[PidOf[e]] # NoExec /\ spent' = spent \cup {e}
        /\ image' = [image EXCEPT ![PidOf[e]] = e] /\ ProcessExitProbe(PidOf[e])
    BY DEF SucceedsInThread
  <1> QED
    BY <1>1, <1>2, ExitProbeMaps DEF K!ExecInThread, K!HasRoom, PlainQueue

LEMMA ProcessExitMaps ==
    ASSUME IInv, NEW p \in OsPids, ProcessExits(p)
    PROVE  K!ProcessExits(p, attached)
  <1>1. /\ image[p] # NoExec /\ UNCHANGED spent
        /\ image' = [image EXCEPT ![p] = NoExec] /\ ProcessExitProbe(p)
    BY DEF ProcessExits
  <1> QED
    BY <1>1, ExitProbeMaps DEF K!ProcessExits, K!HasRoom, PlainQueue

LEMMA ProbesStepMaps ==
    ASSUME IInv, [ProbesNext]_probeVars
    PROVE  [K!KernelNext]_(K!kernelVars)
  <1>1. ASSUME NEW a \in BOOLEAN, K!KernelStep(a) PROVE K!KernelNext
    BY <1>1 DEF K!KernelNext
  <1>2. ASSUME UNCHANGED <<procVars, rb>> PROVE UNCHANGED K!kernelVars
    BY <1>2 DEF procVars, K!kernelVars
  <1>3. ASSUME NEW e \in Execs, NEW c \in Cpus, Enter(e, c) PROVE UNCHANGED K!kernelVars
    BY <1>2, <1>3 DEF Enter
  <1>4. ASSUME NEW e \in Execs, NEW c \in Cpus, Fails(e, c) PROVE K!KernelNext
    BY <1>1, <1>4, FailsMaps DEF K!KernelStep
  <1>5. ASSUME NEW e \in Execs, NEW c \in Cpus, Succeeds(e, c) PROVE K!KernelNext
    BY <1>1, <1>5, SucceedsMaps DEF K!KernelStep
  <1>6. attached \in BOOLEAN
    BY DEF IInv, Types
  <1>7. ASSUME NEW e \in Execs, SucceedsInThread(e) PROVE K!KernelNext
    BY <1>1, <1>6, <1>7, ThreadMaps DEF K!KernelStep
  <1>8. ASSUME NEW p \in OsPids, ProcessExits(p) PROVE K!KernelNext
    BY <1>1, <1>6, <1>8, ProcessExitMaps DEF K!KernelStep
  <1>9. ASSUME Attach PROVE UNCHANGED K!kernelVars
    BY <1>2, <1>9 DEF Attach
  <1>10. ASSUME Detach PROVE K!KernelNext
    <2>1. PlainQueue(<< >>) = << >>
      BY DEF PlainQueue
    <2> QED
      BY <1>10, <2>1 DEF Detach, K!KernelNext, K!Reload, PlainQueue
  <1>11. ASSUME Take PROVE K!KernelNext
    <2>1. rb \in Seq(RingEvent) /\ rb # << >> /\ rb' = Tail(rb) /\ UNCHANGED procVars
      BY <1>11 DEF Take, IInv, Types
    <2>2. PlainQueue(rb) # << >> /\ PlainQueue(rb') = Tail(PlainQueue(rb))
      BY <2>1, QueueTaken
    <2> QED
      BY <2>1, <2>2 DEF K!KernelNext, PlainQueue, procVars
  <1>12. ASSUME UNCHANGED probeVars PROVE UNCHANGED K!kernelVars
    BY <1>2, <1>12 DEF probeVars
  <1> QED
    BY <1>3, <1>4, <1>5, <1>7, <1>8, <1>9, <1>10, <1>11, <1>12 DEF ProbesNext

\* Taken one by one on any cpu, the probes lose and order events as the kernel
\* side of the daemon's model does, for any execs, threads, cpus and queue.
THEOREM ProbesImplementKernel == ProbesSpec => ImplementsKernel
  <1>1. ProbesInit => K!KernelInit
    <2>1. PlainQueue(<< >>) = << >>
      BY DEF PlainQueue
    <2> QED
      BY <2>1 DEF ProbesInit, K!KernelInit, PlainQueue
  <1>2. IInv /\ [ProbesNext]_probeVars => [K!KernelNext]_(K!kernelVars)
    BY ProbesStepMaps
  <1> QED
    BY <1>1, <1>2, ProbesInvariant, PTL DEF ProbesSpec, ImplementsKernel, K!KernelSpec

-----------------------------------------------------------------------------
(* Type correctness: of the kernel's variables by the refinement, of the   *)
(* others step by step.                                                    *)

LEMMA KernelTypesInitially == ProbesInit => K!KernelTypeOK
  <1> SUFFICES ASSUME ProbesInit PROVE K!KernelTypeOK
    OBVIOUS
  <1>1. PlainQueue(rb) = << >> /\ QueueCap \in Nat
    BY ProbesAssumption DEF ProbesInit, PlainQueue
  <1>2. << >> \in Seq(K!Event) /\ Len(<< >>) <= QueueCap
    BY <1>1
  <1> QED
    BY <1>1, <1>2 DEF ProbesInit, K!KernelTypeOK, PlainQueue

LEMMA KernelTypesKept ==
    ASSUME K!KernelTypeOK, [K!KernelNext]_(K!kernelVars)
    PROVE  K!KernelTypeOK'
  <1> DEFINE q == PlainQueue(rb)
  <1>1. /\ image \in [OsPids -> Execs \cup {NoExec}] /\ spent \subseteq Execs
        /\ active \subseteq OsPids /\ unseen \subseteq Execs
        /\ q \in Seq(K!Event) /\ Len(q) <= QueueCap
    BY DEF K!KernelTypeOK, PlainQueue
  <1>2. ASSUME NEW e \in Execs
        PROVE  /\ PidOf[e] \in OsPids
               /\ K!ExecEvent("success", e) \in K!Event /\ K!ExecEvent("failed", e) \in K!Event
    BY Ids DEF K!ExecEvent, K!Event
  <1>3. ASSUME NEW p \in OsPids
        PROVE  K!ExitEvent(p) \in K!Event
    BY DEF K!ExitEvent, K!Event
  <1>4. SUFFICES /\ image' \in [OsPids -> Execs \cup {NoExec}] /\ spent' \subseteq Execs
                 /\ active' \subseteq OsPids /\ unseen' \subseteq Execs
                 /\ q' \in Seq(K!Event) /\ Len(q') <= QueueCap
    BY DEF K!KernelTypeOK, PlainQueue
  <1>5. ASSUME NEW x \in K!Event, Len(q) < QueueCap, q' = Append(q, x)
        PROVE  q' \in Seq(K!Event) /\ Len(q') <= QueueCap
    <2> HIDE DEF q
    <2> QED
      BY <1>1, <1>5, ProbesAssumption
  <1>6. ASSUME NEW a \in BOOLEAN, NEW e \in Execs, K!ExecSucceeds(e, a) PROVE <1>4!1
    BY <1>1, <1>2, <1>5, <1>6 DEF K!ExecSucceeds, K!HasRoom, PlainQueue
  <1>7. ASSUME NEW a \in BOOLEAN, NEW e \in Execs, K!ExecFails(e, a) PROVE <1>4!1
    BY <1>1, <1>2, <1>5, <1>7 DEF K!ExecFails, K!HasRoom, PlainQueue
  <1>8. ASSUME NEW a \in BOOLEAN, NEW e \in Execs, K!ExecInThread(e, a) PROVE <1>4!1
    BY <1>1, <1>2, <1>3, <1>5, <1>8 DEF K!ExecInThread, K!HasRoom, PlainQueue
  <1>9. ASSUME NEW a \in BOOLEAN, NEW p \in OsPids, K!ProcessExits(p, a) PROVE <1>4!1
    BY <1>1, <1>3, <1>5, <1>9 DEF K!ProcessExits, K!HasRoom, PlainQueue
  <1>10. CASE q # << >> /\ q' = Tail(q) /\ UNCHANGED <<image, spent, active, unseen>>
    <2>1. ASSUME NEW s \in Seq(K!Event), s # << >>
          PROVE  Tail(s) \in Seq(K!Event) /\ Len(Tail(s)) = Len(s) - 1
      BY <2>1
    <2> QED
      BY <1>1, <1>10, <2>1, ProbesAssumption
  <1>11. CASE K!Reload /\ UNCHANGED <<image, spent, unseen>>
    <2>1. q' = << >> /\ active' = {}
      BY <1>11 DEF K!Reload, PlainQueue
    <2> QED
      BY <1>1, <1>11, <2>1, ProbesAssumption
  <1>12. CASE UNCHANGED K!kernelVars
    BY <1>1, <1>12 DEF K!kernelVars, PlainQueue
  <1> QED
    BY <1>6, <1>7, <1>8, <1>9, <1>10, <1>11, <1>12
    DEF K!KernelNext, K!KernelStep, PlainQueue

OtherTypes ==
    /\ loads \in 0..MaxLoads
    /\ calls \in [DOMAIN calls -> Cpus]
    /\ disturbed \subseteq Execs

LEMMA OtherTypesInitially == ProbesInit => OtherTypes
  BY ProbesAssumption DEF ProbesInit, OtherTypes

LEMMA OtherTypesKept ==
    ASSUME IInv, OtherTypes, [ProbesNext]_probeVars
    PROVE  OtherTypes'
  <1> USE DEF OtherTypes
  <1>1. ASSUME NEW e \in Execs, NEW c \in Cpus, Enter(e, c) PROVE OtherTypes'
    BY <1>1 DEF Enter, IInv, Types
  <1>2. ASSUME NEW e, Over(e), UNCHANGED <<loads, disturbed>> PROVE OtherTypes'
    BY <1>2 DEF Over
  <1>3. ASSUME NEW e \in Execs, NEW c \in Cpus, Fails(e, c) \/ Succeeds(e, c) PROVE OtherTypes'
    BY <1>2, <1>3 DEF Fails, Succeeds
  <1>4. ASSUME NEW e \in Execs, SucceedsInThread(e) PROVE OtherTypes'
    BY <1>2, <1>4 DEF SucceedsInThread
  <1>5. ASSUME UNCHANGED <<loads, calls, disturbed>> PROVE OtherTypes'
    BY <1>5
  <1>6. ASSUME NEW p \in OsPids, ProcessExits(p) PROVE OtherTypes'
    BY <1>5, <1>6 DEF ProcessExits
  <1>7. ASSUME Attach PROVE OtherTypes'
    BY <1>7, ProbesAssumption DEF Attach
  <1>8. CASE Detach \/ Take \/ UNCHANGED probeVars
    BY <1>5, <1>8 DEF Detach, Take, probeVars
  <1> QED
    BY <1>1, <1>3, <1>4, <1>6, <1>7, <1>8 DEF ProbesNext

\* The run's invariant, types included: no probe reads or writes outside what
\* the maps and the ring buffer hold, and the queue never exceeds its capacity.
THEOREM ProbesStayCorrect == ProbesSpec => []ProbesInv
  <1> DEFINE All == IInv /\ OtherTypes /\ K!KernelTypeOK
  <1>1. ProbesInit => All
    BY InvInitially, OtherTypesInitially, KernelTypesInitially
  <1>2. All /\ [ProbesNext]_probeVars => All'
    BY InvKept, OtherTypesKept, ProbesStepMaps, KernelTypesKept
  <1>3. All => ProbesInv
    <2> SUFFICES ASSUME All PROVE ProbesInv
      OBVIOUS
    <2>1. \A i \in DOMAIN rb : rb[i].args \in Execs \cup {NoExec}
      <3>1. rb \in Seq(RingEvent)
        BY DEF IInv, Types
      <3>2. \A i \in DOMAIN rb : rb[i] \in RingEvent
        BY <3>1
      <3> QED
        BY <3>2 DEF RingEvent, MaybeExec
    <2> QED
      BY <2>1 DEF IInv, Types, OtherTypes, MaybeExec, ProbesInv, ProbesTypeOK
  <1> HIDE DEF All
  <1> QED
    BY <1>1, <1>2, <1>3, PTL DEF ProbesSpec

=============================================================================
