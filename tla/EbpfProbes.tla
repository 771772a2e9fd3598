------------------------------ MODULE EbpfProbes -------------------------------
(***************************************************************************)
(* The three probes of src/tspan-ebpf/ebpf/main.bpf.c, one by one, as the  *)
(* kernel runs them for concurrent tasks on several cpus.                  *)
(*                                                                         *)
(* The enter probe of an execve saves a context under the id of the task   *)
(* and writes the arguments to a per-cpu scratch buffer, in the slot of    *)
(* the task id (modulo 256).  The exit probe, perhaps on another cpu,      *)
(* looks the context up under the id the task has by then and copies the   *)
(* slot of the cpu it runs on into the event.  A probe is one step: it is  *)
(* not preempted by another on its cpu.  The probes come and go with the   *)
(* daemon, which brings new maps each time.                                *)
(*                                                                         *)
(* What a slot holds is the exec that wrote to it last.  The point where   *)
(* a program is replaced, and the exit of the main thread when another     *)
(* thread execs, are part of the step of the exit probe.                   *)
(***************************************************************************)
EXTENDS Integers, Sequences

CONSTANTS
    Execs, OsPids, PidOf, Threaded, QueueCap, NoExec,   \* as in EbpfKernel
    TidOf,          \* exec instance -> id of the task that calls it
    Cpus,
    Slots, Slot,    \* slots of the scratch buffer, and task id -> slot
    MaxLoads        \* bound: how often the probes are attached

Tids == OsPids \cup {TidOf[e] : e \in Execs}

\* Threads have ids of their own; the main thread's is the process id.
ASSUME ProbesAssumption ==
    /\ PidOf \in [Execs -> OsPids] /\ Threaded \subseteq Execs
    /\ QueueCap \in Nat /\ NoExec \notin Execs
    /\ \A e \in Execs : IF e \in Threaded THEN TidOf[e] \notin OsPids ELSE TidOf[e] = PidOf[e]
    /\ Slot \in [Tids -> Slots]
    /\ Slots # {} /\ Cpus # {}
    /\ MaxLoads \in Nat

VARIABLES
    image, spent, active, unseen,   \* as in EbpfKernel
    rb,             \* the ring buffer: events with the arguments they carry
    attached, loads,
    calls,          \* execs between their enter and exit probes -> cpu of the first
    ctx,            \* exec_ctx_map: task id -> exec that saved its context, or NoExec
    scratch,        \* scratch_buf: cpu -> slot -> exec that wrote it last, or NoExec
    disturbed       \* execs whose slot another one entered on the same cpu meanwhile

procVars == <<image, spent, active, unseen>>

probeVars == <<procVars, rb, attached, loads, calls, ctx, scratch, disturbed>>

-----------------------------------------------------------------------------
(* The kernel side as the daemon's model has it *)

Plain(e) == [kind |-> e.kind, pid |-> e.pid, exec |-> e.exec]

K == INSTANCE EbpfKernel WITH queue <- [i \in DOMAIN rb |-> Plain(rb[i])]

ProbesTypeOK ==
    /\ K!KernelTypeOK
    /\ \A i \in DOMAIN rb : rb[i].args \in Execs \cup {NoExec}
    /\ attached \in BOOLEAN /\ loads \in 0..MaxLoads
    /\ DOMAIN calls \subseteq Execs \ spent
    /\ calls \in [DOMAIN calls -> Cpus]
    /\ ctx \in [Tids -> Execs \cup {NoExec}]
    /\ scratch \in [Cpus -> [Slots -> Execs \cup {NoExec}]]
    /\ disturbed \subseteq Execs

NoContexts == [t \in Tids |-> NoExec]

Unwritten == [c \in Cpus |-> [s \in Slots |-> NoExec]]

ProbesInit ==
    /\ image = [p \in OsPids |-> NoExec]
    /\ spent = {} /\ active = {} /\ unseen = {}
    /\ rb = << >>
    /\ attached = FALSE /\ loads = 0
    /\ calls = << >>
    /\ ctx = NoContexts /\ scratch = Unwritten /\ disturbed = {}

-----------------------------------------------------------------------------
(* Enter *)

\* Not in the code: a scratch buffer of one slot per cpu.
OneSlot(t) == CHOOSE s \in Slots : TRUE

\* key = pid % 256
SlotOf(t) == Slot[t]

CallsOf(p) == {e \in DOMAIN calls : PidOf[e] = p}

\* trace_enter_execve and trace_enter_execveat; a task is in one call at a time.
Enter(e, c) ==
    /\ e \notin spent /\ e \notin DOMAIN calls
    /\ \A f \in DOMAIN calls : TidOf[f] # TidOf[e]
    /\ TidOf[e] # PidOf[e] => image[PidOf[e]] # NoExec
    /\ calls' = [f \in DOMAIN calls \cup {e} |-> IF f = e THEN c ELSE calls[f]]
    /\ disturbed' = disturbed \cup
            {f \in DOMAIN calls : calls[f] = c /\ Slot[TidOf[f]] = Slot[TidOf[e]]}
    /\ IF attached
       THEN /\ ctx' = [ctx EXCEPT ![TidOf[e]] = e]
            /\ scratch' = [scratch EXCEPT ![c][SlotOf(TidOf[e])] = e]
       ELSE UNCHANGED <<ctx, scratch>>
    /\ UNCHANGED <<procVars, rb, attached, loads>>

-----------------------------------------------------------------------------
(* Exit *)

Room == Len(rb) < QueueCap

ExecEvent(kind, e, c) ==
    [kind |-> kind, pid |-> PidOf[e], exec |-> ctx[TidOf[e]],
     args |-> scratch[c][SlotOf(TidOf[e])],
     strayed |-> calls[e] # c \/ e \in disturbed]

ExitEvent(p) ==
    [kind |-> "exit", pid |-> p, exec |-> NoExec, args |-> NoExec, strayed |-> FALSE]

Over(e) == calls' = [f \in DOMAIN calls \ {e} |-> calls[f]]

\* Not in the code: the pid is remembered before there is room for the event.
RememberedFirst(e, kind, c) ==
    /\ rb' = IF Room THEN Append(rb, ExecEvent(kind, e, c)) ELSE rb
    /\ active' = IF kind = "success" THEN active \cup {PidOf[e]} ELSE active

\* An event if there is room; active_pids only learns of what was reported.
Report(e, kind, c) ==
    IF Room
    THEN /\ rb' = Append(rb, ExecEvent(kind, e, c))
         /\ active' = IF kind = "success" THEN active \cup {PidOf[e]} ELSE active
    ELSE UNCHANGED <<rb, active>>

\* handle_exit_exec for the task that called e: nothing without a context, and
\* none is left behind.
ExitProbe(e, kind, c) ==
    /\ IF ctx[TidOf[e]] # NoExec THEN Report(e, kind, c) ELSE UNCHANGED <<rb, active>>
    /\ ctx' = [ctx EXCEPT ![TidOf[e]] = NoExec]

Fails(e, c) ==
    /\ e \in DOMAIN calls
    /\ ExitProbe(e, "failed", c)
    /\ Over(e) /\ spent' = spent \cup {e}
    /\ UNCHANGED <<image, unseen, attached, loads, scratch, disturbed>>

\* The other threads are gone by the time an execve succeeds, and their calls
\* have failed.
Succeeds(e, c) ==
    /\ CallsOf(PidOf[e]) = {e} /\ TidOf[e] = PidOf[e]
    /\ ExitProbe(e, "success", c)
    /\ image' = [image EXCEPT ![PidOf[e]] = e]
    /\ unseen' = unseen \cup ({image[PidOf[e]]} \ {NoExec})
    /\ Over(e) /\ spent' = spent \cup {e}
    /\ UNCHANGED <<attached, loads, scratch, disturbed>>

\* trace_process_exit for the main thread of p.
ProcessExitProbe(p) ==
    /\ active' = active \ {p}
    /\ IF p \in active /\ attached /\ Room
       THEN rb' = Append(rb, ExitEvent(p)) /\ UNCHANGED unseen
       ELSE unseen' = unseen \cup {image[p]} /\ UNCHANGED rb

\* The caller has the id of the main thread when its exit probe runs: there is
\* no context under that id, and the one under its former id stays.
SucceedsInThread(e) ==
    /\ CallsOf(PidOf[e]) = {e} /\ TidOf[e] # PidOf[e]
    /\ image[PidOf[e]] # NoExec
    /\ ProcessExitProbe(PidOf[e])
    /\ image' = [image EXCEPT ![PidOf[e]] = e]
    /\ Over(e) /\ spent' = spent \cup {e}
    /\ UNCHANGED <<attached, loads, ctx, scratch, disturbed>>

ProcessExits(p) ==
    /\ image[p] # NoExec /\ CallsOf(p) = {}
    /\ ProcessExitProbe(p)
    /\ image' = [image EXCEPT ![p] = NoExec]
    /\ UNCHANGED <<spent, attached, loads, calls, ctx, scratch, disturbed>>

-----------------------------------------------------------------------------
(* The daemon *)

Attach ==
    /\ ~attached /\ loads < MaxLoads
    /\ attached' = TRUE /\ loads' = loads + 1
    /\ UNCHANGED <<procVars, rb, calls, ctx, scratch, disturbed>>

\* The maps go with the programs.
Detach ==
    /\ attached
    /\ attached' = FALSE
    /\ rb' = << >> /\ active' = {} /\ ctx' = NoContexts /\ scratch' = Unwritten
    /\ UNCHANGED <<image, spent, unseen, loads, calls, disturbed>>

Take ==
    /\ rb # << >>
    /\ rb' = Tail(rb)
    /\ UNCHANGED <<procVars, attached, loads, calls, ctx, scratch, disturbed>>

ProbesNext ==
    \/ \E e \in Execs, c \in Cpus : Enter(e, c)
    \/ \E e \in Execs, c \in Cpus : Fails(e, c)
    \/ \E e \in Execs, c \in Cpus : Succeeds(e, c)
    \/ \E e \in Execs : SucceedsInThread(e)
    \/ \E p \in OsPids : ProcessExits(p)
    \/ Attach
    \/ Detach
    \/ Take

ProbesSpec == ProbesInit /\ [][ProbesNext]_probeVars

-----------------------------------------------------------------------------
(* Properties *)

\* An event carries the arguments of its own exec, unless the task changed cpu
\* within the call or another one with the same slot entered execve on that cpu
\* meanwhile: sharing a cpu with other execs is not enough to mix them up.
ArgumentsExplained ==
    \A i \in DOMAIN rb :
        rb[i].kind # "exit" => rb[i].args = rb[i].exec \/ rb[i].strayed

\* Every context is that of a call in progress, or of an execve that succeeded
\* in a thread, whose id will not come back unless it is used again: these are
\* the only entries that use up exec_ctx_map.
ContextsFreed ==
    \A t \in Tids :
        ctx[t] # NoExec =>
            \/ ctx[t] \in DOMAIN calls /\ TidOf[ctx[t]] = t
            \/ t \notin OsPids /\ ctx[t] \in spent

ProbesInv == ProbesTypeOK /\ ArgumentsExplained /\ ContextsFreed

\* The probes, taken one by one on any cpu, lose and order events as the model
\* of the kernel side does in which an execve is one step.
ImplementsKernel == K!KernelSpec

=============================================================================
