------------------------------ MODULE EbpfKernel ------------------------------
(***************************************************************************)
(* The kernel side of tspan-ebpf (src/tspan-ebpf/ebpf/main.bpf.c) and the  *)
(* way its events take to the daemon's main loop: the ring buffer, the     *)
(* poll task and the 1024-slot channel (src/tspan-ebpf/src/ebpf.rs), which *)
(* together are one bounded FIFO queue that loses what does not fit.       *)
(*                                                                         *)
(* An exec instance is one call of execve, told apart in the events by its *)
(* start time; processes run, exec again under the same pid, exit, and     *)
(* pids are used again.  The enter and exit probes of one execve are one   *)
(* action, which EbpfProbes takes apart and implements.  The probes see    *)
(* tasks: what exits here is the main thread.  Abstracted: argument texts, *)
(* and the capacity of the two hash maps (10240 pids each).                *)
(***************************************************************************)
EXTENDS Integers, Sequences

CONSTANTS
    Execs,          \* exec instances, each happening at most once
    OsPids,         \* process ids
    PidOf,          \* exec instance -> process id
    Threaded,       \* exec instances that a thread other than the main one may call
    QueueCap,       \* events the queue holds
    NoExec          \* no exec instance

ASSUME KernelAssumption ==
    /\ PidOf \in [Execs -> OsPids]
    /\ Threaded \subseteq Execs
    /\ QueueCap \in Nat
    /\ NoExec \notin Execs

VARIABLES
    image,          \* pid -> the exec instance its main thread runs, or NoExec
    spent,          \* exec instances that have happened
    active,         \* active_pids map
    queue,          \* events on their way to the main loop
    unseen          \* execs that ended without a ProcessExit event of their own

kernelVars == <<image, spent, active, queue, unseen>>

Event == [kind : {"success", "failed"}, pid : OsPids, exec : Execs]
            \cup [kind : {"exit"}, pid : OsPids, exec : {NoExec}]

KernelTypeOK ==
    /\ image \in [OsPids -> Execs \cup {NoExec}]
    /\ spent \subseteq Execs
    /\ active \subseteq OsPids
    /\ queue \in Seq(Event) /\ Len(queue) <= QueueCap
    /\ unseen \subseteq Execs

KernelInit ==
    /\ image = [p \in OsPids |-> NoExec]
    /\ spent = {}
    /\ active = {}
    /\ queue = << >>
    /\ unseen = {}

\* bpf_ringbuf_reserve finds room, with the probes attached.
HasRoom(attached) == attached /\ Len(queue) < QueueCap

ExecEvent(kind, e) == [kind |-> kind, pid |-> PidOf[e], exec |-> e]

ExitEvent(p) == [kind |-> "exit", pid |-> p, exec |-> NoExec]

\* A successful execve; the program it replaces ends without an exit event.
ExecSucceeds(e, attached) ==
    /\ e \notin spent
    /\ spent' = spent \cup {e}
    /\ image' = [image EXCEPT ![PidOf[e]] = e]
    /\ unseen' = unseen \cup ({image[PidOf[e]]} \ {NoExec})
    /\ \/ /\ HasRoom(attached)
          /\ queue' = Append(queue, ExecEvent("success", e))
          /\ active' = active \cup {PidOf[e]}
       \/ ~HasRoom(attached) /\ UNCHANGED <<queue, active>>

\* Not in the code: the exit probe reports the process gone when execve fails.
ExecFailsReportsExit(e, attached) ==
    /\ e \notin spent
    /\ spent' = spent \cup {e}
    /\ queue' = IF HasRoom(attached) THEN Append(queue, ExitEvent(PidOf[e])) ELSE queue
    /\ UNCHANGED <<image, active, unseen>>

\* A failed execve leaves the process running what it ran.
ExecFails(e, attached) ==
    /\ e \notin spent
    /\ spent' = spent \cup {e}
    /\ queue' = IF HasRoom(attached) THEN Append(queue, ExecEvent("failed", e)) ELSE queue
    /\ UNCHANGED <<image, active, unseen>>

\* sched_process_exit: reported for pids in active_pids, which forgets the pid
\* even when the event does not fit.
ProcessExits(p, attached) ==
    /\ image[p] # NoExec
    /\ image' = [image EXCEPT ![p] = NoExec]
    /\ active' = active \ {p}
    /\ \/ /\ p \in active /\ HasRoom(attached)
          /\ queue' = Append(queue, ExitEvent(p))
          /\ UNCHANGED unseen
       \/ /\ ~(p \in active /\ HasRoom(attached))
          /\ unseen' = unseen \cup {image[p]}
          /\ UNCHANGED queue
    /\ UNCHANGED spent

\* A successful execve by a thread other than the main one.  The main thread is
\* gone first, and reported like any exit; the caller takes over its pid, under
\* which the exit probe finds no context: the exec itself is not reported.
ExecInThread(e, attached) ==
    /\ e \in Threaded \ spent
    /\ image[PidOf[e]] # NoExec
    /\ spent' = spent \cup {e}
    /\ image' = [image EXCEPT ![PidOf[e]] = e]
    /\ active' = active \ {PidOf[e]}
    /\ \/ /\ PidOf[e] \in active /\ HasRoom(attached)
          /\ queue' = Append(queue, ExitEvent(PidOf[e]))
          /\ UNCHANGED unseen
       \/ /\ ~(PidOf[e] \in active /\ HasRoom(attached))
          /\ unseen' = unseen \cup {image[PidOf[e]]}
          /\ UNCHANGED queue

KernelStep(attached) ==
    \/ \E e \in Execs : ExecSucceeds(e, attached)
    \/ \E e \in Execs : ExecFails(e, attached)
    \/ \E e \in Execs : ExecInThread(e, attached)
    \/ \E p \in OsPids : ProcessExits(p, attached)

\* Loading the programs creates their maps anew; unloading them drops all.
Reload == active' = {} /\ queue' = << >>

\* What the kernel side may do to whoever reads the queue.
KernelNext ==
    \/ \E attached \in BOOLEAN : KernelStep(attached)
    \/ queue # << >> /\ queue' = Tail(queue) /\ UNCHANGED <<image, spent, active, unseen>>
    \/ Reload /\ UNCHANGED <<image, spent, unseen>>

KernelSpec == KernelInit /\ [][KernelNext]_kernelVars

=============================================================================
