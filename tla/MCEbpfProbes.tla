----------------------------- MODULE MCEbpfProbes ------------------------------
(* EbpfProbes with two execs of one process, one of another process whose id
   is in the same slot and one of a thread of it, which has another slot. *)
EXTENDS EbpfProbes, TLC

CONSTANTS a1, a2, b1, t1, pa, pb, tb, s0, s1

MCPidOf == (a1 :> pa) @@ (a2 :> pa) @@ (b1 :> pb) @@ (t1 :> pb)
MCTidOf == (a1 :> pa) @@ (a2 :> pa) @@ (b1 :> pb) @@ (t1 :> tb)
MCSlot == (pa :> s0) @@ (pb :> s0) @@ (tb :> s1)

=============================================================================
