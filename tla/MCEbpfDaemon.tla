----------------------------- MODULE MCEbpfDaemon -----------------------------
(* EbpfDaemon with two execs under one pid, which make an exec chain or the
   reuse of a pid, one that the filter denies under the same pid, and one
   under another pid. *)
EXTENDS EbpfDaemon, TLC

CONSTANTS a1, a2, d1, b1, pa, pb

MCPidOf == (a1 :> pa) @@ (a2 :> pa) @@ (d1 :> pa) @@ (b1 :> pb)

\* The same with two execs, both under one pid.
MCPidOfChain == (a1 :> pa) @@ (a2 :> pa)

=============================================================================
