--------------------------- MODULE SessionLifecycle ---------------------------
(***************************************************************************)
(* What tspan promises about one timed session, whatever client, wrapper   *)
(* or administrator touches it: an id is handed out once, in increasing    *)
(* order; the session it names belongs to one client for its whole life;   *)
(* it is closed at most once; and nothing but deletion happens after that. *)
(* SessionStore (src/src/db.rs) is shown to implement this module.         *)
(***************************************************************************)
EXTENDS Naturals

CONSTANTS
    Clients,    \* the client ids a session can belong to
    NULL,       \* "no owner": the id was never handed out, or is deleted
    MaxId       \* bound: the number of session ids

VARIABLES
    life,       \* session id -> stage of its life
    owner       \* session id -> the client it belongs to

lifecycleVars == <<life, owner>>

Ids == 1..MaxId

Stages == {"unborn", "active", "completed", "discarded", "deleted"}

Closed == {"completed", "discarded"}

LifecycleTypeOK ==
    /\ life \in [Ids -> Stages]
    /\ owner \in [Ids -> Clients \cup {NULL}]

LifecycleInit ==
    /\ life = [i \in Ids |-> "unborn"]
    /\ owner = [i \in Ids |-> NULL]

-----------------------------------------------------------------------------

\* An id is handed out only after every smaller one has been.
Create(i, c, stage) ==
    /\ life[i] = "unborn"
    /\ \A j \in 1..(i - 1) : life[j] # "unborn"
    /\ life' = [life EXCEPT ![i] = stage]
    /\ owner' = [owner EXCEPT ![i] = c]

Open(i, c) == Create(i, c, "active")

\* Historical records are born closed.
Restore(i, c) == Create(i, c, "completed")

Close(i, stage) ==
    /\ life[i] = "active"
    /\ stage \in Closed
    /\ life' = [life EXCEPT ![i] = stage]
    /\ UNCHANGED owner

Forget(i) ==
    /\ life[i] \notin {"unborn", "deleted"}
    /\ life' = [life EXCEPT ![i] = "deleted"]
    /\ owner' = [owner EXCEPT ![i] = NULL]

LifecycleNext ==
    \E i \in Ids :
        \/ \E c \in Clients : Open(i, c) \/ Restore(i, c)
        \/ \E stage \in Closed : Close(i, stage)
        \/ Forget(i)

LifecycleSpec == LifecycleInit /\ [][LifecycleNext]_lifecycleVars

=============================================================================
