------------------------------- MODULE TspanRun -------------------------------
(***************************************************************************)
(* The wrapper script src/tspanrun, several copies of it, talking to the   *)
(* server of SessionApi over a network that loses requests and replies,    *)
(* while the web user ends, discards and deletes records and revokes       *)
(* tokens.  A wrapper announces its command (curl to /sessions/start, once;*)
(* a failure aborts the script under set -e), runs it, and reports the end *)
(* with up to three attempts.                                              *)
(*                                                                         *)
(* Connection <<w, 0>> carries the start of wrapper w and <<w, n>> its n-th*)
(* attempt to end.  When a wrapper stops waiting, what it sent may still   *)
(* be served later.  Requests of the web user check no shared state before *)
(* their one critical section, so they are that section.                   *)
(***************************************************************************)
EXTENDS SessionApi

CONSTANTS
    Wrappers,       \* processes running tspanrun, each with its pid ($$)
    TokenOf,        \* wrapper -> TSPANRUN_TOKEN
    ClientOf,       \* wrapper -> TSPANRUN_CLIENT, or NULL when it is not set
    MaxFaults,      \* bound: lost exchanges, failed transactions and crashes
    Kills,          \* whether wrappers may be killed
    Revokes,        \* whether the web user revokes tokens
    Tidies          \* whether the web user ends, discards and deletes records

ASSUME RunAssumption ==
    /\ Conns = Wrappers \X (0..3)
    /\ Wrappers \subseteq Pids
    /\ TokenOf \in [Wrappers -> Tokens]
    /\ ClientOf \in [Wrappers -> Clients \cup {NULL}]
    /\ MaxFaults \in Nat
    /\ {Kills, Revokes, Tidies} \subseteq BOOLEAN

VARIABLES
    pc,             \* where the script of each wrapper is
    attempt,        \* the connection it uses: 0 for the start, then 1..3
    sid,            \* SESSION_ID
    ranFrom, ranTo, \* when the command started and finished
    faults,         \* faults so far
    tidied          \* sessions the web user has closed

runVars == <<apiVars, pc, attempt, sid, ranFrom, ranTo, faults, tidied>>

scriptVars == <<pc, attempt, sid, ranFrom, ranTo>>

Over == {"exited", "aborted", "killed"}

RunTypeOK ==
    /\ pc \in [Wrappers -> {"init", "starting", "running", "ending", "reporting"} \cup Over]
    /\ attempt \in [Wrappers -> 0..3]
    /\ sid \in [Wrappers -> Ids \cup {NULL}]
    /\ ranFrom \in [Wrappers -> Times \cup {NULL}]
    /\ ranTo \in [Wrappers -> Times \cup {NULL}]
    /\ faults \in 0..MaxFaults
    /\ tidied \subseteq Ids

RunInit ==
    /\ ApiInit
    /\ pc = [w \in Wrappers |-> "init"]
    /\ attempt = [w \in Wrappers |-> 0]
    /\ sid = [w \in Wrappers |-> NULL]
    /\ ranFrom = [w \in Wrappers |-> NULL]
    /\ ranTo = [w \in Wrappers |-> NULL]
    /\ faults = 0
    /\ tidied = {}

-----------------------------------------------------------------------------
(* The script *)

Line(w) == <<w, attempt[w]>>

Waiting(w) == pc[w] \in {"starting", "reporting"}

Goto(w, label) == pc' = [pc EXCEPT ![w] = label]

SendStart(w) ==
    /\ pc[w] = "init"
    /\ Goto(w, "starting")
    /\ Submit(Line(w), [op |-> "start", cred |-> TokenOf[w], client |-> ClientOf[w],
                        arg |-> NULL, pid |-> w])
    /\ UNCHANGED <<attempt, sid, ranFrom, ranTo, faults, tidied>>

\* curl -f turns every status but 200 into a failure, and set -e aborts.
GotStart(w) ==
    /\ pc[w] = "starting"
    /\ Receive(Line(w))
    /\ \/ /\ conn[Line(w)].code = 200
          /\ sid' = [sid EXCEPT ![w] = conn[Line(w)].id]
          /\ ranFrom' = [ranFrom EXCEPT ![w] = now]
          /\ Goto(w, "running")
       \/ /\ conn[Line(w)].code # 200
          /\ Goto(w, "aborted")
          /\ UNCHANGED <<sid, ranFrom>>
    /\ UNCHANGED <<attempt, ranTo, faults, tidied>>

\* Not in the code: without "|| EXIT_CODE=$?" a failing command aborts.
FinishUnderSetE(w) ==
    /\ pc[w] = "running"
    /\ ranTo' = [ranTo EXCEPT ![w] = now]
    /\ Goto(w, "ending") \/ Goto(w, "exited")
    /\ attempt' = [attempt EXCEPT ![w] = 1]
    /\ UNCHANGED <<apiVars, sid, ranFrom, faults, tidied>>

\* The command is over, with whatever exit code: the end is reported.
FinishCommand(w) ==
    /\ pc[w] = "running"
    /\ ranTo' = [ranTo EXCEPT ![w] = now]
    /\ Goto(w, "ending")
    /\ attempt' = [attempt EXCEPT ![w] = 1]
    /\ UNCHANGED <<apiVars, sid, ranFrom, faults, tidied>>

\* Not in the code: the end is reported while the command still runs.
SendEndEarly(w) ==
    /\ pc[w] \in {"running", "ending"}
    /\ attempt' = [attempt EXCEPT ![w] = IF pc[w] = "running" THEN 1 ELSE attempt[w]]
    /\ Goto(w, "reporting")
    /\ Submit(<<w, attempt'[w]>>,
              [op |-> "end", cred |-> TokenOf[w], client |-> NULL,
               arg |-> sid[w], pid |-> NULL])
    /\ UNCHANGED <<sid, ranFrom, ranTo, faults, tidied>>

\* The request names the session and the token, and no client_id.
SendEnd(w) ==
    /\ pc[w] = "ending"
    /\ Goto(w, "reporting")
    /\ Submit(Line(w), [op |-> "end", cred |-> TokenOf[w], client |-> NULL,
                        arg |-> sid[w], pid |-> NULL])
    /\ UNCHANGED <<attempt, sid, ranFrom, ranTo, faults, tidied>>

\* Not in the code: one attempt too many.
RetryFourTimes(w) ==
    IF attempt[w] < 4
    THEN Goto(w, "ending") /\ attempt' = [attempt EXCEPT ![w] = attempt[w] + 1]
    ELSE Goto(w, "exited") /\ UNCHANGED attempt

\* Not in the code: trying until the end is acknowledged.
RetryForever(w) == Goto(w, "ending") /\ UNCHANGED attempt

\* The for loop: sleep and try again, or leave after the third attempt.
Retry(w) ==
    IF attempt[w] < 3
    THEN Goto(w, "ending") /\ attempt' = [attempt EXCEPT ![w] = attempt[w] + 1]
    ELSE Goto(w, "exited") /\ UNCHANGED attempt

GotEnd(w) ==
    /\ pc[w] = "reporting"
    /\ Receive(Line(w))
    /\ \/ conn[Line(w)].code = 200 /\ Goto(w, "exited") /\ UNCHANGED attempt
       \/ conn[Line(w)].code # 200 /\ Retry(w)
    /\ UNCHANGED <<sid, ranFrom, ranTo, faults, tidied>>

\* Not in the code: a start that brought no reply is sent again.
NoReplyStartsAgain(w) ==
    /\ \/ pc[w] = "starting" /\ Goto(w, "init") /\ UNCHANGED attempt
       \/ pc[w] = "reporting" /\ Retry(w)
    /\ UNCHANGED <<sid, ranFrom, ranTo, tidied>>

\* curl fails: what follows an exchange that brought no reply.
NoReply(w) ==
    /\ \/ pc[w] = "starting" /\ Goto(w, "aborted") /\ UNCHANGED attempt
       \/ pc[w] = "reporting" /\ Retry(w)
    /\ UNCHANGED <<sid, ranFrom, ranTo, tidied>>

\* The server has dropped the connection.
NoticeReset(w) ==
    /\ Waiting(w)
    /\ conn[Line(w)].phase = "idle"
    /\ NoReply(w)
    /\ UNCHANGED <<apiVars, faults>>

-----------------------------------------------------------------------------
(* Faults *)

Fault == faults < MaxFaults /\ faults' = faults + 1

\* The connection breaks: a reply on its way is lost; a request may already
\* have reached the server, which then serves it later or never.
BreakConnection(w) ==
    /\ Fault
    /\ Waiting(w)
    /\ conn[Line(w)].phase # "idle"
    /\ conn' = [conn EXCEPT ![Line(w)] = IF @.phase = "replied" THEN Idle ELSE @]
    /\ NoReply(w)
    /\ UNCHANGED storeVars

ServerCrash ==
    /\ Fault
    /\ CrashRestart
    /\ UNCHANGED <<scriptVars, tidied>>

ServerFails(k) ==
    /\ Fault
    /\ Fail(k)
    /\ UNCHANGED <<scriptVars, tidied>>

\* SIGKILL, or SIGINT, which the script does not trap.
Kill(w) ==
    /\ Kills
    /\ pc[w] \notin Over \cup {"init"}
    /\ Goto(w, "killed")
    /\ UNCHANGED <<apiVars, attempt, sid, ranFrom, ranTo, faults, tidied>>

-----------------------------------------------------------------------------
(* The server and the web user *)

Serve(k) ==
    /\ Authenticate(k) \/ ExecStart(k) \/ ExecEnd(k)
    /\ UNCHANGED <<scriptVars, faults, tidied>>

Tidy(id) ==
    /\ Tidies
    /\ \/ (EndSessionAdmin(id) \/ DiscardSessionAdmin(id)) /\ tidied' = tidied \cup {id}
       \/ DeleteRecord(id) /\ UNCHANGED tidied
    /\ UNCHANGED <<conn, scriptVars, faults>>

Revoke(t) ==
    /\ Revokes
    /\ DeleteApiToken(t)
    /\ UNCHANGED <<conn, scriptVars, faults, tidied>>

RunClock ==
    /\ Clock
    /\ UNCHANGED <<conn, scriptVars, faults, tidied>>

RunNext ==
    \/ \E w \in Wrappers :
        \/ SendStart(w)
        \/ GotStart(w)
        \/ FinishCommand(w)
        \/ SendEnd(w)
        \/ GotEnd(w)
        \/ NoticeReset(w)
        \/ BreakConnection(w)
        \/ Kill(w)
    \/ \E k \in Conns : Serve(k) \/ ServerFails(k)
    \/ ServerCrash
    \/ \E id \in Ids : Tidy(id)
    \/ \E t \in Tokens : Revoke(t)
    \/ RunClock

RunSpec == RunInit /\ [][RunNext]_runVars

\* The script keeps going, and an exchange somebody waits for is served: curl
\* neither sleeps nor gives up, and TCP reports a peer that is gone.  Nothing
\* makes the command finish, the user start one, or the server serve what
\* nobody waits for any more.
RunFairness ==
    \A w \in Wrappers :
        /\ WF_runVars(GotStart(w))
        /\ WF_runVars(SendEnd(w))
        /\ WF_runVars(GotEnd(w))
        /\ WF_runVars(NoticeReset(w))
        /\ WF_runVars(Waiting(w) /\ Serve(Line(w)))

RunFairSpec == RunSpec /\ RunFairness

-----------------------------------------------------------------------------
(* Properties *)

\* The session a wrapper believes to be its own is its own as long as it
\* exists, whatever was deleted or started since: an end reported late never
\* stops another wrapper's session.
SessionIsOwn ==
    \A w \in Wrappers : sid[w] \in DOMAIN records => records[sid[w]].pid = w

\* A session its wrapper closed spans the command: it starts no later and
\* ends no earlier than the command did.  (One clock for both hosts.)
RecordCoversRun ==
    ~ClockSteps =>
        \A w \in Wrappers :
            /\ sid[w] \in DOMAIN records \ tidied
            /\ records[sid[w]].status = "completed"
            => /\ records[sid[w]].start <= ranFrom[w]
               /\ ranTo[w] # NULL
               /\ ranTo[w] <= records[sid[w]].end

\* A session left running by a wrapper that is through is the work of faults:
\* one at least when the start was announced in vain, three when the end was,
\* or else its token is gone or it was killed.
OrphansNeedFaults ==
    \A w \in Wrappers, i \in Ids :
        IsActive(i) /\ records[i].pid = w /\ TokenOf[w] \in DOMAIN tokens =>
            /\ pc[w] = "aborted" => faults >= 1
            /\ pc[w] = "exited" => faults >= 3

\* The end names no client, so that the server looks for the session under the
\* client of the token: a wrapper that was told another one (TSPANRUN_CLIENT)
\* may start a session in the token's scope but never ends it.
EndedUnderTokensClient ==
    \A i \in DOMAIN records \ tidied :
        LET w == records[i].pid IN
        records[i].status = "completed" /\ TokenOf[w] \in DOMAIN tokens =>
            ClientOf[w] \in {NULL, tokens[TokenOf[w]]}

\* A command is recorded at most once, even when the reply to its start is
\* lost or the start is served after the script has aborted.
OneRowEach ==
    \A i, j \in DOMAIN records :
        i # j => records[i].pid # records[j].pid

\* The wrappers under faults, side by side.
RunInv == RunTypeOK /\ SessionIsOwn /\ EndedUnderTokensClient

\* Whatever fails, a wrapper whose command is over ends, and one that waits
\* for its start gets to run the command or aborts.  (With OrphansNeedFaults:
\* when fewer than three calls fail, every finished command's session closes.)
WrapperEnds ==
    \A w \in Wrappers :
        /\ pc[w] = "ending" ~> pc[w] \in Over
        /\ pc[w] = "starting" ~> pc[w] \in Over \cup {"running"}

=============================================================================
