----------------------------- MODULE BackupClient -----------------------------
(***************************************************************************)
(* The backup client tspan-backup (src/src/bin/backup.rs), run again and   *)
(* again into one directory: it names a file after the second, asks the    *)
(* server of BackupServer for a backup, writes what it gets into the file  *)
(* and, when all of it has come, removes all but the Keep newest files of  *)
(* the directory.  Requests that are no client's come from users.          *)
(*                                                                         *)
(* A run begins after the one before it is over, in a later second, and    *)
(* files are ordered by when they were last written.                       *)
(*                                                                         *)
(* Abstracted: an --output that names a file, and --keep 0, which skips    *)
(* the cleanup.                                                            *)
(***************************************************************************)
EXTENDS BackupServer

CONSTANTS
    Runs,           \* runs of the client
    Keep            \* --keep

ASSUME ClientAssumption ==
    Runs \subseteq Reqs /\ Keep \in Nat \ {0}

VARIABLES
    cpc,            \* where each run is
    target,         \* the name of its file
    victims,        \* files its cleanup is going to remove
    dir,            \* the names of the files in the directory, last written first
    complete        \* those that hold all of a backup

clientVars == <<serverVars, cpc, target, victims, dir, complete>>

Over == {"init", "exited", "failed"}

ClientTypeOK ==
    /\ ServerTypeOK
    /\ cpc \in [Runs -> Over \cup {"resolved", "waiting", "writing", "saved", "removing"}]
    /\ target \in [Runs -> Times \cup {NULL}]
    /\ victims \in [Runs -> Seq(Times)]
    /\ dir \in Seq(Times)
    /\ complete \subseteq {dir[i] : i \in DOMAIN dir}

ClientInit ==
    /\ ServerInit
    /\ cpc = [r \in Runs |-> "init"]
    /\ target = [r \in Runs |-> NULL]
    /\ victims = [r \in Runs |-> << >>]
    /\ dir = << >> /\ complete = {}

-----------------------------------------------------------------------------

Advance(r, label) == cpc' = [cpc EXCEPT ![r] = label]

\* The listing without a name, which is in it once at most.
Without(name) ==
    IF \E i \in DOMAIN dir : dir[i] = name
    THEN LET i == CHOOSE j \in DOMAIN dir : dir[j] = name
         IN  SubSeq(dir, 1, i - 1) \o SubSeq(dir, i + 1, Len(dir))
    ELSE dir

Written(name) == dir' = <<name>> \o Without(name)

\* resolve_output_path: the local time to the second makes the name.
Resolve(r) ==
    /\ cpc[r] = "init"
    /\ \A q \in Runs : cpc[q] \in Over /\ target[q] # now
    /\ target' = [target EXCEPT ![r] = now]
    /\ Advance(r, "resolved")
    /\ UNCHANGED <<serverVars, victims, dir, complete>>

Ask(r) ==
    /\ cpc[r] = "resolved"
    /\ Begin(r)
    /\ Advance(r, "waiting")
    /\ UNCHANGED <<target, victims, dir, complete>>

\* With status 200 File::create makes or truncates the file; an error ends the run.
GetReply(r) ==
    /\ cpc[r] = "waiting"
    /\ \/ /\ req[r].phase = "done"
          /\ Written(target[r])
          /\ complete' = complete \ {target[r]}
          /\ Advance(r, "writing")
       \/ req[r].phase = "failed" /\ Advance(r, "failed") /\ UNCHANGED <<dir, complete>>
    /\ UNCHANGED <<serverVars, target, victims>>

WriteAll(r) ==
    /\ cpc[r] = "writing"
    /\ Written(target[r])
    /\ complete' = complete \cup {target[r]}
    /\ Advance(r, "saved")
    /\ UNCHANGED <<serverVars, target, victims>>

\* The download breaks off or takes more than two minutes, or the disk is
\* full: what has been written stays.
WriteFails(r) ==
    /\ Fault
    /\ cpc[r] = "writing"
    /\ Advance(r, "failed")
    /\ UNCHANGED <<version, lock, temps, content, req, now, target, victims, dir, complete>>

\* Not in the code: the oldest files come first.
OldByAge == SubSeq(dir, 1, Len(dir) - Keep)

\* The files after the Keep newest.
Old == SubSeq(dir, Keep + 1, Len(dir))

ListOld(r) ==
    /\ cpc[r] = "saved"
    /\ victims' = [victims EXCEPT ![r] = Old]
    /\ Advance(r, "removing")
    /\ UNCHANGED <<serverVars, target, dir, complete>>

RemoveOld(r) ==
    /\ cpc[r] = "removing"
    /\ \/ /\ victims[r] # << >>
          /\ LET name == Head(victims[r]) IN
              /\ dir' = Without(name)
              /\ complete' = complete \ {name}
          /\ victims' = [victims EXCEPT ![r] = Tail(@)]
          /\ UNCHANGED cpc
       \/ victims[r] = << >> /\ Advance(r, "exited") /\ UNCHANGED <<victims, dir, complete>>
    /\ UNCHANGED <<serverVars, target>>

Server ==
    /\ \/ \E k \in Reqs \ Runs : Begin(k)
       \/ \E k \in Reqs : Handle(k)
       \/ HandlerWrites
       \/ OtherProcessWrites
       \/ Crash
       \/ Tick
    /\ UNCHANGED <<cpc, target, victims, dir, complete>>

ClientNext ==
    \/ Server
    \/ \E r \in Runs :
        \/ Resolve(r)
        \/ Ask(r)
        \/ GetReply(r)
        \/ WriteAll(r)
        \/ WriteFails(r)
        \/ ListOld(r)
        \/ RemoveOld(r)

ClientSpec == ClientInit /\ [][ClientNext]_clientVars

-----------------------------------------------------------------------------
(* Properties *)

\* Every temporary file has an owner that will remove it.
BackupInv == ClientTypeOK /\ TempsAccounted

\* The rotation never costs the last backup: once a run has saved a complete
\* one, the directory holds a complete one for ever, files of runs that broke
\* off half-way and count as backups notwithstanding.
SomeCompleteBackup ==
    (\E r \in Runs : cpc[r] \in {"saved", "removing", "exited"}) =>
        complete # {}

=============================================================================
