----------------------------- MODULE Bootstrap -----------------------------
(***************************************************************************)
(* The life of a host: ReflectorFromConfig (pkg/reflector/reflector.go)    *)
(* gets it an LDB from the archive, unless it has one; then it reflects,   *)
(* and the supervisor among the hosts uploads to that archive.  The        *)
(* process may die at any point and is started again with the files on its *)
(* disk.  Downloads go to a file beside LDBPath that is renamed.           *)
(***************************************************************************)
EXTENDS Supervisor

CONSTANTS BootstrapURL,   \* the destination the host downloads from
          MaxAttempts     \* attempts of one process to download

ASSUME BootstrapAssumption ==
    /\ BootstrapURL \in Destinations
    /\ MaxAttempts \in Nat \ {0}

VARIABLES isSupervisor,   \* the host's configuration, which does not change
          host,           \* "down", "try", "copy", "rename" or "up"
          attempts,       \* maxAttempts: how many are left
          tmp,            \* the file tmpPath
          path            \* the file LDBPath

hostVars == <<host, attempts, tmp, path>>
allVars  == <<vars, isSupervisor, hostVars>>

\* A file is absent, the beginning of a snapshot, a snapshot as its archive
\* holds it, or an LDB made by SQLite.
HostTypeOK ==
    /\ TypeOK
    /\ isSupervisor \in BOOLEAN
    /\ host \in {"down", "try", "copy", "rename", "up"}
    /\ attempts \in 0..MaxAttempts /\ (host = "try" => attempts # 0)
    /\ tmp \in {"none", "part", "whole", "mixed"}
    /\ path \in {"none", "part", "whole", "mixed", "new"}

\* The variables of Supervisor have their initial values, but there is no
\* process yet, and an earlier supervisor may have left snapshots.
HostInit ==
    /\ app = "exited" /\ sup = "starting" /\ ctl = "idle"
    /\ running = FALSE /\ refl = "off"
    /\ uploads = {} /\ done = 0 /\ failed = FALSE
    /\ archive \in [Destinations -> {"none", "whole"}]
    /\ isSupervisor \in BOOLEAN
    /\ host = "down" /\ attempts = 0 /\ tmp = "none" /\ path = "none"

Object == archive[BootstrapURL]

-----------------------------------------------------------------------------
(* The process *)

\* Nothing of a process survives it but files: its uploads are aborted.
ProcessGone ==
    /\ app' = "exited" /\ sup' = "starting" /\ ctl' = "idle"
    /\ running' = FALSE /\ refl' = "off"
    /\ uploads' = {} /\ done' = 0 /\ failed' = FALSE
    /\ UNCHANGED <<archive, isSupervisor>>

\* ReflectorFromConfig goes on, and the supervisor, if this host has one,
\* starts.  sql.Open does not touch the file yet.
Reflects ==
    /\ host' = "up" /\ attempts' = 0
    /\ app' = IF isSupervisor THEN "up" ELSE app
    /\ UNCHANGED <<sup, ctl, running, refl, uploadVars, isSupervisor>>

\* os.Stat(LDBPath).
Boot ==
    /\ host = "down"
    /\ \/ path # "none" /\ Reflects
       \/ /\ path = "none"
          /\ host' = "try" /\ attempts' = MaxAttempts
          /\ UNCHANGED <<vars, isSupervisor>>
    /\ UNCHANGED <<tmp, path>>

\* Mutant: snapshots are written to LDBPath itself.
DieInPlace ==
    /\ host # "down"
    /\ host' = "down" /\ attempts' = 0
    /\ path' = IF host = "copy" THEN tmp ELSE path
    /\ UNCHANGED tmp
    /\ ProcessGone

\* The process dies, or its end is noticed.
Die ==
    /\ host # "down"
    /\ host' = "down" /\ attempts' = 0
    /\ UNCHANGED <<tmp, path>>
    /\ ProcessGone

-----------------------------------------------------------------------------
(* bootstrapLDB *)

\* It returns an error, and with it the process; tmpPath is removed.
BootstrapFails ==
    /\ host' = "down" /\ attempts' = 0
    /\ tmp' = "none"
    /\ UNCHANGED <<vars, isSupervisor, path>>

\* It returns nil, with this file or none at LDBPath.
Bootstrapped(file) ==
    /\ Reflects
    /\ tmp' = "none"
    /\ path' = file

\* A temporary error: another attempt if one is left.
Retry ==
    \/ /\ attempts > 1
       /\ attempts' = attempts - 1
       /\ tmp' = "part"
       /\ UNCHANGED <<vars, isSupervisor, host, path>>
    \/ attempts = 1 /\ BootstrapFails

\* The object is there and its bytes begin to arrive.
Download ==
    /\ host' = "copy"
    /\ tmp' = "part"
    /\ UNCHANGED <<vars, isSupervisor, attempts, path>>

\* Mutant: a file left by an earlier process is not truncated but refused.
GetObjectExclusive ==
    /\ host = "try" /\ tmp = "none"
    /\ \/ Object # "none" /\ Download
       \/ Object = "none" /\ isSupervisor /\ Bootstrapped("none")
       \/ Object = "none" /\ ~isSupervisor /\ Retry

\* tmpPath is opened and truncated, and S3 answers.  Without a snapshot the
\* supervisor starts without an LDB; for other hosts that is an error as any.
GetObject ==
    /\ host = "try"
    /\ \/ Object # "none" /\ Download
       \/ Object = "none" /\ isSupervisor /\ Bootstrapped("none")
       \/ Object = "none" /\ ~isSupervisor /\ Retry

GetObjectFails == host = "try" /\ Retry

\* io.Copy to its end.
Copy ==
    /\ host = "copy"
    /\ host' = "rename"
    /\ tmp' = IF Object = "mixed" THEN "mixed" ELSE "whole"
    /\ UNCHANGED <<vars, isSupervisor, attempts, path>>

\* An error that is not temporary, of the file, the copy or os.Rename.
OtherError == host \in {"try", "copy", "rename"} /\ BootstrapFails

Rename == host = "rename" /\ Bootstrapped(tmp)

-----------------------------------------------------------------------------
\* The supervisor of another host uploads a snapshot.
Publish ==
    /\ ~isSupervisor
    /\ Object = "none"
    /\ archive' = [archive EXCEPT ![BootstrapURL] = "whole"]
    /\ UNCHANGED <<app, sup, ctl, running, refl, uploads, done, failed>>
    /\ UNCHANGED <<isSupervisor, hostVars>>

\* SQLite makes the file on the first connection: that of the reflector's
\* EnsureLdbInitialized or of checkpointLDB.
Initialize ==
    /\ host = "up" /\ isSupervisor /\ Alive
    /\ path = "none"
    /\ refl # "off" \/ sup = "checkpoint"
    /\ path' = "new"
    /\ UNCHANGED <<vars, isSupervisor, host, attempts, tmp>>

\* A checkpoint that succeeds has opened the file.
Supervise ==
    /\ host = "up" /\ isSupervisor
    /\ Next
    /\ sup' = "join" => path # "none"
    /\ UNCHANGED <<isSupervisor, hostVars>>

BootstrapStep == GetObject \/ GetObjectFails \/ Copy \/ OtherError \/ Rename

HostNext == Boot \/ Die \/ BootstrapStep \/ Publish \/ Initialize \/ Supervise

HostSpec == HostInit /\ [][HostNext]_allVars

\* The supervisor is fair as in Supervisor.  A host that is down is started
\* again, and not every attempt to download fails.
HostFairSpec ==
    /\ HostSpec
    /\ Fairness
    /\ WF_allVars(Boot)
    /\ SF_allVars(GetObject) /\ SF_allVars(Copy) /\ SF_allVars(Rename)

-----------------------------------------------------------------------------
(* Properties *)

\* Whenever a process dies, the file at LDBPath is a complete snapshot or a
\* database that SQLite made, never the beginning of a download: the next
\* process would take it for its LDB.
LdbComplete == path # "part"

\* Once there is a snapshot the host gets an LDB, whatever earlier processes
\* left on its disk.
HostComesUp == Object # "none" ~> path # "none"
=============================================================================
