----------------------------- MODULE Supervisor -----------------------------
(***************************************************************************)
(* The supervisor (pkg/supervisor) and the reflector control               *)
(* (pkg/reflector/reflector_ctl.go): one process that runs a reflector,    *)
(* stops it to archive a snapshot of its LDB file, and starts it again.    *)
(* Five kinds of goroutines: the supervisor's loop, the lifecycle loop     *)
(* that alone starts and stops the reflector, the reflector, one upload    *)
(* per destination, and whoever cancels the application's context.         *)
(*                                                                         *)
(* Destinations are s3: URLs.  Sending on a channel without a buffer and   *)
(* receiving from it are one step.                                         *)
(***************************************************************************)
EXTENDS Naturals, FiniteSets

CONSTANT Destinations    \* SnapshotURL: where the snapshot is uploaded to

ASSUME SupervisorAssumption == IsFiniteSet(Destinations)

VARIABLES app,       \* "up", "cancelled" (context), "exited" or "panicked"
          sup,       \* where the supervisor's goroutine is
          ctl,       \* lifecycle: "idle", "stopping" (waits for done) or "gone"
          running,   \* lifecycle's variable running
          refl,      \* the reflector's goroutine: "off", "on" or "cancelled"
          uploads,   \* uploads that read the LDB file
          done,      \* results of the current snapshot: successes
          failed,    \* results of the current snapshot: an error
          archive    \* what each destination holds

vars == <<app, sup, ctl, running, refl, uploads, done, failed, archive>>

(* sup  "starting"    before the first reflectorCtl.Start                  *)
(*      "snapshot"    before reflectorCtl.Stop                             *)
(*      "stopping"    waits for the result of Stop                         *)
(*      "checkpoint"  before checkpointLDB                                 *)
(*      "join"        receives the results of the uploads                  *)
(*      "restart"     in the deferred reflectorCtl.Start                   *)
(*      "sleep"       between two snapshots                                *)
(*      "close"       in reflectorCtl.Close, before Stop                   *)
(*      "closing"     in reflectorCtl.Close, waits for the result of Stop  *)
(*      "closed"      in reflectorCtl.Close, before reflector.Close        *)
Pcs == {"starting", "snapshot", "stopping", "checkpoint", "join", "restart",
        "sleep", "close", "closing", "closed"}

\* current: belongs to the last snapshot; dirty: the file changed meanwhile.
\* Two leftover uploads that agree in everything are one here.
Uploads == [dest : Destinations, current : BOOLEAN, dirty : BOOLEAN]

TypeOK ==
    /\ app \in {"up", "cancelled", "exited", "panicked"}
    /\ sup \in Pcs
    /\ ctl \in {"idle", "stopping", "gone"}
    /\ running \in BOOLEAN
    /\ refl \in {"off", "on", "cancelled"}
    /\ uploads \subseteq Uploads
    /\ done \in 0..Cardinality(Destinations)
    /\ failed \in BOOLEAN
    /\ archive \in [Destinations -> {"none", "whole", "mixed"}]

Init ==
    /\ app = "up"
    /\ sup = "starting"
    /\ ctl = "idle"
    /\ running = FALSE
    /\ refl = "off"
    /\ uploads = {}
    /\ done = 0
    /\ failed = FALSE
    /\ archive = [d \in Destinations |-> "none"]

Alive == app \in {"up", "cancelled"}

uploadVars == <<uploads, done, failed, archive>>

-----------------------------------------------------------------------------
(* The reflector.  Its context is a child of the application's, and it     *)
(* finishes the statement at hand before it looks at it.                   *)

Dirty(us) == {[u EXCEPT !.dirty = TRUE] : u \in us}

ReflectorWrite ==
    /\ Alive
    /\ refl # "off"
    /\ uploads' = Dirty(uploads)
    /\ UNCHANGED <<app, sup, ctl, running, refl, done, failed, archive>>

ReflectorReturn ==
    /\ Alive
    /\ refl = "cancelled"
    /\ refl' = "off"
    /\ UNCHANGED <<app, sup, ctl, running, uploadVars>>

-----------------------------------------------------------------------------
(* ReflectorCtl *)

\* Start, received by the lifecycle goroutine, and its result.
CtlStart ==
    /\ Alive
    /\ sup \in {"starting", "restart"}
    /\ ctl = "idle"
    /\ refl' = IF running THEN refl ELSE IF app = "up" THEN "on" ELSE "cancelled"
    /\ running' = TRUE
    /\ sup' = IF sup = "starting" THEN "snapshot" ELSE "sleep"
    /\ UNCHANGED <<app, ctl, uploadVars>>

\* Mutant: the reflector is cancelled and not waited for.
CtlStopNoWait ==
    /\ Alive
    /\ sup \in {"snapshot", "close"}
    /\ ctl = "idle"
    /\ refl' = IF refl = "on" THEN "cancelled" ELSE refl
    /\ running' = FALSE
    /\ sup' = IF sup = "snapshot" THEN "checkpoint" ELSE "closed"
    /\ UNCHANGED <<app, ctl, uploadVars>>

\* Stop, received by the lifecycle goroutine: nothing to do, or cancel().
\* sendErr may find the application's context done before it finds the
\* receiver: the result is lost, and Stop waits for its own context, which
\* in snapshot is the same one and in Close has a timeout.
CtlStop ==
    /\ Alive
    /\ sup \in {"snapshot", "close"}
    /\ ctl = "idle"
    /\ IF running
       THEN /\ ctl' = "stopping"
            /\ refl' = IF refl = "on" THEN "cancelled" ELSE refl
            /\ sup' = IF sup = "snapshot" THEN "stopping" ELSE "closing"
       ELSE /\ sup' \in IF sup = "snapshot" THEN {"checkpoint"} ELSE {"closed", "closing"}
            /\ UNCHANGED <<ctl, refl>>
    /\ UNCHANGED <<app, running, uploadVars>>

\* Mutant: running is not reset.
CtlStoppedKeepFlag ==
    /\ Alive
    /\ ctl = "stopping"
    /\ refl = "off"
    /\ ctl' = "idle"
    /\ sup' = IF sup = "stopping" THEN "checkpoint"
              ELSE IF sup = "closing" THEN "closed" ELSE sup
    /\ UNCHANGED <<app, running, refl, uploadVars>>

\* wg.Wait returned: the result goes to Stop if that still waits for it, or
\* is lost as above.
CtlStopped ==
    /\ Alive
    /\ ctl = "stopping"
    /\ refl = "off"
    /\ running' = FALSE
    /\ ctl' = "idle"
    /\ \/ sup = "stopping" /\ sup' = "checkpoint"
       \/ sup = "closing" /\ sup' = "closed"
       \/ app = "cancelled" /\ UNCHANGED sup
    /\ UNCHANGED <<app, refl, uploadVars>>

\* reflectorCtlTimeout, also when the reflector has just returned: select
\* takes either.  Stop panics on the error, and with it the process, unless
\* nobody receives the error.
CtlTimeout ==
    /\ Alive
    /\ ctl = "stopping"
    /\ ctl' = "idle"
    /\ \/ sup \in {"stopping", "closing"} /\ app' = "panicked"
       \/ app = "cancelled" /\ UNCHANGED app
    /\ UNCHANGED <<sup, running, refl, uploadVars>>

CtlExit ==
    /\ app = "cancelled"
    /\ ctl = "idle"
    /\ ctl' = "gone"
    /\ UNCHANGED <<app, sup, running, refl, uploadVars>>

\* Mutant: the deferred Start does not give up.
GiveUpNotRestart ==
    /\ app = "cancelled"
    /\ sup \in {"starting", "snapshot", "stopping"}
    /\ sup' = CASE sup = "starting"                -> "snapshot"
                [] sup \in {"snapshot", "stopping"} -> "checkpoint"
    /\ UNCHANGED <<app, ctl, running, refl, uploadVars>>

\* Start and Stop return without a result when the context is done.
GiveUp ==
    /\ app = "cancelled"
    /\ sup \in {"starting", "snapshot", "stopping", "restart"}
    /\ sup' = CASE sup = "starting"                -> "snapshot"
                [] sup \in {"snapshot", "stopping"} -> "checkpoint"
                [] sup = "restart"                 -> "sleep"
    /\ UNCHANGED <<app, ctl, running, refl, uploadVars>>

-----------------------------------------------------------------------------
(* supervisor.snapshot *)

\* Mutant: the results of the last snapshot are still there.
CheckpointKeepResults ==
    /\ Alive
    /\ sup = "checkpoint"
    /\ uploads' = {[u EXCEPT !.current = FALSE] : u \in Dirty(uploads)}
                  \cup [dest : Destinations, current : {TRUE}, dirty : {FALSE}]
    /\ sup' = "join"
    /\ UNCHANGED <<app, ctl, running, refl, done, failed, archive>>

\* checkpointLDB and stat succeed: VACUUM rewrites the file, then one upload
\* for each destination starts.  No lock is held from here on.
Checkpoint ==
    /\ Alive
    /\ sup = "checkpoint"
    /\ uploads' = {[u EXCEPT !.current = FALSE] : u \in Dirty(uploads)}
                  \cup [dest : Destinations, current : {TRUE}, dirty : {FALSE}]
    /\ done' = 0
    /\ failed' = FALSE
    /\ sup' = "join"
    /\ UNCHANGED <<app, ctl, running, refl, archive>>

\* An error of any of its statements, VACUUM done or not, or of stat.
CheckpointFail ==
    /\ Alive
    /\ sup = "checkpoint"
    /\ uploads' \in {uploads, Dirty(uploads)}
    /\ sup' = "restart"
    /\ UNCHANGED <<app, ctl, running, refl, done, failed, archive>>

\* S3 shows an object once all of it has arrived, and a cancelled context
\* aborts the upload.
UploadSucceeds(u) ==
    /\ app = "up"
    /\ uploads' = uploads \ {u}
    /\ archive' = [archive EXCEPT ![u.dest] = IF u.dirty THEN "mixed" ELSE "whole"]
    /\ done' = IF u.current THEN done + 1 ELSE done
    /\ UNCHANGED <<app, sup, ctl, running, refl, failed>>

UploadFails(u) ==
    /\ Alive
    /\ uploads' = uploads \ {u}
    /\ failed' = (failed \/ u.current)
    /\ UNCHANGED <<app, sup, ctl, running, refl, done, archive>>

\* The first error ends the snapshot, or the last success does.  After an error
\* the other uploads go on reading the file.
Join ==
    /\ Alive
    /\ sup = "join"
    /\ failed \/ done = Cardinality(Destinations)
    /\ sup' = "restart"
    /\ UNCHANGED <<app, ctl, running, refl, uploadVars>>

-----------------------------------------------------------------------------
(* supervisor.Start and Close *)

WakeUp ==
    /\ Alive
    /\ sup = "sleep"
    /\ sup' = "snapshot"
    /\ UNCHANGED <<app, ctl, running, refl, uploadVars>>

Quit ==
    /\ app = "cancelled"
    /\ sup = "sleep"
    /\ sup' = "close"
    /\ UNCHANGED <<app, ctl, running, refl, uploadVars>>

\* Close gives Stop a context of its own, with a timeout.
CloseTimeout ==
    /\ Alive
    /\ sup \in {"close", "closing"}
    /\ sup' = "closed"
    /\ UNCHANGED <<app, ctl, running, refl, uploadVars>>

\* reflector.Close, and main returns.
Exit ==
    /\ Alive
    /\ sup = "closed"
    /\ app' = "exited"
    /\ UNCHANGED <<sup, ctl, running, refl, uploadVars>>

\* A signal: the application's context is done, and the reflector's with it.
Cancel ==
    /\ app = "up"
    /\ app' = "cancelled"
    /\ refl' = IF refl = "on" THEN "cancelled" ELSE refl
    /\ UNCHANGED <<sup, ctl, running, uploadVars>>

\* The process is gone.
Ended == ~Alive /\ UNCHANGED vars

CtlStep == CtlStart \/ CtlStop \/ CtlStopped \/ CtlExit

SupStep == GiveUp \/ Checkpoint \/ CheckpointFail \/ Join \/ WakeUp
           \/ CloseTimeout \/ Exit

UploadStep == \E u \in uploads : UploadSucceeds(u) \/ UploadFails(u)

Next == \/ ReflectorWrite \/ ReflectorReturn \/ CtlTimeout \/ Cancel \/ Quit
        \/ CtlStep \/ SupStep \/ UploadStep \/ Ended

Spec == Init /\ [][Next]_vars

\* Every goroutine goes on: uploads end one way or the other, the reflector
\* looks at its context, and a select that finds the context done again and
\* again takes that branch in the end.  Timeouts and signals may never come.
Fairness ==
    /\ WF_vars(ReflectorReturn)
    /\ WF_vars(CtlStep)
    /\ WF_vars(SupStep)
    /\ WF_vars(UploadStep)
    /\ SF_vars(Quit)

FairSpec == Spec /\ Fairness

-----------------------------------------------------------------------------
(* Properties *)

\* No destination ever holds a copy of an LDB file that changed while it was
\* read.  (With one destination this follows from SnapshotUndisturbed; with two
\* it does not hold, see the comment on Join.)
ArchivesWhole == \A d \in Destinations : archive[d] # "mixed"

\* As long as the snapshot waits for its uploads, nobody writes the file they
\* read: the reflector has stopped and does not start.
SnapshotUndisturbed ==
    app = "up" /\ sup = "join" => \A u \in uploads : u.current => ~u.dirty

\* Between two messages lifecycle knows whether the reflector runs: running
\* is neither stale after a stop nor lost by a second start.
FlagMatches == app = "up" /\ ctl = "idle" => (running <=> refl = "on")

\* Whatever becomes of a snapshot, the reflector runs again after it, unless
\* the process is told to quit or panics.
ReflectorResumes == []<>(refl = "on" \/ app # "up")

\* A cancelled application ends: nobody waits for a goroutine that is gone.
ShutsDown == app = "cancelled" ~> app \in {"exited", "panicked"}
=============================================================================
