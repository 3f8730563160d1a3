--------------------------- MODULE BootstrapProofs ---------------------------
(***************************************************************************)
(* Proofs about the supervisor and the host it runs on, for any number of  *)
(* destinations and attempts, whatever fails and whenever the process      *)
(* dies: what lifecycle knows of the reflector, that a snapshot is taken   *)
(* of a file that nobody writes, and that LDBPath holds a complete file.   *)
(***************************************************************************)
EXTENDS Bootstrap, FiniteSetTheorems, TLAPS

USE SupervisorAssumption, BootstrapAssumption

-----------------------------------------------------------------------------
(* The inductive invariant *)

\* While the application is up the reflector is where the supervisor thinks
\* it is: stopped on both sides of a snapshot, running before and after, and
\* on its way from one to the other only while Stop waits for it.
InStep ==
    app = "up" =>
        \/ /\ sup \in {"starting", "checkpoint", "join", "restart"}
           /\ ctl = "idle" /\ running = FALSE /\ refl = "off"
        \/ /\ sup \in {"snapshot", "sleep"}
           /\ ctl = "idle" /\ running = TRUE /\ refl = "on"
        \/ /\ sup = "stopping"
           /\ ctl = "stopping" /\ running = TRUE /\ refl # "on"

\* The destinations the current snapshot still uploads to.
Pending(us) == {u.dest : u \in {v \in us : v.current = TRUE}}

\* One upload of the current snapshot for a destination, and none for one
\* whose success is counted already.
UploadsCounted ==
    /\ \A u, v \in uploads :
          u.current = TRUE /\ v.current = TRUE /\ u.dest = v.dest => u = v
    /\ done + Cardinality(Pending(uploads)) <= Cardinality(Destinations)

SupIInv ==
    /\ TypeOK
    /\ InStep
    /\ UploadsCounted
    /\ SnapshotUndisturbed

\* A process that does not reflect yet has no supervisor that does anything,
\* and a file that is about to be renamed has all its bytes.
HostIInv ==
    /\ HostTypeOK
    /\ SupIInv
    /\ host # "up" => /\ app = "exited" /\ sup = "starting" /\ ctl = "idle"
                      /\ running = FALSE /\ refl = "off" /\ uploads = {}
    /\ host = "rename" => tmp \in {"whole", "mixed"}
    /\ LdbComplete

-----------------------------------------------------------------------------
(* Uploads *)

LEMMA PendingFinite ==
    ASSUME NEW us \in SUBSET Uploads
    PROVE  /\ Pending(us) \subseteq Destinations
           /\ IsFiniteSet(Pending(us))
           /\ Cardinality(Pending(us)) \in Nat
           /\ Cardinality(Pending(us)) <= Cardinality(Destinations)
           /\ Cardinality(Destinations) \in Nat
  <1>1. Pending(us) \subseteq Destinations
    BY DEF Pending, Uploads
  <1> QED
    BY <1>1, FS_Subset, FS_CardinalityType

\* A write to the file makes every upload dirty and ends none.
LEMMA DirtyUploads ==
    ASSUME NEW us \in SUBSET Uploads
    PROVE  /\ Dirty(us) \in SUBSET Uploads
           /\ \A u \in Dirty(us) : \E v \in us : u = [v EXCEPT !.dirty = TRUE]
           /\ Pending(Dirty(us)) = Pending(us)
  <1>1. Dirty(us) \in SUBSET Uploads
    BY DEF Dirty, Uploads
  <1>2. \A u \in Dirty(us) : \E v \in us : u = [v EXCEPT !.dirty = TRUE]
    BY DEF Dirty
  <1>3. \A v \in us : /\ [v EXCEPT !.dirty = TRUE] \in Dirty(us)
                      /\ [v EXCEPT !.dirty = TRUE].dest = v.dest
                      /\ [v EXCEPT !.dirty = TRUE].current = v.current
    BY DEF Dirty, Uploads
  <1>4. \A u \in Dirty(us) : \E v \in us : u.dest = v.dest /\ u.current = v.current
    BY <1>2 DEF Uploads
  <1>5. Pending(Dirty(us)) \subseteq Pending(us)
    BY <1>4 DEF Pending
  <1>6. Pending(us) \subseteq Pending(Dirty(us))
    BY <1>3 DEF Pending
  <1> QED
    BY <1>1, <1>2, <1>5, <1>6

LEMMA DirtyCounted ==
    ASSUME TypeOK, UploadsCounted, uploads' = Dirty(uploads), done' = done
    PROVE  UploadsCounted' /\ uploads' \subseteq Uploads
  <1>1. uploads \in SUBSET Uploads
    BY DEF TypeOK
  <1>2. \A u \in uploads' : \E v \in uploads :
            /\ u = [v EXCEPT !.dirty = TRUE]
            /\ u.dest = v.dest /\ u.current = v.current
    BY <1>1, DirtyUploads DEF Uploads
  <1>3. ASSUME NEW u \in uploads', NEW v \in uploads',
               u.current = TRUE, v.current = TRUE, u.dest = v.dest
        PROVE  u = v
    <2>1. PICK x \in uploads : u = [x EXCEPT !.dirty = TRUE]
                               /\ u.dest = x.dest /\ u.current = x.current
      BY <1>2
    <2>2. PICK y \in uploads : v = [y EXCEPT !.dirty = TRUE]
                               /\ v.dest = y.dest /\ v.current = y.current
      BY <1>2
    <2>3. x = y
      BY <1>3, <2>1, <2>2 DEF UploadsCounted
    <2> QED
      BY <2>1, <2>2, <2>3
  <1>4. Pending(uploads') = Pending(uploads)
    BY <1>1, DirtyUploads
  <1> QED
    BY <1>1, <1>3, <1>4, DirtyUploads DEF UploadsCounted

\* An upload ends: its destination is no longer pending.
LEMMA RemoveCounted ==
    ASSUME TypeOK, UploadsCounted, NEW u \in uploads, uploads' = uploads \ {u},
           done' = done \/ (done' = done + 1 /\ u.current = TRUE)
    PROVE  /\ UploadsCounted' /\ uploads' \subseteq Uploads
           /\ done' \in 0..Cardinality(Destinations)
  <1>1. uploads \in SUBSET Uploads /\ uploads' \in SUBSET Uploads /\ done \in Nat
    BY PendingFinite DEF TypeOK
  <1>2. Pending(uploads') \subseteq Pending(uploads)
    BY DEF Pending
  <1>3. CASE u.current = TRUE
    <2>1. u.dest \in Pending(uploads)
      BY <1>3 DEF Pending
    <2>2. Pending(uploads') = Pending(uploads) \ {u.dest}
      BY <1>3 DEF Pending, UploadsCounted
    <2>3. Cardinality(Pending(uploads')) = Cardinality(Pending(uploads)) - 1
      <3>1. IsFiniteSet(Pending(uploads))
        BY <1>1, PendingFinite
      <3> QED
        BY <2>1, <2>2, <3>1, FS_RemoveElement, ZenonT(60)
    <2> QED
      BY <1>1, <2>3, PendingFinite DEF UploadsCounted
  <1>4. CASE u.current # TRUE
    <2>1. Cardinality(Pending(uploads')) <= Cardinality(Pending(uploads))
      BY <1>1, <1>2, PendingFinite, FS_Subset
    <2>2. /\ Cardinality(Pending(uploads)) \in Nat /\ Cardinality(Pending(uploads')) \in Nat
          /\ Cardinality(Destinations) \in Nat
      BY <1>1, PendingFinite
    <2>3. done' = done
      BY <1>4
    <2>4. done' + Cardinality(Pending(uploads')) <= Cardinality(Destinations)
      BY <1>1, <2>1, <2>2, <2>3 DEF UploadsCounted
    <2> QED
      BY <1>1, <2>2, <2>3, <2>4 DEF UploadsCounted
  <1> QED
    BY <1>3, <1>4

\* A new snapshot: one upload for each destination, the older ones no longer
\* count.
LEMMA CheckpointCounted ==
    ASSUME TypeOK, Checkpoint
    PROVE  /\ UploadsCounted' /\ uploads' \subseteq Uploads
           /\ done' \in 0..Cardinality(Destinations)
           /\ \A u \in uploads' : u.current = TRUE => u.dirty = FALSE
  <1> DEFINE old == {[u EXCEPT !.current = FALSE] : u \in Dirty(uploads)}
             new == [dest : Destinations, current : {TRUE}, dirty : {FALSE}]
  <1>1. old \in SUBSET Uploads /\ \A u \in old : u.current = FALSE
    <2>1. Dirty(uploads) \in SUBSET Uploads
      BY DirtyUploads DEF TypeOK
    <2>2. \A u \in Uploads : /\ [u EXCEPT !.current = FALSE] \in Uploads
                             /\ [u EXCEPT !.current = FALSE].current = FALSE
      BY DEF Uploads
    <2> QED
      BY <2>1, <2>2
  <1>2. new \in SUBSET Uploads /\ \A u \in new : u.current = TRUE /\ u.dirty = FALSE
    BY DEF Uploads
  <1>3. \A u, v \in new : u.dest = v.dest => u = v
    <2>1. \A u, v \in Uploads : u.dest = v.dest /\ u.current = v.current /\ u.dirty = v.dirty
                                => u = v
      BY DEF Uploads
    <2> QED
      BY <1>2, <2>1, Zenon
  <1>4. uploads' = old \cup new /\ done' = 0
    BY DEF Checkpoint
  <1> HIDE DEF old, new
  <1>5. uploads' \in SUBSET Uploads
    BY <1>1, <1>2, <1>4
  <1> QED
    BY <1>1, <1>2, <1>3, <1>4, <1>5, PendingFinite DEF UploadsCounted

-----------------------------------------------------------------------------
(* The supervisor *)

LEMMA SupInitIInv == Init => SupIInv
  <1> SUFFICES ASSUME Init PROVE SupIInv
    OBVIOUS
  <1>1. Pending({}) = {} /\ Cardinality(Pending({})) = 0 /\ Cardinality(Destinations) \in Nat
    BY FS_EmptySet, FS_CardinalityType DEF Pending
  <1>2. running \in BOOLEAN /\ failed \in BOOLEAN
    BY DEF Init
  <1>3. TypeOK
    BY <1>1, <1>2 DEF Init, TypeOK, Pcs
  <1> QED
    BY <1>1, <1>3 DEF Init, SupIInv, InStep, UploadsCounted, SnapshotUndisturbed

\* A step that leaves the uploads and their results alone keeps the invariant
\* if it keeps the supervisor and the reflector in step, and only a
\* checkpoint begins to wait for uploads.
LEMMA UploadsAlone ==
    ASSUME SupIInv, UNCHANGED uploadVars,
           app' \in {"up", "cancelled", "exited", "panicked"}, sup' \in Pcs,
           ctl' \in {"idle", "stopping", "gone"}, running' \in BOOLEAN,
           refl' \in {"off", "on", "cancelled"},
           app' = "up" => app = "up",
           sup' = "join" => sup = "join",
           InStep'
    PROVE  SupIInv'
  <1>1. TypeOK'
    BY DEF SupIInv, TypeOK, uploadVars
  <1>2. UploadsCounted'
    BY DEF SupIInv, UploadsCounted, uploadVars
  <1>3. SnapshotUndisturbed'
    BY DEF SupIInv, SnapshotUndisturbed, uploadVars
  <1> QED
    BY <1>1, <1>2, <1>3 DEF SupIInv

\* A step that changes only uploads, results and archives.
LEMMA UploadsOnly ==
    ASSUME SupIInv, UNCHANGED <<app, sup, ctl, running, refl>>,
           uploads' \subseteq Uploads, UploadsCounted',
           done' \in 0..Cardinality(Destinations), failed' \in BOOLEAN,
           archive' \in [Destinations -> {"none", "whole", "mixed"}],
           app = "up" /\ sup = "join" => uploads' \subseteq uploads
    PROVE  SupIInv'
  <1>1. TypeOK' /\ InStep'
    BY DEF SupIInv, TypeOK, InStep
  <1>2. SnapshotUndisturbed'
    BY DEF SupIInv, SnapshotUndisturbed
  <1> QED
    BY <1>1, <1>2 DEF SupIInv

LEMMA SupNextIInv ==
    ASSUME SupIInv, Next
    PROVE  SupIInv'
  <1>0. TypeOK /\ UploadsCounted /\ InStep
    BY DEF SupIInv
  <1>1. CASE ReflectorWrite
    <2>1. UploadsCounted' /\ uploads' \subseteq Uploads
      BY <1>0, <1>1, DirtyCounted DEF ReflectorWrite
    <2>2. ~(app = "up" /\ sup = "join")
      BY <1>0, <1>1 DEF ReflectorWrite, InStep
    <2>3. UNCHANGED <<app, sup, ctl, running, refl, done, failed, archive>>
      BY <1>1 DEF ReflectorWrite
    <2> QED
      BY <1>0, <2>1, <2>2, <2>3, UploadsOnly DEF TypeOK
  <1>2. CASE ReflectorReturn
    BY <1>0, <1>2, UploadsAlone DEF ReflectorReturn, TypeOK, InStep
  <1>3. CASE CtlStart
    <2>1. running' \in BOOLEAN
      BY <1>3 DEF CtlStart
    <2> QED
      BY <1>0, <1>3, <2>1, UploadsAlone DEF CtlStart, TypeOK, InStep, Pcs
  <1>4. CASE CtlStop
    BY <1>0, <1>4, UploadsAlone DEF CtlStop, TypeOK, InStep, Pcs
  <1>5. CASE CtlStopped
    <2>1. running' \in BOOLEAN
      BY <1>5 DEF CtlStopped
    <2> QED
      BY <1>0, <1>5, <2>1, UploadsAlone DEF CtlStopped, TypeOK, InStep, Pcs
  <1>6. CASE CtlExit
    BY <1>0, <1>6, UploadsAlone DEF CtlExit, TypeOK, InStep, Pcs
  <1>7. CASE CtlTimeout
    BY <1>0, <1>7, UploadsAlone DEF CtlTimeout, TypeOK, InStep, Pcs
  <1>8. CASE Cancel
    BY <1>0, <1>8, UploadsAlone DEF Cancel, TypeOK, InStep, Pcs
  <1>9. CASE Quit
    BY <1>0, <1>9, UploadsAlone DEF Quit, TypeOK, InStep, Pcs
  <1>10. CASE GiveUp
    <2>1. sup' \in {"snapshot", "checkpoint", "sleep"}
      BY <1>10 DEF GiveUp
    <2> QED
      BY <1>0, <1>10, <2>1, UploadsAlone DEF GiveUp, TypeOK, InStep, Pcs
  <1>11. CASE Checkpoint
    <2>1. failed' \in BOOLEAN
      BY <1>11 DEF Checkpoint
    <2>2. TypeOK' /\ InStep'
      BY <1>0, <1>11, <2>1, CheckpointCounted DEF Checkpoint, TypeOK, InStep, Pcs
    <2>3. SnapshotUndisturbed'
      BY <1>0, <1>11, CheckpointCounted DEF SnapshotUndisturbed, TypeOK, Uploads
    <2> QED
      BY <1>0, <1>11, <2>2, <2>3, CheckpointCounted DEF SupIInv
  <1>12. CASE CheckpointFail
    <2>1. UploadsCounted' /\ uploads' \subseteq Uploads
      <3>1. CASE uploads' = uploads
        BY <1>0, <1>12, <3>1 DEF CheckpointFail, TypeOK, UploadsCounted
      <3>2. CASE uploads' = Dirty(uploads)
        BY <1>0, <1>12, <3>2, DirtyCounted DEF CheckpointFail
      <3> QED
        BY <1>12, <3>1, <3>2 DEF CheckpointFail
    <2>2. TypeOK' /\ InStep'
      BY <1>0, <1>12, <2>1 DEF CheckpointFail, TypeOK, InStep, Pcs
    <2>3. SnapshotUndisturbed'
      BY <1>12 DEF CheckpointFail, SnapshotUndisturbed
    <2> QED
      BY <2>1, <2>2, <2>3 DEF SupIInv
  <1>13. CASE Join
    BY <1>0, <1>13, UploadsAlone DEF Join, TypeOK, InStep, Pcs
  <1>14. CASE WakeUp
    BY <1>0, <1>14, UploadsAlone DEF WakeUp, TypeOK, InStep, Pcs
  <1>15. CASE CloseTimeout
    BY <1>0, <1>15, UploadsAlone DEF CloseTimeout, TypeOK, InStep, Pcs
  <1>16. CASE Exit
    BY <1>0, <1>16, UploadsAlone DEF Exit, TypeOK, InStep, Pcs
  <1>17. ASSUME NEW u \in uploads, UploadSucceeds(u)
         PROVE  SupIInv'
    <2>1. /\ UploadsCounted' /\ uploads' \subseteq Uploads
          /\ done' \in 0..Cardinality(Destinations)
      BY <1>0, <1>17, RemoveCounted DEF UploadSucceeds
    <2>2. archive' \in [Destinations -> {"none", "whole", "mixed"}]
      BY <1>0, <1>17 DEF UploadSucceeds, TypeOK
    <2> QED
      BY <1>0, <1>17, <2>1, <2>2, UploadsOnly DEF UploadSucceeds, TypeOK
  <1>18. ASSUME NEW u \in uploads, UploadFails(u)
         PROVE  SupIInv'
    <2>1. /\ UploadsCounted' /\ uploads' \subseteq Uploads
          /\ done' \in 0..Cardinality(Destinations)
      BY <1>0, <1>18, RemoveCounted DEF UploadFails
    <2>2. failed' \in BOOLEAN
      BY <1>18, Zenon DEF UploadFails
    <2> QED
      BY <1>0, <1>18, <2>1, <2>2, UploadsOnly DEF UploadFails, TypeOK
  <1>19. CASE Ended
    BY <1>19 DEF Ended, vars, SupIInv, TypeOK, InStep, UploadsCounted, SnapshotUndisturbed
  <1> QED
    BY <1>1, <1>2, <1>3, <1>4, <1>5, <1>6, <1>7, <1>8, <1>9, <1>10, <1>11, <1>12, <1>13,
       <1>14, <1>15, <1>16, <1>17, <1>18, <1>19
       DEF Next, CtlStep, SupStep, UploadStep

LEMMA StutterSup ==
    ASSUME SupIInv, UNCHANGED vars
    PROVE  SupIInv'
  BY DEF vars, SupIInv, TypeOK, InStep, UploadsCounted, SnapshotUndisturbed

\* Supervisor by itself, without the life of a host around it.
LEMMA SupInvariance == Spec => []SupIInv
  <1>1. SupIInv /\ [Next]_vars => SupIInv'
    BY SupNextIInv, StutterSup
  <1> QED
    BY <1>1, SupInitIInv, PTL DEF Spec

-----------------------------------------------------------------------------
(* The host *)

LEMMA HostInitIInv == HostInit => HostIInv
  <1> SUFFICES ASSUME HostInit PROVE HostIInv
    OBVIOUS
  <1>1. Pending({}) = {} /\ Cardinality(Pending({})) = 0 /\ Cardinality(Destinations) \in Nat
    BY FS_EmptySet, FS_CardinalityType DEF Pending
  <1>2. running \in BOOLEAN /\ failed \in BOOLEAN
    BY DEF HostInit
  <1>3. TypeOK
    BY <1>1, <1>2 DEF HostInit, TypeOK, Pcs
  <1>4. HostTypeOK
    BY <1>3 DEF HostInit, HostTypeOK
  <1>5. SupIInv
    BY <1>1, <1>3 DEF HostInit, SupIInv, InStep, UploadsCounted, SnapshotUndisturbed
  <1> QED
    BY <1>4, <1>5 DEF HostInit, HostIInv, LdbComplete

\* bootstrapLDB returns, or there was an LDB: the supervisor starts afresh.
LEMMA ReflectsIInv ==
    ASSUME HostIInv, host # "up", Reflects,
           tmp' \in {"none", "part", "whole", "mixed"},
           path' \in {"none", "whole", "mixed", "new"}
    PROVE  HostIInv'
  <1>1. app' \in {"exited", "up"}
    BY DEF HostIInv, Reflects
  <1>2. InStep'
    BY DEF HostIInv, Reflects, InStep
  <1>3. UNCHANGED <<sup, ctl, running, refl, uploadVars>>
    BY DEF Reflects
  <1>4. TypeOK' /\ UploadsCounted'
    BY <1>1, <1>3 DEF HostIInv, SupIInv, TypeOK, UploadsCounted, uploadVars
  <1>5. SnapshotUndisturbed'
    BY <1>3 DEF HostIInv, SnapshotUndisturbed
  <1>6. HostTypeOK'
    BY <1>4 DEF HostIInv, HostTypeOK, Reflects
  <1> QED
    BY <1>2, <1>4, <1>5, <1>6 DEF HostIInv, SupIInv, Reflects, LdbComplete

\* A step of bootstrapLDB that does not end it, or ends it with an error.
LEMMA BootstrappingIInv ==
    ASSUME HostIInv, host # "up", UNCHANGED <<vars, isSupervisor, path>>,
           host' \in {"down", "try", "copy", "rename"},
           attempts' \in 0..MaxAttempts, host' = "try" => attempts' # 0,
           tmp' \in {"none", "part", "whole", "mixed"},
           host' = "rename" => tmp' \in {"whole", "mixed"}
    PROVE  HostIInv'
  <1>1. SupIInv'
    BY StutterSup DEF HostIInv
  <1>2. HostTypeOK'
    BY <1>1 DEF HostIInv, SupIInv, HostTypeOK
  <1> QED
    BY <1>1, <1>2 DEF HostIInv, LdbComplete, vars

LEMMA HostNextIInv == HostIInv /\ [HostNext]_allVars => HostIInv'
  <1> SUFFICES ASSUME HostIInv, [HostNext]_allVars PROVE HostIInv'
    OBVIOUS
  <1>0. /\ SupIInv /\ HostTypeOK
        /\ attempts \in 0..MaxAttempts /\ (host = "try" => attempts # 0)
        /\ tmp \in {"none", "part", "whole", "mixed"}
        /\ path \in {"none", "whole", "mixed", "new"}
        /\ MaxAttempts \in Nat \ {0}
    BY DEF HostIInv, HostTypeOK, LdbComplete
  <1>1. ASSUME host = "try", BootstrapFails \/ Retry PROVE HostIInv'
    BY <1>0, <1>1, BootstrappingIInv DEF BootstrapFails, Retry
  <1>2. CASE Boot
    <2>1. CASE path # "none" /\ Reflects
      BY <1>0, <1>2, <2>1, ReflectsIInv DEF Boot
    <2>2. CASE path = "none"
      BY <1>0, <1>2, <2>2, BootstrappingIInv DEF Boot
    <2> QED
      BY <1>2, <2>1, <2>2 DEF Boot
  <1>3. CASE Die
    <2>1. Pending({}) = {} /\ Cardinality(Pending({})) = 0 /\ Cardinality(Destinations) \in Nat
      BY FS_EmptySet, FS_CardinalityType DEF Pending
    <2>2. running' \in BOOLEAN /\ failed' \in BOOLEAN
      BY <1>3 DEF Die, ProcessGone
    <2>3. TypeOK'
      BY <1>0, <1>3, <2>1, <2>2 DEF Die, ProcessGone, SupIInv, TypeOK, Pcs
    <2>4. SupIInv'
      BY <1>3, <2>1, <2>3 DEF Die, ProcessGone, SupIInv, InStep, UploadsCounted,
                              SnapshotUndisturbed
    <2>5. HostTypeOK'
      BY <1>0, <1>3, <2>3 DEF Die, ProcessGone, HostTypeOK
    <2> QED
      BY <1>3, <2>4, <2>5 DEF Die, ProcessGone, HostIInv, LdbComplete
  <1>4. CASE GetObject
    <2>1. CASE Download
      BY <1>0, <1>4, <2>1, BootstrappingIInv DEF GetObject, Download
    <2>2. CASE Bootstrapped("none")
      BY <1>4, <2>2, ReflectsIInv DEF GetObject, Bootstrapped
    <2> QED
      BY <1>1, <1>4, <2>1, <2>2 DEF GetObject
  <1>5. CASE GetObjectFails
    BY <1>1, <1>5 DEF GetObjectFails
  <1>6. CASE Copy
    BY <1>0, <1>6, BootstrappingIInv DEF Copy
  <1>7. CASE OtherError
    BY <1>0, <1>7, BootstrappingIInv DEF OtherError, BootstrapFails
  <1>8. CASE Rename
    <2>1. tmp \in {"whole", "mixed"}
      BY <1>8 DEF Rename, HostIInv
    <2> QED
      BY <1>8, <2>1, ReflectsIInv DEF Rename, Bootstrapped
  <1>9. CASE Publish
    <2>1. TypeOK'
      BY <1>0, <1>9 DEF Publish, SupIInv, TypeOK
    <2>2. SupIInv'
      BY <1>0, <1>9, <2>1 DEF Publish, SupIInv, InStep, UploadsCounted, SnapshotUndisturbed
    <2> QED
      BY <1>0, <1>9, <2>1, <2>2 DEF Publish, HostIInv, HostTypeOK, LdbComplete, hostVars
  <1>10. CASE Supervise
    <2>1. SupIInv'
      BY <1>0, <1>10, SupNextIInv DEF Supervise
    <2> QED
      BY <1>0, <1>10, <2>1 DEF Supervise, HostIInv, SupIInv, HostTypeOK, LdbComplete, hostVars
  <1>11. CASE Initialize
    <2>1. SupIInv'
      BY <1>0, <1>11, StutterSup DEF Initialize
    <2> QED
      BY <1>0, <1>11, <2>1 DEF Initialize, HostIInv, SupIInv, HostTypeOK, LdbComplete, vars
  <1>12. CASE UNCHANGED allVars
    <2>1. SupIInv'
      BY <1>0, <1>12, StutterSup DEF allVars
    <2> QED
      BY <1>12, <2>1 DEF allVars, HostIInv, SupIInv, HostTypeOK, LdbComplete, hostVars, vars
  <1> QED
    BY <1>2, <1>3, <1>4, <1>5, <1>6, <1>7, <1>8, <1>9, <1>10, <1>11, <1>12
       DEF HostNext, BootstrapStep

LEMMA HostInvariance == HostSpec => []HostIInv
  BY HostInitIInv, HostNextIInv, PTL DEF HostSpec

-----------------------------------------------------------------------------
(* Theorems *)

\* Results are counted once: never more successes of a snapshot than it has
\* destinations, however many uploads of earlier snapshots are still under
\* way; and bootstrapLDB never tries without an attempt left.
THEOREM HostTypeCorrect == HostSpec => []HostTypeOK
  <1>1. HostIInv => HostTypeOK
    BY DEF HostIInv
  <1> QED
    BY <1>1, HostInvariance, PTL

\* Between two messages lifecycle's variable running says whether the
\* reflector runs, in whatever order Start, Stop, timeouts and the end of the
\* reflector came.
THEOREM FlagIsRight == HostSpec => []FlagMatches
  <1>1. HostIInv => FlagMatches
    BY DEF HostIInv, SupIInv, InStep, FlagMatches
  <1> QED
    BY <1>1, HostInvariance, PTL

\* The file is not written while the snapshot waits for its uploads: Stop
\* returned only after the reflector did, and nobody else starts it.
THEOREM NoWriteUnderSnapshot == HostSpec => []SnapshotUndisturbed
  <1>1. HostIInv => SnapshotUndisturbed
    BY DEF HostIInv, SupIInv
  <1> QED
    BY <1>1, HostInvariance, PTL

\* A process that dies leaves no partial download at LDBPath.
THEOREM NoPartialLdb == HostSpec => []LdbComplete
  <1>1. HostIInv => LdbComplete
    BY DEF HostIInv
  <1> QED
    BY <1>1, HostInvariance, PTL

-----------------------------------------------------------------------------
(* One destination.  With two, a failed upload ends the snapshot while the *)
(* other one still reads, see the comment on Join.                         *)

\* No upload outlives its snapshot: an error or a success was its own.
NoLeftovers ==
    /\ app = "up" => \A u \in uploads : u.current = TRUE
    /\ app = "up" /\ sup # "join" => uploads = {}
    /\ app = "up" /\ uploads # {} => failed = FALSE /\ done = 0

OneIInv == HostIInv /\ NoLeftovers /\ ArchivesWhole

LEMMA OneSupNext ==
    ASSUME NEW d, Destinations = {d}, SupIInv, NoLeftovers, ArchivesWhole, Next
    PROVE  NoLeftovers' /\ ArchivesWhole'
  <1>0. TypeOK /\ UploadsCounted /\ InStep /\ SnapshotUndisturbed
    BY DEF SupIInv
  <1>1. Cardinality(Destinations) = 1
    BY FS_Singleton
  <1>2. \A u \in uploads : u.dest = d /\ u \in Uploads
    BY <1>0 DEF TypeOK, Uploads
  <1>3. CASE ReflectorWrite
    <2>1. app = "up" => uploads = {}
      BY <1>0, <1>3 DEF ReflectorWrite, InStep, NoLeftovers
    <2>2. app = "up" => uploads' = {}
      BY <1>3, <2>1 DEF ReflectorWrite, Dirty
    <2> QED
      BY <1>3, <2>2 DEF ReflectorWrite, NoLeftovers, ArchivesWhole
  <1>4. CASE Checkpoint
    <2>1. app = "up" => uploads = {}
      BY <1>4 DEF Checkpoint, NoLeftovers
    <2>2. app = "up" => \A u \in uploads' : u.current = TRUE
      BY <1>4, <2>1 DEF Checkpoint, Dirty
    <2> QED
      BY <1>4, <2>2 DEF Checkpoint, NoLeftovers, ArchivesWhole
  <1>5. CASE CheckpointFail
    <2>1. app = "up" => uploads' = {}
      BY <1>5 DEF CheckpointFail, NoLeftovers, Dirty
    <2> QED
      BY <1>5, <2>1 DEF CheckpointFail, NoLeftovers, ArchivesWhole
  <1>6. ASSUME NEW u \in uploads, app = "up", uploads' = uploads \ {u}
        PROVE  uploads' = {}
    BY <1>0, <1>2, <1>6 DEF UploadsCounted, NoLeftovers
  <1>7. ASSUME NEW u \in uploads, UploadSucceeds(u)
        PROVE  NoLeftovers' /\ ArchivesWhole'
    <2>1. app = "up" /\ sup = "join" /\ u.current = TRUE
      BY <1>7 DEF UploadSucceeds, NoLeftovers
    <2>2. ~u.dirty
      BY <1>0, <2>1 DEF SnapshotUndisturbed
    <2>3. ArchivesWhole'
      BY <1>0, <1>7, <2>2 DEF UploadSucceeds, ArchivesWhole, TypeOK
    <2> QED
      BY <1>6, <1>7, <2>1, <2>3 DEF UploadSucceeds, NoLeftovers
  <1>8. ASSUME NEW u \in uploads, UploadFails(u)
        PROVE  NoLeftovers' /\ ArchivesWhole'
    BY <1>6, <1>8 DEF UploadFails, NoLeftovers, ArchivesWhole
  <1>9. CASE Join
    BY <1>1, <1>9 DEF Join, uploadVars, NoLeftovers, ArchivesWhole
  <1>10. ASSUME UNCHANGED uploadVars, app' = "up" => app = "up",
                sup = "join" => sup' = "join"
         PROVE  NoLeftovers' /\ ArchivesWhole'
    BY <1>10 DEF uploadVars, NoLeftovers, ArchivesWhole
  <1>11. CASE ReflectorReturn \/ CtlTimeout \/ Cancel \/ Quit \/ CtlStep \/ WakeUp \/ CloseTimeout
              \/ Exit
    BY <1>10, <1>11 DEF ReflectorReturn, CtlTimeout, Cancel, Quit, CtlStep, CtlStart, CtlStop,
                        CtlStopped, CtlExit, WakeUp, CloseTimeout, Exit
  <1>12. CASE GiveUp
    BY <1>10, <1>12 DEF GiveUp
  <1>13. CASE Ended
    BY <1>10, <1>13 DEF Ended, vars, uploadVars
  <1> QED
    BY <1>3, <1>4, <1>5, <1>7, <1>8, <1>9, <1>11, <1>12, <1>13
       DEF Next, SupStep, UploadStep

\* With one destination the archive never holds a copy of a file that changed
\* while it was read: what a host bootstraps from is a consistent database.
THEOREM OneArchiveWhole ==
    ASSUME NEW d, Destinations = {d}
    PROVE  HostSpec => []ArchivesWhole
  <1>1. HostInit => OneIInv
    BY HostInitIInv DEF HostInit, OneIInv, NoLeftovers, ArchivesWhole
  <1>2. OneIInv /\ [HostNext]_allVars => OneIInv'
    <2> SUFFICES ASSUME OneIInv, [HostNext]_allVars PROVE NoLeftovers' /\ ArchivesWhole'
      BY HostNextIInv DEF OneIInv
    <2>1. CASE Supervise
      BY <2>1, OneSupNext DEF Supervise, OneIInv, HostIInv
    <2>2. CASE Publish
      BY <2>2 DEF Publish, OneIInv, HostIInv, SupIInv, TypeOK, NoLeftovers, ArchivesWhole
    <2>3. CASE Die
      BY <2>3 DEF Die, ProcessGone, OneIInv, NoLeftovers, ArchivesWhole
    <2>4. ASSUME host # "up", Reflects PROVE NoLeftovers' /\ ArchivesWhole'
      BY <2>4 DEF Reflects, uploadVars, OneIInv, HostIInv, NoLeftovers, ArchivesWhole
    <2>5. ASSUME UNCHANGED vars PROVE NoLeftovers' /\ ArchivesWhole'
      BY <2>5 DEF vars, OneIInv, NoLeftovers, ArchivesWhole
    <2>6. CASE Boot \/ BootstrapStep \/ Initialize
      BY <2>4, <2>5, <2>6 DEF Boot, BootstrapStep, GetObject, GetObjectFails, Download,
                              Bootstrapped, Retry, BootstrapFails, Copy, OtherError, Rename,
                              Initialize
    <2> QED
      BY <2>1, <2>2, <2>3, <2>5, <2>6 DEF HostNext, allVars
  <1>3. OneIInv => ArchivesWhole
    BY DEF OneIInv
  <1> QED
    BY <1>1, <1>2, <1>3, PTL DEF HostSpec
=============================================================================
