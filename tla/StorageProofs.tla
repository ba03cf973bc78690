--------------------------- MODULE StorageProofs ---------------------------
(***************************************************************************)
(* For any number of jobs, printers and crashes and any limits: the queue  *)
(* is bounded, and, when no file is written between the cleaner's look at  *)
(* it and its removal (UnlinkRace is what the run unlink_race shows), the  *)
(* files of an active job or of a plate's owner are never removed.         *)
(***************************************************************************)
EXTENDS Storage, TLAPS, FiniteSetTheorems

(* What the slicer writes has a name. *)
SlicerNamed == slicer.pc # "idle" => slicer.job \in Job /\ slicer.printer \in Printer

AdmissionInv ==
    /\ TypeOK /\ SlicerNamed /\ UploadsAdmitted /\ QueueBounded
    /\ MeasureHolds /\ ModelsWithinQuota

(* The three kinds of path never meet. *)
LEMMA PathKinds ==
    ASSUME NEW j \in Job, NEW k \in Job
    PROVE  /\ Part(j) \in Path /\ Stl(j) \in Path /\ Part(j) # Stl(k)
           /\ Part(j) = Part(k) => j = k
           /\ Stl(j) = Stl(k) => j = k
           /\ \A p \in Printer : /\ Archive(j, p) \in Path
                                /\ Part(k) # Archive(j, p) /\ Stl(k) # Archive(j, p)
           /\ \A p, q \in Printer : Archive(j, p) = Archive(k, q) => j = k /\ p = q
BY StorageAssumption DEF Part, Stl, Archive, Path

(* What a job has in the store are paths, and no partial uploads. *)
LEMMA StoredArePaths ==
    ASSUME TypeOK, NEW j \in Job
    PROVE  /\ StoredPaths(j) \subseteq Path
           /\ \A k \in Job : Part(k) \notin StoredPaths(j)
           /\ \A k \in Job : k # j => StoredPaths(j) \cap StoredPaths(k) = {}
<1>1. \A k \in Job : archive[k] \in Printer \cup {NoPrinter}
  BY DEF TypeOK
<1>2. \A k \in Job : \A f \in StoredPaths(k) :
        f = Stl(k) \/ (f = Archive(k, archive[k]) /\ archive[k] \in Printer)
  BY <1>1 DEF StoredPaths
<1>3. \A k \in Job : \A f \in StoredPaths(j) \cap StoredPaths(k) : k = j
  <2> SUFFICES ASSUME NEW k \in Job, NEW f \in StoredPaths(j) \cap StoredPaths(k)
               PROVE  k = j
    OBVIOUS
  <2>1. f = Stl(j) \/ (f = Archive(j, archive[j]) /\ archive[j] \in Printer)
    BY <1>2
  <2>2. f = Stl(k) \/ (f = Archive(k, archive[k]) /\ archive[k] \in Printer)
    BY <1>2
  <2>3. /\ Stl(j) = Stl(k) => j = k
        /\ \A p \in Printer : Stl(k) # Archive(j, p) /\ Stl(j) # Archive(k, p)
        /\ \A p, q \in Printer : Archive(j, p) = Archive(k, q) => j = k
    BY PathKinds
  <2>. QED  BY <2>1, <2>2, <2>3
<1>4. StoredPaths(j) \subseteq Path
  <2>1. Stl(j) \in Path /\ \A p \in Printer : Archive(j, p) \in Path
    BY PathKinds
  <2>. QED  BY <1>2, <2>1
<1>5. \A k \in Job : Part(k) \notin StoredPaths(j)
  <2> SUFFICES ASSUME NEW k \in Job  PROVE  Part(k) \notin StoredPaths(j)
    OBVIOUS
  <2>1. Part(k) # Stl(j) /\ \A p \in Printer : Part(k) # Archive(j, p)
    BY PathKinds
  <2>. QED  BY <1>2, <2>1
<1>. QED  BY <1>3, <1>4, <1>5

(* The first start finds no jobs and no files. *)
LEMMA TypeInit ==
    ASSUME Init
    PROVE  TypeOK /\ SlicerNamed
BY StorageAssumption DEF Init, TypeOK, SlicerNamed, NoUpload, IdleSlicer, IdleCleaner

(* An upload keeps the types: its job was not known before. *)
LEMMA UploadTypeStep ==
    ASSUME TypeOK, SlicerNamed, UploadsAdmitted, MeasureHolds, NEW j \in Job,
           Admit(j) \/ UploadStep(j)
    PROVE  TypeOK' /\ SlicerNamed'
<1>1. /\ NoUpload \in [pc : {"none", "stream", "commit"}, before : Nat]
      /\ Part(j) \in Path /\ Stl(j) \in Path
  BY PathKinds DEF NoUpload, Part, Stl, Path
<1>2. CASE Admit(j)
  <2>1. [pc |-> "stream", before |-> StorageBytes] \in [pc : {"none", "stream", "commit"}, before : Nat]
    <3>1. StorageBytes \in Nat
      BY FS_CardinalityType DEF StorageBytes, MeasureHolds
    <3>. QED  BY <3>1
  <2>2. /\ UNCHANGED <<jobVars, slicer, cleaner, crashes>> /\ lock' = j
        /\ files' = files \cup {Part(j)} /\ old' = old \ {Part(j)}
        /\ upload' = [upload EXCEPT ![j] = [pc |-> "stream", before |-> StorageBytes]]
    BY <1>2 DEF Admit, Write
  <2>. QED  BY <1>1, <2>1, <2>2 DEF TypeOK, SlicerNamed, jobVars
<1>3. CASE RefuseUpload(j)
  BY <1>1, <1>3 DEF RefuseUpload, Unlink, TypeOK, SlicerNamed, jobVars
<1>4. CASE Streamed(j)
  BY <1>1, <1>4 DEF Streamed, TypeOK, SlicerNamed, jobVars
<1>5. CASE CommitUpload(j)
  <2>1. /\ active' = active \cup {j} /\ lock' = NoJob
        /\ upload' = [upload EXCEPT ![j] = NoUpload]
        /\ UNCHANGED <<ended, expired, blocking, archive, fileVars, slicer, cleaner, crashes>>
    BY <1>5 DEF CommitUpload
  <2>2. j \notin ended
    BY <1>5 DEF CommitUpload, UploadsAdmitted
  <2>. QED  BY <1>1, <2>1, <2>2 DEF TypeOK, SlicerNamed, fileVars
<1>6. CASE CommitFails(j)
  BY <1>1, <1>6 DEF CommitFails, Unlink, TypeOK, SlicerNamed, jobVars
<1>. QED  BY <1>2, <1>3, <1>4, <1>5, <1>6 DEF UploadStep
(* So does the slicer. *)
LEMMA SlicerTypeStep ==
    ASSUME TypeOK, SlicerNamed,
           SlicerStep \/ \E j \in Job, p \in Printer : StartSlicing(j, p)
    PROVE  TypeOK' /\ SlicerNamed'
<1>1. ASSUME NEW j \in Job, NEW p \in Printer, StartSlicing(j, p)
      PROVE  TypeOK' /\ SlicerNamed'
  BY <1>1 DEF StartSlicing, TypeOK, SlicerNamed, jobVars, fileVars
<1>2. IdleSlicer \in [pc : {"idle", "slice", "written"}, job : Job \cup {NoJob},
                      printer : Printer \cup {NoPrinter}] /\ IdleSlicer.pc = "idle"
  BY DEF IdleSlicer
<1>3. CASE WriteArchive
  <2>1. Archive(slicer.job, slicer.printer) \in Path
    BY <1>3 DEF WriteArchive, SlicerNamed, Archive, Path
  <2>. QED  BY <1>3, <2>1 DEF WriteArchive, Write, TypeOK, SlicerNamed, jobVars
<1>4. CASE CommitArchive
  BY <1>2, <1>4 DEF CommitArchive, TypeOK, SlicerNamed, fileVars
<1>5. CASE DropArchive
  <2>1. \/ /\ slicer.job \in active
           /\ active' = active \ {slicer.job} /\ ended' = ended \cup {slicer.job}
        \/ UNCHANGED <<active, ended>>
    BY <1>5 DEF DropArchive
  <2>2. /\ slicer' = IdleSlicer
        /\ UNCHANGED <<expired, blocking, archive, fileVars, lock, upload, cleaner, crashes>>
    BY <1>5 DEF DropArchive
  <2>. QED  BY <1>2, <2>1, <2>2 DEF TypeOK, SlicerNamed, fileVars
<1>. QED  BY <1>1, <1>3, <1>4, <1>5 DEF SlicerStep

(* So do the ends of jobs and of their slots. *)
LEMMA JobTypeStep ==
    ASSUME TypeOK, SlicerNamed, NEW j \in Job,
           Occupy(j) \/ EndJob(j) \/ ReleasePlate(j) \/ JobExpires(j)
    PROVE  TypeOK' /\ SlicerNamed'
<1>1. CASE Occupy(j)
  BY <1>1 DEF Occupy, TypeOK, SlicerNamed, fileVars
<1>2. CASE EndJob(j)
  BY <1>2 DEF EndJob, TypeOK, SlicerNamed, fileVars
<1>3. CASE ReleasePlate(j)
  BY <1>3 DEF ReleasePlate, TypeOK, SlicerNamed, fileVars
<1>4. CASE JobExpires(j)
  BY <1>4 DEF JobExpires, TypeOK, SlicerNamed, fileVars
<1>. QED  BY <1>1, <1>2, <1>3, <1>4

(* So does a pass of the cleaner. *)
LEMMA CleanerTypeStep ==
    ASSUME TypeOK, SlicerNamed, CleanerStep
    PROVE  TypeOK' /\ SlicerNamed'
<1>1. CASE CleanTerminal
  BY <1>1 DEF CleanTerminal, Unlink, CleanerGoto, TypeOK, SlicerNamed, jobVars
<1>2. CASE CleanPartial
  BY <1>2 DEF CleanPartial, Unlink, CleanerGoto, TypeOK, SlicerNamed, jobVars
<1>3. CASE ReadReferenced
  <2>1. Referenced \subseteq Path
    <3>1. active \cup ended \subseteq Job
      BY DEF TypeOK
    <3>. QED  BY <3>1, StoredArePaths DEF Referenced
  <2>. QED  BY <1>3, <2>1 DEF ReadReferenced, TypeOK, SlicerNamed, jobVars, fileVars
<1>4. ASSUME NEW f \in Path, SeeOrphan(f)
      PROVE  TypeOK' /\ SlicerNamed'
  BY <1>4 DEF SeeOrphan, TypeOK, SlicerNamed, jobVars, fileVars
<1>5. CASE UnlinkOrphan
  BY <1>5 DEF UnlinkOrphan, Unlink, TypeOK, SlicerNamed, jobVars
<1>6. CASE CleanerDone
  BY <1>6 DEF CleanerDone, IdleCleaner, TypeOK, SlicerNamed, jobVars, fileVars
<1>. QED  BY <1>1, <1>2, <1>3, <1>4, <1>5, <1>6 DEF CleanerStep

(* So does every step. *)
LEMMA TypeStep ==
    ASSUME TypeOK, SlicerNamed, UploadsAdmitted, MeasureHolds, [Next]_vars
    PROVE  TypeOK' /\ SlicerNamed'
<1>1. CASE UNCHANGED vars
  BY <1>1 DEF vars, jobVars, fileVars, TypeOK, SlicerNamed
<1>2. ASSUME NEW F \in SUBSET Unused, FilesAge(F)
      PROVE  TypeOK' /\ SlicerNamed'
  BY <1>2 DEF FilesAge, Unused, TypeOK, SlicerNamed, jobVars
<1>3. CASE Crash
  <2>1. /\ crashes' \in 0 .. MaxCrashes /\ lock' = NoJob
        /\ upload' = [j \in Job |-> NoUpload]
        /\ slicer' = IdleSlicer /\ cleaner' = IdleCleaner
        /\ UNCHANGED <<jobVars, fileVars>>
    BY <1>3, StorageAssumption DEF Crash, TypeOK
  <2>. QED  BY <2>1 DEF TypeOK, SlicerNamed, jobVars, fileVars, NoUpload, IdleSlicer, IdleCleaner
<1>. QED  BY <1>1, <1>2, <1>3, UploadTypeStep, SlicerTypeStep, JobTypeStep, CleanerTypeStep DEF Next

(* A job leaves the admission once it is committed, and the number of the  *)
(* active ones grows by one then, within the limit that was tested.        *)
LEMMA UploadAdmissionStep ==
    ASSUME AdmissionInv, TypeOK', NEW j \in Job, Admit(j) \/ UploadStep(j)
    PROVE  (UploadsAdmitted /\ QueueBounded)'
<1>0. /\ IsFiniteSet(active) /\ Cardinality(active) \in Nat /\ MaxActive \in Nat
      /\ Cardinality(active) <= MaxActive
      /\ \A k \in Job : upload[k].pc # "none" =>
            lock = k /\ k \notin active \cup ended /\ Cardinality(active) < MaxActive
      /\ DOMAIN upload = Job /\ NoJob \notin Job
  BY FS_CardinalityType, StorageAssumption
     DEF AdmissionInv, UploadsAdmitted, QueueBounded, TypeOK
<1> USE DEF UploadsAdmitted, QueueBounded
<1>1. CASE Admit(j)
  <2>1. /\ UNCHANGED <<active, ended>> /\ lock = NoJob /\ lock' = j
        /\ j \notin active \cup ended /\ Cardinality(active) < MaxActive
        /\ upload' = [upload EXCEPT ![j] = [pc |-> "stream", before |-> StorageBytes]]
    BY <1>1 DEF Admit, Fresh, jobVars
  <2>2. \A k \in Job : upload'[k].pc # "none" => k = j
    BY <1>0, <2>1
  <2>. QED  BY <1>0, <2>1, <2>2
<1>2. CASE RefuseUpload(j)
  <2>1. /\ UNCHANGED <<active, ended>> /\ lock = j
        /\ upload' = [upload EXCEPT ![j] = NoUpload]
    BY <1>0, <1>2 DEF RefuseUpload, jobVars
  <2>2. \A k \in Job : upload'[k].pc = "none"
    BY <1>0, <2>1 DEF NoUpload
  <2>. QED  BY <1>0, <2>1, <2>2
<1>3. CASE Streamed(j)
  <2>1. /\ UNCHANGED <<active, ended, lock>> /\ upload[j].pc # "none"
        /\ upload' = [upload EXCEPT ![j].pc = "commit"]
    BY <1>3 DEF Streamed, jobVars
  <2>2. \A k \in Job : upload'[k].pc # "none" => upload[k].pc # "none"
    BY <1>0, <2>1
  <2>. QED  BY <1>0, <2>1, <2>2
<1>4. CASE CommitUpload(j)
  <2>1. /\ active' = active \cup {j} /\ lock = j /\ j \notin active
        /\ Cardinality(active) < MaxActive
        /\ upload' = [upload EXCEPT ![j] = NoUpload]
    BY <1>0, <1>4 DEF CommitUpload
  <2>2. \A k \in Job : upload'[k].pc = "none"
    BY <1>0, <2>1 DEF NoUpload
  <2>3. IsFiniteSet(active') /\ Cardinality(active') = Cardinality(active) + 1
    BY <1>0, <2>1, FS_AddElement
  <2>. QED  BY <1>0, <2>1, <2>2, <2>3
<1>5. CASE CommitFails(j)
  <2>1. /\ UNCHANGED <<active, ended>> /\ lock = j
        /\ upload' = [upload EXCEPT ![j] = NoUpload]
    BY <1>0, <1>5 DEF CommitFails, jobVars
  <2>2. \A k \in Job : upload'[k].pc = "none"
    BY <1>0, <2>1 DEF NoUpload
  <2>. QED  BY <1>0, <2>1, <2>2
<1>. QED  BY <1>1, <1>2, <1>3, <1>4, <1>5 DEF UploadStep

(* No other step makes a job active, or lets a second upload in. *)
LEMMA ActiveShrinks ==
    ASSUME AdmissionInv, [Next]_vars,
           ~\E j \in Job : Admit(j) \/ UploadStep(j)
    PROVE  /\ active' \subseteq active /\ (active \cup ended)' = active \cup ended
           /\ \/ UNCHANGED <<lock, upload>>
              \/ upload' = [j \in Job |-> NoUpload]
<1>1. CASE UNCHANGED vars
  BY <1>1 DEF vars, jobVars
<1>2. CASE \E j \in Job, p \in Printer : StartSlicing(j, p)
  BY <1>2 DEF StartSlicing, jobVars
<1>3. CASE SlicerStep
  <2>1. CASE WriteArchive \/ CommitArchive
    BY <2>1 DEF WriteArchive, CommitArchive, jobVars
  <2>2. CASE DropArchive
    BY <2>2 DEF DropArchive
  <2>. QED  BY <1>3, <2>1, <2>2 DEF SlicerStep
<1>4. ASSUME NEW j \in Job, Occupy(j) \/ EndJob(j) \/ ReleasePlate(j) \/ JobExpires(j)
      PROVE  active' \subseteq active /\ (active \cup ended)' = active \cup ended
             /\ UNCHANGED <<lock, upload>>
  BY <1>4 DEF Occupy, EndJob, ReleasePlate, JobExpires
<1>5. CASE \E F \in SUBSET Unused : FilesAge(F)
  BY <1>5 DEF FilesAge, jobVars
<1>6. CASE CleanerStep
  BY <1>6 DEF CleanerStep, CleanTerminal, CleanPartial, ReadReferenced, SeeOrphan,
              UnlinkOrphan, CleanerDone, jobVars
<1>7. CASE Crash
  BY <1>7 DEF Crash, jobVars
<1>. QED  BY <1>1, <1>2, <1>3, <1>4, <1>5, <1>6, <1>7 DEF Next

----------------------------------------------------------------------------
(* The quota *)

(* A file takes a finite part of the disk, no more than its size. *)
LEMMA UnitsOfFile ==
    ASSUME NEW f \in Path
    PROVE  /\ Size(f) \in Nat
           /\ IsFiniteSet({f} \X (1 .. Size(f)))
           /\ Cardinality({f} \X (1 .. Size(f))) <= Size(f)
<1>1. Size(f) \in Nat
  <2>1. f[1] \in Job /\ ModelSize[f[1]] \in Nat
    BY StorageAssumption DEF Path
  <2>. QED  BY <2>1 DEF Size
<1>2. PICK n \in Nat : n = Size(f)
  BY <1>1
<1>3. PICK h : h = [i \in 1 .. n |-> <<f, i>>]
  OBVIOUS
<1>4. h \in Surjection(1 .. n, {f} \X (1 .. n))
  <2>1. \A i \in 1 .. n : h[i] = <<f, i>>
    BY <1>3
  <2>2. h \in [1 .. n -> {f} \X (1 .. n)]
    BY <1>3
  <2>3. \A u \in {f} \X (1 .. n) : \E i \in 1 .. n : h[i] = u
    BY <2>1
  <2>. QED  BY <2>2, <2>3 DEF Surjection
<1>5. IsFiniteSet(1 .. n) /\ Cardinality(1 .. n) = n
  BY FS_Interval
<1>6. IsFiniteSet({f} \X (1 .. n)) /\ Cardinality({f} \X (1 .. n)) <= n
  BY <1>4, <1>5, FS_Surjection
<1>. QED  BY <1>1, <1>2, <1>6

(* Fewer files take fewer units. *)
LEMMA FewerUnits ==
    ASSUME NEW F, NEW G \in SUBSET F, IsFiniteSet(Units(F))
    PROVE  IsFiniteSet(Units(G)) /\ Cardinality(Units(G)) <= Cardinality(Units(F))
<1>1. Units(G) \subseteq Units(F)
  BY DEF Units
<1>. QED  BY <1>1, FS_Subset

(* One more file takes no more than its own. *)
LEMMA MoreUnits ==
    ASSUME NEW F, NEW f \in Path, NEW G \in SUBSET (F \cup {f}), IsFiniteSet(Units(F))
    PROVE  /\ IsFiniteSet(Units(G))
           /\ Cardinality(Units(G)) <= Cardinality(Units(F)) + Size(f)
<1>1. PICK U : U = {f} \X (1 .. Size(f))
  OBVIOUS
<1>2. IsFiniteSet(U) /\ Cardinality(U) <= Size(f) /\ Size(f) \in Nat
  BY <1>1, UnitsOfFile
<1>3. Units(G) \subseteq Units(F) \cup U
  BY <1>1 DEF Units
<1>4. /\ IsFiniteSet(Units(F) \cup U)
      /\ Cardinality(Units(F) \cup U) = Cardinality(Units(F)) + Cardinality(U)
                                       - Cardinality(Units(F) \cap U)
  BY <1>2, FS_Union
<1>5. /\ Cardinality(Units(F)) \in Nat /\ Cardinality(U) \in Nat
      /\ Cardinality(Units(F) \cap U) \in Nat
  <2>1. IsFiniteSet(Units(F) \cap U)
    BY FS_Subset
  <2>. QED  BY <1>2, <2>1, FS_CardinalityType
<1>6. /\ IsFiniteSet(Units(G)) /\ Cardinality(Units(G)) \in Nat
      /\ Cardinality(Units(G)) <= Cardinality(Units(F) \cup U)
  BY <1>3, <1>4, FS_Subset, FS_CardinalityType
<1>. QED  BY <1>2, <1>4, <1>5, <1>6

(* A step writes one file at most, and only the end of a streaming writes  *)
(* a model.                                                                *)
LEMMA FilesWritten ==
    ASSUME TypeOK, SlicerNamed, [Next]_vars
    PROVE  \/ files' \subseteq files
           \/ \E j \in Job : Streamed(j) /\ files' \subseteq files \cup {Stl(j)}
           \/ \E f \in Path : files' = files \cup {f} /\ \A j \in Job : f # Stl(j)
<1>1. CASE UNCHANGED vars
  BY <1>1 DEF vars, fileVars
<1>2. ASSUME NEW j \in Job, Admit(j)
      PROVE  files' = files \cup {Part(j)} /\ Part(j) \in Path /\ \A k \in Job : Part(j) # Stl(k)
  BY <1>2, PathKinds DEF Admit, Write
<1>3. ASSUME NEW j \in Job, UploadStep(j)
      PROVE  files' \subseteq files \/ (Streamed(j) /\ files' \subseteq files \cup {Stl(j)})
  BY <1>3 DEF UploadStep, RefuseUpload, Streamed, CommitUpload, CommitFails, Unlink, fileVars
<1>4. CASE WriteArchive
  <2>1. PICK f : f = Archive(slicer.job, slicer.printer)
    OBVIOUS
  <2>2. slicer.job \in Job /\ slicer.printer \in Printer
    BY <1>4 DEF WriteArchive, SlicerNamed
  <2>3. f \in Path /\ \A j \in Job : f # Stl(j)
    BY <2>1, <2>2, PathKinds
  <2>4. files' = files \cup {f}
    BY <1>4, <2>1 DEF WriteArchive, Write
  <2>. QED  BY <1>4, <2>3, <2>4
<1>5. CASE (\E j \in Job, p \in Printer : StartSlicing(j, p)) \/ CommitArchive \/ DropArchive
  BY <1>5 DEF StartSlicing, CommitArchive, DropArchive, fileVars
<1>6. CASE \E j \in Job : Occupy(j) \/ EndJob(j) \/ ReleasePlate(j) \/ JobExpires(j)
  BY <1>6 DEF Occupy, EndJob, ReleasePlate, JobExpires, fileVars
<1>7. CASE (\E F \in SUBSET Unused : FilesAge(F)) \/ Crash
  BY <1>7 DEF FilesAge, Crash, fileVars
<1>8. CASE CleanerStep
  BY <1>8 DEF CleanerStep, CleanTerminal, CleanPartial, ReadReferenced, SeeOrphan,
              UnlinkOrphan, CleanerDone, Unlink, fileVars
<1>. QED  BY <1>1, <1>2, <1>3, <1>4, <1>5, <1>6, <1>7, <1>8 DEF Next, SlicerStep

(* An upload goes on with the measurement that it was admitted with.       *)
LEMMA MeasureMoves ==
    ASSUME TypeOK, [Next]_vars, NEW k \in Job, upload'[k].pc = "stream", ~Admit(k)
    PROVE  upload[k].pc = "stream" /\ upload'[k].before = upload[k].before
<1>0. upload \in [Job -> [pc : {"none", "stream", "commit"}, before : Nat]]
  BY DEF TypeOK
<1>1. ASSUME NEW j \in Job, Admit(j) \/ UploadStep(j)
      PROVE  upload[k].pc = "stream" /\ upload'[k].before = upload[k].before
  <2>1. CASE Admit(j)
    BY <1>0, <2>1 DEF Admit
  <2>2. CASE Streamed(j)
    BY <1>0, <2>2 DEF Streamed
  <2>3. CASE RefuseUpload(j) \/ CommitUpload(j) \/ CommitFails(j)
    BY <1>0, <2>3 DEF RefuseUpload, CommitUpload, CommitFails, NoUpload
  <2>. QED  BY <1>1, <2>1, <2>2, <2>3 DEF UploadStep
<1>2. CASE Crash
  BY <1>2 DEF Crash, NoUpload
<1>3. CASE UNCHANGED vars
  BY <1>3 DEF vars
<1>4. ASSUME ~\E j \in Job : Admit(j) \/ UploadStep(j), ~Crash, Next
      PROVE  upload' = upload
  <2>1. CASE SlicerStep \/ \E j \in Job, p \in Printer : StartSlicing(j, p)
    BY <2>1 DEF SlicerStep, WriteArchive, CommitArchive, DropArchive, StartSlicing
  <2>2. CASE \E j \in Job : Occupy(j) \/ EndJob(j) \/ ReleasePlate(j) \/ JobExpires(j)
    BY <2>2 DEF Occupy, EndJob, ReleasePlate, JobExpires
  <2>3. CASE (\E F \in SUBSET Unused : FilesAge(F)) \/ CleanerStep
    BY <2>3 DEF FilesAge, CleanerStep, CleanTerminal, CleanPartial, ReadReferenced, SeeOrphan,
                UnlinkOrphan, CleanerDone
  <2>. QED  BY <1>4, <2>1, <2>2, <2>3 DEF Next
<1>. QED  BY <1>1, <1>2, <1>3, <1>4

(* Whatever is removed meanwhile, the measurement stays an upper bound, as *)
(* nobody else's model can come to the disk, and adding the new model to   *)
(* it is safe.                                                             *)
LEMMA QuotaStep ==
    ASSUME AdmissionInv, [Next]_vars
    PROVE  (MeasureHolds /\ ModelsWithinQuota)'
<1>0. /\ TypeOK /\ SlicerNamed /\ IsFiniteSet(Units(files)) /\ MaxStorage \in Nat
      /\ upload \in [Job -> [pc : {"none", "stream", "commit"}, before : Nat]]
      /\ \A j, k \in Job : upload[j].pc # "none" /\ upload[k].pc # "none" => j = k
      /\ \A j \in Job : upload[j].pc = "stream" => Cardinality(Units(Models)) <= upload[j].before
      /\ Cardinality(Units(Models)) <= MaxStorage
  BY StorageAssumption
     DEF AdmissionInv, TypeOK, UploadsAdmitted, MeasureHolds, ModelsWithinQuota
<1>1. IsFiniteSet(Units(files'))
  <2>1. (files' \subseteq files) \/ \E f \in Path : files' \subseteq files \cup {f}
    BY <1>0, FilesWritten, PathKinds
  <2>2. CASE files' \subseteq files
    BY <1>0, <2>2, FewerUnits
  <2>3. CASE \E f \in Path : files' \subseteq files \cup {f}
    BY <1>0, <2>3, MoreUnits
  <2>. QED  BY <2>1, <2>2, <2>3
<1>2. /\ IsFiniteSet(Units(Models)) /\ Cardinality(Units(Models)) \in Nat
      /\ Cardinality(Units(Models)) <= StorageBytes /\ StorageBytes \in Nat
  BY <1>0, FewerUnits, FS_CardinalityType DEF Models, StorageBytes
<1>3. CASE \E j \in Job : Streamed(j)
  <2>1. PICK j \in Job : Streamed(j)
    BY <1>3
  <2>2. /\ upload[j].pc = "stream" /\ upload[j].before + ModelSize[j] <= MaxStorage
        /\ files' = (files \ {Part(j)}) \cup {Stl(j)}
        /\ upload' = [upload EXCEPT ![j].pc = "commit"]
    BY <2>1 DEF Streamed
  <2>3. \A k \in Job : upload'[k].pc # "stream"
    BY <1>0, <2>2
  <2>4. Stl(j) \in Path /\ Size(Stl(j)) = ModelSize[j] /\ ModelSize[j] \in Nat
    BY StorageAssumption, PathKinds DEF Size, Stl
  <2>5. Models' \subseteq Models \cup {Stl(j)}
    BY <2>2 DEF Models
  <2>6. /\ Cardinality(Units(Models')) <= Cardinality(Units(Models)) + ModelSize[j]
        /\ Cardinality(Units(Models')) \in Nat
    BY <1>2, <2>4, <2>5, MoreUnits, FS_CardinalityType
  <2>7. Cardinality(Units(Models')) <= MaxStorage
    BY <1>0, <1>2, <2>2, <2>4, <2>6
  <2>. QED  BY <1>1, <2>3, <2>7 DEF MeasureHolds, ModelsWithinQuota
<1>4. CASE ~\E j \in Job : Streamed(j)
  <2>1. Models' \subseteq Models
    BY <1>0, <1>4, FilesWritten DEF Models
  <2>2. Cardinality(Units(Models')) <= Cardinality(Units(Models))
        /\ Cardinality(Units(Models')) \in Nat
    BY <1>2, <2>1, FewerUnits, FS_CardinalityType
  <2>3. ASSUME NEW k \in Job, upload'[k].pc = "stream"
        PROVE  Cardinality(Units(Models')) <= upload'[k].before
    <3>1. CASE Admit(k)
      <4>1. upload'[k].before = StorageBytes
        BY <1>0, <3>1 DEF Admit
      <4>. QED  BY <1>2, <2>2, <4>1
    <3>2. CASE ~Admit(k)
      <4>1. upload[k].pc = "stream" /\ upload'[k].before = upload[k].before
        BY <1>0, <2>3, <3>2, MeasureMoves
      <4>2. upload[k].before \in Nat
        BY <1>0
      <4>. QED  BY <1>0, <1>2, <2>2, <4>1, <4>2
    <3>. QED  BY <3>1, <3>2
  <2>4. Cardinality(Units(Models')) <= MaxStorage
    BY <1>0, <1>2, <2>2
  <2>. QED  BY <1>1, <2>3, <2>4 DEF MeasureHolds, ModelsWithinQuota
<1>. QED  BY <1>3, <1>4

(* Every step keeps the admission's invariant. *)
LEMMA AdmissionStep ==
    ASSUME AdmissionInv, [Next]_vars
    PROVE  AdmissionInv'
<1>1. TypeOK' /\ SlicerNamed' /\ MeasureHolds' /\ ModelsWithinQuota'
  BY TypeStep, QuotaStep DEF AdmissionInv
<1>2. CASE \E j \in Job : Admit(j) \/ UploadStep(j)
  BY <1>1, <1>2, UploadAdmissionStep DEF AdmissionInv
<1>3. CASE ~\E j \in Job : Admit(j) \/ UploadStep(j)
  <2>1. /\ IsFiniteSet(active) /\ Cardinality(active) \in Nat /\ MaxActive \in Nat
        /\ Cardinality(active) <= MaxActive
        /\ \A k \in Job : upload[k].pc # "none" =>
              lock = k /\ k \notin active \cup ended /\ Cardinality(active) < MaxActive
    BY FS_CardinalityType, StorageAssumption DEF AdmissionInv, UploadsAdmitted, QueueBounded
  <2>2. /\ active' \subseteq active /\ (active \cup ended)' = active \cup ended
        /\ \/ UNCHANGED <<lock, upload>>
           \/ upload' = [j \in Job |-> NoUpload]
    BY <1>3, ActiveShrinks
  <2>3. /\ IsFiniteSet(active') /\ Cardinality(active') \in Nat
        /\ Cardinality(active') <= Cardinality(active)
    BY <2>1, <2>2, FS_Subset, FS_CardinalityType
  <2>4. \A k \in Job : upload'[k].pc # "none" =>
            lock' = k /\ k \notin (active \cup ended)' /\ Cardinality(active') < MaxActive
    BY <2>1, <2>2, <2>3 DEF NoUpload
  <2>. QED  BY <1>1, <2>1, <2>3, <2>4 DEF AdmissionInv, UploadsAdmitted, QueueBounded
<1>. QED  BY <1>2, <1>3

(* It holds before the first upload. *)
LEMMA AdmissionInit ==
    ASSUME Init
    PROVE  AdmissionInv
<1>1. IsFiniteSet({}) /\ Cardinality({}) = 0
  BY FS_EmptySet
<1>2. Units(files) = {} /\ Units(Models) = {}
  BY DEF Init, Units, Models
<1>3. MeasureHolds /\ ModelsWithinQuota
  BY <1>1, <1>2, StorageAssumption DEF Init, MeasureHolds, ModelsWithinQuota, NoUpload
<1>. QED  BY <1>1, <1>3, TypeInit, StorageAssumption
          DEF Init, AdmissionInv, UploadsAdmitted, QueueBounded, NoUpload

(* QueueBounded: the admission of upload_job counts under UPLOAD_LOCK what *)
(* its transaction commits after the streaming, however the other threads  *)
(* end, slice or expire jobs meanwhile, and whatever a crash cuts short.   *)
THEOREM QueueIsBounded == Spec => []QueueBounded
<1>1. Init => AdmissionInv
  BY AdmissionInit
<1>2. AdmissionInv /\ [Next]_vars => AdmissionInv'
  BY AdmissionStep
<1>3. AdmissionInv => QueueBounded
  BY DEF AdmissionInv
<1>. QED  BY <1>1, <1>2, <1>3, PTL DEF Spec
(* ModelsWithinQuota: the models on disk never exceed MAX_STORAGE_MB,      *)
(* although upload_job adds what it streamed to a measurement that it made *)
(* before, for any sizes and whatever is removed and sliced meanwhile.     *)
THEOREM ModelsFitQuota == Spec => []ModelsWithinQuota
<1>1. Init => AdmissionInv
  BY AdmissionInit
<1>2. AdmissionInv /\ [Next]_vars => AdmissionInv'
  BY AdmissionStep
<1>3. AdmissionInv => ModelsWithinQuota
  BY DEF AdmissionInv
<1>. QED  BY <1>1, <1>2, <1>3, PTL DEF Spec

----------------------------------------------------------------------------
(* The files *)

FileInv == UploadsOnDisk /\ ArchiveOnDisk /\ OrphansUnneeded /\ NeededFilesKept

(* Only what archive holds decides which paths are stored. *)
LEMMA StoredFixed ==
    ASSUME archive' = archive, NEW j
    PROVE  StoredPaths(j)' = StoredPaths(j)
BY DEF StoredPaths

(* What an upload in progress does to the disk: its job is not known yet,  *)
(* so its two paths are nobody's, and no victim of the cleaner.            *)
LEMMA UploadFilesStep ==
    ASSUME AdmissionInv, FileInv, AdmissionInv', NEW j \in Job, Admit(j) \/ UploadStep(j)
    PROVE  FileInv'
<1>0. /\ active \cup ended \subseteq Job /\ blocking \subseteq active \cup ended
      /\ old \subseteq files /\ DOMAIN upload = Job
      /\ \A k \in Job : upload[k].pc # "none" => lock = k /\ k \notin active \cup ended
      /\ NoJob \notin Job
  BY StorageAssumption DEF AdmissionInv, TypeOK, UploadsAdmitted
<1>1. /\ \A k \in Job : upload'[k].pc # "none" => lock' = k
      /\ UNCHANGED <<ended, expired, blocking, archive, slicer, cleaner>>
  <2>1. UNCHANGED <<ended, expired, blocking, archive, slicer, cleaner>>
    BY DEF Admit, UploadStep, RefuseUpload, Streamed, CommitUpload, CommitFails, jobVars
  <2>. QED  BY <2>1 DEF AdmissionInv, UploadsAdmitted
<1>2. \A k \in Job : StoredPaths(k)' = StoredPaths(k)
  BY <1>1, StoredFixed
<1>3. /\ \A k \in Job : Part(j) \notin StoredPaths(k)
      /\ \A k \in Job : k # j => Stl(j) \notin StoredPaths(k)
      /\ \A k \in Job, p \in Printer : Part(j) # Archive(k, p) /\ Stl(j) # Archive(k, p)
      /\ \A k \in Job : Part(j) # Stl(k)
      /\ \A k \in Job : k # j => Stl(j) # Stl(k)
  <2>1. \A k \in Job : Stl(j) \in StoredPaths(j)
    BY DEF StoredPaths
  <2>. QED  BY <2>1, StoredArePaths, PathKinds DEF AdmissionInv
<1>4. /\ \A k \in Job : Part(k) \notin cleaner.victims
      /\ cleaner.victims \subseteq old /\ cleaner.victims \cap cleaner.referenced = {}
      /\ cleaner.pc # "remove" => cleaner.victims = {}
      /\ cleaner.pc = "remove" =>
            \A k \in active \cup ended : StoredPaths(k) \cap old \subseteq cleaner.referenced
  BY DEF FileInv, OrphansUnneeded
<1>5. /\ slicer.pc # "idle" => slicer.job \in active \cup ended /\ slicer.printer \in Printer
      /\ slicer.pc = "written" /\ slicer.job \in active =>
            Archive(slicer.job, slicer.printer) \in files \ old
      /\ \A k \in Job : archive[k] # NoPrinter => k \in active \cup ended
      /\ upload[j].pc = "stream" => Stl(j) \notin files
      /\ upload[j].pc = "commit" => Stl(j) \in files \ old
      /\ \A k \in active \cup blocking : StoredPaths(k) \subseteq files
  BY DEF FileInv, ArchiveOnDisk, UploadsOnDisk, NeededFilesKept
(* What holds of every step that changes only j's two paths and no job.    *)
<1>6. ASSUME active' = active, j \notin active \cup ended,
             files \ {Part(j), Stl(j)} \subseteq files',
             old' \subseteq old \ {Part(j)}, old \ {Part(j), Stl(j)} \subseteq old',
             Stl(j) \notin cleaner.victims
      PROVE  ArchiveOnDisk' /\ OrphansUnneeded' /\ NeededFilesKept'
  <2>1. ArchiveOnDisk'
    BY <1>0, <1>1, <1>3, <1>5, <1>6 DEF ArchiveOnDisk
  <2>2. OrphansUnneeded'
    BY <1>0, <1>1, <1>2, <1>4, <1>6 DEF OrphansUnneeded
  <2>3. NeededFilesKept'
    BY <1>0, <1>1, <1>2, <1>3, <1>5, <1>6 DEF NeededFilesKept
  <2>. QED  BY <2>1, <2>2, <2>3
<1>7. CASE Admit(j)
  <2>1. /\ j \notin active \cup ended /\ Stl(j) \notin files /\ lock' = j
        /\ active' = active
        /\ files' = files \cup {Part(j)} /\ old' = old \ {Part(j)}
        /\ upload' = [upload EXCEPT ![j] = [pc |-> "stream", before |-> StorageBytes]]
    BY <1>7 DEF Admit, Fresh, Write, jobVars
  <2>2. UploadsOnDisk'
    BY <1>0, <1>1, <1>3, <2>1 DEF UploadsOnDisk
  <2>3. Stl(j) \notin cleaner.victims
    BY <1>0, <1>4, <2>1
  <2>. QED  BY <1>6, <2>1, <2>2, <2>3 DEF FileInv
<1>8. CASE RefuseUpload(j) \/ CommitFails(j)
  <2>1. /\ upload[j].pc \in {"stream", "commit"} /\ active' = active /\ lock' = NoJob
        /\ files' \in {files \ {Part(j)}, files \ {Part(j), Stl(j)}}
        /\ old' \in {old \ {Part(j)}, old \ {Part(j), Stl(j)}}
    BY <1>8 DEF RefuseUpload, CommitFails, Unlink, jobVars
  <2>2. \A k \in Job : upload'[k].pc = "none"
    BY <1>0, <1>1, <2>1
  <2>3. Stl(j) \notin cleaner.victims /\ j \notin active \cup ended
    BY <1>0, <1>4, <1>5, <2>1
  <2>. QED  BY <1>6, <2>1, <2>2, <2>3 DEF FileInv, UploadsOnDisk
<1>9. CASE Streamed(j)
  <2>1. /\ upload[j].pc = "stream" /\ active' = active /\ lock' = lock
        /\ files' = (files \ {Part(j)}) \cup {Stl(j)} /\ old' = old \ {Part(j), Stl(j)}
        /\ upload' = [upload EXCEPT ![j].pc = "commit"]
    BY <1>9 DEF Streamed, jobVars
  <2>2. UploadsOnDisk'
    <3>1. \A k \in Job : upload'[k].pc # "none" => k = j
      BY <1>0, <1>1, <2>1
    <3>2. upload'[j].pc = "commit"
      BY <1>0, <2>1 DEF AdmissionInv, TypeOK
    <3>. QED  BY <2>1, <3>1, <3>2 DEF UploadsOnDisk
  <2>3. Stl(j) \notin cleaner.victims /\ j \notin active \cup ended
    BY <1>0, <1>4, <1>5, <2>1
  <2>. QED  BY <1>6, <2>1, <2>2, <2>3 DEF FileInv
<1>10. CASE CommitUpload(j)
  <2>1. /\ upload[j].pc = "commit" /\ active' = active \cup {j} /\ lock' = NoJob
        /\ UNCHANGED <<files, old>>
    BY <1>10 DEF CommitUpload, fileVars
  <2>2. \A k \in Job : upload'[k].pc = "none"
    BY <1>0, <1>1, <2>1
  <2>3. StoredPaths(j) = {Stl(j)} /\ Stl(j) \in files \ old /\ j \notin active \cup ended
    BY <1>0, <1>5, <2>1 DEF StoredPaths
  <2>4. ArchiveOnDisk'
    BY <1>1, <1>5, <2>1, <2>3 DEF ArchiveOnDisk
  <2>5. OrphansUnneeded'
    BY <1>0, <1>1, <1>2, <1>4, <2>1, <2>3 DEF OrphansUnneeded
  <2>6. NeededFilesKept'
    BY <1>0, <1>1, <1>2, <1>5, <2>1, <2>3 DEF NeededFilesKept
  <2>. QED  BY <2>2, <2>4, <2>5, <2>6 DEF FileInv, UploadsOnDisk
<1>. QED  BY <1>7, <1>8, <1>9, <1>10 DEF UploadStep
(* What the slicer leaves is recent when it is stored, and it writes       *)
(* nothing while the cleaner is about to unlink.                           *)
LEMMA SlicerFilesStep ==
    ASSUME ~UnlinkRace, AdmissionInv, FileInv, AdmissionInv',
           SlicerStep \/ \E j \in Job, p \in Printer : StartSlicing(j, p)
    PROVE  FileInv'
<1>0. /\ active \cup ended \subseteq Job /\ blocking \subseteq active \cup ended
      /\ old \subseteq files
  BY DEF AdmissionInv, TypeOK
<1>1. /\ slicer.pc # "idle" => slicer.job \in active \cup ended /\ slicer.printer \in Printer
      /\ slicer.pc = "written" /\ slicer.job \in active =>
            Archive(slicer.job, slicer.printer) \in files \ old
      /\ \A k \in Job : archive[k] # NoPrinter => k \in active \cup ended
  BY DEF FileInv, ArchiveOnDisk
<1>2. CASE \E j \in Job, p \in Printer : StartSlicing(j, p)
  <2>1. PICK j \in Job, p \in Printer : StartSlicing(j, p)
    BY <1>2
  <2>2. /\ UNCHANGED <<active, ended, expired, blocking, archive, files, old, upload, cleaner>>
        /\ slicer' = [pc |-> "slice", job |-> j, printer |-> p] /\ j \in active
    BY <2>1 DEF StartSlicing, jobVars, fileVars
  <2>3. \A k \in Job : StoredPaths(k)' = StoredPaths(k)
    BY <2>2, StoredFixed
  <2>4. ArchiveOnDisk'
    BY <1>1, <2>2 DEF ArchiveOnDisk
  <2>5. UploadsOnDisk'
    BY <2>2 DEF FileInv, UploadsOnDisk
  <2>6. OrphansUnneeded' /\ NeededFilesKept'
    BY <1>0, <2>2, <2>3 DEF FileInv, OrphansUnneeded, NeededFilesKept
  <2>. QED  BY <2>4, <2>5, <2>6 DEF FileInv
<1>3. CASE WriteArchive
  <2>1. /\ UNCHANGED <<active, ended, expired, blocking, archive, upload, cleaner>>
        /\ slicer.pc = "slice" /\ slicer' = [slicer EXCEPT !.pc = "written"]
        /\ cleaner.victims = {}
        /\ files' = files \cup {Archive(slicer.job, slicer.printer)}
        /\ old' = old \ {Archive(slicer.job, slicer.printer)}
    BY <1>3 DEF WriteArchive, Write, jobVars
  <2>2. slicer'.job = slicer.job /\ slicer'.printer = slicer.printer
    BY <2>1 DEF AdmissionInv, TypeOK
  <2>3. \A k \in Job : StoredPaths(k)' = StoredPaths(k)
    BY <2>1, StoredFixed
  <2>4. ArchiveOnDisk'
    BY <1>1, <2>1, <2>2 DEF ArchiveOnDisk
  <2>5. UploadsOnDisk'
    <3>1. \A k \in Job : Stl(k) # Archive(slicer.job, slicer.printer)
      BY <1>0, <1>1, <2>1, PathKinds
    <3>. QED  BY <2>1, <3>1 DEF FileInv, UploadsOnDisk
  <2>6. OrphansUnneeded' /\ NeededFilesKept'
    BY <1>0, <2>1, <2>3 DEF FileInv, OrphansUnneeded, NeededFilesKept
  <2>. QED  BY <2>4, <2>5, <2>6 DEF FileInv
<1>4. CASE CommitArchive
  <2>1. PICK s, q : s = slicer.job /\ q = slicer.printer
    OBVIOUS
  <2>2. /\ UNCHANGED <<active, ended, expired, blocking, files, old, upload, cleaner>>
        /\ slicer.pc = "written" /\ s \in active /\ slicer'.pc = "idle"
        /\ archive' = [archive EXCEPT ![s] = q] /\ q \in Printer
    BY <1>1, <1>4, <2>1 DEF CommitArchive, fileVars, IdleSlicer
  <2>3. s \in Job /\ DOMAIN archive = Job /\ archive'[s] = q
    BY <1>0, <2>2 DEF AdmissionInv, TypeOK
  <2>4. \A k \in Job : k # s => StoredPaths(k)' = StoredPaths(k)
    BY <2>2, <2>3 DEF StoredPaths
  <2>5. StoredPaths(s)' \subseteq {Stl(s), Archive(s, q)} /\ Stl(s) \in StoredPaths(s)
    BY <2>3 DEF StoredPaths
  <2>6. Archive(s, q) \in files \ old
    BY <1>1, <2>1, <2>2
  <2>7. ArchiveOnDisk'
    BY <1>1, <2>2, <2>3 DEF ArchiveOnDisk
  <2>8. UploadsOnDisk'
    BY <2>2 DEF FileInv, UploadsOnDisk
  <2>9. OrphansUnneeded'
    BY <1>0, <2>2, <2>3, <2>4, <2>5, <2>6 DEF FileInv, OrphansUnneeded
  <2>10. NeededFilesKept'
    BY <1>0, <2>2, <2>3, <2>4, <2>5, <2>6 DEF FileInv, NeededFilesKept
  <2>. QED  BY <2>7, <2>8, <2>9, <2>10 DEF FileInv
<1>5. CASE DropArchive
  <2>1. /\ UNCHANGED <<expired, blocking, archive, files, old, upload, cleaner>>
        /\ slicer' = IdleSlicer
        /\ active' \subseteq active /\ (active \cup ended)' = active \cup ended
    BY <1>5 DEF DropArchive, fileVars
  <2>2. slicer'.pc = "idle"
    BY <2>1 DEF IdleSlicer
  <2>3. \A k \in Job : StoredPaths(k)' = StoredPaths(k)
    BY <2>1, StoredFixed
  <2>4. ArchiveOnDisk'
    BY <1>1, <2>1, <2>2 DEF ArchiveOnDisk
  <2>5. UploadsOnDisk'
    BY <2>1 DEF FileInv, UploadsOnDisk
  <2>6. OrphansUnneeded' /\ NeededFilesKept'
    BY <1>0, <2>1, <2>3 DEF FileInv, OrphansUnneeded, NeededFilesKept
  <2>. QED  BY <2>4, <2>5, <2>6 DEF FileInv
<1>. QED  BY <1>2, <1>3, <1>4, <1>5 DEF SlicerStep

(* The jobs come and go without touching a file. *)
LEMMA JobFilesStep ==
    ASSUME AdmissionInv, FileInv, AdmissionInv', NEW j \in Job,
           Occupy(j) \/ EndJob(j) \/ ReleasePlate(j) \/ JobExpires(j)
    PROVE  FileInv'
<1>1. /\ UNCHANGED <<archive, files, old, upload, slicer, cleaner>>
      /\ active' \subseteq active /\ (active \cup ended)' = active \cup ended
      /\ (active \cup blocking)' \subseteq active \cup blocking \/ EndJob(j)
  BY DEF Occupy, EndJob, ReleasePlate, JobExpires, fileVars
<1>2. blocking' \subseteq active \cup blocking
  BY DEF Occupy, EndJob, ReleasePlate, JobExpires
<1>3. \A k \in Job : StoredPaths(k)' = StoredPaths(k)
  BY <1>1, StoredFixed
<1>4. active \cup ended \subseteq Job /\ blocking \subseteq active \cup ended
  BY DEF AdmissionInv, TypeOK
<1>5. UploadsOnDisk' /\ ArchiveOnDisk'
  BY <1>1 DEF FileInv, UploadsOnDisk, ArchiveOnDisk
<1>6. OrphansUnneeded'
  BY <1>1, <1>3, <1>4 DEF FileInv, OrphansUnneeded
<1>7. NeededFilesKept'
  BY <1>1, <1>2, <1>3, <1>4 DEF FileInv, NeededFilesKept
<1>. QED  BY <1>5, <1>6, <1>7 DEF FileInv

(* What comes of age is in nobody's hands, and the cleaner has no list. *)
LEMMA AgeFilesStep ==
    ASSUME AdmissionInv, FileInv, NEW F \in SUBSET Unused, FilesAge(F)
    PROVE  FileInv'
<1>1. /\ UNCHANGED <<active, ended, expired, blocking, archive, files, upload, slicer, cleaner>>
      /\ cleaner.pc = "idle" /\ old' = old \cup F
      /\ \A j \in Job : upload[j].pc # "none" => Part(j) \notin F /\ Stl(j) \notin F
      /\ slicer.pc = "written" => Archive(slicer.job, slicer.printer) \notin F
  BY DEF FilesAge, Unused, InUse, jobVars
<1>2. \A k \in Job : StoredPaths(k)' = StoredPaths(k)
  BY <1>1, StoredFixed
<1>3. active \cup ended \subseteq Job /\ blocking \subseteq active \cup ended
  BY DEF AdmissionInv, TypeOK
<1>4. UploadsOnDisk'
  BY <1>1 DEF FileInv, UploadsOnDisk
<1>5. ArchiveOnDisk'
  BY <1>1 DEF FileInv, ArchiveOnDisk
<1>6. OrphansUnneeded' /\ NeededFilesKept'
  BY <1>1, <1>2, <1>3 DEF FileInv, OrphansUnneeded, NeededFilesKept
<1>. QED  BY <1>4, <1>5, <1>6 DEF FileInv

(* A file that the cleaner removes is nobody's: it belongs to an ended job *)
(* without a slot, is a partial upload, or is old and on no list.          *)
LEMMA UnlinkedIsUnneeded ==
    ASSUME AdmissionInv, FileInv, AdmissionInv', NEW F, files' = files \ F, old' = old \ F,
           UNCHANGED <<active, ended, expired, blocking, archive, upload, slicer>>,
           \A k \in active \cup blocking : StoredPaths(k) \cap F = {},
           \A k \in Job : upload[k].pc = "commit" => Stl(k) \notin F,
           slicer.pc = "written" /\ slicer.job \in active =>
               Archive(slicer.job, slicer.printer) \notin F,
           cleaner'.victims = {}, cleaner'.referenced = cleaner.referenced,
           cleaner'.pc = "remove" => cleaner.pc = "remove"
    PROVE  FileInv'
<1>1. \A k \in Job : StoredPaths(k)' = StoredPaths(k)
  BY StoredFixed
<1>2. active \cup ended \subseteq Job /\ blocking \subseteq active \cup ended
  BY DEF AdmissionInv, TypeOK
<1>3. UploadsOnDisk'
  BY DEF FileInv, UploadsOnDisk
<1>4. ArchiveOnDisk'
  BY DEF FileInv, ArchiveOnDisk
<1>5. OrphansUnneeded'
  BY <1>1, <1>2 DEF FileInv, OrphansUnneeded
<1>6. NeededFilesKept'
  BY <1>1, <1>2 DEF FileInv, NeededFilesKept
<1>. QED  BY <1>3, <1>4, <1>5, <1>6 DEF FileInv

(* A pass of the cleaner *)
LEMMA CleanerFilesStep ==
    ASSUME AdmissionInv, FileInv, AdmissionInv', CleanerStep
    PROVE  FileInv'
<1>0. /\ active \cup ended \subseteq Job /\ blocking \subseteq active \cup ended
      /\ expired \subseteq ended /\ active \cap ended = {} /\ old \subseteq files
      /\ cleaner = [pc |-> cleaner.pc, referenced |-> cleaner.referenced,
                    victims |-> cleaner.victims]
      /\ \A k \in Job : upload[k].pc = "commit" => k \notin active \cup ended
  BY DEF AdmissionInv, TypeOK, UploadsAdmitted
<1>1. /\ UNCHANGED <<active, ended, expired, blocking, archive, upload, slicer>>
  BY DEF CleanerStep, CleanTerminal, CleanPartial, ReadReferenced, SeeOrphan, UnlinkOrphan,
         CleanerDone, jobVars
<1>2. \A k \in Job : StoredPaths(k)' = StoredPaths(k)
  BY <1>1, StoredFixed
<1>3. /\ slicer.pc # "idle" => slicer.job \in active \cup ended /\ slicer.printer \in Printer
      /\ slicer.pc = "written" /\ slicer.job \in active =>
            Archive(slicer.job, slicer.printer) \in files \ old
      /\ \A k \in Job : upload[k].pc = "commit" => Stl(k) \in files \ old
  BY DEF FileInv, ArchiveOnDisk, UploadsOnDisk
<1>4. /\ cleaner.pc # "remove" => cleaner.victims = {}
      /\ cleaner.pc = "remove" =>
            \A k \in active \cup ended : StoredPaths(k) \cap old \subseteq cleaner.referenced
      /\ cleaner.victims \subseteq (old \ cleaner.referenced) \ {Part(k) : k \in Job}
  BY DEF FileInv, OrphansUnneeded
(* What only looks at the files leaves them as they are. *)
<1>5. ASSUME UNCHANGED <<files, old>>, OrphansUnneeded'
      PROVE  FileInv'
  <2>1. UploadsOnDisk' /\ ArchiveOnDisk'
    BY <1>1, <1>5 DEF FileInv, UploadsOnDisk, ArchiveOnDisk
  <2>2. NeededFilesKept'
    BY <1>0, <1>1, <1>2, <1>5 DEF FileInv, NeededFilesKept
  <2>. QED  BY <1>5, <2>1, <2>2 DEF FileInv
<1>6. CASE CleanTerminal
  <2> DEFINE F == UNION {StoredPaths(k) : k \in expired \ blocking}
  <2>1. /\ files' = files \ F /\ old' = old \ F /\ cleaner.pc = "idle"
        /\ cleaner' = [cleaner EXCEPT !.pc = "partial"]
    BY <1>6 DEF CleanTerminal, Unlink, CleanerGoto
  <2>2. cleaner'.pc = "partial" /\ cleaner'.victims = {}
        /\ cleaner'.referenced = cleaner.referenced
    BY <1>0, <1>4, <2>1
  <2>3. \A k \in Job \ (expired \ blocking) : StoredPaths(k) \cap F = {}
    BY <1>0, StoredArePaths DEF AdmissionInv
  <2>4. /\ \A k \in active \cup blocking : StoredPaths(k) \cap F = {}
        /\ \A k \in Job : upload[k].pc = "commit" => Stl(k) \notin F
    <3>1. \A k \in Job : Stl(k) \in StoredPaths(k)
      BY DEF StoredPaths
    <3>. QED  BY <1>0, <2>3, <3>1
  <2>5. slicer.pc = "written" /\ slicer.job \in active =>
            Archive(slicer.job, slicer.printer) \notin F
    <3> SUFFICES ASSUME slicer.pc = "written", slicer.job \in active,
                        NEW k \in expired \ blocking,
                        Archive(slicer.job, slicer.printer) \in StoredPaths(k)
                 PROVE  FALSE
      OBVIOUS
    <3>1. k \in Job /\ k # slicer.job /\ slicer.printer \in Printer /\ slicer.job \in Job
          /\ archive[k] \in Printer \cup {NoPrinter}
      BY <1>0, <1>3 DEF AdmissionInv, TypeOK
    <3>2. \/ Archive(slicer.job, slicer.printer) = Stl(k)
          \/ /\ archive[k] \in Printer
             /\ Archive(slicer.job, slicer.printer) = Archive(k, archive[k])
      BY <3>1 DEF StoredPaths
    <3>. QED  BY <3>1, <3>2, PathKinds
  <2> HIDE DEF F
  <2>. QED  BY <1>1, <2>1, <2>2, <2>4, <2>5, UnlinkedIsUnneeded
<1>7. CASE CleanPartial
  <2> DEFINE F == old \cap {Part(k) : k \in Job}
  <2>1. /\ files' = files \ F /\ old' = old \ F /\ cleaner.pc = "partial"
        /\ cleaner' = [cleaner EXCEPT !.pc = "orphans"]
    BY <1>7 DEF CleanPartial, Unlink, CleanerGoto
  <2>2. cleaner'.pc = "orphans" /\ cleaner'.victims = {}
        /\ cleaner'.referenced = cleaner.referenced
    BY <1>0, <1>4, <2>1
  <2>3. \A k \in active \cup blocking : StoredPaths(k) \cap F = {}
    BY <1>0, StoredArePaths DEF AdmissionInv
  <2>4. F \subseteq old
    OBVIOUS
  <2> HIDE DEF F
  <2>. QED  BY <1>1, <1>3, <2>1, <2>2, <2>3, <2>4, UnlinkedIsUnneeded
<1>8. CASE UnlinkOrphan
  <2>1. PICK F : F = cleaner.victims
    OBVIOUS
  <2>2. /\ files' = files \ F /\ old' = old \ F /\ F # {}
        /\ cleaner' = [cleaner EXCEPT !.victims = {}]
    BY <1>8, <2>1 DEF UnlinkOrphan, Unlink
  <2>3. cleaner'.pc = cleaner.pc /\ cleaner'.victims = {}
        /\ cleaner'.referenced = cleaner.referenced /\ cleaner.pc = "remove"
    BY <1>0, <1>4, <2>1, <2>2
  <2>4. /\ F \subseteq old \ cleaner.referenced
        /\ \A k \in active \cup ended : StoredPaths(k) \cap old \subseteq cleaner.referenced
    BY <1>4, <2>1, <2>3
  <2>5. \A k \in active \cup blocking : StoredPaths(k) \cap F = {}
    BY <1>0, <2>4
  <2>. QED  BY <1>1, <1>3, <2>2, <2>3, <2>4, <2>5, UnlinkedIsUnneeded
<1>9. CASE ReadReferenced
  <2>1. /\ UNCHANGED <<files, old>>
        /\ cleaner' = [pc |-> "remove", referenced |-> Referenced, victims |-> {}]
    BY <1>9 DEF ReadReferenced, fileVars
  <2>2. \A k \in active \cup ended : StoredPaths(k) \subseteq Referenced
    BY DEF Referenced
  <2>3. OrphansUnneeded'
    BY <1>0, <1>1, <1>2, <2>1, <2>2 DEF OrphansUnneeded
  <2>. QED  BY <1>5, <2>1, <2>3
<1>10. ASSUME NEW f \in Path, SeeOrphan(f)
       PROVE  FileInv'
  <2>1. /\ UNCHANGED <<files, old>> /\ cleaner.pc = "remove"
        /\ cleaner' = [cleaner EXCEPT !.victims = {f}]
        /\ f \in old /\ f \notin cleaner.referenced /\ f[2] # "part"
    BY <1>10 DEF SeeOrphan, Orphan, fileVars
  <2>2. \A k \in Job : f # Part(k)
    BY <2>1 DEF Part
  <2>3. cleaner'.pc = "remove" /\ cleaner'.referenced = cleaner.referenced
        /\ cleaner'.victims = {f}
    BY <1>0, <2>1
  <2>4. OrphansUnneeded'
    BY <1>0, <1>1, <1>2, <1>4, <2>1, <2>2, <2>3 DEF OrphansUnneeded
  <2>. QED  BY <1>5, <2>1, <2>4
<1>11. CASE CleanerDone
  <2>1. UNCHANGED <<files, old>> /\ cleaner' = IdleCleaner
    BY <1>11 DEF CleanerDone, fileVars
  <2>2. OrphansUnneeded'
    BY <2>1 DEF OrphansUnneeded, IdleCleaner
  <2>. QED  BY <1>5, <2>1, <2>2
<1>. QED  BY <1>6, <1>7, <1>8, <1>9, <1>10, <1>11 DEF CleanerStep

(* Every step keeps the files that are needed. *)
LEMMA FileStep ==
    ASSUME ~UnlinkRace, AdmissionInv, FileInv, [Next]_vars
    PROVE  FileInv'
<1>0. AdmissionInv'
  BY AdmissionStep
<1>1. CASE UNCHANGED vars
  <2>1. UNCHANGED <<active, ended, expired, blocking, archive, files, old, upload, slicer, cleaner>>
    BY <1>1 DEF vars, jobVars, fileVars
  <2>2. /\ \A k \in Job : StoredPaths(k)' = StoredPaths(k)
        /\ active \cup ended \subseteq Job /\ blocking \subseteq active \cup ended
    BY <2>1, StoredFixed DEF AdmissionInv, TypeOK
  <2>3. UploadsOnDisk' /\ ArchiveOnDisk'
    BY <2>1 DEF FileInv, UploadsOnDisk, ArchiveOnDisk
  <2>4. OrphansUnneeded' /\ NeededFilesKept'
    BY <2>1, <2>2 DEF FileInv, OrphansUnneeded, NeededFilesKept
  <2>. QED  BY <2>3, <2>4 DEF FileInv
<1>2. CASE Crash
  <2>1. /\ UNCHANGED <<active, ended, expired, blocking, archive, files, old>>
        /\ slicer'.pc = "idle" /\ cleaner'.pc = "idle" /\ cleaner'.victims = {}
        /\ \A j \in Job : upload'[j].pc = "none"
    BY <1>2 DEF Crash, jobVars, fileVars, IdleSlicer, IdleCleaner, NoUpload
  <2>2. /\ \A k \in Job : StoredPaths(k)' = StoredPaths(k)
        /\ active \cup ended \subseteq Job /\ blocking \subseteq active \cup ended
    BY <2>1, StoredFixed DEF AdmissionInv, TypeOK
  <2>3. UploadsOnDisk' /\ ArchiveOnDisk'
    BY <2>1 DEF FileInv, UploadsOnDisk, ArchiveOnDisk
  <2>4. OrphansUnneeded' /\ NeededFilesKept'
    BY <2>1, <2>2 DEF FileInv, OrphansUnneeded, NeededFilesKept
  <2>. QED  BY <2>3, <2>4 DEF FileInv
<1>. QED  BY <1>0, <1>1, <1>2, UploadFilesStep, SlicerFilesStep, JobFilesStep, AgeFilesStep,
             CleanerFilesStep DEF Next

(* There is no file to miss in the beginning. *)
LEMMA FileInit ==
    ASSUME Init
    PROVE  FileInv
<1>1. UploadsOnDisk /\ ArchiveOnDisk
  BY DEF Init, UploadsOnDisk, ArchiveOnDisk, NoUpload, IdleSlicer
<1>2. OrphansUnneeded /\ NeededFilesKept
  BY DEF Init, OrphansUnneeded, NeededFilesKept, IdleCleaner
<1>. QED  BY <1>1, <1>2 DEF FileInv

(* StorageInv: with one upload at a time behind UPLOAD_LOCK, an archive    *)
(* that is recent when it is stored, and a list of references that only    *)
(* recent files escape, for any number of jobs, printers and crashes.      *)
THEOREM StorageInvariant == ASSUME ~UnlinkRace PROVE Spec => []StorageInv
<1>1. Init => AdmissionInv /\ FileInv
  BY AdmissionInit, FileInit
<1>2. AdmissionInv /\ FileInv /\ [Next]_vars => (AdmissionInv /\ FileInv)'
  BY AdmissionStep, FileStep
<1>3. AdmissionInv /\ FileInv => StorageInv
  BY DEF AdmissionInv, FileInv, StorageInv
<1>. QED  BY <1>1, <1>2, <1>3, PTL DEF Spec

(* NeededFilesKept: neither retention nor a refused upload takes the model *)
(* or the stored archive of a job that is active or owns a printer's slot. *)
THEOREM NeededFilesStay == ASSUME ~UnlinkRace PROVE Spec => []NeededFilesKept
<1>1. StorageInv => NeededFilesKept
  BY DEF StorageInv
<1>. QED  BY <1>1, StorageInvariant, PTL

=============================================================================
