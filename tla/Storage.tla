------------------------------ MODULE Storage ------------------------------
(***************************************************************************)
(* The files of the service: admission of an upload (api/jobs.py), the     *)
(* archives that the slicer leaves, and the maintenance thread that        *)
(* removes what is expired or left over (core/maintenance.py).  What the   *)
(* other threads do to a job is reduced to what matters here: it is active *)
(* or has ended, it may keep a printer's slot, it may be sliced again.     *)
(* Time is what makes a file "old" or a job "expired".                      *)
(***************************************************************************)
EXTENDS Integers, FiniteSets

CONSTANTS
    Job, Printer, NoJob, NoPrinter,
    MaxActive,      \* settings.MAX_ACTIVE_JOBS
    MaxStorage,     \* settings.MAX_STORAGE_MB, in the unit of ModelSize
    ModelSize,      \* the size of each job's model
    UnlinkRace,     \* may a file be written between the cleaner's look at it and its unlink?
    MaxCrashes

ASSUME StorageAssumption ==
    /\ NoJob \notin Job /\ NoPrinter \notin Printer
    /\ Printer \cap {"part", "stl"} = {}
    /\ MaxActive \in Nat \ {0} /\ MaxStorage \in Nat \ {0}
    /\ ModelSize \in [Job -> Nat \ {0}]
    /\ UnlinkRace \in BOOLEAN
    /\ MaxCrashes \in Nat

VARIABLES
    active,     \* the jobs in one of ACTIVE_JOB_STATUSES
    ended,      \* the jobs in one of TERMINAL_JOB_STATUSES
    expired,    \* the ended jobs whose print_ended_at is before the cutoff
    blocking,   \* the jobs that a printer row names as current_job_id
    archive,    \* a job's sliced_path, by the printer it was sliced for
    files, old, \* the files on disk, and those past their retention
    lock,       \* the holder of UPLOAD_LOCK
    upload,     \* the upload request of each job: [pc, before]
    slicer,     \* the slicer's output: [pc, job, printer]
    cleaner,    \* run_once: [pc, referenced, victims]
    crashes

jobVars == <<active, ended, expired, blocking, archive>>
fileVars == <<files, old>>
vars == <<jobVars, fileVars, lock, upload, slicer, cleaner, crashes>>

(* <id>.stl.part, <id>.stl and <id>-<printer>.gcode.3mf *)
Path == Job \X ({"part", "stl"} \cup Printer)
Part(j) == <<j, "part">>
Stl(j) == <<j, "stl">>
Archive(j, p) == <<j, p>>

NoUpload == [pc |-> "none", before |-> 0]
IdleSlicer == [pc |-> "idle", job |-> NoJob, printer |-> NoPrinter]
IdleCleaner == [pc |-> "idle", referenced |-> {}, victims |-> {}]

TypeOK ==
    /\ active \in SUBSET Job /\ ended \in SUBSET (Job \ active)
    /\ expired \in SUBSET ended /\ blocking \in SUBSET (active \cup ended)
    /\ archive \in [Job -> Printer \cup {NoPrinter}]
    /\ files \in SUBSET Path /\ old \in SUBSET files
    /\ lock \in Job \cup {NoJob}
    /\ upload \in [Job -> [pc : {"none", "stream", "commit"}, before : Nat]]
    /\ slicer \in [pc : {"idle", "slice", "written"}, job : Job \cup {NoJob},
                   printer : Printer \cup {NoPrinter}]
    /\ cleaner \in [pc : {"idle", "partial", "orphans", "remove"},
                    referenced : SUBSET Path, victims : SUBSET Path]
    /\ crashes \in 0 .. MaxCrashes

Init ==
    /\ active = {} /\ ended = {} /\ expired = {} /\ blocking = {}
    /\ archive = [j \in Job |-> NoPrinter]
    /\ files = {} /\ old = {}
    /\ lock = NoJob
    /\ upload = [j \in Job |-> NoUpload]
    /\ slicer = IdleSlicer /\ cleaner = IdleCleaner
    /\ crashes = 0

Write(f) == files' = files \cup {f} /\ old' = old \ {f}
Unlink(F) == files' = files \ F /\ old' = old \ F

----------------------------------------------------------------------------
(* upload_job, whose awaits are the lock and the streaming.                *)

(* A partial file may still be empty, and an archive takes one unit. *)
Size(f) ==
    CASE f[2] = "part" -> 0
      [] f[2] = "stl"  -> ModelSize[f[1]]
      [] OTHER         -> 1

(* A file takes Size units of the disk, and what a directory takes is the  *)
(* number of its files' units.                                             *)
Units(F) == UNION {{f} \X (1 .. Size(f)) : f \in F}

StorageBytes == Cardinality(Units(files))

(* A job id is fresh for every request. *)
Fresh(j) ==
    /\ j \notin active \cup ended /\ upload[j].pc = "none"
    /\ {Part(j), Stl(j)} \cap files = {}

(* Mutant: the lock is not taken. *)
AdmitUnlocked(j) ==
    /\ Fresh(j)
    /\ Cardinality(active) < MaxActive
    /\ StorageBytes < MaxStorage
    /\ upload' = [upload EXCEPT ![j] = [pc |-> "stream", before |-> StorageBytes]]
    /\ Write(Part(j))
    /\ UNCHANGED <<jobVars, lock, slicer, cleaner, crashes>>

Admit(j) ==
    /\ lock = NoJob /\ Fresh(j)
    /\ Cardinality(active) < MaxActive
    /\ StorageBytes < MaxStorage
    /\ lock' = j
    /\ upload' = [upload EXCEPT ![j] = [pc |-> "stream", before |-> StorageBytes]]
    /\ Write(Part(j))
    /\ UNCHANGED <<jobVars, slicer, cleaner, crashes>>

(* The stream is too long or breaks, the quota would be exceeded, or the   *)
(* file is no STL: its partial file is removed.                            *)
RefuseUpload(j) ==
    /\ upload[j].pc = "stream"
    /\ lock' = NoJob
    /\ upload' = [upload EXCEPT ![j] = NoUpload]
    /\ Unlink({Part(j)})
    /\ UNCHANGED <<jobVars, slicer, cleaner, crashes>>

(* Mutant: the size of the new model is not added. *)
StreamedUnmeasured(j) ==
    /\ upload[j].pc = "stream"
    /\ upload' = [upload EXCEPT ![j].pc = "commit"]
    /\ files' = (files \ {Part(j)}) \cup {Stl(j)}
    /\ old' = old \ {Part(j), Stl(j)}
    /\ UNCHANGED <<jobVars, lock, slicer, cleaner, crashes>>

(* What was measured before the streaming decides after it. *)
Streamed(j) ==
    /\ upload[j].pc = "stream"
    /\ upload[j].before + ModelSize[j] <= MaxStorage
    /\ upload' = [upload EXCEPT ![j].pc = "commit"]
    /\ files' = (files \ {Part(j)}) \cup {Stl(j)}
    /\ old' = old \ {Part(j), Stl(j)}
    /\ UNCHANGED <<jobVars, lock, slicer, cleaner, crashes>>

CommitUpload(j) ==
    /\ upload[j].pc = "commit"
    /\ active' = active \cup {j}
    /\ lock' = NoJob
    /\ upload' = [upload EXCEPT ![j] = NoUpload]
    /\ UNCHANGED <<ended, expired, blocking, archive, fileVars, slicer, cleaner, crashes>>

CommitFails(j) ==
    /\ upload[j].pc = "commit"
    /\ lock' = NoJob
    /\ upload' = [upload EXCEPT ![j] = NoUpload]
    /\ Unlink({Part(j), Stl(j)})
    /\ UNCHANGED <<jobVars, slicer, cleaner, crashes>>

----------------------------------------------------------------------------
(* The other threads *)

(* A pipeline or a fallback slices an active job, perhaps once more. *)
StartSlicing(j, p) ==
    /\ slicer.pc = "idle" /\ j \in active \ blocking
    /\ slicer' = [pc |-> "slice", job |-> j, printer |-> p]
    /\ UNCHANGED <<jobVars, fileVars, lock, upload, cleaner, crashes>>

WriteArchive ==
    /\ slicer.pc = "slice"
    /\ UnlinkRace \/ cleaner.victims = {}
    /\ Write(Archive(slicer.job, slicer.printer))
    /\ slicer' = [slicer EXCEPT !.pc = "written"]
    /\ UNCHANGED <<jobVars, lock, upload, cleaner, crashes>>

(* The path is stored, unless the job has ended meanwhile. *)
CommitArchive ==
    /\ slicer.pc = "written"
    /\ slicer.job \in active
    /\ archive' = [archive EXCEPT ![slicer.job] = slicer.printer]
    /\ slicer' = IdleSlicer
    /\ UNCHANGED <<active, ended, expired, blocking, fileVars, lock, upload, cleaner, crashes>>

(* A failed slicing, or one whose job has ended, leaves what it wrote: a   *)
(* pipeline's failure ends the job, a fallback's leaves it its archive.    *)
DropArchive ==
    LET j == slicer.job IN
    /\ slicer.pc \in {"slice", "written"}
    /\ \/ /\ j \in active
          /\ active' = active \ {j} /\ ended' = ended \cup {j}
       \/ /\ j \in active => archive[j] # NoPrinter
          /\ UNCHANGED <<active, ended>>
    /\ slicer' = IdleSlicer
    /\ UNCHANGED <<expired, blocking, archive, fileVars, lock, upload, cleaner, crashes>>

(* A job is dispatched when it has an archive and is not being sliced. *)
Occupy(j) ==
    /\ j \in active \ blocking /\ archive[j] # NoPrinter
    /\ slicer.job # j
    /\ blocking' = blocking \cup {j}
    /\ UNCHANGED <<active, ended, expired, archive, fileVars, lock, upload, slicer, cleaner, crashes>>

EndJob(j) ==
    /\ j \in active
    /\ active' = active \ {j} /\ ended' = ended \cup {j}
    /\ UNCHANGED <<expired, blocking, archive, fileVars, lock, upload, slicer, cleaner, crashes>>

ReleasePlate(j) ==
    /\ j \in blocking \cap ended
    /\ blocking' = blocking \ {j}
    /\ UNCHANGED <<active, ended, expired, archive, fileVars, lock, upload, slicer, cleaner, crashes>>

----------------------------------------------------------------------------
(* Time: retention is hours or days, so nothing comes of age while it is   *)
(* being written or within one pass of the cleaner.                        *)

InUse(f) ==
    \/ \E j \in Job : upload[j].pc # "none" /\ f \in {Part(j), Stl(j)}
    \/ slicer.pc = "written" /\ f = Archive(slicer.job, slicer.printer)

FilesAge(F) ==
    /\ F # {} /\ \A f \in F : ~InUse(f)
    /\ cleaner.pc = "idle"
    /\ old' = old \cup F
    /\ UNCHANGED <<jobVars, files, lock, upload, slicer, cleaner, crashes>>

Unused == {f \in files \ old : ~InUse(f)}

(* Mutant: the age of a job decides, ended or not. *)
JobExpiresActive(j) ==
    /\ j \in active \ expired
    /\ expired' = expired \cup {j}
    /\ UNCHANGED <<active, ended, blocking, archive, fileVars, lock, upload, slicer, cleaner, crashes>>

JobExpires(j) ==
    /\ j \in ended \ expired
    /\ expired' = expired \cup {j}
    /\ UNCHANGED <<active, ended, blocking, archive, fileVars, lock, upload, slicer, cleaner, crashes>>

----------------------------------------------------------------------------
(* The maintenance thread: run_once *)

StoredPaths(j) ==
    {Stl(j)} \cup {Archive(j, p) : p \in {archive[j]} \ {NoPrinter}}

Referenced == UNION {StoredPaths(j) : j \in active \cup ended}

CleanerGoto(pc) == cleaner' = [cleaner EXCEPT !.pc = pc]

(* Mutant: the slots are not looked at. *)
CleanTerminalBlocking ==
    /\ cleaner.pc = "idle"
    /\ Unlink(UNION {StoredPaths(j) : j \in expired})
    /\ CleanerGoto("partial")
    /\ UNCHANGED <<jobVars, lock, upload, slicer, crashes>>

CleanTerminal ==
    /\ cleaner.pc = "idle"
    /\ Unlink(UNION {StoredPaths(j) : j \in expired \ blocking})
    /\ CleanerGoto("partial")
    /\ UNCHANGED <<jobVars, lock, upload, slicer, crashes>>

(* Mutant: partial uploads are forgotten. *)
CleanPartialNever ==
    /\ cleaner.pc = "partial"
    /\ CleanerGoto("orphans")
    /\ UNCHANGED <<jobVars, fileVars, lock, upload, slicer, crashes>>

CleanPartial ==
    /\ cleaner.pc = "partial"
    /\ Unlink(old \cap {Part(j) : j \in Job})
    /\ CleanerGoto("orphans")
    /\ UNCHANGED <<jobVars, lock, upload, slicer, crashes>>

(* The paths in the store are read once, before the directories. *)
ReadReferenced ==
    /\ cleaner.pc = "orphans"
    /\ cleaner' = [pc |-> "remove", referenced |-> Referenced, victims |-> {}]
    /\ UNCHANGED <<jobVars, fileVars, lock, upload, slicer, crashes>>

Orphan(f) == f \in old /\ f \notin cleaner.referenced /\ f[2] # "part"

(* An expired file is looked at and then removed. *)
SeeOrphan(f) ==
    /\ cleaner.pc = "remove" /\ Orphan(f) /\ cleaner.victims = {}
    /\ cleaner' = [cleaner EXCEPT !.victims = {f}]
    /\ UNCHANGED <<jobVars, fileVars, lock, upload, slicer, crashes>>

UnlinkOrphan ==
    /\ cleaner.victims # {}
    /\ Unlink(cleaner.victims)
    /\ cleaner' = [cleaner EXCEPT !.victims = {}]
    /\ UNCHANGED <<jobVars, lock, upload, slicer, crashes>>

CleanerDone ==
    /\ cleaner.pc = "remove" /\ cleaner.victims = {}
    /\ \A f \in files : ~Orphan(f)
    /\ cleaner' = IdleCleaner
    /\ UNCHANGED <<jobVars, fileVars, lock, upload, slicer, crashes>>

(* The files and the store outlive the process; a restart begins with a pass. *)
Crash ==
    /\ crashes < MaxCrashes
    /\ crashes' = crashes + 1
    /\ lock' = NoJob /\ upload' = [j \in Job |-> NoUpload]
    /\ slicer' = IdleSlicer /\ cleaner' = IdleCleaner
    /\ UNCHANGED <<jobVars, fileVars>>

----------------------------------------------------------------------------
UploadStep(j) == RefuseUpload(j) \/ Streamed(j) \/ CommitUpload(j) \/ CommitFails(j)

SlicerStep == WriteArchive \/ CommitArchive \/ DropArchive

CleanerStep ==
    \/ CleanTerminal \/ CleanPartial \/ ReadReferenced
    \/ \E f \in Path : SeeOrphan(f)
    \/ UnlinkOrphan \/ CleanerDone

Next ==
    \/ \E j \in Job : Admit(j) \/ UploadStep(j)
    \/ \E j \in Job, p \in Printer : StartSlicing(j, p)
    \/ SlicerStep
    \/ \E j \in Job : Occupy(j) \/ EndJob(j) \/ ReleasePlate(j) \/ JobExpires(j)
    \/ \E F \in SUBSET Unused : FilesAge(F)
    \/ CleanerStep \/ Crash

Spec == Init /\ [][Next]_vars

(* The handlers and the two threads run, and time passes. *)
LiveSpec ==
    /\ Spec
    /\ \A j \in Job : WF_vars(UploadStep(j))
    /\ WF_vars(SlicerStep) /\ WF_vars(CleanerStep)
    /\ SF_vars(FilesAge(Unused))

----------------------------------------------------------------------------
(* Two uploads never pass the admission test together: the number of       *)
(* active jobs stays within its limit.                                     *)
QueueBounded == Cardinality(active) <= MaxActive

Models == files \cap {Stl(j) : j \in Job}

(* The models never take more than the quota, although it is tested with a *)
(* measurement made before the streaming: no other model can come between. *)
ModelsWithinQuota == Cardinality(Units(Models)) <= MaxStorage

(* Retention never takes the model or the stored archive of a job that is  *)
(* active or still owns a printer's slot, whatever was re-sliced while the *)
(* cleaner worked from its list of references.                             *)
NeededFilesKept == \A j \in active \cup blocking : StoredPaths(j) \subseteq files

(* What makes these inductive: one upload at a time is past the admission  *)
(* test.                                                                   *)
UploadsAdmitted ==
    /\ IsFiniteSet(active)
    /\ \A j \in Job : upload[j].pc # "none" =>
          lock = j /\ j \notin active \cup ended /\ Cardinality(active) < MaxActive

(* What was measured before the streaming is not less than the models take.*)
MeasureHolds ==
    /\ IsFiniteSet(Units(files))
    /\ \A j \in Job : upload[j].pc = "stream" => Cardinality(Units(Models)) <= upload[j].before

(* The model of a job is on disk before the job is in the store.           *)
UploadsOnDisk ==
    \A j \in Job :
        /\ upload[j].pc = "stream" => Stl(j) \notin files
        /\ upload[j].pc = "commit" => Stl(j) \in files \ old

(* An archive that can still be stored is on disk and recent.              *)
ArchiveOnDisk ==
    /\ slicer.pc # "idle" => slicer.job \in active \cup ended /\ slicer.printer \in Printer
    /\ slicer.pc = "written" /\ slicer.job \in active =>
          Archive(slicer.job, slicer.printer) \in files \ old
    /\ \A j \in Job : archive[j] # NoPrinter => j \in active \cup ended

(* The list of references that the cleaner works from may be stale, but an *)
(* old file that a job has come to need since is on it.                    *)
OrphansUnneeded ==
    /\ cleaner.pc # "remove" => cleaner.victims = {}
    /\ cleaner.pc = "remove" =>
          \A j \in active \cup ended : StoredPaths(j) \cap old \subseteq cleaner.referenced
    /\ cleaner.victims \subseteq (old \ cleaner.referenced) \ {Part(j) : j \in Job}

StorageInv ==
    /\ TypeOK /\ QueueBounded /\ UploadsAdmitted /\ ModelsWithinQuota /\ MeasureHolds
    /\ UploadsOnDisk /\ ArchiveOnDisk /\ OrphansUnneeded /\ NeededFilesKept

(* What a crash, a cancellation or a re-slicing leaves behind is removed,  *)
(* unless it is written again.                                             *)
LeftoversRemoved ==
    \A f \in Path :
        f \in files /\ f \notin Referenced ~> f \notin files \/ f \in Referenced \/ InUse(f)
=============================================================================
