----------------------------- MODULE Scheduler -----------------------------
(***************************************************************************)
(* From an uploaded job to a dispatched one: the polling thread and the    *)
(* single slicer thread of core/queue_processor.py, with cancellation,     *)
(* transactions that raise, and a stop or a crash followed by              *)
(* reconciliation.  A pending job is analysed, sliced for the printer that *)
(* Routing selects and queued there; a queued job whose printer is         *)
(* unavailable is re-sliced for the other one.  What happens to a job from *)
(* "uploading" on, and to the printers' rows, is module Handoff's: here it *)
(* is an environment that keeps the same SlotContract.                     *)
(***************************************************************************)
EXTENDS JobStore, Routing, Integers, Sequences, FiniteSets, SequencesExt

CONSTANTS
    Uploads,        \* the models that may be uploaded as each job
    Deployment,     \* the configurations that a (re)start may find
    MaxCrashes,     \* bound on the crashes and stops of the service
    MaxFaults       \* bound on the raising transactions of one run of the service

(* validate_runtime refuses live printers without an enabled one. *)
ASSUME SchedulerAssumption ==
    /\ Printer = PrinterID
    /\ Uploads \in [Job -> SUBSET Model]
    /\ Deployment \subseteq [enabled : SUBSET Printer, live : BOOLEAN]
    /\ \A d \in Deployment : d.live => d.enabled # {}
    /\ MaxCrashes \in Nat /\ MaxFaults \in Nat

VARIABLES
    submitted,  \* the rows of table jobs, by submitted_at
    model,      \* the STL of each job, as analyse_stl measures it
    measured,   \* the jobs whose bounding box is stored
    slicedFor,  \* the printer a job's stored archive (sliced_path) was sliced for
    marked,     \* the jobs whose error_message starts with "Fallback slicing failed;"
    proc,       \* the service: "up", "stopping" (the executors are shut down), "down"
    deploy,     \* settings: the ENABLED printers, and PRINTERS_ENABLED (live)
    poll,       \* the polling thread: [pc, batch (the ids it read), rest]
    backlog,    \* the slicer executor's queue
    slicer,     \* the slicer executor's thread: [pc, job, target]
    reserved,   \* _slicing_jobs
    crashes, faults

durable == <<submitted, model, measured, slicedFor, marked>>
service == <<proc, deploy>>
threads == <<poll, backlog, slicer, reserved>>
bounds == <<crashes, faults>>
vars == <<storeVars, durable, service, threads, bounds>>

Exists(j) == j \in Range(submitted)

(* A work item: _slice_pipeline, or _reslice_for_fallback for a target.    *)
Item == [job : Job, target : Printer \cup {NoPrinter}]

SlicerPC == {"idle", "begin", "analyse", "slice", "failing",
             "read", "reslice", "abort", "done"}

IdlePoll == [pc |-> "wait", batch |-> {}, rest |-> <<>>]
IdleSlicer == [pc |-> "idle", job |-> NoJob, target |-> NoPrinter]

Enabled(p) == p \in deploy.enabled

(* _tick serves the printers of a live deployment in this order. *)
Served(p) == deploy.live /\ Enabled(p)
ServeOrder ==
    (IF Served(A1Mini) THEN <<A1Mini>> ELSE <<>>) \o (IF Served(P1S) THEN <<P1S>> ELSE <<>>)

(* The STL of a job that was not uploaded yet. *)
NoModel == [bbox |-> [a \in Axis |-> 0], score |-> 0]

TypeOK ==
    /\ StoreTypeOK
    /\ submitted \in Seq(Job) /\ IsInjective(submitted)
    /\ measured \in SUBSET Job /\ marked \in SUBSET Job
    /\ slicedFor \in [Job -> Printer \cup {NoPrinter}]
    /\ model \in [Job -> Model]
    /\ proc \in {"down", "stopping", "up"} /\ deploy \in Deployment
    /\ poll \in [pc : {"wait", "submit", "dispatch", "fallback"},
                 batch : SUBSET Job, rest : Seq(Printer)]
    /\ backlog \in Seq(Item)
    /\ slicer \in [pc : SlicerPC, job : Job \cup {NoJob}, target : Printer \cup {NoPrinter}]
    /\ reserved \in SUBSET Job
    /\ crashes \in 0 .. MaxCrashes /\ faults \in 0 .. MaxFaults

Init ==
    /\ status = [j \in Job |-> "pending"]
    /\ assigned = [j \in Job |-> NoPrinter]
    /\ row = [p \in Printer |-> SeedRow]
    /\ submitted = <<>> /\ model = [j \in Job |-> NoModel]
    /\ measured = {} /\ marked = {}
    /\ slicedFor = [j \in Job |-> NoPrinter]
    /\ proc = "up" /\ deploy \in Deployment
    /\ poll = IdlePoll
    /\ backlog = <<>> /\ slicer = IdleSlicer /\ reserved = {}
    /\ crashes = 0 /\ faults = 0

----------------------------------------------------------------------------
(* The API *)

(* create_job, the last step of an upload. *)
Upload(j) ==
    /\ proc = "up" /\ ~Exists(j)
    /\ submitted' = Append(submitted, j)
    /\ model' \in {[model EXCEPT ![j] = m] : m \in Uploads[j]}
    /\ UNCHANGED <<storeVars, measured, slicedFor, marked, service, threads, bounds>>

(* cancel_job, or cancel_pending_job.py, which runs beside the service. *)
Cancel(j) ==
    /\ Exists(j)
    /\ TransitionFrom(j, Cancellable, "cancelled")
    /\ UNCHANGED <<assigned, row, durable, service, threads, bounds>>

----------------------------------------------------------------------------
(* The polling thread: _tick *)

(* The ids of the pending jobs are read in one session and submitted after *)
(* it was closed, oldest first: they may be pending no more.               *)
ReadPending ==
    /\ proc = "up" /\ poll.pc = "wait"
    /\ poll' = [pc |-> "submit", rest |-> <<>>,
                batch |-> {j \in Job : Exists(j) /\ status[j] = "pending"}]
    /\ UNCHANGED <<storeVars, durable, service, backlog, slicer, reserved, bounds>>

NextInBatch(j) ==
    /\ poll.pc = "submit" /\ j \in poll.batch
    /\ \A i, k \in DOMAIN submitted :
          submitted[i] = j /\ submitted[k] \in poll.batch => i <= k

(* Mutant: the reservation is not looked at. *)
SubmitAgain(j) ==
    /\ NextInBatch(j)
    /\ poll' = [poll EXCEPT !.batch = @ \ {j}]
    /\ backlog' = Append(backlog, [job |-> j, target |-> NoPrinter])
    /\ reserved' = reserved \cup {j}
    /\ UNCHANGED <<storeVars, durable, service, slicer, bounds>>

(* _submit_slice of the next id, which skips a job that is reserved.       *)
Submit(j) ==
    /\ proc = "up" /\ NextInBatch(j)
    /\ poll' = [poll EXCEPT !.batch = @ \ {j}]
    /\ \/ j \in reserved /\ UNCHANGED <<backlog, reserved>>
       \/ /\ j \notin reserved
          /\ backlog' = Append(backlog, [job |-> j, target |-> NoPrinter])
          /\ reserved' = reserved \cup {j}
    /\ UNCHANGED <<storeVars, durable, service, slicer, bounds>>

(* stop() waits 5 s for a tick that may take longer: then an executor that *)
(* is shut down refuses the work, after it was reserved, and the tick ends.*)
SubmitRefused(j) ==
    /\ proc = "stopping" /\ NextInBatch(j)
    /\ poll' = IdlePoll
    /\ reserved' = reserved \cup {j}
    /\ UNCHANGED <<storeVars, durable, service, backlog, slicer, bounds>>

Serve(rest) ==
    poll' = IF rest = <<>> THEN IdlePoll
            ELSE [pc |-> "dispatch", batch |-> {}, rest |-> rest]

AllSubmitted ==
    /\ poll.pc = "submit" /\ poll.batch = {}
    /\ Serve(ServeOrder)
    /\ UNCHANGED <<storeVars, durable, service, backlog, slicer, reserved, bounds>>

(* The counted failure of a transaction. *)
Fault == faults < MaxFaults /\ faults' = faults + 1 /\ UNCHANGED crashes

QueuedFor(p) == {j \in Job : Exists(j) /\ status[j] = "queued" /\ assigned[j] = p}

(* _try_dispatch.  The stored estimates that order a printer's queue are   *)
(* left out: any job of the queue may be the first.  A service that is       *)
(* stopping claims the job and finds its executor shut down.               *)
Dispatch(j) ==
    LET p == Head(poll.rest) IN
    /\ poll.pc = "dispatch"
    /\ Available(p) /\ j \in QueuedFor(p)
    /\ Transition(j, "queued", "uploading")
    /\ SetRow(p, [row[p] EXCEPT !.current = j])
    /\ \/ Serve(Tail(poll.rest))
       \/ proc = "stopping" /\ poll' = IdlePoll
    /\ UNCHANGED <<assigned, durable, service, backlog, slicer, reserved, bounds>>

NothingToDispatch ==
    LET p == Head(poll.rest) IN
    /\ poll.pc = "dispatch"
    /\ Available(p) => QueuedFor(p) = {}
    /\ poll' = [poll EXCEPT !.pc = "fallback"]
    /\ UNCHANGED <<storeVars, durable, service, backlog, slicer, reserved, bounds>>

(* _try_schedule_fallback's candidates: queued for a printer that is not   *)
(* available, and printable on this one.                                   *)
Unavailable(p) == ~Enabled(p) \/ ~Available(p)

(* Mutants: an earlier failure is forgotten; only a P1S stands in. *)
CandidatesAgain(target) ==
    {j \in Job :
        /\ Exists(j) /\ status[j] = "queued"
        /\ assigned[j] \in Printer \ {target}
        /\ Unavailable(assigned[j])
        /\ j \in measured /\ Fits(model[j].bbox, target)
        /\ j \notin reserved}

CandidatesForP1S(target) ==
    {j \in CandidatesAgain(target) : j \notin marked /\ target = P1S}

Candidates(target) ==
    {j \in Job :
        /\ Exists(j) /\ status[j] = "queued"
        /\ assigned[j] \in Printer \ {target}
        /\ j \notin marked
        /\ Unavailable(assigned[j])
        /\ j \in measured /\ Fits(model[j].bbox, target)
        /\ j \notin reserved}

(* The reservation and the status come first, the work item after the      *)
(* commit: an executor that is shut down refuses it then.                  *)
Fallback(j) ==
    LET target == Head(poll.rest) IN
    /\ poll.pc = "fallback"
    /\ Available(target) /\ j \in Candidates(target)
    /\ Transition(j, "queued", "slicing")
    /\ reserved' = reserved \cup {j}
    /\ \/ /\ proc = "up"
          /\ backlog' = Append(backlog, [job |-> j, target |-> target])
          /\ Serve(Tail(poll.rest))
       \/ proc = "stopping" /\ poll' = IdlePoll /\ UNCHANGED backlog
    /\ UNCHANGED <<assigned, row, durable, service, slicer, bounds>>

(* The transaction of a fallback raises: it is rolled back, but not the    *)
(* reservation.                                                            *)
FallbackRaises(j) ==
    /\ poll.pc = "fallback"
    /\ Available(Head(poll.rest)) /\ j \in Candidates(Head(poll.rest))
    /\ Fault
    /\ poll' = IdlePoll
    /\ reserved' = reserved \cup {j}
    /\ UNCHANGED <<storeVars, durable, service, backlog, slicer>>

(* Any other transaction of the tick raises: the tick ends. *)
TickRaises ==
    /\ poll.pc \in {"dispatch", "fallback"}
    /\ Fault
    /\ poll' = IdlePoll
    /\ UNCHANGED <<storeVars, durable, service, backlog, slicer, reserved>>

NoFallback ==
    LET target == Head(poll.rest) IN
    /\ poll.pc = "fallback"
    /\ Available(target) => Candidates(target) = {}
    /\ Serve(Tail(poll.rest))
    /\ UNCHANGED <<storeVars, durable, service, backlog, slicer, reserved, bounds>>

----------------------------------------------------------------------------
(* The slicer thread *)

SlicerGoto(pc) == slicer' = [slicer EXCEPT !.pc = pc]

TakeItem ==
    /\ slicer.pc = "idle" /\ backlog # <<>>
    /\ slicer' = [pc |-> IF Head(backlog).target = NoPrinter THEN "begin" ELSE "read",
                  job |-> Head(backlog).job, target |-> Head(backlog).target]
    /\ backlog' = Tail(backlog)
    /\ UNCHANGED <<storeVars, durable, service, poll, reserved, bounds>>

(* _slice_pipeline: a job that is pending no more is left alone.           *)
BeginAnalysis ==
    /\ slicer.pc = "begin"
    /\ \/ Transition(slicer.job, "pending", "analysing") /\ SlicerGoto("analyse")
       \/ status[slicer.job] # "pending" /\ UNCHANGED status /\ SlicerGoto("done")
    /\ UNCHANGED <<assigned, row, durable, service, poll, backlog, reserved, bounds>>

(* Mutant: the verdict of select_printer is stored whatever it is. *)
AnalysedUnchecked ==
    LET j == slicer.job  p == SelectPrinter(model[j], deploy.enabled) IN
    /\ slicer.pc = "analyse"
    /\ Transition(j, "analysing", "slicing")
    /\ assigned' = [assigned EXCEPT ![j] = p]
    /\ measured' = measured \cup {j}
    /\ slicer' = [slicer EXCEPT !.pc = "slice", !.target = p]
    /\ UNCHANGED <<row, submitted, model, slicedFor, marked, service, poll, backlog, reserved, bounds>>

(* The mesh is measured; the verdict is stored unless the job has moved.   *)
Analysed ==
    LET j == slicer.job  p == SelectPrinter(model[j], deploy.enabled) IN
    /\ slicer.pc = "analyse"
    /\ \/ /\ p # Rejection
          /\ Transition(j, "analysing", "slicing")
          /\ assigned' = [assigned EXCEPT ![j] = p]
          /\ measured' = measured \cup {j}
          /\ slicer' = [slicer EXCEPT !.pc = "slice", !.target = p]
       \/ /\ p = Rejection
          /\ Transition(j, "analysing", "rejected")
          /\ SlicerGoto("done")
          /\ UNCHANGED <<assigned, measured>>
       \/ /\ status[j] # "analysing"
          /\ SlicerGoto("done")
          /\ UNCHANGED <<status, assigned, measured>>
    /\ UNCHANGED <<row, submitted, model, slicedFor, marked, service, poll, backlog, reserved, bounds>>

(* Mutant: a late archive queues its job whatever became of that. *)
SlicedLate ==
    /\ slicer.pc = "slice"
    /\ status' = [status EXCEPT ![slicer.job] = "queued"]
    /\ slicedFor' = [slicedFor EXCEPT ![slicer.job] = slicer.target]
    /\ SlicerGoto("done")
    /\ UNCHANGED <<assigned, row, submitted, model, measured, marked, service, poll, backlog,
                   reserved, bounds>>

(* The archive for the selected printer is written. *)
Sliced ==
    LET j == slicer.job IN
    /\ slicer.pc = "slice"
    /\ \/ /\ Transition(j, "slicing", "queued")
          /\ slicedFor' = [slicedFor EXCEPT ![j] = slicer.target]
       \/ status[j] # "slicing" /\ UNCHANGED <<status, slicedFor>>
    /\ SlicerGoto("done")
    /\ UNCHANGED <<assigned, row, submitted, model, measured, marked, service, poll, backlog,
                   reserved, bounds>>

(* The mesh cannot be read, the slicer fails, or a transaction raises. *)
PipelineRaises ==
    /\ slicer.pc \in {"begin", "analyse", "slice"}
    /\ SlicerGoto("failing")
    /\ UNCHANGED <<storeVars, durable, service, poll, backlog, reserved, bounds>>

FailJob ==
    /\ slicer.pc = "failing"
    /\ \/ TransitionFrom(slicer.job, JobStatus \ Terminal, "failed")
       \/ status[slicer.job] \in Terminal /\ UNCHANGED status
    /\ SlicerGoto("done")
    /\ UNCHANGED <<assigned, row, durable, service, poll, backlog, reserved, bounds>>

(* The transaction of _fail_job raises: the job keeps its status. *)
FailJobRaises ==
    /\ slicer.pc = "failing"
    /\ Fault
    /\ SlicerGoto("done")
    /\ UNCHANGED <<storeVars, durable, service, poll, backlog, reserved>>

(* _reslice_for_fallback: its first look at the job. *)
ReadForReslice ==
    /\ slicer.pc = "read"
    /\ SlicerGoto(IF status[slicer.job] = "slicing" THEN "reslice" ELSE "done")
    /\ UNCHANGED <<storeVars, durable, service, poll, backlog, reserved, bounds>>

(* Mutants: the archive's path is not stored; the store is written before  *)
(* the status is looked at.                                                *)
ReslicedSamePath ==
    /\ slicer.pc = "reslice"
    /\ Transition(slicer.job, "slicing", "queued")
    /\ assigned' = [assigned EXCEPT ![slicer.job] = slicer.target]
    /\ SlicerGoto("done")
    /\ UNCHANGED <<row, durable, service, poll, backlog, reserved, bounds>>

ReslicedLate ==
    LET j == slicer.job IN
    /\ slicer.pc = "reslice"
    /\ \/ Transition(j, "slicing", "queued")
       \/ status[j] # "slicing" /\ UNCHANGED status
    /\ assigned' = [assigned EXCEPT ![j] = slicer.target]
    /\ slicedFor' = [slicedFor EXCEPT ![j] = slicer.target]
    /\ SlicerGoto("done")
    /\ UNCHANGED <<row, submitted, model, measured, marked, service, poll, backlog, reserved, bounds>>

(* The job moves to the target with its archive and its queue. *)
Resliced ==
    LET j == slicer.job IN
    /\ slicer.pc = "reslice"
    /\ \/ /\ Transition(j, "slicing", "queued")
          /\ assigned' = [assigned EXCEPT ![j] = slicer.target]
          /\ slicedFor' = [slicedFor EXCEPT ![j] = slicer.target]
       \/ status[j] # "slicing" /\ UNCHANGED <<status, assigned, slicedFor>>
    /\ SlicerGoto("done")
    /\ UNCHANGED <<row, submitted, model, measured, marked, service, poll, backlog, reserved, bounds>>

ResliceRaises ==
    /\ slicer.pc \in {"read", "reslice"}
    /\ SlicerGoto("abort")
    /\ UNCHANGED <<storeVars, durable, service, poll, backlog, reserved, bounds>>

(* Mutant: the job is marked and not given back to its queue. *)
AbortWithoutQueue ==
    /\ slicer.pc = "abort"
    /\ marked' = marked \cup {slicer.job}
    /\ SlicerGoto("done")
    /\ UNCHANGED <<storeVars, submitted, model, measured, slicedFor, service, poll, backlog,
                   reserved, bounds>>

(* Back to the original queue, marked. *)
AbortFallback ==
    LET j == slicer.job IN
    /\ slicer.pc = "abort"
    /\ \/ Transition(j, "slicing", "queued") /\ marked' = marked \cup {j}
       \/ status[j] # "slicing" /\ UNCHANGED <<status, marked>>
    /\ SlicerGoto("done")
    /\ UNCHANGED <<assigned, row, submitted, model, measured, slicedFor, service, poll, backlog,
                   reserved, bounds>>

(* The handler's own transaction raises: the job stays as it is. *)
AbortRaises ==
    /\ slicer.pc = "abort"
    /\ Fault
    /\ SlicerGoto("done")
    /\ UNCHANGED <<storeVars, durable, service, poll, backlog, reserved>>

(* finally: the reservation is given back. *)
ItemDone ==
    /\ slicer.pc = "done"
    /\ reserved' = reserved \ {slicer.job}
    /\ slicer' = IdleSlicer
    /\ UNCHANGED <<storeVars, durable, service, poll, backlog, bounds>>

----------------------------------------------------------------------------
(* The environment: handoffs, reports and the operator *)

Running == proc \in {"up", "stopping"}

(* A printer reports.  A slot that a job owns is left to HandoffEnds. *)
Report(p) ==
    /\ Running /\ Served(p)
    /\ row[p].current = NoJob /\ row[p].status # "idle"
    /\ SetRow(p, [row[p] EXCEPT !.status = "idle"])
    /\ UNCHANGED <<status, assigned, durable, service, threads, bounds>>

GoesOffline(p) ==
    /\ Running /\ Served(p)
    /\ row[p].current = NoJob /\ row[p].status = "idle"
    /\ SetRow(p, [row[p] EXCEPT !.status = "offline"])
    /\ UNCHANGED <<status, assigned, durable, service, threads, bounds>>

(* A handoff fails and gives its slot back, or ends with a blocked plate. *)
HandoffEnds(j) ==
    LET p == assigned[j] IN
    /\ Running /\ status[j] \in InFlight
    /\ status' = [status EXCEPT ![j] = "failed"]
    /\ \/ SetRow(p, [status |-> "idle", current |-> NoJob, cleared |-> TRUE])
       \/ SetRow(p, [status |-> "error", current |-> j, cleared |-> FALSE])
    /\ UNCHANGED <<assigned, durable, service, threads, bounds>>

PlateCleared(p) ==
    /\ proc = "up" /\ ~row[p].cleared
    /\ row[p].current # NoJob => status[row[p].current] \in Terminal
    /\ SetRow(p, [row[p] EXCEPT !.current = NoJob, !.cleared = TRUE])
    /\ UNCHANGED <<status, assigned, durable, service, threads, bounds>>

----------------------------------------------------------------------------
(* Stop, crash, restart *)

(* stop(): the work that waits is cancelled, its reservations stay.        *)
Stop ==
    /\ proc = "up" /\ crashes < MaxCrashes
    /\ proc' = "stopping"
    /\ backlog' = <<>>
    /\ crashes' = crashes + 1
    /\ UNCHANGED <<storeVars, durable, deploy, poll, slicer, reserved, faults>>

ProcessGone ==
    /\ proc' = "down"
    /\ poll' = IdlePoll /\ backlog' = <<>> /\ slicer' = IdleSlicer /\ reserved' = {}
    /\ faults' = 0
    /\ UNCHANGED <<storeVars, durable, deploy>>

(* The interpreter waits for the slicer's thread, not for the daemon that  *)
(* polls.                                                                  *)
Exit ==
    /\ proc = "stopping" /\ slicer.pc = "idle"
    /\ ProcessGone /\ UNCHANGED crashes

Crash ==
    /\ Running /\ crashes < MaxCrashes
    /\ ProcessGone /\ crashes' = crashes + 1

(* Mutant: an interrupted analysis is left as it is. *)
RecoveredSlicing(st) ==
    CASE st = "slicing" -> "pending"
      [] st = "uploading" -> "attention"
      [] OTHER -> st

(* The restart, perhaps with another configuration, and                    *)
(* reconcile_interrupted_jobs.                                             *)
Recovered(st) ==
    CASE st \in {"analysing", "slicing"} -> "pending"
      [] st = "uploading" -> "attention"
      [] OTHER -> st

Restart ==
    /\ proc = "down"
    /\ proc' = "up" /\ deploy' \in Deployment
    /\ status' = [j \in Job |-> Recovered(status[j])]
    /\ row' = [p \in Printer |->
                  IF \E j \in Job : status[j] = "uploading" /\ assigned[j] = p
                  THEN [status |-> "error", cleared |-> FALSE,
                        current |-> CHOOSE j \in Job : status[j] = "uploading" /\ assigned[j] = p]
                  ELSE row[p]]
    /\ UNCHANGED <<assigned, durable, threads, bounds>>

----------------------------------------------------------------------------
PollStep ==
    \/ ReadPending \/ AllSubmitted
    \/ \E j \in Job : Submit(j) \/ SubmitRefused(j)
    \/ \E j \in Job : Dispatch(j) \/ Fallback(j) \/ FallbackRaises(j)
    \/ NothingToDispatch \/ NoFallback \/ TickRaises

SlicerStep ==
    \/ TakeItem \/ BeginAnalysis \/ Analysed \/ Sliced \/ PipelineRaises
    \/ FailJob \/ FailJobRaises
    \/ ReadForReslice \/ Resliced \/ ResliceRaises \/ AbortFallback \/ AbortRaises
    \/ ItemDone

Environment ==
    \/ \E p \in Printer : Report(p) \/ GoesOffline(p) \/ PlateCleared(p)
    \/ \E j \in Job : HandoffEnds(j)

Next ==
    \/ \E j \in Job : Upload(j) \/ Cancel(j)
    \/ PollStep \/ SlicerStep \/ Environment
    \/ Stop \/ Exit \/ Crash \/ Restart

Spec == Init /\ [][Next]_vars

(* The two threads run (a slicer process is killed after 600 s), and a     *)
(* service that stopped or died is started again.                          *)
LiveSpec ==
    Spec /\ WF_vars(PollStep) /\ WF_vars(SlicerStep) /\ WF_vars(Exit) /\ WF_vars(Restart)

----------------------------------------------------------------------------
(* A printer is never sent an archive that was sliced for the other one,   *)
(* or a model that it cannot hold, whatever was re-sliced, cancelled or    *)
(* interrupted before.                                                     *)
ArchiveMatches ==
    \A j \in Job : status[j] \in {"queued", "uploading"} =>
        slicedFor[j] = assigned[j] /\ Fits(model[j].bbox, assigned[j])

(* No job has two pieces of work: a stale list of pending jobs, a fallback *)
(* and a pipeline never work on one job at the same time.                  *)
Work == [i \in 1 .. Len(backlog) |-> backlog[i].job]
            \o IF slicer.pc = "idle" THEN <<>> ELSE <<slicer.job>>

OneWorkerPerJob == IsInjective(Work) /\ Range(Work) \subseteq reserved

(* A transaction that raises costs at most one job its turn: apart from    *)
(* the jobs lost that way, a reserved job has its worker, and so has a job *)
(* that shows as being analysed or sliced.  A restart repairs them all.    *)
Working(j) ==
    \/ slicer.job = j /\ \/ status[j] = "analysing" /\ slicer.pc \in {"analyse", "failing"}
                         \/ status[j] = "slicing" /\ slicer.pc \in SlicerPC \ {"begin", "analyse", "done"}
    \/ \E i \in 1 .. Len(backlog) :
          status[j] = "slicing" /\ backlog[i].job = j /\ backlog[i].target # NoPrinter

Lost == {j \in Job :
    \/ status[j] \in {"analysing", "slicing"} /\ ~Working(j)
    \/ j \in reserved \ Range(Work)}

FaultCostsOneJob == proc = "up" => Cardinality(Lost) <= faults

(* What makes these inductive: only jobs that were uploaded are worked on, *)
(* and a service that is down has no work.                                 *)
WorkTracked ==
    /\ \A j \in Job : ~Exists(j) => status[j] = "pending"
    /\ Range(Work) \cup poll.batch \subseteq Range(submitted)
    /\ slicer.pc = "idle" <=> slicer.job = NoJob
    /\ poll.pc \in {"dispatch", "fallback"} => poll.rest # <<>>
    /\ proc = "down" => /\ poll = IdlePoll /\ backlog = <<>> /\ slicer = IdleSlicer
                        /\ reserved = {} /\ faults = 0

(* A job is sliced for a printer that can take it, and a job that is       *)
(* re-sliced can go back to the printer that it has an archive for.        *)
Resliceable(j, target) ==
    /\ target \in Printer /\ Fits(model[j].bbox, target)
    /\ status[j] = "slicing" =>
          /\ assigned[j] \in Printer /\ slicedFor[j] = assigned[j]
          /\ Fits(model[j].bbox, assigned[j])

TargetsFit ==
    /\ slicer.pc = "slice" =>
          /\ slicer.target \in Printer /\ slicer.target = assigned[slicer.job]
          /\ Fits(model[slicer.job].bbox, slicer.target)
    /\ slicer.pc \in {"read", "reslice", "abort"} => Resliceable(slicer.job, slicer.target)
    /\ \A i \in 1 .. Len(backlog) : backlog[i].target # NoPrinter =>
          Resliceable(backlog[i].job, backlog[i].target)

(* A job waits for a printer, and one in flight owns that printer's slot.  *)
SlotsHeld ==
    \A j \in Job :
        /\ status[j] \in {"queued"} \cup InFlight => assigned[j] \in Printer
        /\ status[j] \in InFlight => row[assigned[j]].current = j

SchedulerInv ==
    TypeOK /\ OneWorkerPerJob /\ ArchiveMatches /\ WorkTracked /\ TargetsFit /\ SlotsHeld

(* The archive and the printer of a job only change while it is analysed   *)
(* or sliced: a late result does not swap what is being uploaded.          *)
DispatchedArchiveIsFixed ==
    [][\A j \in Job : assigned'[j] # assigned[j] \/ slicedFor'[j] # slicedFor[j] =>
          status[j] \in {"analysing", "slicing"}]_vars

(* After a failed fallback a job is never re-sliced again, restarts        *)
(* included: it waits for the printer it was sliced for.                   *)
FallbackFailsOnce ==
    [][\A j \in marked : status[j] = "queued" => status'[j] # "slicing"]_vars

(* A cancelled, failed or rejected job is not revived by a late worker.    *)
NeverRevived ==
    [][\A j \in Job : status[j] \in Terminal => status'[j] = status[j]]_vars

(* What a worker makes of an analysis follows the published rule for the   *)
(* printers enabled when it ends, after any number of restarts and retries.*)
RoutedByRule ==
    [][\A j \in Job :
          /\ status[j] = "analysing" /\ status'[j] = "slicing" =>
                Rule(model[j], deploy.enabled, assigned'[j])
          /\ status[j] = "analysing" /\ status'[j] = "rejected" =>
                Rule(model[j], deploy.enabled, Rejection)]_vars

(* A job is only given up as too large if no printer that was enabled      *)
(* could take it.                                                          *)
NothingPrintableRejected ==
    [][\A j \in Job : Nested /\ status[j] # "rejected" /\ status'[j] = "rejected" =>
          \A p \in deploy.enabled : ~Fits(model[j].bbox, p)]_vars

(* The slot of a printer changes hands as the contract with Handoff says.  *)
SlotStage == [j \in Job |-> Stage(status[j])]

SlotAt ==
    [j \in Job |-> IF SlotStage[j] \in {"queued", "held"} THEN assigned[j] ELSE NoPrinter]

SlotOwner == [p \in Printer |-> row[p].current]

Slots == INSTANCE SlotContract WITH stage <- SlotStage, at <- SlotAt, owner <- SlotOwner

SlotsKept == Slots!Spec

(* Every uploaded job is eventually queued, rejected, failed or cancelled. *)
EverySlicingEnds ==
    \A j \in Job :
        Exists(j) /\ status[j] \in {"pending", "analysing", "slicing"}
            ~> status[j] \notin {"pending", "analysing", "slicing"}

(* A queued job does not wait for ever for a printer that stays            *)
(* unavailable while the other one, which it fits, stays free.             *)
Stranded(j, p) ==
    /\ status[j] = "queued" /\ j \notin marked
    /\ assigned[j] # p /\ Unavailable(assigned[j])
    /\ Served(p) /\ Available(p) /\ Fits(model[j].bbox, p)

NobodyStranded == \A j \in Job, p \in Printer : []<>~Stranded(j, p)
=============================================================================
