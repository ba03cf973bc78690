------------------------------ MODULE Handoff ------------------------------
(***************************************************************************)
(* From a queued job to a printed, failed or quarantined one: the polling  *)
(* thread that claims a printer's slot, the executor tasks that upload,    *)
(* start and confirm (core/queue_processor.py), the MQTT client of each    *)
(* printer (core/printer.py), the callback that writes its reports to the  *)
(* store (core/printer_manager.py), the operator's endpoints               *)
(* (api/printers.py), cancellation (api/jobs.py), and a stop or a crash of *)
(* the process followed by reconciliation.  The printers and their         *)
(* operator are the environment.                                           *)
(*                                                                         *)
(* A transaction of the code is one step, but SQLite takes its lock at the *)
(* first write: what a handler read before may be old by then.  The last   *)
(* transaction of a confirmed start, which the callback that confirmed it  *)
(* meets, is always a read and a write; three other handlers that an old   *)
(* row can hurt take two steps as well with StaleWrites.                   *)
(***************************************************************************)
EXTENDS JobStore, Integers, FiniteSets

CONSTANTS
    MaxConcurrentJobs,  \* settings.MAX_CONCURRENT_JOBS: threads of the dispatch executor
    StaleWrites,        \* may any other commit fall between a read and its write?
    QueuedStarts,       \* may Paho keep a start command that it has refused?
    MaxCrashes,         \* bound on the crashes and stops of the process
    MaxDbFaults         \* bound on the transactions of tasks and callbacks that raise

ASSUME HandoffAssumption ==
    /\ MaxConcurrentJobs \in Nat \ {0}
    /\ {StaleWrites, QueuedStarts} \subseteq BOOLEAN
    /\ MaxCrashes \in Nat
    /\ MaxDbFaults \in Nat

VARIABLES
    proc,       \* the service: "down", "booting" (MQTT is up, queue not yet reconciled),
                \* "up", "stopping" (the executors are shut down)
    task,       \* _upload_start_and_confirm of each job: [pc, fresh, seen]
    client,     \* BambuPrinter: [up, status, gcode, ack]
    report,     \* the snapshot an MQTT thread carries to _on_status_update
    request,    \* an operator's request between its read and its write: [pc, seen]
    machine,    \* the physical printer: [phase, job, bedClear]
    wire,       \* start commands on their way to the printer
    starts,     \* history: how many start commands were published for a job
    began,      \* history: the jobs a printer physically began
    misjudged,  \* history: the jobs whose task took a start that may have come for none
    unheard,    \* history: the printers of which a RUNNING report was lost
    crashes, dbFaults

taskVars == <<task, starts, misjudged>>
machineVars == <<machine, wire, began>>
bounds == <<crashes, dbFaults, unheard>>
vars == <<storeVars, proc, taskVars, client, report, request, machineVars, bounds>>

----------------------------------------------------------------------------
(* Types *)

TaskPC == {"none", "submitted", "upload", "guard", "publish", "ack", "await",
           "confirmed", "commit", "mark", "unconfirmed", "failing", "releasing",
           "release"}

(* A task in one of these occupies a thread of the dispatch executor. *)
Running == TaskPC \ {"none", "submitted"}

(* firmware gcode_state; PREPARE and RUNNING are told apart nowhere *)
Gcode == {"OFFLINE", "IDLE", "RUNNING", "PAUSE", "FAILED", "FINISH"}

(* Mutant: the firmware's own word goes to the row. *)
RawStateMap == [st \in {"IDLE", "RUNNING", "PAUSE", "FAILED", "FINISH"} |-> st]

(* _handle_print's state_map; OFFLINE is the client's own initial value. *)
StateMap ==
    [IDLE |-> "idle", RUNNING |-> "printing", PAUSE |-> "paused",
     FAILED |-> "error", FINISH |-> "idle"]

Snapshot == [status : PrinterStatus, gcode : Gcode]
NoSnapshot == [status |-> "none", gcode |-> "none"]

IdleTask == [pc |-> "none", fresh |-> FALSE, seen |-> SeedRow]
NoRequest == [pc |-> "none", seen |-> SeedRow]
NewClient == [up |-> FALSE, status |-> "offline", gcode |-> "OFFLINE", ack |-> FALSE]

Phase == {"IDLE", "RUNNING", "PAUSE", "FAILED", "FINISH"}
Busy == {"RUNNING", "PAUSE"}

TaskType == [pc : TaskPC, fresh : BOOLEAN, seen : PrinterState]
ClientType == [up : BOOLEAN, status : PrinterStatus, gcode : Gcode, ack : BOOLEAN]
RequestType == [pc : {"none", "resolve", "clear", "idle"}, seen : PrinterState]
MachineType == [phase : Phase, job : Job \cup {NoJob}, bedClear : BOOLEAN]

TypeOK ==
    /\ StoreTypeOK
    /\ assigned \in [Job -> Printer]
    /\ proc \in {"down", "booting", "up", "stopping"}
    /\ task \in [Job -> TaskType]
    /\ client \in [Printer -> ClientType]
    /\ report \in [Printer -> Snapshot \cup {NoSnapshot}]
    /\ request \in [Printer -> RequestType]
    /\ machine \in [Printer -> MachineType]
    /\ \A p \in Printer : machine[p].phase \in Busy => machine[p].job \in Job
    /\ wire \in [Printer -> SUBSET Job]
    /\ starts \in [Job -> Nat]
    /\ began \in SUBSET Job
    /\ misjudged \in SUBSET Job
    /\ unheard \in SUBSET Printer
    /\ crashes \in 0 .. MaxCrashes
    /\ dbFaults \in 0 .. MaxDbFaults

(* Every job has been analysed and sliced for a printer.  A printer may    *)
(* still show the end of an earlier print, cleaned up since.               *)
Init ==
    /\ status = [j \in Job |-> "queued"]
    /\ assigned \in [Job -> Printer]
    /\ row = [p \in Printer |-> SeedRow]
    /\ proc = "booting"
    /\ task = [j \in Job |-> IdleTask]
    /\ client = [p \in Printer |-> NewClient]
    /\ report = [p \in Printer |-> NoSnapshot]
    /\ request = [p \in Printer |-> NoRequest]
    /\ machine \in [Printer ->
            [phase : Phase \ Busy, job : {NoJob}, bedClear : {TRUE}]]
    /\ wire = [p \in Printer |-> {}]
    /\ starts = [j \in Job |-> 0]
    /\ began = {}
    /\ misjudged = {}
    /\ unheard = {}
    /\ crashes = 0
    /\ dbFaults = 0

----------------------------------------------------------------------------
(* The polling thread and the API's cancellation *)

(* _try_dispatch: claim the slot and hand the job to the executor.  The    *)
(* jobs' estimates are abstracted, so any job queued for p may be first.   *)
(* A tick that outlasts stop()'s 5 s claims the slot all the same, and     *)
(* then the executor refuses the task.  The row is read before the swap    *)
(* takes the lock; nobody but this thread claims a slot in between, and it *)
(* writes the one column that it claims with.                              *)
Dispatch(j) ==
    LET p == assigned[j] IN
    /\ p \in Printer
    /\ Available(p)
    /\ Transition(j, "queued", "uploading")
    /\ SetRow(p, [row[p] EXCEPT !.current = j])
    /\ \/ proc = "up" /\ task' = [task EXCEPT ![j].pc = "submitted"]
       \/ proc = "stopping" /\ UNCHANGED task
    /\ UNCHANGED <<assigned, proc, starts, misjudged, client, report, request, machineVars, bounds>>

(* cancel_job, and cancel_pending_job.py, which runs beside the service. *)
Cancel(j) ==
    /\ TransitionFrom(j, Cancellable, "cancelled")
    /\ UNCHANGED <<assigned, row, proc, taskVars, client, report, request, machineVars, bounds>>

----------------------------------------------------------------------------
(* The executor task: _upload_start_and_confirm *)

Goto(j, pc) == task' = [task EXCEPT ![j].pc = pc]
Ended(j) == task' = [task EXCEPT ![j] = IdleTask]

(* A thread of the executor takes the task. *)
TakeTask(j) ==
    /\ task[j].pc = "submitted"
    /\ Cardinality({k \in Job : task[k].pc \in Running}) < MaxConcurrentJobs
    /\ Goto(j, "upload")
    /\ UNCHANGED <<storeVars, proc, starts, misjudged, client, report, request, machineVars, bounds>>

(* upload_file succeeded: the start will be requested. *)
UploadOk(j) ==
    /\ task[j].pc = "upload"
    /\ Transition(j, "uploading", "starting")
    /\ Goto(j, "guard")
    /\ UNCHANGED <<assigned, row, proc, starts, misjudged, client, report, request, machineVars, bounds>>

(* The file is missing, three transfers failed, or the transaction raised. *)
UploadFails(j) ==
    /\ task[j].pc = "upload"
    /\ Goto(j, "failing")
    /\ UNCHANGED <<storeVars, proc, starts, misjudged, client, report, request, machineVars, bounds>>

(* start_print_and_confirm raises unless the client is connected and idle. *)
Ready(p) == client[p].up /\ client[p].status = "idle"

StartRefused(j) ==
    /\ task[j].pc = "guard"
    /\ ~Ready(assigned[j])
    /\ Goto(j, "failing")
    /\ UNCHANGED <<storeVars, proc, starts, misjudged, client, report, request, machineVars, bounds>>

(* The report version is noted (fresh: a newer one has come since) and an  *)
(* operator's acknowledgement of an old FAILED no longer counts.           *)
StartAdmitted(j) ==
    /\ task[j].pc = "guard"
    /\ Ready(assigned[j])
    /\ task' = [task EXCEPT ![j].pc = "publish", ![j].fresh = FALSE]
    /\ client' = [client EXCEPT ![assigned[j]].ack = FALSE]
    /\ UNCHANGED <<storeVars, proc, starts, misjudged, report, request, machineVars, bounds>>

(* _publish hands the start command to the broker. *)
Publish(j) ==
    LET p == assigned[j] IN
    /\ task[j].pc = "publish"
    /\ client[p].up
    /\ Goto(j, "ack")
    /\ wire' = [wire EXCEPT ![p] = @ \cup {j}]
    /\ starts' = [starts EXCEPT ![j] = @ + 1]
    /\ UNCHANGED <<storeVars, proc, misjudged, client, report, request, machine, began, bounds>>

(* _publish's test finds no connection, or Paho drops the message. *)
PublishRejected(j) ==
    /\ task[j].pc = "publish"
    /\ Goto(j, "failing")
    /\ UNCHANGED <<storeVars, proc, starts, misjudged, client, report, request, machineVars, bounds>>

(* Paho finds the socket gone and says so, but keeps a QoS 1 message for    *)
(* the next session: the task takes a start that may come for none.        *)
PublishQueued(j) ==
    LET p == assigned[j] IN
    /\ QueuedStarts
    /\ task[j].pc = "publish"
    /\ client[p].up
    /\ Goto(j, "failing")
    /\ wire' = [wire EXCEPT ![p] = @ \cup {j}]
    /\ starts' = [starts EXCEPT ![j] = @ + 1]
    /\ misjudged' = misjudged \cup {j}
    /\ UNCHANGED <<storeVars, proc, client, report, request, machine, began, bounds>>

(* Mutant: the broker's acknowledgement is taken for a start. *)
AckedIsStarted(j) ==
    /\ task[j].pc = "ack"
    /\ Goto(j, "confirmed")
    /\ UNCHANGED <<storeVars, proc, starts, misjudged, client, report, request, machineVars, bounds>>

(* wait_for_publish saw the PUBACK, or did not within its timeout. *)
Acked(j) ==
    /\ task[j].pc = "ack"
    /\ Goto(j, "await")
    /\ UNCHANGED <<storeVars, proc, starts, misjudged, client, report, request, machineVars, bounds>>

(* Mutant: a start without a PUBACK is handled like one that was refused. *)
NotAckedFails(j) ==
    /\ task[j].pc = "ack"
    /\ Goto(j, "failing")
    /\ UNCHANGED <<storeVars, proc, starts, misjudged, client, report, request, machineVars, bounds>>

NotAcked(j) ==
    /\ task[j].pc = "ack"
    /\ Goto(j, "unconfirmed")
    /\ UNCHANGED <<storeVars, proc, starts, misjudged, client, report, request, machineVars, bounds>>

(* What the waiting loop tests, in this order. *)
SeesRunning(j) ==
    /\ task[j].fresh
    /\ \/ client[assigned[j]].gcode = "RUNNING"
       \/ client[assigned[j]].status = "printing"

SeesFailed(j) ==
    \/ client[assigned[j]].gcode = "FAILED"
    \/ client[assigned[j]].status = "error"

Confirmed(j) ==
    /\ task[j].pc = "await"
    /\ SeesRunning(j)
    /\ Goto(j, "confirmed")
    /\ UNCHANGED <<storeVars, proc, starts, misjudged, client, report, request, machineVars, bounds>>

(* PrintStartRejected and PrintStartUnconfirmed are handled alike. *)
Rejected(j) ==
    /\ task[j].pc = "await"
    /\ ~SeesRunning(j) /\ SeesFailed(j)
    /\ Goto(j, "unconfirmed")
    /\ UNCHANGED <<storeVars, proc, starts, misjudged, client, report, request, machineVars, bounds>>

(* Mutant: a start that was not confirmed in time is a failed one. *)
TimedOutFails(j) ==
    /\ task[j].pc = "await"
    /\ ~SeesRunning(j) /\ ~SeesFailed(j)
    /\ Goto(j, "failing")
    /\ UNCHANGED <<storeVars, proc, starts, misjudged, client, report, request, machineVars, bounds>>

TimedOut(j) ==
    /\ task[j].pc = "await"
    /\ ~SeesRunning(j) /\ ~SeesFailed(j)
    /\ Goto(j, "unconfirmed")
    /\ UNCHANGED <<storeVars, proc, starts, misjudged, client, report, request, machineVars, bounds>>

(* The last transaction of a confirmed start reads the job's status, not   *)
(* yet holding the lock.  A report may have ended the job: then the task   *)
(* leaves it and its row alone.                                            *)
ReadConfirmed(j) ==
    /\ task[j].pc = "confirmed"
    /\ \/ status[j] = "starting" /\ Goto(j, "commit")
       \/ status[j] \notin {"starting", "printing"} /\ Ended(j)
    /\ UNCHANGED <<storeVars, proc, starts, misjudged, client, report, request, machineVars, bounds>>

(* The callback was first: only the plate is marked.  ReadMark and         *)
(* WriteMark are the same with a commit of somebody else in between.       *)
MarkPlate(j) ==
    /\ task[j].pc = "confirmed" /\ status[j] = "printing"
    /\ SetRow(assigned[j], [row[assigned[j]] EXCEPT !.cleared = FALSE])
    /\ Ended(j)
    /\ UNCHANGED <<status, assigned, proc, starts, misjudged, client, report, request, machineVars, bounds>>

ReadMark(j) ==
    /\ StaleWrites
    /\ task[j].pc = "confirmed" /\ status[j] = "printing"
    /\ task' = [task EXCEPT ![j].pc = "mark", ![j].seen = row[assigned[j]]]
    /\ UNCHANGED <<storeVars, proc, starts, misjudged, client, report, request, machineVars, bounds>>

WriteMark(j) ==
    LET p == assigned[j]  seen == task[j].seen IN
    /\ task[j].pc = "mark"
    /\ SetRow(p, Flushed(row[p], seen, [seen EXCEPT !.cleared = FALSE]))
    /\ Ended(j)
    /\ UNCHANGED <<status, assigned, proc, starts, misjudged, client, report, request, machineVars, bounds>>

(* Mutant: the confirmed start overrides what a report made of the job. *)
CommitPrintingAnyway(j) ==
    /\ task[j].pc = "commit"
    /\ status' = [status EXCEPT ![j] = "printing"]
    /\ SetRow(assigned[j], [row[assigned[j]] EXCEPT !.cleared = FALSE])
    /\ Ended(j)
    /\ UNCHANGED <<assigned, proc, starts, misjudged, client, report, request, machineVars, bounds>>

CommitPrinting(j) ==
    /\ task[j].pc = "commit"
    /\ Transition(j, "starting", "printing")
    /\ SetRow(assigned[j], [row[assigned[j]] EXCEPT !.cleared = FALSE])
    /\ Ended(j)
    /\ UNCHANGED <<assigned, proc, starts, misjudged, client, report, request, machineVars, bounds>>

(* The callback has committed since the read: the swap finds no row, the   *)
(* transaction raises, and the generic handler takes the start for failed. *)
CommitLost(j) ==
    /\ task[j].pc = "commit" /\ status[j] # "starting"
    /\ Goto(j, "failing")
    /\ misjudged' = misjudged \cup {j}
    /\ UNCHANGED <<storeVars, proc, starts, client, report, request, machineVars, bounds>>

(* The transaction of an unconfirmed or rejected start.  A swap that is    *)
(* lost raises inside the handler, which ends the task as well.            *)
Quarantine(j) ==
    LET p == assigned[j] IN
    /\ task[j].pc = "unconfirmed"
    /\ \/ /\ Transition(j, "starting", "attention")
          /\ SetRow(p, [status |-> "error", current |-> j, cleared |-> FALSE])
       \/ /\ status[j] # "starting"
          /\ UNCHANGED <<status, row>>
    /\ Ended(j)
    /\ UNCHANGED <<assigned, proc, starts, misjudged, client, report, request, machineVars, bounds>>

(* _fail_job, from any status that is not terminal.  When a report changes *)
(* that status after it was read, the swap is lost and the job left alone. *)
FailJob(j) ==
    /\ task[j].pc = "failing"
    /\ \/ TransitionFrom(j, JobStatus \ Terminal, "failed")
       \/ status[j] \in Terminal \cup {"printing", "attention"} /\ UNCHANGED status
    /\ Goto(j, "releasing")
    /\ UNCHANGED <<assigned, row, proc, starts, misjudged, client, report, request, machineVars, bounds>>

(* The second transaction of the failure handler gives the slot back.  It  *)
(* is one step here; ReadSlot and WriteSlot are the same with a commit of  *)
(* somebody else in between.                                               *)
Releasable(j) == row[assigned[j]].current = j /\ status[j] = "failed"

FreedRow == [status |-> "idle", current |-> NoJob, cleared |-> TRUE]

ReleaseSlot(j) ==
    /\ task[j].pc = "releasing"
    /\ \/ Releasable(j) /\ SetRow(assigned[j], FreedRow)
       \/ ~Releasable(j) /\ UNCHANGED row
    /\ Ended(j)
    /\ UNCHANGED <<status, assigned, proc, starts, misjudged, client, report, request, machineVars, bounds>>

ReadSlot(j) ==
    /\ StaleWrites
    /\ task[j].pc = "releasing"
    /\ Releasable(j)
    /\ task' = [task EXCEPT ![j].pc = "release", ![j].seen = row[assigned[j]]]
    /\ UNCHANGED <<storeVars, proc, starts, misjudged, client, report, request, machineVars, bounds>>

WriteSlot(j) ==
    LET p == assigned[j] IN
    /\ task[j].pc = "release"
    /\ SetRow(p, Flushed(row[p], task[j].seen, FreedRow))
    /\ Ended(j)
    /\ UNCHANGED <<status, assigned, proc, starts, misjudged, client, report, request, machineVars, bounds>>

(* Mutant: the task is tried again when its last transaction raises. *)
DbFaultRetried(j) ==
    /\ dbFaults < MaxDbFaults
    /\ task[j].pc \in {"confirmed", "commit", "mark"} /\ Goto(j, "submitted")
    /\ dbFaults' = dbFaults + 1
    /\ UNCHANGED <<storeVars, proc, starts, misjudged, client, report, request, machineVars, crashes, unheard>>

(* A transaction of the task raises (a lock timeout, a full disk): the     *)
(* generic handler catches it, or it ends the task from inside a handler.  *)
DbFault(j) ==
    /\ dbFaults < MaxDbFaults
    /\ \/ /\ task[j].pc \in {"confirmed", "commit", "mark"} /\ Goto(j, "failing")
          /\ misjudged' = misjudged \cup {j}
       \/ /\ task[j].pc \in {"unconfirmed", "failing", "releasing", "release"}
          /\ Ended(j)
          /\ UNCHANGED misjudged
    /\ dbFaults' = dbFaults + 1
    /\ UNCHANGED <<storeVars, proc, starts, client, report, request, machineVars, crashes, unheard>>

----------------------------------------------------------------------------
(* The MQTT client and the callback that writes its reports *)

Live == proc # "down"

(* _on_connect says only that reports may come: the status stays what it   *)
(* is.  A connection's thread runs one callback at a time, and the thread  *)
(* of a replaced client has ended before the next one starts.              *)
Connect(p) ==
    /\ Live /\ ~client[p].up /\ report[p] = NoSnapshot
    /\ client' = [client EXCEPT ![p].up = TRUE]
    /\ UNCHANGED <<storeVars, proc, taskVars, report, request, machineVars, bounds>>

(* _on_disconnect; the client keeps its gcode_state.  A client's network   *)
(* thread runs one callback at a time.                                     *)
Disconnect(p) ==
    /\ Live /\ client[p].up /\ report[p] = NoSnapshot
    /\ client' = [client EXCEPT ![p].up = FALSE, ![p].status = "offline"]
    /\ report' = [report EXCEPT ![p] = [status |-> "offline", gcode |-> client[p].gcode]]
    /\ UNCHANGED <<storeVars, proc, taskVars, request, machineVars, bounds>>

(* The client goes without a report: _connect_mqtt replaces it, the broker *)
(* refuses it, or disconnect() takes it down.  What a message says that is *)
(* handled meanwhile, FullReport says before.                              *)
DropClient(p) ==
    /\ Live /\ client[p].up
    /\ \E st \in {client[p].status, "offline"} :
          client' = [client EXCEPT ![p].up = FALSE, ![p].status = st]
    /\ UNCHANGED <<storeVars, proc, taskVars, report, request, machineVars, bounds>>

(* The callback's transaction raises, as it also does when the swap of an  *)
(* end is lost: the report is lost, and the network thread ends.           *)
LoseReport(p) ==
    /\ report[p] # NoSnapshot
    /\ dbFaults < MaxDbFaults /\ dbFaults' = dbFaults + 1
    /\ report' = [report EXCEPT ![p] = NoSnapshot]
    /\ unheard' = IF report[p].status = "printing" THEN unheard \cup {p} ELSE unheard
    /\ UNCHANGED <<storeVars, proc, taskVars, client, request, machineVars, crashes>>

(* _handle_print of a report that has a gcode_state, or has none. *)
HandlePrint(c, reported, full) ==
    LET suppressed == reported = "FAILED" /\ c.ack
        gcode == IF suppressed THEN "IDLE" ELSE reported
    IN [c EXCEPT !.gcode = gcode,
                 !.status = IF gcode \in DOMAIN StateMap THEN StateMap[gcode] ELSE @,
                 !.ack = IF full /\ reported # "FAILED" THEN FALSE ELSE @]

Awaiting(p) == {j \in Job : assigned[j] = p /\ task[j].pc \in {"publish", "ack", "await"}}

Receive(p, reported, full) ==
    LET c == HandlePrint(client[p], reported, full) IN
    /\ Live /\ client[p].up /\ report[p] = NoSnapshot
    /\ client' = [client EXCEPT ![p] = c]
    /\ report' = [report EXCEPT ![p] = [status |-> c.status, gcode |-> c.gcode]]
    /\ task' = [j \in Job |->
                  IF j \in Awaiting(p) THEN [task[j] EXCEPT !.fresh = TRUE] ELSE task[j]]
    /\ UNCHANGED <<storeVars, proc, starts, misjudged, request, machineVars, bounds>>

FullReport(p) == Receive(p, machine[p].phase, TRUE)
PartialReport(p) == Receive(p, client[p].gcode, FALSE)

(* Mutant: IDLE without FINISH says nothing of a printing job. *)
VerdictWithoutIdle(st, s) ==
    CASE s.status = "printing" /\ st \in {"starting", "attention"} -> "printing"
      [] s.gcode = "FINISH" /\ st \in Physical -> "completed"
      [] s.gcode = "FAILED" /\ st \in Physical -> "failed"
      [] OTHER -> st

(* What _on_status_update makes of the slot's job: "printing" only comes   *)
(* with RUNNING, so at most one of its tests applies.                      *)
Verdict(st, s) ==
    CASE s.status = "printing" /\ st \in {"starting", "attention"} -> "printing"
      [] s.gcode = "IDLE" /\ st = "printing" -> "attention"
      [] s.gcode = "FINISH" /\ st \in Physical -> "completed"
      [] s.gcode = "FAILED" /\ st \in Physical -> "failed"
      [] OTHER -> st

(* The row's status once the plate is blocked by a verdict. *)
Blocked == [attention |-> "error", completed |-> "idle", failed |-> "error"]

(* A snapshot that changes no job: only the row's status follows it. *)
WriteStatus(p, s) ==
    LET j == row[p].current IN
    /\ j # NoJob => Verdict(status[j], s) = status[j]
    /\ SetRow(p, [row[p] EXCEPT !.status = s.status])
    /\ UNCHANGED status

(* A snapshot that confirms or recovers the start of the slot's job. *)
WriteRunning(p, s) ==
    LET j == row[p].current IN
    /\ j # NoJob
    /\ Verdict(status[j], s) = "printing"
    /\ Transition(j, status[j], "printing")
    /\ SetRow(p, [row[p] EXCEPT !.status = s.status])

(* Mutant: the end of a print frees the printer. *)
WriteEndFrees(p, s) ==
    LET j == row[p].current IN
    /\ j # NoJob
    /\ Verdict(status[j], s) \in DOMAIN Blocked
    /\ Transition(j, status[j], Verdict(status[j], s))
    /\ SetRow(p, [status |-> "idle", current |-> NoJob, cleared |-> TRUE])

(* FINISH, FAILED, or IDLE without FINISH: the plate is blocked. *)
WriteEnd(p, s) ==
    LET j == row[p].current IN
    /\ j # NoJob
    /\ Verdict(status[j], s) \in DOMAIN Blocked
    /\ Transition(j, status[j], Verdict(status[j], s))
    /\ SetRow(p, [status |-> Blocked[Verdict(status[j], s)], current |-> j, cleared |-> FALSE])

ApplyReport(p) ==
    LET s == report[p] IN
    /\ s # NoSnapshot
    /\ WriteStatus(p, s) \/ WriteRunning(p, s) \/ WriteEnd(p, s)
    /\ report' = [report EXCEPT ![p] = NoSnapshot]
    /\ UNCHANGED <<assigned, proc, taskVars, client, request, machineVars, bounds>>

----------------------------------------------------------------------------
(* The operator *)

(* An inspection finds the printer at rest, and takes far longer than a    *)
(* callback, the publishing of a command or its way to the printer.        *)
Inspected(p) ==
    /\ machine[p].phase \notin Busy
    /\ \A j \in Job : task[j].pc \in {"guard", "publish"} => assigned[j] # p
    /\ wire[p] = {}
    /\ report[p] = NoSnapshot

(* mark_plate_cleared's refusals. *)
Clearable(p) ==
    /\ ~row[p].cleared
    /\ row[p].status \notin {"printing", "paused"}
    /\ row[p].current # NoJob => status[row[p].current] \notin {"printing", "starting"}

InAttention(p) == row[p].current # NoJob /\ status[row[p].current] = "attention"

ClearPlate(p) ==
    LET j == row[p].current IN
    /\ proc = "up" /\ Inspected(p) /\ Clearable(p)
    /\ \/ InAttention(p) /\ Transition(j, "attention", "failed")
       \/ ~InAttention(p) /\ UNCHANGED status
    /\ SetRow(p, [row[p] EXCEPT !.cleared = TRUE, !.current = NoJob])
    /\ machine' = [machine EXCEPT ![p].bedClear = TRUE]
    /\ UNCHANGED <<assigned, proc, taskVars, client, report, request, wire, began, bounds>>

(* The same request, with commits of others between its read and its write. *)
ReadPlate(p) ==
    /\ StaleWrites
    /\ proc = "up" /\ Inspected(p) /\ Clearable(p)
    /\ request[p].pc = "none"
    /\ request' = [request EXCEPT ![p] =
            [pc |-> IF InAttention(p) THEN "resolve" ELSE "clear", seen |-> row[p]]]
    /\ machine' = [machine EXCEPT ![p].bedClear = TRUE]
    /\ UNCHANGED <<storeVars, proc, taskVars, client, report, wire, began, bounds>>

WritePlate(p) ==
    LET seen == request[p].seen  j == seen.current IN
    /\ \/ request[p].pc = "resolve" /\ Transition(j, "attention", "failed")
       \/ request[p].pc = "clear" /\ UNCHANGED status
    /\ SetRow(p, Flushed(row[p], seen, [seen EXCEPT !.cleared = TRUE, !.current = NoJob]))
    /\ request' = [request EXCEPT ![p] = NoRequest]
    /\ UNCHANGED <<assigned, proc, taskVars, client, report, machineVars, bounds>>

(* The compare-and-swap of a stale request fails: the API answers an error. *)
AbortPlate(p) ==
    /\ request[p].pc = "resolve"
    /\ status[request[p].seen.current] # "attention"
    /\ request' = [request EXCEPT ![p] = NoRequest]
    /\ UNCHANGED <<storeVars, proc, taskVars, client, report, machineVars, bounds>>

(* acknowledge_physically_idle of the API and of the client, which is told *)
(* to take the printer's FAILED for IDLE ...                               *)
TakeForIdle(p) ==
    /\ proc = "up"
    /\ machine[p].phase \notin Busy
    /\ row[p].current = NoJob /\ row[p].cleared
    /\ client[p].up /\ client[p].status = "error" /\ client[p].gcode = "FAILED"
    /\ client' = [client EXCEPT ![p].ack = TRUE, ![p].status = "idle", ![p].gcode = "IDLE"]
    /\ UNCHANGED <<assigned, proc, taskVars, report, machineVars, bounds>>

(* ... and the callback that the request runs itself.  AdmitIdle and       *)
(* WriteIdle have commits of others in between.                            *)
AcknowledgeIdle(p) ==
    /\ TakeForIdle(p)
    /\ SetRow(p, [row[p] EXCEPT !.status = "idle"])
    /\ UNCHANGED <<status, request>>

AdmitIdle(p) ==
    /\ StaleWrites
    /\ request[p].pc = "none"
    /\ TakeForIdle(p)
    /\ request' = [request EXCEPT ![p].pc = "idle"]
    /\ UNCHANGED <<status, row>>

IdleSnapshot == [status |-> "idle", gcode |-> "IDLE"]

WriteIdle(p) ==
    /\ request[p].pc = "idle"
    /\ WriteStatus(p, IdleSnapshot) \/ WriteEnd(p, IdleSnapshot)
    /\ request' = [request EXCEPT ![p] = NoRequest]
    /\ UNCHANGED <<assigned, proc, taskVars, client, report, machineVars, bounds>>

----------------------------------------------------------------------------
(* The printer: firmware keeps FINISH or FAILED until the next start or a  *)
(* dismissal on its screen.                                                *)

SetPhase(p, phase) ==
    machine' = [machine EXCEPT ![p] =
                  [phase |-> phase, job |-> IF phase \in Busy THEN @.job ELSE NoJob,
                   bedClear |-> @.bedClear]]

(* The start command arrives and the printer begins to print. *)
BeginPrint(p, j) ==
    /\ j \in wire[p] /\ machine[p].phase \notin Busy
    /\ machine' = [machine EXCEPT ![p] = [phase |-> "RUNNING", job |-> j, bedClear |-> FALSE]]
    /\ wire' = [wire EXCEPT ![p] = @ \ {j}]
    /\ began' = began \cup {j}
    /\ UNCHANGED <<storeVars, proc, taskVars, client, report, request, bounds>>

(* The command is refused with FAILED, lost, or ignored by a busy printer. *)
RefusePrint(p, j) ==
    /\ j \in wire[p] /\ machine[p].phase \notin Busy
    /\ SetPhase(p, "FAILED")
    /\ wire' = [wire EXCEPT ![p] = @ \ {j}]
    /\ UNCHANGED <<storeVars, proc, taskVars, client, report, request, began, bounds>>

LoseStart(p, j) ==
    /\ j \in wire[p]
    /\ wire' = [wire EXCEPT ![p] = @ \ {j}]
    /\ UNCHANGED <<storeVars, proc, taskVars, client, report, request, machine, began, bounds>>

EndPrint(p) ==
    /\ machine[p].phase = "RUNNING"
    /\ SetPhase(p, "FINISH") \/ SetPhase(p, "FAILED")
    /\ UNCHANGED <<storeVars, proc, taskVars, client, report, request, wire, began, bounds>>

(* Paused or resumed, stopped on the screen, or an old end dismissed. *)
TouchScreen(p) ==
    /\ \/ machine[p].phase = "RUNNING" /\ SetPhase(p, "PAUSE")
       \/ machine[p].phase = "PAUSE" /\ SetPhase(p, "RUNNING")
       \/ machine[p].phase # "IDLE" /\ SetPhase(p, "IDLE")
    /\ UNCHANGED <<storeVars, proc, taskVars, client, report, request, wire, began, bounds>>

----------------------------------------------------------------------------
(* A stop, a crash, the restart and reconcile_interrupted_jobs *)

(* QueueProcessor.stop: the tasks that wait for a thread are cancelled,    *)
(* the running ones are left to end.                                       *)
Stop ==
    /\ proc = "up" /\ crashes < MaxCrashes
    /\ proc' = "stopping"
    /\ task' = [j \in Job |-> IF task[j].pc = "submitted" THEN IdleTask ELSE task[j]]
    /\ crashes' = crashes + 1
    /\ UNCHANGED <<storeVars, starts, misjudged, client, report, request, machineVars, dbFaults, unheard>>

(* Everything but the store is lost; the printers go on. *)
ProcessGone ==
    /\ proc' = "down"
    /\ task' = [j \in Job |-> IdleTask]
    /\ client' = [p \in Printer |-> NewClient]
    /\ report' = [p \in Printer |-> NoSnapshot]
    /\ request' = [p \in Printer |-> NoRequest]
    /\ UNCHANGED <<storeVars, starts, misjudged, machineVars, dbFaults, unheard>>

(* The interpreter waits for the threads of the executors. *)
Exit ==
    /\ proc = "stopping"
    /\ \A j \in Job : task[j].pc \notin Running
    /\ ProcessGone /\ UNCHANGED crashes

Crash ==
    /\ Live /\ crashes < MaxCrashes
    /\ ProcessGone /\ crashes' = crashes + 1

(* lifespan: the MQTT clients start before the queue is reconciled. *)
Boot ==
    /\ proc = "down"
    /\ proc' = "booting"
    /\ UNCHANGED <<storeVars, taskVars, client, report, request, machineVars, bounds>>

(* Mutants: an interrupted upload is left alone; a handoff is tried again. *)
RecoveredStarts(st) ==
    CASE st \in {"analysing", "slicing"} -> "pending"
      [] st = "starting" -> "attention"
      [] OTHER -> st

RecoveredRetries(st) ==
    CASE st \in {"analysing", "slicing"} -> "pending"
      [] st \in {"uploading", "starting"} -> "queued"
      [] OTHER -> st

Recovered(st) ==
    CASE st \in {"analysing", "slicing"} -> "pending"
      [] st \in {"uploading", "starting"} -> "attention"
      [] OTHER -> st

JobsOf(p, statuses) == {j \in Job : assigned[j] = p /\ status[j] \in statuses}

(* Mutant: the slot of an interrupted handoff is given back. *)
RestoredFree(p) ==
    IF JobsOf(p, {"uploading", "starting"}) # {} THEN {FreedRow} ELSE {row[p]}

(* The row is written for each interrupted handoff and then for each print: *)
(* the last one written owns the slot.                                     *)
RestoredRow(p) ==
    IF JobsOf(p, {"printing"}) # {} THEN
        [status : {"printing"}, current : JobsOf(p, {"printing"}), cleared : {FALSE}]
    ELSE IF JobsOf(p, {"uploading", "starting"}) # {} THEN
        [status : {"error"}, current : JobsOf(p, {"uploading", "starting"}), cleared : {FALSE}]
    ELSE {row[p]}

Reconcile ==
    /\ proc = "booting"
    /\ proc' = "up"
    /\ status' = [j \in Job |-> Recovered(status[j])]
    /\ row' \in [Printer -> UNION {RestoredRow(p) : p \in Printer}]
    /\ \A p \in Printer : row'[p] \in RestoredRow(p)
    /\ UNCHANGED <<assigned, taskVars, client, report, request, machineVars, bounds>>

----------------------------------------------------------------------------
TaskStep(j) ==
    \/ TakeTask(j) \/ UploadOk(j) \/ UploadFails(j)
    \/ StartRefused(j) \/ StartAdmitted(j)
    \/ Publish(j) \/ PublishRejected(j) \/ PublishQueued(j) \/ Acked(j) \/ NotAcked(j)
    \/ Confirmed(j) \/ Rejected(j) \/ TimedOut(j)
    \/ ReadConfirmed(j) \/ CommitPrinting(j) \/ CommitLost(j)
    \/ MarkPlate(j) \/ ReadMark(j) \/ WriteMark(j) \/ Quarantine(j)
    \/ FailJob(j) \/ ReleaseSlot(j) \/ ReadSlot(j) \/ WriteSlot(j)
    \/ DbFault(j)

OperatorStep(p) ==
    \/ ClearPlate(p) \/ ReadPlate(p) \/ WritePlate(p) \/ AbortPlate(p)
    \/ AcknowledgeIdle(p) \/ AdmitIdle(p) \/ WriteIdle(p)

ClientStep(p) ==
    \/ Connect(p) \/ Disconnect(p) \/ DropClient(p)
    \/ FullReport(p) \/ PartialReport(p) \/ LoseReport(p)

MachineStep(p) ==
    \/ \E j \in Job : BeginPrint(p, j) \/ RefusePrint(p, j) \/ LoseStart(p, j)
    \/ EndPrint(p) \/ TouchScreen(p)

Next ==
    \/ \E j \in Job : Dispatch(j) \/ Cancel(j) \/ TaskStep(j)
    \/ \E p \in Printer :
            ClientStep(p) \/ ApplyReport(p) \/ OperatorStep(p) \/ MachineStep(p)
    \/ Stop \/ Exit \/ Crash \/ Boot \/ Reconcile

Spec == Init /\ [][Next]_vars

(* Threads run, a service that has stopped or died is started again, the   *)
(* broker is reconnected and asked for a full report unless the service is *)
(* stopping, and callbacks are run.  Nothing is assumed of the operator,   *)
(* of a print's end or of a command's arrival.                             *)
Fairness ==
    /\ \A j \in Job : WF_vars(TaskStep(j))
    /\ WF_vars(Exit) /\ WF_vars(Boot) /\ WF_vars(Reconcile)
    /\ \A p \in Printer :
          /\ WF_vars(proc # "stopping" /\ Connect(p))
          /\ SF_vars(proc # "stopping" /\ FullReport(p))
          /\ WF_vars(ApplyReport(p))

LiveSpec == Spec /\ Fairness

----------------------------------------------------------------------------
(* Safety *)

(* A job that a printer may be busy with owns that printer's slot: the     *)
(* claim of _try_dispatch holds until the job is resolved, so a printer    *)
(* never has two of them.                                                  *)
SlotOwned == \A j \in Job : status[j] \in InFlight => row[assigned[j]].current = j

(* What makes SlotOwned inductive: a job that is uploading owns a slot     *)
(* whose plate is clear, so the operator's request finds nothing to do,    *)
(* and no handler is between a read and its write.                         *)
UploadingIsClear ==
    \A j \in Job : status[j] = "uploading" => row[assigned[j]].cleared

NothingStale ==
    /\ \A j \in Job : task[j].pc \notin {"mark", "release"}
    /\ \A p \in Printer : request[p].pc = "none"

SlotInv == TypeOK /\ SlotOwned /\ UploadingIsClear /\ NothingStale

(* A slot is only ever owned by a job assigned to that printer, and never  *)
(* by one that is still free to go elsewhere.                              *)
OwnerIsHere ==
    \A p \in Printer : LET j == row[p].current IN
        j # NoJob => assigned[j] = p /\ status[j] \in InFlight \cup Terminal

(* Across crashes, restarts and failed transactions the start command of a *)
(* job is published at most once.                                          *)
StartedAtMostOnce == \A j \in Job : starts[j] <= 1

(* Cancellation races dispatch: a job that ends up cancelled was never and *)
(* will never be started.                                                  *)
CancelledNeverStarted ==
    \A j \in Job : status[j] = "cancelled" => starts[j] = 0 /\ task[j].pc = "none"

(* What makes both inductive: where a job's task is says whether its start *)
(* was published, a task that handles one as failed has published nothing  *)
(* or is misjudged, and a job whose handoff reached the start stays        *)
(* "handed" whatever the reports, the operator or a restart then do to it. *)
Handed == Physical \cup {"completed", "failed"}

StartOK(j) ==
    /\ task[j].pc \in {"submitted", "upload"} => starts[j] = 0
    /\ task[j].pc \in {"guard", "publish"} => starts[j] = 0 /\ status[j] \in Handed
    /\ task[j].pc \in {"failing", "releasing", "release"} => starts[j] = 0 \/ j \in misjudged
    /\ task[j].pc # "none" => status[j] \in Handed \cup {"uploading"}
    /\ starts[j] > 0 => starts[j] = 1 /\ status[j] \in Handed

StartInv == TypeOK /\ \A j \in Job : StartOK(j)

(* Together, what keeps the contract on the slots (SlotsKept below).       *)
ContractInv == SlotInv /\ StartInv /\ OwnerIsHere

(* No late task, callback, request or reconciliation revives a job.        *)
TerminalIsFinal ==
    [][\A j \in Job : status[j] \in Terminal => status'[j] = status[j]]_vars

(* What is known of a printer can be relied on: no task took a start for   *)
(* none there, and no RUNNING of it was lost.  The code loses this by the  *)
(* steps that set misjudged and unheard only, and does not get it back.    *)
Sound(p) == p \notin unheard /\ \A j \in misjudged : assigned[j] # p

(* A start command is only published to a printer that is not printing,    *)
(* whose plate is clear and that has no other command coming.              *)
StartOnFreePlate ==
    [][\A j \in Job : LET p == assigned[j] IN
         Sound(p) /\ starts'[j] # starts[j] =>
            machine[p].phase \notin Busy /\ machine[p].bedClear /\ wire[p] = {}]_vars

(* Once a start was published, its job leaves the slot only after the      *)
(* printer has stopped and a human has cleared the plate, unless its task  *)
(* has misjudged that very start: what earlier jobs left on the printer,   *)
(* failed transactions and restarts make no difference.                    *)
StartedHoldsSlot ==
    [][\A p \in Printer : LET j == row[p].current IN
         j # NoJob /\ starts[j] > 0 /\ row'[p].current # j =>
            \/ j \in misjudged
            \/ machine[p].phase \notin Busy /\ machine'[p].bedClear]_vars

(* A job is printing only if its printer physically began it.              *)
PrintingBegan ==
    \A j \in Job : status[j] = "printing" /\ Sound(assigned[j]) => j \in began

(* The handoff implements the protocol promised to the operator: the slot  *)
(* of a started job is the plate it was sent to.                           *)
Load(p) ==
    IF row[p].current # NoJob /\ starts[row[p].current] > 0 THEN row[p].current ELSE NoJob

Plate == INSTANCE PlateProtocol WITH
    load    <- [p \in Printer |-> Load(p)],
    running <- [p \in Printer |-> machine[p].job],
    sent    <- {j \in Job : starts[j] > 0},
    ran     <- began,
    astray  <- {p \in Printer : ~Sound(p)}

PlateKept == Plate!Spec

(* What makes it inductive.  A sound printer has to do with nothing but    *)
(* the started job that owns its slot.                                     *)
LoadedOnly(p) ==
    /\ wire[p] \subseteq {Load(p)} \ began
    /\ machine[p].phase \in Busy => machine[p].job = Load(p) /\ Load(p) \in began
    /\ machine[p].phase \notin Busy => machine[p].job = NoJob
    /\ Load(p) = NoJob => machine[p].bedClear

(* A client that still says RUNNING speaks of the slot's own job, or of a  *)
(* slot that cannot be claimed before the next report.                     *)
RunningIsTrue(p) ==
    /\ "printing" \in {client[p].status, report[p].status} => client[p].gcode = "RUNNING"
    /\ client[p].gcode = "RUNNING" =>
          /\ row[p].current # NoJob => row[p].current \in began
          /\ NoJob = row[p].current \/ report[p].status # "printing" => row[p].status # "idle"
          /\ report[p] # NoSnapshot =>
                report[p].gcode = "RUNNING" /\ report[p].status \in {"printing", "offline"}

(* What is taken for a start on a sound printer was one.                   *)
ConfirmedBegan(j) ==
    task[j].pc \in {"confirmed", "commit"} /\ status[j] \in InFlight => j \in began

(* A task about to publish owns its slot, and a command on its way or a    *)
(* print has a start behind it.                                            *)
StartsMatch ==
    /\ \A j \in Job : task[j].pc \in {"guard", "publish"} => row[assigned[j]].current = j
    /\ \A j \in began : starts[j] > 0
    /\ \A p \in Printer : \A j \in wire[p] : assigned[j] = p /\ starts[j] > 0

PlateInv ==
    /\ ContractInv /\ PrintingBegan /\ StartsMatch
    /\ \A p \in Printer : Sound(p) => LoadedOnly(p) /\ RunningIsTrue(p)
    /\ \A j \in Job : Sound(assigned[j]) => ConfirmedBegan(j)

(* The slot of a printer changes hands as the contract with Scheduler says.*)
SlotStage == [j \in Job |-> Stage(status[j])]

SlotAt ==
    [j \in Job |-> IF SlotStage[j] \in {"queued", "held"} THEN assigned[j] ELSE NoPrinter]

SlotOwner == [p \in Printer |-> row[p].current]

Slots == INSTANCE SlotContract WITH stage <- SlotStage, at <- SlotAt, owner <- SlotOwner

SlotsKept == Slots!Spec

----------------------------------------------------------------------------
(* Liveness *)

(* No job is left in a handoff: every upload and start is eventually       *)
(* printing, ended or in the hands of the operator, also across a crash.   *)
HandoffEnds ==
    \A j \in Job :
        status[j] \in {"uploading", "starting"} ~> status[j] \notin {"uploading", "starting"}

(* A print that is over does not stay "printing": whatever the printer     *)
(* shows afterwards, a report resolves or quarantines the job.             *)
PrintEndIsNoticed ==
    \A j \in Job :
        status[j] = "printing" /\ machine[assigned[j]].phase \notin Busy
            ~> status[j] # "printing" \/ machine[assigned[j]].phase \in Busy

----------------------------------------------------------------------------
(* What the documents say and the code does not keep: see the README. *)

(* completed: FINISH was observed for this job, which has then begun.      *)
CompletedBegan == \A j \in Job : status[j] = "completed" => j \in began

(* Once a start may have reached the printer, uncertainty blocks the slot: *)
(* StartedHoldsSlot without its exception.                                 *)
UncertainKeepsSlot ==
    [][\A p \in Printer : LET j == row[p].current IN
         j # NoJob /\ starts[j] > 0 /\ row'[p].current # j =>
            machine[p].phase \notin Busy /\ machine'[p].bedClear]_vars

(* A slot owned by a job that has ended waits for its plate to be cleared, *)
(* or a task is about to give it back.                                     *)
EndedSlotIsReleasable ==
    \A p \in Printer : LET j == row[p].current IN
        proc = "up" /\ j # NoJob /\ status[j] \in Terminal =>
            ~row[p].cleared \/ task[j].pc \in {"releasing", "release"}
=============================================================================
