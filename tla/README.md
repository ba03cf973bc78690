# BambuBabu in TLA+

BambuBabu is a local print service: users upload STL models, the service measures them, selects
one of two Bambu printers, slices for it, uploads the archive over FTPS, starts the print over MQTT
and follows the printer's reports. One process holds the HTTP handlers, a polling thread, a slicer
thread, a pool of dispatch threads, a maintenance thread and, for each printer, an MQTT network thread
and a reconnect thread; they meet in a SQLite database. A printer is a machine in a room: what the service believes of it
may be wrong, and a wrong belief prints onto an occupied plate. Most of this project is about that.

Source paths below are relative to `src/`.

## 1. Inventory

| Component | Source | State | Operations | Correct when |
|---|---|---|---|---|
| Durable store | `backend/db/crud.py`, `models.py`, `session.py` | rows of `jobs` and `printer_state` | compare-and-swap of a job's status, attribute writes on a printer's row | no status is revived, rows of job and printer agree |
| Scheduler | `core/queue_processor.py` (`_tick`, `_slice_pipeline`, `_try_schedule_fallback`, `_reslice_for_fallback`) | the ids read by a poll, the slicer's queue, `_slicing_jobs` | analyse, select, slice, queue, re-slice for the other printer | every job gets out of slicing, archive and printer match, one worker per job |
| Dispatch and handoff | `core/queue_processor.py` (`_try_dispatch`, `_upload_start_and_confirm`, reconciliation) | a task per job in the dispatch pool | claim a slot, upload, start, confirm, fail, quarantine, recover | a slot has one job, a start is sent once, to a free plate |
| Printer client | `core/printer.py` | connection, `status`, `gcode_state`, `_report_version`, `_failed_report_acknowledged` | connect, receive, publish, wait | a start counts only when the printer reports it |
| Report callback | `core/printer_manager.py` | none | write a report to the rows | an end is noticed, an ambiguous one blocks the plate |
| Operator endpoints | `backend/api/printers.py` | none | clear a plate, acknowledge an old FAILED | only a human releases a used plate |
| Routing | `core/complexity.py` | none | select a printer, or reject | a selected printer can hold the model |
| Upload admission | `backend/api/jobs.py` | `UPLOAD_LOCK`, files | admit, stream, rename, commit; cancel | limits hold, failures leave nothing |
| Retention | `core/maintenance.py` | files | remove expired, partial and orphaned files | nothing needed is removed, leftovers are |
| Database backup | `db/session.py` (`backup_database`), `core/maintenance.py` | the copies, `_last_backup` | copy, prune | a whole copy survives, an overdue one is made |
| Service lifecycle | `backend/main.py`, `deploy/bambubabu.service` | none | start in order, stop the queue, restart | what a stop or a crash cuts off is repaired |
| Slicer | `core/slicer.py` | files | run OrcaSlicer | writes an archive or raises within 600 s |

Left out, with the reason in `PROJECT.json`: the read-only API, e-mail, logging, the dashboard and
the installation scripts.

How they interact. The polling thread reads pending jobs and queues work for the slicer thread;
claims a slot and queues a handoff in the dispatch pool; both kinds of work commit to the database.
An MQTT thread updates its client under a lock and then, outside of it, runs the callback's
transaction. HTTP handlers change the same rows. Nothing but the database survives a crash, after
which reconciliation repairs the rows while MQTT callbacks already write them (`main.py:30-32`).

What is hard: the order of report, confirmation, time-out, cancellation and operator; a crash or a
failing transaction between two steps; lost commands and acknowledgements; state read before the
database's write lock and used after it; a result that arrives after its job has moved on; and a
`gcode_state` that firmware or client retain from an earlier print. `PROJECT.json` lists each
hazard at its line with the properties that cover it.

## 2. Modules

| Module | Models | Notes |
|---|---|---|
| `JobStore` | rows, transition graph, compare-and-swap, flush | EXTENDED by the two modules that share its variables |
| `Handoff` | dispatch, handoff, client, callback, operator, cancellation, stop, crash, reconciliation; the printers as environment | the core |
| `PlateProtocol` | abstract: what the operator is promised of a plate | implemented by `Handoff` (`PlateKept == Plate!Spec`) |
| `SlotContract` | abstract: what scheduler and handoff promise each other about a printer's slot | implemented by both (`SlotsKept == Slots!Spec`) |
| `Routing` | `select_printer`, `can_fit_on_printer` | pure operators |
| `Scheduler` | polling thread and slicer thread, with `Routing`, raising transactions, stop, crash | EXTENDS `JobStore`, `Routing` |
| `Connection` | Paho clients, their network threads, the reconnect thread, status requests | the inside of `Handoff`'s `Connect`, `Disconnect`, `DropClient`, `FullReport` |
| `Storage` | admission, archives, retention, crash | stands alone |
| `Backup` | the copies of the database | stands alone |
| `HandoffProofs`, `HandoffSlotProofs`, `HandoffPlateProofs`, `SlotContractProofs`, `SchedulerProofs`, `ConnectionProofs`, `StorageProofs`, `BackupProofs` | theorems and proofs | section 4; each of the `Handoff` ones EXTENDS the one before, `SchedulerProofs` has those of `Routing` too |
| `MCHandoff`, `MCScheduler`, `MCStorage` | small instances | `Connection` and `Backup` need no definitions and are checked as they are |

Definitions whose comment says *Mutant* are plausible bugs kept beside the definition they change;
no specification uses them, and each makes the property it is listed for fail.

### From code to model

A transaction is one step (`with SessionLocal.begin()`, a handler's `db.commit()`), and so is a
block under `BambuPrinter._condition`. A program counter per task (`task[j].pc`) names the place
between two of them: `upload`, `guard`, `publish`, `ack`, `await`, `confirmed`, `commit`, `unconfirmed`,
`failing`, `releasing`. `client[p]` is `BambuPrinter`, `report[p]` the snapshot that a network
thread carries to `_on_status_update`. `_report_version` is reduced to one bit per task: has a
report come since the start was admitted.

SQLite takes its write lock at the first write of a transaction, so a handler may act on a row read
before somebody else's commit. An ORM flush then writes only the columns that differ from what was
read (`Flushed`). Where this matters:

- The last transaction of a confirmed start reads the job's status and then swaps it
  (`queue_processor.py:361-378`), while the callback that has just woken it is about to write the same
  row. It is always two steps: `ReadConfirmed`, then `CommitPrinting` or, when the callback was first,
  `CommitLost`, which goes on to the handler of failed handoffs.
- That transaction's other branch, the mark of the plate (`ReadMark`, `WriteMark`), the slot's release
  (`ReadSlot`, `WriteSlot`), the plate-clear request (`ReadPlate`, `WritePlate`) and the acknowledgement
  of a stale FAILED (`AdmitIdle`, `WriteIdle`) exist as two steps too under `StaleWrites`.
- `_fail_job`, the quarantine and an end noticed by a callback read and swap as well. Losing the swap is
  a disjunct of `FailJob` and of `Quarantine`; a callback that loses it raises and is a `LoseReport`.
- Elsewhere the first statement that matters is the swap itself. `Dispatch` reads the row before it, but
  nobody else claims a slot, and it writes the one column that it claims with.

`starts`, `began`, `misjudged` and `unheard` are history variables: commands published; jobs physically
begun; jobs whose task took a start for none that may have come or may still come (`CommitLost`,
`PublishQueued`, a raising transaction after the confirmation); printers of which a RUNNING report was
lost. A printer is `Sound` when neither has happened there. `machine` and `wire` are the printer and
what is on its way to it.

In `Scheduler` a handoff is compressed into `uploading` followed by `HandoffEnds`, and a printer's
reports and operator into three actions; the interest is in the two threads and in what they hand
over. What holds the two modules together is `SlotContract`: it folds a job's status into four
stages (`JobStore!Stage`: ready, queued, held, ended) and says who may claim, end or give back a
slot. `Scheduler` and `Handoff` are both shown to take only its steps, so a step that one leaves to
its environment is one that the other may take, and `OneHeldPerPrinter`, proved of the contract,
holds of both.

In `Connection` a report is reduced to its version, the number of changes the printer had gone
through: enough to say that an older one overwrote a newer one. A network thread has a program
counter for the places where another thread may come between: a client that has found itself current
and is about to say connected (`accept`), a report off the socket (`adopt`), a snapshot not yet written
(`write`). `link` is a client's session with the broker; `asks` are the
threads of `_request_status_after_connect`.

In `Backup` a copy is whole or partial, and the directory is the sequence of copies by name. `due`
is what the service knows of the interval (`_last_backup`), `aged` what is true of the last whole
copy. In `Storage` a file takes units of the disk, which `_storage_bytes` counts (`Units`); a job is
active or ended, may occupy a slot, and may be sliced again; what matters is which files exist and who
names them.

### Assumptions about the environment

- An operator tells the truth: a plate is cleared only when the printer is at rest, no command is
  on its way to it or about to be published, and a received report has been written (an inspection
  takes longer than a callback). See `Inspected`.
- Firmware shows FINISH or FAILED until the next start or a dismissal on the screen. PREPARE and
  RUNNING are told apart nowhere and are one value. A start may be lost, refused or ignored; a
  duplicate QoS 1 delivery to a busy printer is ignored by it.
- A printer is used through the service and at its own screen, by nobody else.
- A report is the printer's present state when it is received. That reports of two clients do not
  cross is what `Connection` shows (`ReportsInOrder`).
- In `Handoff` `PRINTERS_ENABLED` is true and disabled printers are not in `Printer`; `Scheduler` has
  the configuration as a variable, which a restart may change.
- The order of a printer's queue, shortest estimate first, is abstracted: any queued job may be
  the first. This only adds behaviours.
- The upload's form is spooled before the handler runs, so streaming does not wait for the client.
- Retention is hours or days: a file does not become old while it is written or within one pass of
  the cleaner. A partial file may still be empty.
- The broker's answer to a dial normally comes within the 30 s that the reconnect thread sleeps;
  `MaxEarly` bounds how often it does not. Without a bound the thread may replace a client that is
  just being accepted, for ever.
- The wall clock that names the copies goes forward. A backup interval is hours, a pass seconds.
- A service that ends, cleanly or not, is started again. systemd does it after a failure
  (`Restart=on-failure`); after a clean stop an operator or the boot does.

## 3. Runs

Run any of them with `tlc -config X.cfg M`. Times are for two cores.

| Run | Instance | Shows | Distinct states |
|---|---|---|---|
| `handoff` | 2 jobs (symmetric), 1 printer, 1 thread, 1 stop or crash | `SlotOwned`, `StartedAtMostOnce`, `CancelledNeverStarted`, `PrintingBegan`, `StartOnFreePlate`, `StartedHoldsSlot`, `TerminalIsFinal`, the refinements `PlateKept` and `SlotsKept`, the inductive `ContractInv` and `PlateInv` | 802 thousand, 2 min |
| `handoff_faults` | 1 job, queued starts, 1 stop or crash, 2 raising transactions, stale reads | `TypeOK`, the inductive `StartInv` | 4.1 million, 3 min |
| `handoff_live` | 1 job, queued starts, 2 stops or crashes | `HandoffEnds`, `PrintEndIsNoticed` | 212 thousand, 1 min |
| `scheduler` | 2 models, 2 printers, 1 stop or crash, 1 raising transaction in each life, deployments both and A1 Mini alone | `ArchiveMatches`, `OneWorkerPerJob`, `FaultCostsOneJob`, `DispatchedArchiveIsFixed`, `FallbackFailsOnce`, `NeverRevived`, the refinement `SlotsKept`, the inductive `SchedulerInv` | 2.1 million, 3 min |
| `routing` | 1 job of 36 models around two volumes that differ by axis, every deployment, 2 restarts | `RoutedByRule`, `NothingPrintableRejected`, `ArchiveMatches`, `EverySlicingEnds`, `NobodyStranded` | 541 thousand, 90 s |
| `storage` | 2 models of sizes 1 and 2, quota 2, 1 active job, 1 crash | `QueueBounded`, `ModelsWithinQuota`, `NeededFilesKept`, `LeftoversRemoved`, the inductive `StorageInv` | 189 thousand, 2 min |
| `connection` | 2 clients, 3 changes, 3 drops, 1 early wake, 1 raising callback | `SessionOK`, `ReportsInOrder`, `CatchesUp`, the inductive `ConnectionInv` | 396 thousand, 1 min |
| `backup` | keep 2, 4 raising passes, 2 ends of the process | `CopiesBounded`, `WholeCopyKept`, `BackedUp` | 16 thousand |

Why these bounds. Two jobs are what a fight over a slot needs; printers share nothing but the
dispatch threads, so one printer suffices for safety. One crash at every step followed by a second
life covers recovery, and the live run adds a second one, during recovery. The run with raising
transactions has one job, because the invariants it checks speak of one job each and the theorem
`StartInvariant` covers any number. `QueuedStarts` lets Paho keep a start that it has refused; a message
in Paho's queue is on the `wire` from then on and may arrive at any time, also after a crash, which the
real queue does not survive. The runs of one job have it; `handoff` passes with it too, over 1.9 million
states, but leaves it out for its time, and the proofs are for both values. In `scheduler` one model fits both printers and prefers the P1S,
one fits the P1S alone, and a restart may take the P1S away: this is what a fallback, a rejection
and an interrupted fallback need; the budget of raising transactions is per life, so that
`FaultCostsOneJob` can compare it with the jobs that are lost. In `routing` each axis has a value
that fits both printers, one that fits the P1S alone and one that fits neither where the limits
allow it, and no limit is the same on all axes, so a mistaken axis shows. In `storage` the models do
not fit the quota together and only one may be active, so both limits are reached. Two clients
suffice in `connection`: the previous one is gone before the next but one is made. In `backup` four
partial copies exceed `Keep`, so that they could push the whole ones out.

Deadlock is checked in every run but `connection`, whose environment may stop: reports and drops are
bounded, and a connected client then waits.

Fairness. `Handoff` assumes that a dispatch thread continues (every wait in it has a time-out),
that a stopping process exits and the service is started again, that reconciliation ends, that a
client reconnects (`_reconnect_loop`, every 30 s), that a connected one eventually receives a full
report (`pushall` after each connect, hence strong fairness, connections being lost in between), and
that callbacks run; none of this of the client while the service is stopping. Nothing is assumed of
the operator, of a print's end or of a command's arrival. `Scheduler` assumes that its two threads
run (OrcaSlicer is killed after 600 s, `slicer.py:141`) and that the service is restarted. `Storage`
assumes that handlers, slicer and cleaner run and that files age, strongly because passes of the
cleaner come in between. `Connection` assumes that the reconnect thread, the network threads and the
status requests run, and nothing of Paho's own reconnecting, of the broker's return or of the
printer: `CatchesUp` is conditional on the broker being there. `Backup` assumes that the thread runs
and the service is started again.

### Where code and documents disagree

Four runs check a sentence of the documents that the code does not keep; `PROJECT.json` quotes it.

| Run | Property | What happens |
|---|---|---|
| `lost_confirmation` | `UncertainKeepsSlot` | the callback commits `printing` between the task's read and its swap; the generic handler takes the lost swap for a failed handoff, fails the job and frees the slot of a running print (`queue_processor.py:366`, `414`). An error of that transaction, or a start that Paho refuses but keeps (`printer.py:450`), ends the same way |
| `retained_finish` | `CompletedBegan` | a disconnect sends the FINISH of an earlier print, which completes a job that has just reached `starting` (`printer.py:378`) |
| `late_acceptance` | `ConnectedIsCurrent` | `_on_connect` tests its client, lets go of the lock and then sets `_connected`; a replacement in between leaves the service connected without a client (`printer.py:334-346`) |
| `stuck_slot` | `EndedSlotIsReleasable` | a crash between failing a job and releasing its slot leaves a slot that no endpoint and no restart releases (`queue_processor.py:416`) |

### Limits of the passing runs

Some properties hold only under a stated condition. Where it is a constant, the reader can drop it and
see the counterexample.

- `SlotOwned`, `ContractInv`, `PlateInv`, `SlotsKept`, `PlateKept` need `StaleWrites = FALSE`. With `TRUE` in `MCHandoff.cfg`, a
  plate-clear request reads a blocked row, another request clears it, the next job is dispatched,
  and the first one's write takes the slot away from it (`api/printers.py:87-119`, against
  `TECHNICAL_DETAILS.md:76`, "FTPS handoff owns the printer slot"). Starts and cancellations do not
  depend on it: `StartInv` is checked with stale reads and proved for both values.
- `StartOnFreePlate`, `PrintingBegan`, `PlateInv` and `PlateKept` speak of printers that are `Sound`, and
  `StartedHoldsSlot` of jobs that are not `misjudged`. The code leaves this ground by three of its own
  steps, none of which needs a crash: `CommitLost`, `PublishQueued` and a raising transaction after the
  confirmation (`lost_confirmation`); and by a callback that raises with RUNNING in hand (`LoseReport`).
  From then on the next job may be sent onto the occupied plate, and the first one's report calls it
  printing. The model has all these steps, with everything that follows; the properties say that
  nothing else leads there and that other printers are not affected (`PlateProtocol!Stray`).
- In `handoff` no transaction raises (`MaxDbFaults = 0`), for the sake of its size; the proofs have no
  such bound.
- `HandoffEnds` and `PrintEndIsNoticed` are checked without raising transactions and stale reads.
- The write of an acknowledged FAILED is ordered with the network thread's writes by nothing
  (`printer.py:272-273`); it is in `Handoff` and not in `Connection`, so `ReportsInOrder` is about the
  network threads. The row it may leave says idle of a printer whose next report corrects it, and no
  start is published without a live idle status.
- A row stays `idle` when its client is replaced or lost with the process, and the failure handler sets
  it to `idle`: a job may be handed to a printer that is not there. The guard of
  `start_print_and_confirm` refuses it before anything is published, which is what the documents ask.
- `NeededFilesKept` needs `UnlinkRace = FALSE`. With `TRUE` in `MCStorage.cfg`, the cleaner finds an
  archive that a crashed slicing left long ago, the recovered job's slicing rewrites the same path
  and commits it, and the cleaner then unlinks it (`maintenance.py:111-112`).
- `ModelsWithinQuota` is about models. Models and archives together may exceed the quota: the test
  after streaming uses the measurement made before it (`jobs.py:160`, `165`), and the slicer writes
  archives without asking (against `TECHNICAL_DETAILS.md:119`).
- `StartedHoldsSlot` speaks of jobs whose start was published. A job whose start was rejected before
  that, and which a report of an old FAILED has made `failed` meanwhile, gives its slot back and sets
  `plate_cleared` with no operator (`queue_processor.py:425-432`); its plate was never used.
- `CatchesUp` excepts `Deaf`: an exception in a callback's transaction ends Paho's network thread,
  `_connected` stays true, and `_reconnect_loop` looks at nothing else, so the printer stays as the
  store last saw it until the service restarts. Set `Deaf == FALSE` in `Connection.tla` to see it.
- `FaultCostsOneJob` is what is left of "a reserved job has a worker" when transactions raise: each
  one costs at most one job its turn, until the next restart (`queue_processor.py:273`, `485`).
- `CopiesBounded` allows one more copy for each pass that was broken off after its copy began; a
  pruning that keeps failing lets the directory grow.

## 4. Proofs

Every theorem holds for every set of jobs, clients and printers (the scheduler's printers are the two of
`PrinterID`) and for every value of the bounds, under the assumptions that the modules state of their
constants (`StoreAssumption`, `HandoffAssumption`, `RoutingAssumption`, `SchedulerAssumption`,
`ConnectionAssumption`, `StorageAssumption`, `BackupAssumption`: names that are no values, bounds that
are naturals, at least one dispatch thread, at least one copy kept, no live service without a printer).
Some theorems have a further hypothesis, on a constant of the model that is explained under *Limits*
above: `~StaleWrites`, `~UnlinkRace`. Neither takes the race of a confirmed start with its callback away. Each inductive invariant below is an invariant
of a run or, like `SlotInv`, a part of one, except `NewestCopied`, a fact about the middle of a backup pass.

### The handoff

| Module | Theorem | States | By |
|---|---|---|---|
| `HandoffProofs` | `TypeCorrect` | `[]TypeOK` | `TypeOK` is inductive: `TypeInit`, `TypeStep` with one step per action |
| | `TerminalHolds` | `TerminalIsFinal` | `StatusMoves`: every step moves a job along an edge of `Allowed` or recovers it, and no edge leaves a terminal status |
| | `StartInvariant`, `StartOnce`, `CancelledStaysUnstarted` | `[]StartInv`, `[]StartedAtMostOnce`, `[]CancelledNeverStarted` | `StartInv` is inductive, with raising transactions and stale reads |
| | `SlotExclusive` | `~StaleWrites => (Spec => []SlotOwned)` | the inductive `SlotInv` |
| `HandoffSlotProofs` | `ContractInvariant` | `~StaleWrites => (Spec => []ContractInv)` | `SlotInv`, `StartInv` and `OwnerIsHere` together: an owner is assigned to its printer and in flight or ended |
| | `HandoffKeepsContract` | `~StaleWrites => (Spec => SlotsKept)` | `ContractStep`: one lemma for each part of `Next` (task, report, operator, reconciliation, dispatch, cancellation) maps its steps to `Claim`, `Drop`, `End`, `Yield` or a stutter |
| `HandoffPlateProofs` | `PlateInvariant`, `PrintingWasBegun` | `~StaleWrites`: `[]PlateInv`, `[]PrintingBegan` | `StartsStep`, `LoadedStep`, `ConfirmedStep`, `BeganStep`, `RunningStep`, one for each part of `PlateInv`; `SoundMoves` and `SoundBefore`: who gives a printer up, and that nobody takes it back |
| | `StartsOnFreePlate` | `~StaleWrites`: `StartOnFreePlate` | `PlateInv` before the step |
| | `StartedKeepsSlot` | `~StaleWrites`: `StartedHoldsSlot` | `ContractInv` alone, so it holds at every printer |
| | `HandoffKeepsPlate` | `~StaleWrites`: `PlateKept` | at a sound printer `Publish` is a `Send`, `BeginPrint` a `Run`, `EndPrint` a `Rest`, a slot given up by a started job a `Clean`; at another one, or when a printer is given up, a step is a `Stray` (`StrayStep`); every other step is a stutter |
| `SlotContractProofs` | `OneHeldPerPrinter` | every held job owns the slot of its printer | the contract alone |

Neither `StartedAtMostOnce` nor `SlotOwned` is inductive alone. A task that is about to publish says
nothing of `starts` unless its place does: `StartInv` ties the place of a task to the number of
published starts and to the job's status, and adds that a job whose handoff reached the start stays
among the statuses from which nothing cancels or queues it again, whatever reports, operator and
restart do. `SlotOwned` would be broken by an operator who clears the plate of an uploading job;
`SlotInv` adds that such a job's plate is already clear, so the endpoint has nothing to do, and that no
handler is between a read and its write. `TypeOK` itself needs one fact beyond types: a busy machine
has a job.

The plate needs a statement about the machine. `LoadedOnly` says that a sound printer has to do with
nothing but the started job that owns its slot: that job alone is on the wire or running, and a printer
without one has a clear bed. A start may be published only because `StartsMatch` has a publishing task
own its slot with no start behind it. A slot is given back only by a task that has published nothing, or
is misjudged: this is `StartOK`'s third line, and the reason why `StartedHoldsSlot` needs no more than
`ContractInv`. `PrintingBegan` is the hard one: a report claims that a job prints, and the client may
repeat a `gcode_state` it retained. `RunningIsTrue` follows RUNNING through the client and through a
report on its way: while either says it, the owner of the slot is a job that began, or the slot has none
and its row cannot be claimed before the next report. `ConfirmedBegan` carries the same from the report
that woke a task to the swap that the task makes later.

### The scheduler

`SchedulerProofs` proves, with raising transactions, cancellations, stops, crashes and changes of the
deployment at any step:

| Theorem | States | By |
|---|---|---|
| `SchedulerInvariant` | `[]SchedulerInv` | the inductive `IInv`, its form without `Work` |
| `NoJobHasTwoWorkers`, `QueuedArchiveFits` | `[]OneWorkerPerJob`, `[]ArchiveMatches` | conjuncts of the invariant |
| `ArchiveFixedOnceQueued`, `FallbackIsTriedOnce`, `EndedStaysEnded` | `DispatchedArchiveIsFixed`, `FallbackFailsOnce`, `NeverRevived` | `ArchiveMoves`, `StatusComes`, `StatusMoves`: who may change what |
| `AnalysesFollowTheRule`, `RejectedJobsFitNowhere` | `RoutedByRule`, `NothingPrintableRejected` | only `Analysed` decides, by `SelectPrinter`, and the theorems about it |
| `SchedulerKeepsContract` | `SlotsKept` | every step is a step of `SlotContract` or a stutter |
| `FaultsAreContained` | `[]FaultCostsOneJob` | `CostStep`: a step adds at most one job to `Lost`, and then counts a fault |
| `SelectionIsSound`, `SelectionIsPublished`, `RejectionIsJustified` | a selected printer is enabled and large enough; `select_printer` is the published rule; a rejected model fits nowhere when the volumes are nested | cases of the deployment |

`OneWorkerPerJob` is a statement about two threads that share `_slicing_jobs`: whoever is queued or
worked on is reserved and nobody is there twice. `ArchiveMatches` needs to know what the slicer is
about to store: `TargetsFit` says that every target, in the slicer's hands or in its queue, can take
the model, and that a job that is re-sliced keeps an archive it can go back to. `SlotsHeld` is this side
of `SlotOwned`.

`SchedulerKeepsContract` and `HandoffKeepsContract` are the two halves of the composition: the
environment of each module, a handoff that only ends or a scheduler that only queues, is held to the
steps that the other module's code is proved to take.

### Connection, storage, backup

| Module | Theorem | States | By |
|---|---|---|---|
| `ConnectionProofs` | `ConnectionInvariant` | `[]ConnectionInv` | `TypeStep`, `SessionStep`, `ThreadStep` and `OrderStep`, each with one step per action |
| | `SessionIsSound` | `[]SessionOK` | a conjunct of the invariant |
| | `ReportsKeepOrder` | `ReportsInOrder` | `OrderStep` |
| `StorageProofs` | `QueueIsBounded` | `[]QueueBounded` | `AdmissionInv`: a commit adds one job to a set that was below the limit |
| | `ModelsFitQuota` | `[]ModelsWithinQuota` | `QuotaStep`: a measurement made before the streaming stays an upper bound (`MeasureHolds`) |
| | `StorageInvariant`, `NeededFilesStay` | `~UnlinkRace`: `[]StorageInv`, `[]NeededFilesKept` | `FileInv`, with one lemma for each part of `Next` |
| `BackupProofs` | `DirectoryBounded` | `[]CopiesBounded` | with `NewestCopied`, inductive |
| | `AlwaysRestorable` | `WholeCopyKept` | the copy that a pruning pass has just completed is not the one it removes |

Nothing in the code compares two reports, so that an older one never wins is a fact about threads.
`OneThread` says that only the current client or the one being replaced has a network thread, and
only a client with a thread has a session and reports on their way; `loop_stop`, which waits for the
running callback, is what keeps it. A client that is being accepted while it is replaced cannot break
`SessionOK`: the reconnect thread is awake until that callback has ended, and rests only once the next
client was dialled. `InOrder` adds that the reports of that one client wait in the
order of their versions, none older than what is known, and that a snapshot being written is what is
known. The four `Ordered` lemmas say what taking from and adding to the end of such a queue keeps.

The queue's limit is tested before the streaming and used after it: `UploadsAdmitted` says that whoever
is past the test holds `UPLOAD_LOCK` and that the test still holds, the other threads only ending jobs.
The quota is the same with a measurement: archives written meanwhile make it too small, but nobody else
writes a model, so it stays an upper bound of the models.
The cleaner's list of references is stale too: `OrphansUnneeded` says that it still names every old file
that a job needs, because what a job comes to need is recent, and this is so because an upload's model
and the archive that the slicer is about to store are not old (`UploadsOnDisk`, `ArchiveOnDisk`). The
files of an ended job are nobody else's, since a path is a job's own (`PathKinds`).

### Only model-checked

Liveness (`HandoffEnds`, `PrintEndIsNoticed`, `EverySlicingEnds`, `NobodyStranded`, `LeftoversRemoved`,
`CatchesUp`, `BackedUp`): TLAPS has no ENABLED, so nothing under fairness can be proved. Every safety
property of a passing run is a theorem.

## 5. Plan

Done: all modules above, their runs and their proofs.

Next:

1. Two printers that share one dispatch thread, live.
2. What a stale write of a plate-clear request or of a slot's release leaves of `SlotContract`.

Not modelled, and why: the read-only API and statistics change nothing; e-mail is sent once after a
commit, with every exception caught and no outcome read; logging formats lines; the dashboard only
calls the API; the scripts run before the service. Of the slicer only what its callers see is
modelled, the rest being a subprocess, and of the configuration only what decides who is enabled.
`disconnect()` of a stopping service may race a `_connect_mqtt` of its reconnect thread: what it can
leave is a client of a process that is about to end.
