------------------------------ MODULE JobStore ------------------------------
(***************************************************************************)
(* The durable tables of backend/db: one row per job and one per printer,  *)
(* and the compare-and-swap that every change of a job's status goes       *)
(* through (crud.transition_job_status).  The modules of the program's     *)
(* threads EXTEND this one and share its variables.                        *)
(***************************************************************************)
CONSTANTS
    Job,        \* the rows of table jobs
    Printer,    \* the enabled printers (settings.printer_enabled)
    NoJob,      \* a printer row's current_job_id is NULL
    NoPrinter   \* a job's assigned_printer is NULL

ASSUME StoreAssumption == NoJob \notin Job /\ NoPrinter \notin Printer

VARIABLES
    status,     \* Job.status
    assigned,   \* Job.assigned_printer
    row         \* PrinterState: status, current (current_job_id), cleared (plate_cleared)

storeVars == <<status, assigned, row>>

JobStatus ==
    {"pending", "analysing", "slicing", "queued", "uploading", "starting",
     "printing", "completed", "failed", "rejected", "cancelled", "attention"}

(* What a job's next status may be, from each status. *)
Allowed ==
    [pending   |-> {"analysing", "cancelled", "failed"},
     analysing |-> {"pending", "slicing", "rejected", "cancelled", "failed"},
     slicing   |-> {"pending", "queued", "cancelled", "failed"},
     queued    |-> {"slicing", "uploading", "cancelled", "failed"},
     uploading |-> {"starting", "attention", "failed"},
     starting  |-> {"printing", "attention", "completed", "failed"},
     printing  |-> {"completed", "attention", "failed"},
     attention |-> {"printing", "completed", "failed"},
     completed |-> {},
     failed    |-> {},
     rejected  |-> {},
     cancelled |-> {}]

Terminal == {"completed", "failed", "rejected", "cancelled"}

(* The statuses a user or the offline recovery script may cancel from. *)
Cancellable == {"pending", "analysing", "slicing", "queued"}

(* A physical printer may be acting on a job in one of these statuses. *)
Physical == {"starting", "printing", "attention"}

(* A job in one of these statuses is the business of one printer's slot. *)
InFlight == Physical \cup {"uploading"}

(* What the slots of the printers make of a status: see SlotContract.      *)
Stage(st) ==
    CASE st \in {"pending", "analysing", "slicing"} -> "ready"
      [] st = "queued" -> "queued"
      [] st \in InFlight -> "held"
      [] OTHER -> "ended"

PrinterStatus == {"idle", "printing", "paused", "error", "offline"}

PrinterState ==
    [status : PrinterStatus, current : Job \cup {NoJob}, cleared : BOOLEAN]

StoreTypeOK ==
    /\ status \in [Job -> JobStatus]
    /\ assigned \in [Job -> Printer \cup {NoPrinter}]
    /\ row \in [Printer -> PrinterState]

(* init_db seeds an offline, unowned, cleared row for each printer. *)
SeedRow == [status |-> "offline", current |-> NoJob, cleared |-> TRUE]

(* Mutant: the UPDATE does not look at the status it replaces. *)
TransitionBlind(j, from, to) ==
    to \in Allowed[from] /\ status' = [status EXCEPT ![j] = to]

(* UPDATE jobs SET status = to WHERE id = j AND status = from. *)
Transition(j, from, to) ==
    /\ status[j] = from
    /\ to \in Allowed[from]
    /\ status' = [status EXCEPT ![j] = to]

(* The same row for a set of source statuses, as a cancellation uses it. *)
TransitionFrom(j, sources, to) == \E from \in sources : Transition(j, from, to)

(* update_printer_state writes what it is given and nothing else. *)
SetRow(p, new) == row' = [row EXCEPT ![p] = new]

(* Mutant: the owner of the slot is not looked at. *)
AvailableThoughOwned(p) == row[p].status = "idle" /\ row[p].cleared

(* A printer may take a job: the row is idle, cleared and owned by no job. *)
Available(p) ==
    /\ row[p].status = "idle"
    /\ row[p].cleared
    /\ row[p].current = NoJob

(* A session flushes the columns whose value differs from the one it       *)
(* loaded: "now" is the stored row, "seen" the loaded one, "new" the       *)
(* object's state at the flush.                                            *)
Column(now, seen, new) == IF new = seen THEN now ELSE new

Flushed(now, seen, new) ==
    [status  |-> Column(now.status, seen.status, new.status),
     current |-> Column(now.current, seen.current, new.current),
     cleared |-> Column(now.cleared, seen.cleared, new.cleared)]
=============================================================================
