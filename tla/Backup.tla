------------------------------- MODULE Backup -------------------------------
(***************************************************************************)
(* The copies of the database: run_once of the maintenance worker          *)
(* (core/maintenance.py), forced at the start of the service and repeated  *)
(* by its thread, and backup_database (db/session.py), which makes a copy  *)
(* and prunes the old ones.  A pass may raise anywhere and the process may *)
(* die anywhere.  The wall clock that names the copies only goes forward.  *)
(***************************************************************************)
EXTENDS Integers, Sequences, SequencesExt

CONSTANTS
    Keep,       \* settings.DB_BACKUP_KEEP
    MaxFaults,  \* bound on the passes that raise
    MaxCrashes  \* bound on the ends of the process

ASSUME BackupAssumption ==
    /\ Keep \in Nat \ {0}
    /\ MaxFaults \in Nat
    /\ MaxCrashes \in Nat

VARIABLES
    service,    \* the process: "down", "starting" (its first pass), "up"
    pass,       \* where run_once is: "idle", "clean", "copy", "prune"
    copies,     \* the files bambubabu-*.db by name, oldest first
    due,        \* an interval has passed since self._last_backup
    aged,       \* an interval has passed since the last whole copy was made
    broken,     \* history: copies and prunings broken off since the last full pass
    faults, crashes

fileVars == <<copies, aged>>
vars == <<service, pass, fileVars, due, broken, faults, crashes>>

(* A copy is whole, or what a failed or interrupted one left behind. *)
Copy == {"whole", "partial"}

TypeOK ==
    /\ service \in {"down", "starting", "up"}
    /\ pass \in {"idle", "clean", "copy", "prune"}
    /\ copies \in Seq(Copy)
    /\ due \in BOOLEAN /\ aged \in BOOLEAN
    /\ broken \in Nat
    /\ faults \in 0 .. MaxFaults /\ crashes \in 0 .. MaxCrashes

(* A new installation. *)
Init ==
    /\ service = "down" /\ pass = "idle"
    /\ copies = <<>>
    /\ due = TRUE /\ aged = TRUE
    /\ broken = 0 /\ faults = 0 /\ crashes = 0

----------------------------------------------------------------------------
(* lifespan: the first pass is run before the service is up. *)
Start ==
    /\ service = "down"
    /\ service' = "starting" /\ pass' = "clean"
    /\ due' = TRUE
    /\ UNCHANGED <<fileVars, broken, faults, crashes>>

(* _loop, every MAINTENANCE_INTERVAL_SECONDS. *)
BeginPass ==
    /\ service = "up" /\ pass = "idle"
    /\ pass' = "clean"
    /\ UNCHANGED <<service, fileVars, due, broken, faults, crashes>>

(* The end of a pass, the first one included. *)
Return ==
    /\ pass' = "idle"
    /\ service' = "up"

(* The files are cleaned up (Storage); is a copy forced or due?  The       *)
(* connection creates the file before the copying begins.                  *)
Cleaned ==
    /\ pass = "clean"
    /\ IF service = "starting" \/ due
       THEN /\ pass' = "copy" /\ copies' = Append(copies, "partial")
            /\ UNCHANGED service
       ELSE Return /\ UNCHANGED copies
    /\ UNCHANGED <<aged, due, broken, faults, crashes>>

Copied ==
    /\ pass = "copy"
    /\ pass' = "prune"
    /\ copies' = [copies EXCEPT ![Len(copies)] = "whole"]
    /\ aged' = FALSE
    /\ UNCHANGED <<service, due, broken, faults, crashes>>

(* Mutants: the newest copies expire; one too many is kept. *)
ExpiredNewest == IF Len(copies) > Keep THEN {Len(copies)} ELSE {}

ExpiredLate == IF Len(copies) > Keep + 1 THEN {Len(copies) - Keep - 1} ELSE {}

(* The copies beyond the newest DB_BACKUP_KEEP are removed, newest first.  *)
Expired == IF Len(copies) > Keep THEN {Len(copies) - Keep} ELSE {}

Prune ==
    /\ pass = "prune"
    /\ \E i \in Expired : copies' = RemoveAt(copies, i)
    /\ UNCHANGED <<service, pass, aged, due, broken, faults, crashes>>

Pruned ==
    /\ pass = "prune" /\ Expired = {}
    /\ Return
    /\ due' = FALSE /\ broken' = 0
    /\ UNCHANGED <<fileVars, faults, crashes>>

(* What a pass that is broken off after its copy began has left behind. *)
LeftBehind == IF pass \in {"copy", "prune"} THEN 1 ELSE 0

(* Mutant: a pass that raised counts as one. *)
RaisesDone ==
    /\ pass # "idle"
    /\ faults < MaxFaults /\ faults' = faults + 1
    /\ service' = IF service = "starting" THEN "down" ELSE "up"
    /\ pass' = "idle" /\ due' = FALSE
    /\ broken' = broken + LeftBehind
    /\ UNCHANGED <<fileVars, crashes>>

(* A directory or a file cannot be read or removed, the database is locked, *)
(* the disk is full.  The loop logs it; the first pass ends the service.    *)
Raises ==
    /\ pass # "idle"
    /\ faults < MaxFaults /\ faults' = faults + 1
    /\ service' = IF service = "starting" THEN "down" ELSE "up"
    /\ pass' = "idle"
    /\ broken' = broken + LeftBehind
    /\ UNCHANGED <<fileVars, due, crashes>>

(* A crash, or a stop: the thread is a daemon that stop() waits 5 s for. *)
Crash ==
    /\ service # "down"
    /\ crashes < MaxCrashes /\ crashes' = crashes + 1
    /\ service' = "down" /\ pass' = "idle"
    /\ broken' = broken + LeftBehind
    /\ UNCHANGED <<fileVars, due, faults>>

(* DB_BACKUP_INTERVAL_HOURS pass: hours, where one pass takes seconds, so *)
(* that no interval ends within the pass that makes a copy.               *)
IntervalPasses ==
    /\ pass = "idle" /\ ~aged
    /\ aged' = TRUE /\ due' = TRUE
    /\ UNCHANGED <<service, pass, copies, broken, faults, crashes>>

PassStep == Cleaned \/ Copied \/ Prune \/ Pruned \/ Raises

Next == Start \/ BeginPass \/ PassStep \/ Crash \/ IntervalPasses

Spec == Init /\ [][Next]_vars

(* systemd starts a service that failed again, and the thread runs. *)
LiveSpec == Spec /\ WF_vars(Start) /\ WF_vars(BeginPass) /\ WF_vars(PassStep)

----------------------------------------------------------------------------
(* The database can be restored from the moment a first copy was whole:    *)
(* partial copies count against DB_BACKUP_KEEP, but pruning never removes  *)
(* the last whole one.                                                     *)
WholeCopyKept ==
    [][\A i \in DOMAIN copies : copies[i] = "whole" =>
         \E k \in DOMAIN copies' : copies'[k] = "whole"]_vars

(* The directory stays small: what is kept, the copy in the making, and    *)
(* one copy for each pass that was broken off since the last full one.     *)
CopiesBounded == TypeOK /\ Len(copies) <= Keep + broken + LeftBehind

(* Whatever raised and however often the process died, a database without  *)
(* a recent copy gets one, without waiting for another interval.           *)
BackedUp == aged ~> ~aged
=============================================================================
