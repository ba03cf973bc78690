---------------------------- MODULE SlotContract ----------------------------
(***************************************************************************)
(* What the scheduler and the handoff promise each other about the slot of *)
(* a printer (PrinterState.current_job_id), with the many statuses of a    *)
(* job folded into four stages.  Scheduler and Handoff each implement this *)
(* contract: a step that one of them leaves to its environment is one that *)
(* the other may take.                                                     *)
(***************************************************************************)
CONSTANTS Job, Printer, NoJob, NoPrinter

VARIABLES
    stage,  \* of each job: not "ready", "queued", "held" by a printer, "ended"
    at,     \* the printer a job is queued for or held by
    owner   \* the job that owns a printer's slot

vars == <<stage, at, owner>>

Init ==
    /\ stage \in [Job -> {"ready", "queued"}]
    /\ at \in [Job -> Printer \cup {NoPrinter}]
    /\ \A j \in Job : at[j] = NoPrinter <=> stage[j] = "ready"
    /\ owner = [p \in Printer |-> NoJob]

(* A job is queued for a printer, taken back to be sliced anew, or ends    *)
(* before any printer has it.                                              *)
Enqueue(j) ==
    /\ stage[j] = "ready"
    /\ stage' = [stage EXCEPT ![j] = "queued"]
    /\ \E p \in Printer : at' = [at EXCEPT ![j] = p]
    /\ UNCHANGED owner

TakeBack(j) ==
    /\ stage[j] = "queued"
    /\ stage' = [stage EXCEPT ![j] = "ready"]
    /\ at' = [at EXCEPT ![j] = NoPrinter]
    /\ UNCHANGED owner

Drop(j) ==
    /\ stage[j] \in {"ready", "queued"}
    /\ stage' = [stage EXCEPT ![j] = "ended"]
    /\ at' = [at EXCEPT ![j] = NoPrinter]
    /\ UNCHANGED owner

(* Only the slot that nobody owns is claimed, only by a job queued for it. *)
Claim(j) ==
    /\ stage[j] = "queued" /\ owner[at[j]] = NoJob
    /\ stage' = [stage EXCEPT ![j] = "held"]
    /\ owner' = [owner EXCEPT ![at[j]] = j]
    /\ UNCHANGED at

(* A held job ends where it is held.  Its slot stays with it, blocked, or  *)
(* is given back with the same step.                                       *)
End(j) ==
    /\ stage[j] = "held" /\ owner[at[j]] = j
    /\ stage' = [stage EXCEPT ![j] = "ended"]
    /\ at' = [at EXCEPT ![j] = NoPrinter]
    /\ \/ UNCHANGED owner
       \/ owner' = [owner EXCEPT ![at[j]] = NoJob]

(* Only the slot of a job that has ended is given back. *)
Yield(p) ==
    /\ owner[p] # NoJob /\ stage[owner[p]] = "ended"
    /\ owner' = [owner EXCEPT ![p] = NoJob]
    /\ UNCHANGED <<stage, at>>

Next ==
    \/ \E j \in Job : Enqueue(j) \/ TakeBack(j) \/ Drop(j) \/ Claim(j) \/ End(j)
    \/ \E p \in Printer : Yield(p)

Spec == Init /\ [][Next]_vars

(* A held job owns the slot of its printer, so a printer holds one at most;*)
(* no other job owns a slot unless it has ended.                           *)
HeldOwns ==
    /\ \A j \in Job : stage[j] = "held" => at[j] \in Printer /\ owner[at[j]] = j
    /\ \A p \in Printer : owner[p] # NoJob => stage[owner[p]] \in {"held", "ended"}
=============================================================================
