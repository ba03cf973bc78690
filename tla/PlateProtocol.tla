---------------------------- MODULE PlateProtocol ----------------------------
(***************************************************************************)
(* What the operator is promised of a printer, whatever the service's      *)
(* threads, reports and restarts do: a start is only sent to a printer at  *)
(* rest with nothing on its plate, the job that was sent is the one that   *)
(* runs, no job is sent or run twice, and what was sent keeps the plate    *)
(* until the printer is at rest and somebody has cleaned it.  A printer    *)
(* that has gone astray is promised nothing any more, and the others are   *)
(* not affected by it.                                                     *)
(***************************************************************************)
CONSTANTS Job, Printer, NoJob

VARIABLES
    load,       \* the job sent to each printer that its plate is kept for
    running,    \* the job each printer physically runs
    sent,       \* the jobs whose start was sent
    ran,        \* the jobs that ran
    astray      \* the printers about which the promise is given up

vars == <<load, running, sent, ran, astray>>

Init ==
    /\ load = [p \in Printer |-> NoJob]
    /\ running = [p \in Printer |-> NoJob]
    /\ sent = {}
    /\ ran = {}
    /\ astray = {}

Send(p, j) ==
    /\ load[p] = NoJob /\ running[p] = NoJob /\ j \notin sent
    /\ load' = [load EXCEPT ![p] = j]
    /\ sent' = sent \cup {j}
    /\ UNCHANGED <<running, ran, astray>>

Run(p) ==
    /\ load[p] # NoJob /\ running[p] = NoJob /\ load[p] \notin ran
    /\ running' = [running EXCEPT ![p] = load[p]]
    /\ ran' = ran \cup {load[p]}
    /\ UNCHANGED <<load, sent, astray>>

Rest(p) ==
    /\ running[p] # NoJob
    /\ running' = [running EXCEPT ![p] = NoJob]
    /\ UNCHANGED <<load, sent, ran, astray>>

Clean(p) ==
    /\ load[p] # NoJob /\ running[p] = NoJob
    /\ load' = [load EXCEPT ![p] = NoJob]
    /\ UNCHANGED <<running, sent, ran, astray>>

(* What goes on at a printer that goes or has gone astray. *)
Stray(p) ==
    /\ astray' = astray \cup {p}
    /\ \A q \in Printer \ {p} : load'[q] = load[q] /\ running'[q] = running[q]
    /\ {load'[p], running'[p]} \subseteq Job \cup {NoJob}
    /\ sent \subseteq sent' /\ ran \subseteq ran' /\ ran' \subseteq sent'

Next ==
    \E p \in Printer :
        (\E j \in Job : Send(p, j)) \/ Run(p) \/ Rest(p) \/ Clean(p) \/ Stray(p)

Spec == Init /\ [][Next]_vars
=============================================================================
