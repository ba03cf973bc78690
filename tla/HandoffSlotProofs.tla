------------------------- MODULE HandoffSlotProofs -------------------------
(***************************************************************************)
(* As long as no commit falls between a handler's read and its write, the  *)
(* handoff keeps its side of the contract on the slots, for any number of  *)
(* jobs, printers, threads, crashes and failed transactions: every step of *)
(* a task, a report, the operator or a restart is a step of SlotContract   *)
(* or leaves stages, places and owners as they are.                        *)
(***************************************************************************)
EXTENDS HandoffProofs

(* The stage of each status. *)
LEMMA StageTable ==
    /\ \A st \in {"pending", "analysing", "slicing"} : Stage(st) = "ready"
    /\ Stage("queued") = "queued"
    /\ \A st \in InFlight : Stage(st) = "held"
    /\ \A st \in Terminal : Stage(st) = "ended"
BY DEF Stage, InFlight, Physical, Terminal

(* Nothing of the contract moves when every job stays in its stage and     *)
(* every slot with its owner.                                              *)
LEMMA StageKept ==
    ASSUME TypeOK, TypeOK', assigned' = assigned,
           \A j \in Job : Stage(status'[j]) = Stage(status[j]),
           \A p \in Printer : row'[p].current = row[p].current
    PROVE  UNCHANGED Slots!vars
<1>1. UNCHANGED SlotStage
  BY DEF SlotStage
<1>2. UNCHANGED SlotAt
  BY <1>1 DEF SlotAt
<1>3. UNCHANGED SlotOwner
  BY DEF SlotOwner
<1>4. QED
  BY <1>1, <1>2, <1>3 DEF Slots!vars

(* Only the owner is given up, by a job that has ended. *)
LEMMA OwnerYields ==
    ASSUME TypeOK, TypeOK', OwnerIsHere, UNCHANGED <<status, assigned>>, NEW p \in Printer,
           row[p].current = NoJob \/ status[row[p].current] \in Terminal,
           row'[p].current = NoJob,
           \A q \in Printer : q # p => row'[q] = row[q]
    PROVE  [Slots!Next]_Slots!vars
<1>1. UNCHANGED <<SlotStage, SlotAt>>
  BY DEF SlotStage, SlotAt
<1>2. CASE row[p].current = NoJob
  <2>1. \A q \in Printer : row'[q].current = row[q].current
    BY <1>2
  <2>2. QED
    BY <2>1, StageKept
<1>3. CASE row[p].current # NoJob
  <2>1. SlotOwner' = [SlotOwner EXCEPT ![p] = NoJob]
    BY DEF SlotOwner
  <2>2. row[p].current \in Job /\ Stage(status[row[p].current]) = "ended"
    BY <1>3 DEF TypeOK, StoreTypeOK, PrinterState, Stage, Terminal, InFlight, Physical
  <2>3. SlotOwner[p] # NoJob /\ SlotStage[SlotOwner[p]] = "ended"
    BY <1>3, <2>2 DEF SlotOwner, SlotStage
  <2>4. Slots!Yield(p)
    BY <1>1, <2>1, <2>3 DEF Slots!Yield
  <2>5. QED
    BY <2>4 DEF Slots!Next
<1>4. QED
  BY <1>2, <1>3

(* A job in flight that ends does so where it is held; its slot may stay   *)
(* with it or be given back.                                               *)
LEMMA HeldEnds ==
    ASSUME TypeOK, TypeOK', SlotOwned, assigned' = assigned,
           NEW j \in Job, status[j] \in InFlight, NEW to \in Terminal,
           status' = [status EXCEPT ![j] = to],
           \/ UNCHANGED SlotOwner
           \/ SlotOwner' = [SlotOwner EXCEPT ![assigned[j]] = NoJob]
    PROVE  [Slots!Next]_Slots!vars
<1>1. status \in [Job -> JobStatus] /\ assigned[j] \in Printer
  BY DEF TypeOK, StoreTypeOK
<1>2. Stage(status[j]) = "held" /\ Stage(to) = "ended"
  BY DEF Stage, InFlight, Physical, Terminal
<1>3. SlotStage' = [SlotStage EXCEPT ![j] = "ended"]
  BY <1>1, <1>2 DEF SlotStage
<1>4. SlotAt' = [SlotAt EXCEPT ![j] = NoPrinter]
  <2>1. \A k \in Job : SlotStage'[k] = IF k = j THEN "ended" ELSE SlotStage[k]
    BY <1>3 DEF SlotStage
  <2>2. QED
    BY <2>1 DEF SlotAt
<1>5. SlotStage[j] = "held" /\ SlotAt[j] = assigned[j] /\ SlotOwner[SlotAt[j]] = j
  BY <1>1, <1>2 DEF SlotStage, SlotAt, SlotOwner, SlotOwned
<1>6. Slots!End(j)
  BY <1>3, <1>4, <1>5 DEF Slots!End
<1>7. QED
  BY <1>6 DEF Slots!Next

----------------------------------------------------------------------------
(* Dispatch claims the slot it found free for a job queued for it. *)
LEMMA DispatchClaims ==
    ASSUME TypeOK, TypeOK', NEW j \in Job, Dispatch(j)
    PROVE  Slots!Claim(j)
<1> DEFINE p == assigned[j]
<1>1. /\ status \in [Job -> JobStatus] /\ row \in [Printer -> PrinterState] /\ p \in Printer
      /\ status[j] = "queued" /\ status' = [status EXCEPT ![j] = "uploading"]
      /\ row' = [row EXCEPT ![p] = [row[p] EXCEPT !.current = j]]
      /\ row[p].current = NoJob /\ assigned' = assigned
  BY DEF TypeOK, StoreTypeOK, Dispatch, Available, Transition, SetRow
<1>2. Stage("queued") = "queued" /\ Stage("uploading") = "held"
  BY StageTable DEF InFlight
<1>3. SlotStage' = [SlotStage EXCEPT ![j] = "held"]
  BY <1>1, <1>2 DEF SlotStage
<1>4. UNCHANGED SlotAt
  BY <1>1, <1>2, <1>3 DEF SlotAt, SlotStage
<1>5. SlotStage[j] = "queued" /\ SlotAt[j] = p /\ SlotOwner[p] = NoJob
  BY <1>1, <1>2 DEF SlotStage, SlotAt, SlotOwner
<1>6. SlotOwner' = [SlotOwner EXCEPT ![p] = j]
  BY <1>1 DEF SlotOwner, PrinterState
<1>7. QED
  BY <1>3, <1>4, <1>5, <1>6 DEF Slots!Claim

(* A cancellation drops a job that no printer has. *)
LEMMA CancelDrops ==
    ASSUME TypeOK, TypeOK', NEW j \in Job, Cancel(j)
    PROVE  Slots!Drop(j)
<1>1. /\ status \in [Job -> JobStatus] /\ status[j] \in Cancellable
      /\ status' = [status EXCEPT ![j] = "cancelled"] /\ UNCHANGED <<assigned, row>>
  BY DEF TypeOK, StoreTypeOK, Cancel, TransitionFrom, Transition
<1>2. Stage(status[j]) \in {"ready", "queued"} /\ Stage("cancelled") = "ended"
  BY <1>1 DEF Stage, Cancellable, InFlight, Physical, Terminal
<1>3. SlotStage' = [SlotStage EXCEPT ![j] = "ended"] /\ SlotStage[j] \in {"ready", "queued"}
  BY <1>1, <1>2 DEF SlotStage
<1>4. SlotAt' = [SlotAt EXCEPT ![j] = NoPrinter]
  BY <1>1, <1>3 DEF SlotAt, SlotStage
<1>5. UNCHANGED SlotOwner
  BY <1>1 DEF SlotOwner
<1>6. QED
  BY <1>3, <1>4, <1>5 DEF Slots!Drop

(* A task moves its job through the stages of a held job, ends it, or      *)
(* gives back the slot of its failed job.                                  *)
LEMMA TaskKeepsContract ==
    ASSUME ContractInv, TypeOK', ~StaleWrites, NEW j \in Job, TaskStep(j)
    PROVE  [Slots!Next]_Slots!vars
<1>0. /\ TypeOK /\ SlotOwned /\ OwnerIsHere /\ NothingStale /\ StartOK(j)
      /\ status \in [Job -> JobStatus] /\ row \in [Printer -> PrinterState]
      /\ assigned[j] \in Printer
  BY DEF ContractInv, SlotInv, StartInv, TypeOK, StoreTypeOK
<1>1. CASE UploadOk(j)
  <2>1. \A k \in Job : Stage(status'[k]) = Stage(status[k])
    BY <1>0, <1>1, StageTable DEF UploadOk, Transition, InFlight, Physical
  <2>2. QED
    BY <1>0, <1>1, <2>1, StageKept DEF UploadOk
<1>2. CASE CommitPrinting(j) \/ MarkPlate(j)
  <2>1. \A p \in Printer : row'[p].current = row[p].current
    BY <1>0, <1>2 DEF CommitPrinting, MarkPlate, SetRow, PrinterState
  <2>2. \A k \in Job : Stage(status'[k]) = Stage(status[k])
    BY <1>0, <1>2, StageTable DEF CommitPrinting, MarkPlate, Transition, InFlight, Physical
  <2>3. QED
    BY <1>0, <1>2, <2>1, <2>2, StageKept DEF CommitPrinting, MarkPlate
<1>3. CASE Quarantine(j)
  <2>1. status[j] = "starting" => row[assigned[j]].current = j
    BY <1>0 DEF SlotOwned, InFlight, Physical
  <2>2. \A p \in Printer : row'[p].current = row[p].current
    BY <1>0, <1>3, <2>1 DEF Quarantine, Transition, SetRow
  <2>3. \A k \in Job : Stage(status'[k]) = Stage(status[k])
    BY <1>0, <1>3, StageTable DEF Quarantine, Transition, InFlight, Physical
  <2>4. QED
    BY <1>0, <1>3, <2>2, <2>3, StageKept DEF Quarantine
<1>4. CASE FailJob(j)
  <2>1. status[j] \in Handed \cup {"uploading"}
    BY <1>0, <1>4 DEF FailJob, StartOK
  <2>2. CASE UNCHANGED status
    BY <1>0, <1>4, <2>2, StageKept DEF FailJob
  <2>3. CASE status[j] \notin Terminal /\ status' = [status EXCEPT ![j] = "failed"]
    <3>1. status[j] \in InFlight /\ "failed" \in Terminal
      BY <2>1, <2>3 DEF Handed, InFlight, Physical, Terminal
    <3>2. UNCHANGED SlotOwner /\ assigned' = assigned
      BY <1>4 DEF FailJob, SlotOwner
    <3>3. QED
      BY <1>0, <2>3, <3>1, <3>2, HeldEnds
  <2>4. QED
    BY <1>4, <2>2, <2>3 DEF FailJob, TransitionFrom, Transition
<1>5. CASE ReleaseSlot(j)
  <2>1. CASE UNCHANGED row
    BY <1>0, <1>5, <2>1, StageKept DEF ReleaseSlot
  <2>2. CASE Releasable(j) /\ SetRow(assigned[j], FreedRow)
    <3>1. row'[assigned[j]].current = NoJob /\ status[row[assigned[j]].current] \in Terminal
      BY <1>0, <2>2 DEF Releasable, SetRow, FreedRow, Terminal
    <3>2. \A q \in Printer : q # assigned[j] => row'[q] = row[q]
      BY <1>0, <2>2 DEF SetRow
    <3>3. QED
      BY <1>0, <1>5, <3>1, <3>2, OwnerYields DEF ReleaseSlot
  <2>3. QED
    BY <1>5, <2>1, <2>2 DEF ReleaseSlot
<1>6. CASE \/ TakeTask(j) \/ UploadFails(j) \/ StartRefused(j) \/ StartAdmitted(j)
           \/ Publish(j) \/ PublishRejected(j) \/ Acked(j) \/ NotAcked(j)
           \/ Confirmed(j) \/ Rejected(j) \/ TimedOut(j) \/ DbFault(j)
           \/ PublishQueued(j) \/ ReadConfirmed(j) \/ CommitLost(j)
  <2>1. UNCHANGED storeVars
    BY <1>6 DEF TakeTask, UploadFails, StartRefused, StartAdmitted, Publish,
       PublishRejected, Acked, NotAcked, Confirmed, Rejected, TimedOut, DbFault,
       PublishQueued, ReadConfirmed, CommitLost
  <2>2. QED
    BY <1>0, <2>1, StageKept DEF storeVars
<1>7. ~ReadSlot(j) /\ ~WriteSlot(j) /\ ~ReadMark(j) /\ ~WriteMark(j)
  BY <1>0 DEF ReadSlot, WriteSlot, ReadMark, WriteMark, NothingStale
<1>8. QED
  BY <1>1, <1>2, <1>3, <1>4, <1>5, <1>6, <1>7 DEF TaskStep

(* A report leaves every slot with its owner. *)
LEMMA ReportKeepsContract ==
    ASSUME ContractInv, TypeOK', NEW p \in Printer, ApplyReport(p)
    PROVE  [Slots!Next]_Slots!vars
<1> DEFINE j == row[p].current
           v == Verdict(status[j], report[p])
<1>0. /\ TypeOK /\ SlotOwned /\ OwnerIsHere
      /\ status \in [Job -> JobStatus] /\ row \in [Printer -> PrinterState]
  BY DEF ContractInv, SlotInv, TypeOK, StoreTypeOK
<1>1. assigned' = assigned /\ \A q \in Printer : row'[q].current = row[q].current
  BY <1>0 DEF ApplyReport, WriteStatus, WriteRunning, WriteEnd, SetRow, PrinterState
<1>2. CASE WriteStatus(p, report[p])
  BY <1>0, <1>1, <1>2, StageKept DEF WriteStatus
<1>3. CASE WriteRunning(p, report[p])
  <2>1. status[j] \in Physical
    BY <1>3 DEF WriteRunning, Verdict, Physical
  <2>2. status' = [status EXCEPT ![j] = "printing"]
    BY <1>3 DEF WriteRunning, Transition
  <2>3. \A k \in Job : Stage(status'[k]) = Stage(status[k])
    BY <1>0, <2>1, <2>2, StageTable DEF InFlight, Physical
  <2>4. QED
    BY <1>0, <1>1, <2>3, StageKept
<1>4. CASE WriteEnd(p, report[p])
  <2>1. /\ v \in {"attention", "completed", "failed"} /\ j \in Job
        /\ v \in Allowed[status[j]] /\ status' = [status EXCEPT ![j] = v]
    BY <1>0, <1>4 DEF WriteEnd, Blocked, Transition, PrinterState
  <2>2. status[j] \in Physical
    <3>1. status[j] \in Physical \/ v = status[j]
      BY DEF Verdict, Physical
    <3>2. QED
      BY <1>0, <2>1, <3>1 DEF Allowed, Physical
  <2>3. CASE v = "attention"
    <3>1. \A k \in Job : Stage(status'[k]) = Stage(status[k])
      BY <1>0, <2>1, <2>2, <2>3, StageTable DEF InFlight, Physical
    <3>2. QED
      BY <1>0, <1>1, <3>1, StageKept
  <2>4. CASE v \in Terminal
    <3>1. UNCHANGED SlotOwner
      BY <1>1 DEF SlotOwner
    <3>2. QED
      BY <1>0, <1>1, <2>1, <2>2, <2>4, <3>1, HeldEnds DEF InFlight
  <2>5. QED
    BY <2>1, <2>3, <2>4 DEF Terminal
<1>5. QED
  BY <1>2, <1>3, <1>4 DEF ApplyReport

(* The operator ends the job in attention with the slot it gives back, or  *)
(* gives back the slot of a job that has ended.                            *)
LEMMA OperatorKeepsContract ==
    ASSUME ContractInv, TypeOK', ~StaleWrites, NEW p \in Printer, OperatorStep(p)
    PROVE  [Slots!Next]_Slots!vars
<1> DEFINE j == row[p].current
<1>0. /\ TypeOK /\ SlotOwned /\ OwnerIsHere /\ NothingStale /\ UploadingIsClear
      /\ status \in [Job -> JobStatus] /\ row \in [Printer -> PrinterState]
  BY DEF ContractInv, SlotInv, TypeOK, StoreTypeOK
<1>1. CASE ClearPlate(p)
  <2>1. /\ row' = [row EXCEPT ![p] = [row[p] EXCEPT !.cleared = TRUE, !.current = NoJob]]
        /\ assigned' = assigned
    BY <1>1 DEF ClearPlate, SetRow
  <2>2. row'[p].current = NoJob /\ \A q \in Printer : q # p => row'[q] = row[q]
    BY <1>0, <2>1 DEF PrinterState
  <2>3. CASE InAttention(p)
    <3>1. j \in Job /\ assigned[j] = p /\ status[j] = "attention"
      BY <1>0, <2>3 DEF InAttention, OwnerIsHere, PrinterState
    <3>2. status' = [status EXCEPT ![j] = "failed"]
      BY <1>1, <2>3 DEF ClearPlate, Transition
    <3>3. SlotOwner' = [SlotOwner EXCEPT ![assigned[j]] = NoJob]
      BY <2>2, <3>1 DEF SlotOwner
    <3>4. status[j] \in InFlight /\ "failed" \in Terminal
      BY <3>1 DEF InFlight, Physical, Terminal
    <3>5. QED
      BY <1>0, <2>1, <3>1, <3>2, <3>3, <3>4, HeldEnds
  <2>4. CASE ~InAttention(p)
    <3>1. UNCHANGED <<status, assigned>>
      BY <1>1, <2>1, <2>4 DEF ClearPlate
    <3>2. j = NoJob \/ status[j] \in Terminal
      <4> SUFFICES ASSUME j # NoJob PROVE status[j] \in Terminal
        OBVIOUS
      <4>1. j \in Job /\ assigned[j] = p /\ status[j] \in InFlight \cup Terminal
        BY <1>0 DEF OwnerIsHere, PrinterState
      <4>2. status[j] \notin {"printing", "starting", "attention", "uploading"}
        BY <1>0, <1>1, <2>4, <4>1 DEF ClearPlate, Clearable, InAttention, UploadingIsClear
      <4>3. QED
        BY <4>1, <4>2 DEF InFlight, Physical
    <3>3. QED
      BY <1>0, <2>2, <3>1, <3>2, OwnerYields
  <2>5. QED
    BY <2>3, <2>4
<1>2. CASE AcknowledgeIdle(p)
  <2>1. \A q \in Printer : row'[q].current = row[q].current
    BY <1>0, <1>2 DEF AcknowledgeIdle, TakeForIdle, SetRow, PrinterState
  <2>2. QED
    BY <1>0, <1>2, <2>1, StageKept DEF AcknowledgeIdle, TakeForIdle
<1>3. /\ ~ReadPlate(p) /\ ~WritePlate(p) /\ ~AbortPlate(p)
      /\ ~AdmitIdle(p) /\ ~WriteIdle(p)
  BY <1>0 DEF ReadPlate, WritePlate, AbortPlate, AdmitIdle, WriteIdle, NothingStale
<1>4. QED
  BY <1>1, <1>2, <1>3 DEF OperatorStep

(* Reconciliation gives every slot to the job that already owned it.       *)
LEMMA ReconcileKeepsOwners ==
    ASSUME ContractInv, Reconcile, NEW p \in Printer
    PROVE  row'[p].current = row[p].current
<1>1. ASSUME NEW statuses \in SUBSET InFlight
      PROVE  \A k \in JobsOf(p, statuses) : k = row[p].current
  BY DEF ContractInv, SlotInv, SlotOwned, JobsOf
<1>2. {"printing"} \in SUBSET InFlight /\ {"uploading", "starting"} \in SUBSET InFlight
  BY DEF InFlight, Physical
<1>3. ASSUME NEW new \in RestoredRow(p) PROVE new.current = row[p].current
  <2>1. CASE JobsOf(p, {"printing"}) # {}
    BY <1>1, <1>2, <1>3, <2>1 DEF RestoredRow
  <2>2. CASE JobsOf(p, {"printing"}) = {} /\ JobsOf(p, {"uploading", "starting"}) # {}
    BY <1>1, <1>2, <1>3, <2>2 DEF RestoredRow
  <2>3. CASE JobsOf(p, {"printing"}) = {} /\ JobsOf(p, {"uploading", "starting"}) = {}
    BY <1>3, <2>3 DEF RestoredRow
  <2>4. QED
    BY <2>1, <2>2, <2>3
<1>4. QED
  BY <1>3 DEF Reconcile

(* So it takes no step of the contract.                                   *)
LEMMA ReconcileKeepsContract ==
    ASSUME ContractInv, TypeOK', Reconcile
    PROVE  [Slots!Next]_Slots!vars
<1>0. TypeOK /\ status \in [Job -> JobStatus]
  BY DEF ContractInv, SlotInv, TypeOK, StoreTypeOK
<1>1. \A j \in Job : Stage(status'[j]) = Stage(status[j])
  BY <1>0 DEF Reconcile, Recovered, Stage, InFlight, Physical, JobStatus, Terminal
<1>2. assigned' = assigned
  BY DEF Reconcile
<1>3. QED
  BY <1>0, <1>1, <1>2, ReconcileKeepsOwners, StageKept

(* Every step of the handoff is one of the contract, or none.              *)
LEMMA ContractStep ==
    ASSUME ContractInv, TypeOK', ~StaleWrites, [Next]_vars
    PROVE  [Slots!Next]_Slots!vars
<1>0. TypeOK
  BY DEF ContractInv, SlotInv
<1>1. CASE UNCHANGED storeVars
  BY <1>0, <1>1, StageKept DEF storeVars
<1>2. ASSUME NEW j \in Job, Dispatch(j) PROVE [Slots!Next]_Slots!vars
  BY <1>0, <1>2, DispatchClaims DEF Slots!Next
<1>3. ASSUME NEW j \in Job, Cancel(j) PROVE [Slots!Next]_Slots!vars
  BY <1>0, <1>3, CancelDrops DEF Slots!Next
<1>4. ASSUME NEW j \in Job, TaskStep(j) PROVE [Slots!Next]_Slots!vars
  BY <1>4, TaskKeepsContract
<1>5. ASSUME NEW p \in Printer, ApplyReport(p) PROVE [Slots!Next]_Slots!vars
  BY <1>5, ReportKeepsContract
<1>6. ASSUME NEW p \in Printer, OperatorStep(p) PROVE [Slots!Next]_Slots!vars
  BY <1>6, OperatorKeepsContract
<1>7. ASSUME NEW p \in Printer, ClientStep(p) \/ MachineStep(p) PROVE UNCHANGED storeVars
  BY <1>7 DEF ClientStep, Connect, Disconnect, DropClient, LoseReport, FullReport,
     PartialReport, Receive, MachineStep, BeginPrint, RefusePrint, LoseStart, EndPrint, TouchScreen
<1>8. ASSUME UNCHANGED vars \/ Stop \/ Exit \/ Crash \/ Boot PROVE UNCHANGED storeVars
  BY <1>8 DEF vars, Stop, Exit, Crash, Boot, ProcessGone, storeVars
<1>9. CASE Reconcile
  BY <1>9, ReconcileKeepsContract
<1>10. QED
  BY <1>1, <1>2, <1>3, <1>4, <1>5, <1>6, <1>7, <1>8, <1>9 DEF Next

----------------------------------------------------------------------------
(* No job is assigned anew: that is the scheduler's, before the handoff.   *)
LEMMA AssignedKept == ASSUME [Next]_vars PROVE assigned' = assigned
BY DEF Next, vars, storeVars, TaskStep, ClientStep, MachineStep, ApplyReport, OperatorStep,
   Dispatch, Cancel, TakeTask, UploadOk, UploadFails, StartRefused, StartAdmitted, Publish,
   PublishRejected, Acked, NotAcked, Confirmed, Rejected, TimedOut, PublishQueued,
   ReadConfirmed, CommitPrinting, CommitLost, MarkPlate, ReadMark, WriteMark, Quarantine, FailJob,
   ReleaseSlot, ReadSlot, WriteSlot, DbFault, Connect, Disconnect, DropClient, LoseReport,
   FullReport, PartialReport, Receive, ClearPlate, ReadPlate, WritePlate, AbortPlate,
   AcknowledgeIdle, AdmitIdle, TakeForIdle, WriteIdle, BeginPrint, RefusePrint,
   LoseStart, EndPrint, TouchScreen, Stop, Exit, Crash, ProcessGone, Boot, Reconcile

(* Every step keeps the owners where they are: a slot is claimed by a job  *)
(* assigned to it, and no owner goes back to the queue.                    *)
LEMMA OwnerStep ==
    ASSUME ContractInv, TypeOK', ~StaleWrites, [Next]_vars
    PROVE  OwnerIsHere'
<1> SUFFICES ASSUME NEW p \in Printer, row'[p].current # NoJob
             PROVE  /\ assigned'[row'[p].current] = p
                    /\ status'[row'[p].current] \in InFlight \cup Terminal
  BY DEF OwnerIsHere
<1> DEFINE k == row'[p].current
<1>0. /\ TypeOK /\ OwnerIsHere /\ k \in Job /\ assigned \in [Job -> Printer]
      /\ status \in [Job -> JobStatus] /\ row \in [Printer -> PrinterState]
  BY DEF ContractInv, SlotInv, TypeOK, StoreTypeOK, PrinterState
<1>1. assigned' = assigned
  BY AssignedKept
<1>2. [Slots!Next]_Slots!vars
  BY ContractStep
<1>3. SlotOwner'[p] = k /\ SlotOwner[p] = row[p].current
  BY DEF SlotOwner
<1>4. CASE k = row[p].current
  <2>1. assigned[k] = p /\ status[k] \in InFlight \cup Terminal
    BY <1>0, <1>4 DEF OwnerIsHere
  <2>2. status[k] \in Handed \cup {"uploading"} => status'[k] \in Handed \cup {"uploading"}
    BY <1>0, StatusMoves
  <2>3. status[k] \in Terminal => status'[k] = status[k]
    BY <1>0, StatusMoves
  <2>4. QED
    BY <1>1, <2>1, <2>2, <2>3 DEF Handed, InFlight, Terminal
<1>5. CASE k # row[p].current
  <2>1. PICK j \in Job : Slots!Claim(j) /\ k = j /\ SlotAt[j] = p
    <3>1. SlotOwner'[p] # SlotOwner[p] /\ SlotOwner'[p] # NoJob /\ DOMAIN SlotOwner = Printer
      BY <1>3, <1>5 DEF SlotOwner
    <3>2. SlotOwner' # SlotOwner
      BY <3>1
    <3>3. ASSUME NEW j \in Job, Slots!Enqueue(j) \/ Slots!TakeBack(j) \/ Slots!Drop(j) PROVE FALSE
      BY <3>2, <3>3 DEF Slots!Enqueue, Slots!TakeBack, Slots!Drop
    <3>4. ASSUME NEW j \in Job, Slots!End(j) PROVE FALSE
      BY <3>1, <3>4 DEF Slots!End
    <3>5. ASSUME NEW q \in Printer, Slots!Yield(q) PROVE FALSE
      BY <3>1, <3>5 DEF Slots!Yield
    <3>6. PICK j \in Job : Slots!Claim(j)
      BY <1>2, <3>2, <3>3, <3>4, <3>5 DEF Slots!Next, Slots!vars
    <3>7. SlotOwner' = [SlotOwner EXCEPT ![SlotAt[j]] = j]
      BY <3>6 DEF Slots!Claim
    <3>8. SlotAt[j] = p /\ SlotOwner'[p] = j
      BY <3>1, <3>7
    <3>9. QED
      BY <1>3, <3>6, <3>8
  <2>2. SlotStage'[j] = "held" /\ SlotStage[j] = "queued"
    BY <2>1 DEF Slots!Claim, SlotStage
  <2>3. assigned[j] = p
    BY <2>1, <2>2 DEF SlotAt
  <2>4. status'[j] \in InFlight
    BY <2>2 DEF SlotStage, Stage, TypeOK, StoreTypeOK, JobStatus, InFlight, Physical, Terminal
  <2>5. QED
    BY <1>1, <2>1, <2>3, <2>4
<1>6. QED
  BY <1>4, <1>5

(* The handoff starts where the contract does, with nothing held.          *)
LEMMA ContractInit == Init => ContractInv /\ Slots!Init
<1> SUFFICES ASSUME Init PROVE ContractInv /\ Slots!Init
  OBVIOUS
<1>1. ContractInv
  BY SlotInit, StartInit, SeedRowType DEF ContractInv, OwnerIsHere, Init, SeedRow
<1>2. SlotStage = [j \in Job |-> "queued"]
  BY StageTable DEF Init, SlotStage
<1>3. SlotAt = assigned /\ assigned \in [Job -> Printer]
  BY <1>2 DEF Init, SlotAt
<1>4. SlotOwner = [p \in Printer |-> NoJob]
  BY DEF Init, SlotOwner, SeedRow
<1>5. Slots!Init
  BY <1>2, <1>3, <1>4, StoreAssumption DEF Slots!Init
<1>6. QED
  BY <1>1, <1>5

(* The inductive invariant of the handoff: slots, owners and starts.       *)
THEOREM ContractInvariant == ~StaleWrites => (Spec => []ContractInv)
<1> SUFFICES ASSUME ~StaleWrites PROVE Spec => []ContractInv
  OBVIOUS
<1>1. ContractInv /\ [Next]_vars => ContractInv'
  BY TypeStep, SlotStep, NothingStaleStep, StartStep, OwnerStep DEF ContractInv, SlotInv
<1>2. QED
  BY <1>1, ContractInit, PTL DEF Spec

(* The handoff implements the contract on the slots.                       *)
THEOREM HandoffKeepsContract == ~StaleWrites => (Spec => SlotsKept)
<1> SUFFICES ASSUME ~StaleWrites PROVE Spec => SlotsKept
  OBVIOUS
<1>1. ContractInv /\ ContractInv' /\ [Next]_vars => [Slots!Next]_Slots!vars
  BY ContractStep DEF ContractInv, SlotInv
<1>2. QED
  BY <1>1, ContractInit, ContractInvariant, PTL DEF Spec, SlotsKept, Slots!Spec
=============================================================================
