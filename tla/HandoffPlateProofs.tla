------------------------- MODULE HandoffPlateProofs -------------------------
(***************************************************************************)
(* The printers themselves, for any number of jobs, printers, threads,     *)
(* crashes and failed transactions, as long as the three other handlers    *)
(* write what they read.  Of a sound printer: a start is only sent to its  *)
(* free plate, a job is "printing" only if it began it, and every step of  *)
(* the service, the operator and the printer is a step of PlateProtocol or *)
(* none.  Of every printer: a started job keeps its slot until the plate   *)
(* is cleared, unless its own task has misjudged its start.                *)
(***************************************************************************)
EXTENDS HandoffSlotProofs

(* What every state of the proofs below says of the variables.             *)
LEMMA PlateTypes ==
    ASSUME ContractInv
    PROVE  /\ TypeOK /\ SlotOwned /\ OwnerIsHere /\ NothingStale /\ UploadingIsClear
           /\ \A j \in Job : StartOK(j)
           /\ status \in [Job -> JobStatus] /\ assigned \in [Job -> Printer]
           /\ row \in [Printer -> PrinterState] /\ task \in [Job -> TaskType]
           /\ client \in [Printer -> ClientType]
           /\ report \in [Printer -> Snapshot \cup {NoSnapshot}]
           /\ machine \in [Printer -> MachineType]
           /\ wire \in [Printer -> SUBSET Job] /\ starts \in [Job -> Nat]
           /\ began \in SUBSET Job /\ misjudged \in SUBSET Job
BY DEF ContractInv, SlotInv, StartInv, TypeOK, StoreTypeOK

(* Only a publish counts a start, and only a publish, the operator and the *)
(* printer itself touch a printer.                                         *)
LEMMA PrinterLeftAlone ==
    ASSUME ContractInv, ~StaleWrites, [Next]_vars
    PROVE  \/ \E j \in Job : Publish(j) \/ PublishQueued(j)
           \/ \E p \in Printer : ClearPlate(p) \/ MachineStep(p)
           \/ UNCHANGED <<starts, machine, wire, began>>
<1> DEFINE Alone == UNCHANGED <<starts, machine, wire, began>>
<1>1. CASE UNCHANGED vars
  BY <1>1 DEF vars, taskVars, machineVars
<1>2. ASSUME NEW j \in Job, Dispatch(j) \/ Cancel(j) PROVE Alone
  BY <1>2 DEF Dispatch, Cancel, taskVars, machineVars
<1>3. ASSUME NEW j \in Job, TaskStep(j), ~Publish(j), ~PublishQueued(j) PROVE Alone
  BY <1>3 DEF TaskStep, TakeTask, UploadOk, UploadFails, StartRefused, StartAdmitted,
     PublishRejected, Acked, NotAcked, Confirmed, Rejected, TimedOut, ReadConfirmed,
     CommitPrinting, CommitLost, MarkPlate, ReadMark, WriteMark, Quarantine, FailJob,
     ReleaseSlot, ReadSlot, WriteSlot, DbFault, machineVars
<1>4. ASSUME NEW p \in Printer, ClientStep(p) \/ ApplyReport(p) PROVE Alone
  BY <1>4 DEF ClientStep, Connect, Disconnect, DropClient, LoseReport, FullReport,
     PartialReport, Receive, ApplyReport, taskVars, machineVars
<1>5. ASSUME NEW p \in Printer, OperatorStep(p), ~ClearPlate(p) PROVE Alone
  BY <1>5 DEF OperatorStep, ReadPlate, WritePlate, AbortPlate, AcknowledgeIdle, AdmitIdle,
     TakeForIdle, WriteIdle, ContractInv, SlotInv, taskVars, machineVars
<1>6. CASE Stop \/ Exit \/ Crash \/ Boot \/ Reconcile
  BY <1>6 DEF Stop, Exit, Crash, ProcessGone, Boot, Reconcile, taskVars, machineVars
<1>7. QED
  BY <1>1, <1>2, <1>3, <1>4, <1>5, <1>6 DEF Next

(* What a printer began stays begun.                                       *)
LEMMA BeganGrows ==
    ASSUME ContractInv, ~StaleWrites, [Next]_vars
    PROVE  began \subseteq began'
<1>1. ASSUME NEW j \in Job, Publish(j) \/ PublishQueued(j) PROVE began' = began
  BY <1>1 DEF Publish, PublishQueued
<1>2. ASSUME NEW p \in Printer, ClearPlate(p) PROVE began' = began
  BY <1>2 DEF ClearPlate
<1>3. ASSUME NEW p \in Printer, MachineStep(p) PROVE began \subseteq began'
  BY <1>3 DEF MachineStep, BeginPrint, RefusePrint, LoseStart, EndPrint, TouchScreen
<1>4. QED
  BY <1>1, <1>2, <1>3, PrinterLeftAlone

(* A printer is no longer sound when a task takes its start for none or a  *)
(* report of it is lost, and every other printer is what it was.           *)
LEMMA SoundMoves ==
    ASSUME [Next]_vars
    PROVE  \/ UNCHANGED <<misjudged, unheard>>
           \/ \E j \in Job : /\ PublishQueued(j) \/ CommitLost(j) \/ DbFault(j)
                             /\ misjudged' = misjudged \cup {j} /\ unheard' = unheard
           \/ \E p \in Printer : /\ LoseReport(p) /\ misjudged' = misjudged
                                 /\ unheard' = unheard \cup {p}
<1> DEFINE Same == UNCHANGED <<misjudged, unheard>>
<1>1. ASSUME UNCHANGED vars \/ Stop \/ Exit \/ Crash \/ Boot \/ Reconcile PROVE Same
  BY <1>1 DEF vars, Stop, Exit, Crash, ProcessGone, Boot, Reconcile, taskVars, bounds
<1>2. ASSUME NEW j \in Job, Dispatch(j) \/ Cancel(j) PROVE Same
  BY <1>2 DEF Dispatch, Cancel, taskVars, bounds
<1>3. ASSUME NEW j \in Job, TaskStep(j), ~PublishQueued(j), ~CommitLost(j), ~DbFault(j) PROVE Same
  BY <1>3 DEF TaskStep, TakeTask, UploadOk, UploadFails, StartRefused, StartAdmitted, Publish,
     PublishRejected, Acked, NotAcked, Confirmed, Rejected, TimedOut, ReadConfirmed,
     CommitPrinting, MarkPlate, ReadMark, WriteMark, Quarantine, FailJob, ReleaseSlot, ReadSlot,
     WriteSlot, bounds
<1>4. ASSUME NEW j \in Job, PublishQueued(j) \/ CommitLost(j)
      PROVE  misjudged' = misjudged \cup {j} /\ unheard' = unheard
  BY <1>4 DEF PublishQueued, CommitLost, bounds
<1>5. ASSUME NEW j \in Job, DbFault(j)
      PROVE  misjudged' \in {misjudged, misjudged \cup {j}} /\ unheard' = unheard
  BY <1>5 DEF DbFault
<1>6. ASSUME NEW p \in Printer, ClientStep(p), ~LoseReport(p) PROVE Same
  BY <1>6 DEF ClientStep, Connect, Disconnect, DropClient, FullReport, PartialReport, Receive,
     taskVars, bounds
<1>7. ASSUME NEW p \in Printer, LoseReport(p)
      PROVE  misjudged' = misjudged /\ unheard' \in {unheard, unheard \cup {p}}
  BY <1>7 DEF LoseReport, taskVars
<1>8. ASSUME NEW p \in Printer, ApplyReport(p) \/ OperatorStep(p) \/ MachineStep(p) PROVE Same
  BY <1>8 DEF ApplyReport, OperatorStep, ClearPlate, ReadPlate, WritePlate, AbortPlate,
     AcknowledgeIdle, AdmitIdle, TakeForIdle, WriteIdle, MachineStep, BeginPrint, RefusePrint,
     LoseStart, EndPrint, TouchScreen, taskVars, bounds
<1>9. ASSUME NEW j \in Job, TaskStep(j)
      PROVE  \/ Same
             \/ /\ PublishQueued(j) \/ CommitLost(j) \/ DbFault(j)
                /\ misjudged' = misjudged \cup {j} /\ unheard' = unheard
  BY <1>3, <1>4, <1>5, <1>9
<1>10. ASSUME NEW p \in Printer, ClientStep(p)
       PROVE  Same \/ (LoseReport(p) /\ misjudged' = misjudged /\ unheard' = unheard \cup {p})
  BY <1>6, <1>7, <1>10
<1>11. QED
  BY <1>1, <1>2, <1>8, <1>9, <1>10 DEF Next

(* A printer that is sound was sound before. *)
LEMMA SoundBefore ==
    ASSUME [Next]_vars, NEW p \in Printer, Sound(p)'
    PROVE  Sound(p)
<1>1. misjudged \subseteq misjudged' /\ unheard \subseteq unheard' /\ assigned' = assigned
  BY SoundMoves, AssignedKept
<1>2. QED
  BY <1>1 DEF Sound

(* A slot changes hands when it is claimed, given back by the task of its  *)
(* failed job, or cleared by the operator.                                 *)
LEMMA OwnersMove ==
    ASSUME ContractInv, ~StaleWrites, [Next]_vars, NEW p \in Printer
    PROVE  \/ row'[p].current = row[p].current
           \/ \E j \in Job : Dispatch(j) /\ assigned[j] = p
           \/ \E j \in Job : ReleaseSlot(j) /\ assigned[j] = p /\ row[p].current = j
           \/ ClearPlate(p)
<1> USE PlateTypes
<1> DEFINE Same == row'[p].current = row[p].current
<1>1. CASE UNCHANGED row
  BY <1>1
<1>2. ASSUME NEW j \in Job, Dispatch(j), assigned[j] # p PROVE Same
  BY <1>2 DEF Dispatch, SetRow
<1>3. ASSUME NEW j \in Job, Cancel(j) PROVE UNCHANGED row
  BY <1>3 DEF Cancel
<1>4. ASSUME NEW j \in Job, TaskStep(j)
      PROVE  Same \/ (ReleaseSlot(j) /\ assigned[j] = p /\ row[p].current = j)
  <2>1. CASE CommitPrinting(j) \/ MarkPlate(j)
    BY <2>1 DEF CommitPrinting, MarkPlate, SetRow, PrinterState
  <2>2. CASE Quarantine(j)
    <3>1. status[j] = "starting" => row[assigned[j]].current = j
      BY DEF SlotOwned, InFlight, Physical
    <3>2. QED
      BY <2>2, <3>1 DEF Quarantine, Transition, SetRow
  <2>3. CASE ReleaseSlot(j)
    BY <2>3 DEF ReleaseSlot, Releasable, SetRow
  <2>4. CASE \/ UploadOk(j) \/ FailJob(j) \/ TakeTask(j) \/ UploadFails(j) \/ StartRefused(j)
             \/ StartAdmitted(j) \/ Publish(j) \/ PublishRejected(j) \/ Acked(j) \/ NotAcked(j)
             \/ Confirmed(j) \/ Rejected(j) \/ TimedOut(j) \/ DbFault(j)
             \/ PublishQueued(j) \/ ReadConfirmed(j) \/ CommitLost(j)
    BY <2>4 DEF UploadOk, FailJob, TakeTask, UploadFails, StartRefused, StartAdmitted, Publish,
       PublishRejected, Acked, NotAcked, Confirmed, Rejected, TimedOut, DbFault, PublishQueued,
       ReadConfirmed, CommitLost, storeVars
  <2>5. ~ReadSlot(j) /\ ~WriteSlot(j) /\ ~ReadMark(j) /\ ~WriteMark(j)
    BY DEF ReadSlot, WriteSlot, ReadMark, WriteMark, NothingStale
  <2>6. QED
    BY <1>4, <2>1, <2>2, <2>3, <2>4, <2>5 DEF TaskStep
<1>5. ASSUME NEW q \in Printer, ApplyReport(q) PROVE Same
  <2>1. CASE WriteStatus(q, report[q]) \/ WriteRunning(q, report[q])
    <3>1. row' = [row EXCEPT ![q] = [row[q] EXCEPT !.status = report[q].status]]
      BY <2>1 DEF WriteStatus, WriteRunning, SetRow
    <3>2. QED
      BY <3>1 DEF PrinterState
  <2>2. CASE WriteEnd(q, report[q])
    BY <2>2 DEF WriteEnd, SetRow
  <2>3. QED
    BY <1>5, <2>1, <2>2 DEF ApplyReport
<1>6. ASSUME NEW q \in Printer, OperatorStep(q) PROVE Same \/ ClearPlate(p)
  <2>1. CASE ClearPlate(q) /\ q # p
    BY <2>1 DEF ClearPlate, SetRow
  <2>2. CASE AcknowledgeIdle(q)
    BY <2>2 DEF AcknowledgeIdle, TakeForIdle, SetRow, PrinterState
  <2>3. /\ ~ReadPlate(q) /\ ~WritePlate(q) /\ ~AbortPlate(q)
        /\ ~AdmitIdle(q) /\ ~WriteIdle(q)
    BY DEF ReadPlate, WritePlate, AbortPlate, AdmitIdle, WriteIdle, NothingStale
  <2>4. QED
    BY <1>6, <2>1, <2>2, <2>3 DEF OperatorStep
<1>7. ASSUME NEW q \in Printer, ClientStep(q) \/ MachineStep(q) PROVE UNCHANGED row
  BY <1>7 DEF ClientStep, Connect, Disconnect, DropClient, LoseReport, FullReport,
     PartialReport, Receive, MachineStep, BeginPrint, RefusePrint, LoseStart, EndPrint,
     TouchScreen, storeVars
<1>8. CASE UNCHANGED vars \/ Stop \/ Exit \/ Crash \/ Boot
  BY <1>8 DEF vars, Stop, Exit, Crash, Boot, ProcessGone, storeVars
<1>9. CASE Reconcile
  BY <1>9, ReconcileKeepsOwners
<1>10. QED
  BY <1>1, <1>2, <1>3, <1>4, <1>5, <1>6, <1>7, <1>8, <1>9 DEF Next

----------------------------------------------------------------------------
(* How a task comes to be about to publish, or to believe that its job was *)
(* started.                                                                *)
LEMMA TaskMoves ==
    ASSUME ContractInv, ~StaleWrites, [Next]_vars, NEW k \in Job
    PROVE  /\ task'[k].pc \in {"guard", "publish"} =>
                 task[k].pc \in {"guard", "publish"} \/ UploadOk(k)
           /\ task'[k].pc \in {"confirmed", "commit"} =>
                 task[k].pc \in {"confirmed", "commit"} \/ Confirmed(k)
<1> USE PlateTypes
<1> DEFINE Moves ==
             /\ task'[k].pc \in {"guard", "publish"} =>
                   task[k].pc \in {"guard", "publish"} \/ UploadOk(k)
             /\ task'[k].pc \in {"confirmed", "commit"} =>
                   task[k].pc \in {"confirmed", "commit"} \/ Confirmed(k)
<1>1. CASE UNCHANGED task
  BY <1>1
<1>2. ASSUME NEW j \in Job, Dispatch(j) \/ Cancel(j) PROVE Moves
  BY <1>2 DEF Dispatch, Cancel, taskVars, TaskType
<1>3. ASSUME NEW j \in Job, TaskStep(j) PROVE Moves
  <2>1. CASE j # k
    <3>1. task'[k] = task[k]
      BY <1>3, <2>1 DEF TaskStep, Goto, Ended, TakeTask, UploadOk, UploadFails, StartRefused,
         StartAdmitted, Publish, PublishRejected, PublishQueued, Acked, NotAcked, Confirmed,
         Rejected, TimedOut, ReadConfirmed, CommitPrinting, CommitLost, MarkPlate, ReadMark,
         WriteMark, Quarantine, FailJob, ReleaseSlot, ReadSlot, WriteSlot, DbFault
    <3>2. QED
      BY <3>1
  <2>2. CASE j = k
    <3>1. ASSUME NEW pc, Goto(k, pc) PROVE task'[k].pc = pc
      BY <3>1 DEF Goto, TaskType
    <3>2. ASSUME Ended(k) PROVE task'[k].pc = "none"
      BY <3>2 DEF Ended, IdleTask
    <3>3. CASE \/ TakeTask(k) \/ Acked(k) \/ NotAcked(k) \/ Rejected(k) \/ TimedOut(k)
               \/ Publish(k) \/ PublishQueued(k) \/ CommitLost(k) \/ FailJob(k)
      BY <3>1, <3>3 DEF TakeTask, Acked, NotAcked, Rejected, TimedOut, Publish, PublishQueued,
         CommitLost, FailJob
    <3>4. CASE CommitPrinting(k) \/ MarkPlate(k) \/ Quarantine(k) \/ ReleaseSlot(k)
      BY <3>2, <3>4 DEF CommitPrinting, MarkPlate, Quarantine, ReleaseSlot
    <3>5. CASE UploadFails(k) \/ StartRefused(k) \/ PublishRejected(k)
      BY <3>1, <3>5 DEF UploadFails, StartRefused, PublishRejected
    <3>6. CASE UploadOk(k) \/ Confirmed(k)
      BY <3>1, <3>6 DEF UploadOk, Confirmed
    <3>7. CASE ReadConfirmed(k) \/ DbFault(k)
      BY <3>1, <3>2, <3>7 DEF ReadConfirmed, DbFault
    <3>8. CASE StartAdmitted(k)
      BY <3>8 DEF StartAdmitted, TaskType
    <3>9. ~ReadSlot(k) /\ ~WriteSlot(k) /\ ~ReadMark(k) /\ ~WriteMark(k)
      BY DEF ReadSlot, WriteSlot, ReadMark, WriteMark, NothingStale
    <3>10. QED
      BY <1>3, <2>2, <3>3, <3>4, <3>5, <3>6, <3>7, <3>8, <3>9 DEF TaskStep
  <2>3. QED
    BY <2>1, <2>2
<1>4. ASSUME NEW p \in Printer, ClientStep(p) PROVE task'[k].pc = task[k].pc
  <2>1. CASE FullReport(p) \/ PartialReport(p)
    <3>1. task'[k] \in {task[k], [task[k] EXCEPT !.fresh = TRUE]}
      BY <2>1 DEF FullReport, PartialReport, Receive
    <3>2. QED
      BY <3>1 DEF TaskType
  <2>2. CASE Connect(p) \/ Disconnect(p) \/ DropClient(p) \/ LoseReport(p)
    BY <2>2 DEF Connect, Disconnect, DropClient, LoseReport, taskVars
  <2>3. QED
    BY <1>4, <2>1, <2>2 DEF ClientStep
<1>5. ASSUME NEW p \in Printer, ApplyReport(p) \/ OperatorStep(p) \/ MachineStep(p)
      PROVE  UNCHANGED task
  BY <1>5 DEF ApplyReport, OperatorStep, ClearPlate, ReadPlate, WritePlate, AbortPlate,
     AcknowledgeIdle, AdmitIdle, TakeForIdle, WriteIdle, MachineStep, BeginPrint, RefusePrint,
     LoseStart, EndPrint, TouchScreen, taskVars
<1>6. CASE Stop \/ Exit \/ Crash
  BY <1>6 DEF Stop, Exit, Crash, ProcessGone, IdleTask
<1>7. CASE UNCHANGED vars \/ Boot \/ Reconcile
  BY <1>7 DEF vars, Boot, Reconcile, taskVars
<1>8. QED
  BY <1>1, <1>2, <1>3, <1>4, <1>5, <1>6, <1>7 DEF Next

(* A job becomes "printing" by a report of its printer or by the task that *)
(* started it.                                                             *)
LEMMA PrintingMoves ==
    ASSUME ContractInv, ~StaleWrites, [Next]_vars, NEW k \in Job, status'[k] = "printing"
    PROVE  \/ status[k] = "printing"
           \/ CommitPrinting(k) /\ status[k] = "starting"
           \/ \E p \in Printer : report[p].status = "printing" /\ row[p].current = k
<1> USE PlateTypes
<1>1. CASE status'[k] = status[k]
  BY <1>1
<1>2. ASSUME NEW j \in Job, Dispatch(j) \/ Cancel(j) PROVE status[k] = "printing"
  BY <1>2 DEF Dispatch, Cancel, TransitionFrom, Transition
<1>3. ASSUME NEW j \in Job, TaskStep(j)
      PROVE  status'[k] = status[k] \/ (CommitPrinting(k) /\ status[k] = "starting")
  <2>1. CASE CommitPrinting(j)
    BY <2>1 DEF CommitPrinting, Transition
  <2>2. CASE UploadOk(j) \/ Quarantine(j) \/ FailJob(j)
    BY <2>2 DEF UploadOk, Quarantine, FailJob, TransitionFrom, Transition
  <2>3. CASE \/ ReleaseSlot(j) \/ TakeTask(j) \/ UploadFails(j) \/ StartRefused(j)
             \/ StartAdmitted(j) \/ Publish(j) \/ PublishRejected(j) \/ Acked(j) \/ NotAcked(j)
             \/ Confirmed(j) \/ Rejected(j) \/ TimedOut(j) \/ DbFault(j)
             \/ PublishQueued(j) \/ ReadConfirmed(j) \/ CommitLost(j) \/ MarkPlate(j)
    BY <2>3 DEF ReleaseSlot, TakeTask, UploadFails, StartRefused, StartAdmitted, Publish,
       PublishRejected, Acked, NotAcked, Confirmed, Rejected, TimedOut, DbFault, PublishQueued,
       ReadConfirmed, CommitLost, MarkPlate, storeVars
  <2>4. ~ReadSlot(j) /\ ~WriteSlot(j) /\ ~ReadMark(j) /\ ~WriteMark(j)
    BY DEF ReadSlot, WriteSlot, ReadMark, WriteMark, NothingStale
  <2>5. QED
    BY <1>3, <2>1, <2>2, <2>3, <2>4 DEF TaskStep
<1>4. ASSUME NEW p \in Printer, ApplyReport(p)
      PROVE  status'[k] = status[k] \/ (report[p].status = "printing" /\ row[p].current = k)
  <2>1. CASE WriteStatus(p, report[p])
    BY <2>1 DEF WriteStatus
  <2>2. CASE WriteRunning(p, report[p])
    <3>1. row[p].current # k => status'[k] = status[k]
      BY <2>2 DEF WriteRunning, Transition
    <3>2. report[p].status = "printing" \/ Verdict(status[k], report[p]) = status[k]
          \/ Verdict(status[k], report[p]) # "printing"
      BY DEF Verdict
    <3>3. QED
      BY <2>2, <3>1, <3>2 DEF WriteRunning, Transition
  <2>3. CASE WriteEnd(p, report[p])
    BY <2>3 DEF WriteEnd, Transition, Blocked
  <2>4. QED
    BY <1>4, <2>1, <2>2, <2>3 DEF ApplyReport
<1>5. ASSUME NEW p \in Printer, OperatorStep(p) PROVE status'[k] = status[k]
  BY <1>5 DEF OperatorStep, ClearPlate, ReadPlate, WritePlate, AbortPlate, AcknowledgeIdle,
     AdmitIdle, WriteIdle, NothingStale, Transition, storeVars
<1>6. ASSUME NEW p \in Printer, ClientStep(p) \/ MachineStep(p) PROVE UNCHANGED status
  BY <1>6 DEF ClientStep, Connect, Disconnect, DropClient, LoseReport, FullReport,
     PartialReport, Receive, MachineStep, BeginPrint, RefusePrint, LoseStart, EndPrint,
     TouchScreen, storeVars
<1>7. CASE UNCHANGED vars \/ Stop \/ Exit \/ Crash \/ Boot
  BY <1>7 DEF vars, Stop, Exit, Crash, Boot, ProcessGone, storeVars
<1>8. CASE Reconcile
  BY <1>8 DEF Reconcile, Recovered
<1>9. QED
  BY <1>1, <1>2, <1>3, <1>4, <1>5, <1>6, <1>7, <1>8 DEF Next

----------------------------------------------------------------------------
(* What a sound slot's owner was started for changes only when a start is  *)
(* published to a free plate or the operator clears the plate.             *)
LEMMA LoadMoves ==
    ASSUME PlateInv, ~StaleWrites, [Next]_vars, NEW p \in Printer, Sound(p)'
    PROVE  \/ Load(p)' = Load(p)
           \/ \E j \in Job : /\ Publish(j) /\ assigned[j] = p
                             /\ Load(p) = NoJob /\ Load(p)' = j
           \/ ClearPlate(p) /\ Load(p)' = NoJob
<1> USE PlateTypes DEF Load
<1>0. ContractInv /\ StartsMatch /\ Sound(p)
  BY SoundBefore DEF PlateInv
<1>1. ASSUME NEW j \in Job, Dispatch(j), assigned[j] = p PROVE Load(p)' = Load(p)
  <2>1. starts' = starts /\ row[p].current = NoJob /\ row'[p].current = j /\ status[j] = "queued"
    BY <1>0, <1>1 DEF Dispatch, Available, SetRow, Transition, PrinterState
  <2>2. ~(starts[j] > 0)
    BY <1>0, <2>1 DEF StartOK, Handed, Physical
  <2>3. QED
    BY <2>1, <2>2
<1>2. ASSUME NEW j \in Job, ReleaseSlot(j), assigned[j] = p, row[p].current = j
      PROVE  Load(p)' = Load(p)
  <2>1. starts[j] = 0 /\ starts' = starts
    BY <1>0, <1>2 DEF ReleaseSlot, StartOK, Sound
  <2>2. row'[p].current \in {j, NoJob}
    BY <1>0, <1>2 DEF ReleaseSlot, SetRow, FreedRow
  <2>3. QED
    BY <1>2, <2>1, <2>2
<1>3. ASSUME ClearPlate(p) PROVE Load(p)' = NoJob
  BY <1>0, <1>3 DEF ClearPlate, SetRow, PrinterState
<1>4. ASSUME row'[p].current = row[p].current, NEW j \in Job, Publish(j)
      PROVE  \/ Load(p)' = Load(p)
             \/ assigned[j] = p /\ Load(p) = NoJob /\ Load(p)' = j
  <2>1. starts' = [starts EXCEPT ![j] = @ + 1] /\ starts[j] = 0 /\ row[assigned[j]].current = j
    BY <1>0, <1>4 DEF Publish, StartsMatch, StartOK
  <2>2. CASE assigned[j] = p
    BY <1>0, <1>4, <2>1, <2>2, StoreAssumption
  <2>3. CASE assigned[j] # p
    <3>1. row[p].current # j
      BY <1>0, <2>3, StoreAssumption DEF OwnerIsHere
    <3>2. row[p].current # NoJob => row[p].current \in Job
      BY <1>0 DEF PrinterState
    <3>3. QED
      BY <1>0, <1>4, <2>1, <3>1, <3>2
  <2>4. QED
    BY <2>2, <2>3
<1>5. ASSUME row'[p].current = row[p].current, NEW j \in Job, PublishQueued(j)
      PROVE  Load(p)' = Load(p)
  <2>1. assigned' = assigned /\ j \in misjudged' /\ starts' = [starts EXCEPT ![j] = @ + 1]
    BY <1>5 DEF PublishQueued, storeVars
  <2>2. assigned[j] # p
    BY <2>1 DEF Sound
  <2>3. row[p].current # j
    BY <1>0, <2>2, StoreAssumption DEF OwnerIsHere
  <2>4. row[p].current # NoJob => row[p].current \in Job
    BY <1>0 DEF PrinterState
  <2>5. QED
    BY <1>0, <1>5, <2>1, <2>3, <2>4
<1>6. ASSUME row'[p].current = row[p].current,
             ~(\E j \in Job : Publish(j) \/ PublishQueued(j))
      PROVE  Load(p)' = Load(p)
  <2>1. ASSUME NEW q \in Printer, ClearPlate(q) \/ MachineStep(q) PROVE starts' = starts
    BY <2>1 DEF ClearPlate, MachineStep, BeginPrint, RefusePrint, LoseStart, EndPrint,
       TouchScreen, taskVars
  <2>2. starts' = starts
    BY <1>0, <1>6, <2>1, PrinterLeftAlone
  <2>3. QED
    BY <1>6, <2>2
<1>7. QED
  BY <1>0, <1>1, <1>2, <1>3, <1>4, <1>5, <1>6, OwnersMove

----------------------------------------------------------------------------
(* A task that is about to publish keeps its slot until it has, and no     *)
(* command or print comes from nowhere.                                    *)
LEMMA StartsStep ==
    ASSUME PlateInv, SlotOwned', ~StaleWrites, [Next]_vars
    PROVE  StartsMatch'
<1> USE PlateTypes
<1>0. /\ ContractInv /\ StartsMatch /\ assigned' = assigned /\ began \subseteq began'
  BY AssignedKept, BeganGrows DEF PlateInv
<1>1. ASSUME NEW k \in Job, task'[k].pc \in {"guard", "publish"}
      PROVE  row'[assigned[k]].current = k
  <2> DEFINE p == assigned[k]
  <2>1. CASE task[k].pc \in {"guard", "publish"}
    <3>1. row[p].current = k /\ k # NoJob
      BY <1>0, <2>1, StoreAssumption DEF StartsMatch
    <3>2. ASSUME NEW j \in Job, Dispatch(j), assigned[j] = p PROVE FALSE
      BY <3>1, <3>2 DEF Dispatch, Available
    <3>3. ASSUME NEW j \in Job, ReleaseSlot(j), row[p].current = j PROVE FALSE
      BY <2>1, <3>1, <3>3 DEF ReleaseSlot
    <3>4. ~ClearPlate(p)
      BY <2>1 DEF ClearPlate, Inspected
    <3>5. QED
      BY <1>0, <3>1, <3>2, <3>3, <3>4, OwnersMove
  <2>2. CASE UploadOk(k)
    <3>1. status'[k] \in InFlight
      BY <1>0, <2>2 DEF UploadOk, Transition, InFlight, Physical
    <3>2. QED
      BY <1>0, <3>1 DEF SlotOwned
  <2>3. QED
    BY <1>0, <1>1, <2>1, <2>2, TaskMoves
<1> DEFINE Sent == /\ \A j \in began' : starts'[j] > 0
                   /\ \A p \in Printer : \A j \in wire'[p] : assigned[j] = p /\ starts'[j] > 0
<1>2. ASSUME NEW j \in Job, Publish(j) \/ PublishQueued(j) PROVE Sent
  <2>1. /\ starts' = [starts EXCEPT ![j] = @ + 1] /\ began' = began
        /\ wire' = [wire EXCEPT ![assigned[j]] = @ \cup {j}]
    BY <1>2 DEF Publish, PublishQueued
  <2>2. starts'[j] > 0 /\ \A k \in Job : k # j => starts'[k] = starts[k]
    BY <1>0, <2>1
  <2>3. \A p \in Printer : wire'[p] = IF p = assigned[j] THEN wire[p] \cup {j} ELSE wire[p]
    BY <1>0, <2>1
  <2>4. QED
    BY <1>0, <2>1, <2>2, <2>3 DEF StartsMatch
<1>3. ASSUME NEW p \in Printer, ClearPlate(p) PROVE Sent
  BY <1>0, <1>3 DEF ClearPlate, StartsMatch, taskVars
<1>4. ASSUME NEW p \in Printer, MachineStep(p) PROVE Sent
  <2>1. starts' = starts
    BY <1>4 DEF MachineStep, BeginPrint, RefusePrint, LoseStart, EndPrint, TouchScreen, taskVars
  <2>2. ASSUME NEW j \in Job, BeginPrint(p, j) \/ RefusePrint(p, j) \/ LoseStart(p, j) PROVE Sent
    <3>1. /\ wire' = [wire EXCEPT ![p] = @ \ {j}] /\ began' \subseteq began \cup {j}
          /\ j \in wire[p]
      BY <2>2 DEF BeginPrint, RefusePrint, LoseStart
    <3>2. \A q \in Printer : wire'[q] \subseteq wire[q]
      BY <1>0, <3>1
    <3>3. QED
      BY <1>0, <2>1, <3>1, <3>2 DEF StartsMatch
  <2>3. CASE EndPrint(p) \/ TouchScreen(p)
    BY <1>0, <2>1, <2>3 DEF EndPrint, TouchScreen, StartsMatch
  <2>4. QED
    BY <1>4, <2>2, <2>3 DEF MachineStep
<1>5. ASSUME UNCHANGED <<starts, machine, wire, began>> PROVE Sent
  <2>1. starts' = starts /\ wire' = wire /\ began' = began
    BY <1>5
  <2>2. QED
    BY <1>0, <2>1 DEF StartsMatch
<1>6. Sent
  <2>1. \/ \E j \in Job : Publish(j) \/ PublishQueued(j)
        \/ \E p \in Printer : ClearPlate(p) \/ MachineStep(p)
        \/ UNCHANGED <<starts, machine, wire, began>>
    BY <1>0, PrinterLeftAlone
  <2> HIDE DEF Sent
  <2>2. QED
    BY <1>2, <1>3, <1>4, <1>5, <2>1
<1>7. QED
  BY <1>0, <1>1, <1>6 DEF StartsMatch

(* A sound printer has to do with nothing but the started owner of its     *)
(* slot: a publish loads it when it is free, the operator clears it when   *)
(* it rests, and it begins what was sent to it.                            *)
LEMMA LoadedStep ==
    ASSUME PlateInv, ~StaleWrites, [Next]_vars, NEW p \in Printer, Sound(p)'
    PROVE  LoadedOnly(p)'
<1> USE PlateTypes
<1>0. ContractInv /\ StartsMatch /\ Sound(p) /\ LoadedOnly(p) /\ began \subseteq began'
  BY SoundBefore, BeganGrows DEF PlateInv
<1>1. CASE /\ Load(p)' = Load(p) /\ machine'[p] = machine[p] /\ wire'[p] = wire[p]
           /\ began' = began
  BY <1>0, <1>1 DEF LoadedOnly
<1>2. ASSUME NEW j \in Job, Publish(j), assigned[j] = p PROVE LoadedOnly(p)'
  <2>1. /\ starts' = [starts EXCEPT ![j] = @ + 1] /\ wire' = [wire EXCEPT ![p] = @ \cup {j}]
        /\ UNCHANGED <<machine, began, row>> /\ task[j].pc = "publish"
    BY <1>2 DEF Publish, storeVars
  <2>2. starts[j] = 0 /\ row[p].current = j /\ j \notin began
    BY <1>0, <1>2, <2>1 DEF StartsMatch, StartOK
  <2>3. Load(p) = NoJob /\ Load(p)' = j /\ j # NoJob
    <3>1. j # NoJob /\ starts'[j] = 1 /\ row'[p].current = j
      BY <1>0, <2>1, <2>2, StoreAssumption
    <3>2. Load(p) = NoJob
      BY <2>2 DEF Load
    <3>3. Load(p)' = j
      BY <3>1 DEF Load
    <3>4. QED
      BY <3>1, <3>2, <3>3
  <2>4. wire[p] = {} /\ machine[p].phase \notin Busy
    <3>1. NoJob \notin wire[p] /\ (machine[p].phase \in Busy => machine[p].job \in Job)
      BY <1>0, StoreAssumption DEF TypeOK
    <3>2. QED
      BY <1>0, <2>3, <3>1, StoreAssumption DEF LoadedOnly
  <2>5. wire'[p] = {j}
    BY <1>0, <2>1, <2>4
  <2>6. QED
    BY <1>0, <2>1, <2>2, <2>3, <2>4, <2>5 DEF LoadedOnly
<1>3. CASE ClearPlate(p)
  <2>1. /\ machine' = [machine EXCEPT ![p].bedClear = TRUE] /\ UNCHANGED <<wire, began>>
        /\ machine[p].phase \notin Busy /\ wire[p] = {}
    BY <1>3 DEF ClearPlate, Inspected
  <2>2. /\ machine'[p].phase = machine[p].phase /\ machine'[p].job = machine[p].job
        /\ machine'[p].bedClear
    BY <1>0, <2>1 DEF MachineType
  <2>3. QED
    BY <1>0, <2>1, <2>2 DEF LoadedOnly
<1>4. CASE MachineStep(p)
  <2>1. Load(p)' = Load(p)
    BY <1>4 DEF MachineStep, BeginPrint, RefusePrint, LoseStart, EndPrint, TouchScreen,
       Load, storeVars, taskVars
  <2>2. ASSUME NEW j \in Job, BeginPrint(p, j) PROVE LoadedOnly(p)'
    <3>1. /\ machine' = [machine EXCEPT
                           ![p] = [phase |-> "RUNNING", job |-> j, bedClear |-> FALSE]]
          /\ wire' = [wire EXCEPT ![p] = @ \ {j}] /\ began' = began \cup {j}
          /\ Load(p) = j /\ j # NoJob
      BY <1>0, <2>2, StoreAssumption DEF BeginPrint, LoadedOnly
    <3>2. wire'[p] = {} /\ machine'[p].phase \in Busy /\ machine'[p].job = j
      BY <1>0, <3>1 DEF LoadedOnly, Busy
    <3>3. QED
      BY <2>1, <3>1, <3>2 DEF LoadedOnly
  <2>3. ASSUME NEW phase \in Phase, SetPhase(p, phase), began' = began, wire'[p] \subseteq wire[p],
               phase \in Busy => machine[p].phase \in Busy
        PROVE  LoadedOnly(p)'
    <3>1. /\ machine'[p].phase = phase /\ machine'[p].bedClear = machine[p].bedClear
          /\ machine'[p].job = IF phase \in Busy THEN machine[p].job ELSE NoJob
      BY <1>0, <2>3 DEF SetPhase
    <3>2. QED
      BY <1>0, <2>1, <2>3, <3>1 DEF LoadedOnly
  <2>4. ASSUME NEW j \in Job, RefusePrint(p, j) PROVE LoadedOnly(p)'
    <3>1. wire'[p] \subseteq wire[p] /\ began' = began /\ SetPhase(p, "FAILED")
      BY <1>0, <2>4 DEF RefusePrint
    <3>2. QED
      BY <2>3, <3>1 DEF Phase, Busy
  <2>5. ASSUME NEW j \in Job, LoseStart(p, j) PROVE LoadedOnly(p)'
    <3>1. wire'[p] \subseteq wire[p] /\ UNCHANGED <<machine, began>>
      BY <1>0, <2>5 DEF LoseStart
    <3>2. QED
      BY <1>0, <2>1, <3>1 DEF LoadedOnly
  <2>6. CASE EndPrint(p)
    BY <2>3, <2>6 DEF EndPrint, Phase, Busy
  <2>7. CASE TouchScreen(p)
    BY <2>3, <2>7 DEF TouchScreen, Phase, Busy
  <2>8. QED
    BY <1>4, <2>2, <2>4, <2>5, <2>6, <2>7 DEF MachineStep
<1>5. ASSUME NEW q \in Printer, q # p, MachineStep(q) PROVE LoadedOnly(p)'
  <2>1. /\ machine'[p] = machine[p] /\ wire'[p] = wire[p] /\ UNCHANGED <<row, starts>>
    BY <1>0, <1>5 DEF MachineStep, BeginPrint, RefusePrint, LoseStart, EndPrint, TouchScreen,
       SetPhase, storeVars, taskVars
  <2>2. Load(p)' = Load(p)
    BY <2>1 DEF Load
  <2>3. CASE began' = began
    BY <1>1, <2>1, <2>2, <2>3
  <2>4. ASSUME NEW j \in Job, BeginPrint(q, j) PROVE LoadedOnly(p)'
    <3>1. assigned[j] = q /\ began' = began \cup {j}
      BY <1>0, <2>4 DEF BeginPrint, StartsMatch
    <3>2. j \notin wire[p]
      BY <1>0, <1>5, <3>1 DEF StartsMatch
    <3>3. QED
      BY <1>0, <2>1, <2>2, <3>1, <3>2 DEF LoadedOnly
  <2>5. QED
    BY <1>5, <2>3, <2>4 DEF MachineStep, RefusePrint, LoseStart, EndPrint, TouchScreen
<1>6. ASSUME NEW j \in Job, assigned[j] # p, Publish(j) \/ PublishQueued(j) PROVE LoadedOnly(p)'
  <2>1. /\ machine' = machine /\ wire'[p] = wire[p] /\ began' = began /\ row' = row
        /\ starts' = [starts EXCEPT ![j] = @ + 1]
    BY <1>0, <1>6 DEF Publish, PublishQueued, storeVars
  <2>2. row[p].current # j
    BY <1>0, <1>6, StoreAssumption DEF OwnerIsHere
  <2>3. row[p].current # NoJob => row[p].current \in Job
    BY <1>0 DEF PrinterState
  <2>4. Load(p)' = Load(p)
    BY <1>0, <2>1, <2>2, <2>3 DEF Load
  <2>5. QED
    BY <1>1, <2>1, <2>4
<1>7. ASSUME NEW j \in Job, assigned[j] = p PROVE ~PublishQueued(j)
  BY <1>7, AssignedKept DEF PublishQueued, Sound
<1>8. ASSUME NEW q \in Printer, q # p, ClearPlate(q) PROVE LoadedOnly(p)'
  <2>1. /\ machine'[p] = machine[p] /\ UNCHANGED <<wire, began, starts>> /\ row'[p] = row[p]
    BY <1>0, <1>8 DEF ClearPlate, SetRow, taskVars
  <2>2. QED
    BY <1>1, <2>1 DEF Load
<1>9. ASSUME UNCHANGED <<starts, machine, wire, began>>,
             ~(\E j \in Job : Publish(j)), ~ClearPlate(p)
      PROVE  LoadedOnly(p)'
  <2>1. Load(p)' = Load(p)
    BY <1>9, LoadMoves
  <2>2. QED
    BY <1>1, <1>9, <2>1
<1>10. QED
  BY <1>0, <1>2, <1>3, <1>4, <1>5, <1>6, <1>7, <1>8, <1>9, PrinterLeftAlone

(* What a task takes for a start on a sound printer was one.               *)
LEMMA ConfirmedStep ==
    ASSUME PlateInv, ~StaleWrites, [Next]_vars, NEW k \in Job, Sound(assigned[k])'
    PROVE  ConfirmedBegan(k)'
<1> SUFFICES ASSUME task'[k].pc \in {"confirmed", "commit"}, status'[k] \in InFlight
             PROVE  k \in began'
  BY DEF ConfirmedBegan
<1> USE PlateTypes
<1> DEFINE p == assigned[k]
<1>0. /\ ContractInv /\ StartOK(k) /\ p \in Printer /\ assigned' = assigned
      /\ began \subseteq began'
  BY AssignedKept, BeganGrows DEF PlateInv
<1>1. Sound(p)
  BY <1>0, SoundBefore
<1>2. RunningIsTrue(p) /\ ConfirmedBegan(k)
  BY <1>0, <1>1 DEF PlateInv
<1>3. CASE task[k].pc \in {"confirmed", "commit"}
  <2>1. status[k] \in InFlight
    BY <1>0, <1>3, StatusMoves DEF StartOK, Handed, InFlight, Physical, Terminal
  <2>2. QED
    BY <1>0, <1>2, <1>3, <2>1 DEF ConfirmedBegan
<1>4. CASE Confirmed(k)
  <2>1. status'[k] = status[k] /\ SeesRunning(k)
    BY <1>4 DEF Confirmed, storeVars
  <2>2. client[p].gcode = "RUNNING"
    BY <1>2, <2>1 DEF SeesRunning, RunningIsTrue
  <2>3. row[p].current = k
    BY <1>0, <2>1 DEF SlotOwned
  <2>4. QED
    BY <1>0, <1>2, <2>2, <2>3, StoreAssumption DEF RunningIsTrue
<1>5. QED
  BY <1>0, <1>3, <1>4, TaskMoves

(* A job that turns to "printing" was begun: the report says RUNNING of    *)
(* the slot's own job, and so did what the task took for a start.          *)
LEMMA BeganStep ==
    ASSUME PlateInv, ~StaleWrites, [Next]_vars
    PROVE  PrintingBegan'
<1> SUFFICES ASSUME NEW k \in Job, status'[k] = "printing", Sound(assigned[k])'
             PROVE  k \in began'
  BY DEF PrintingBegan
<1> USE PlateTypes
<1>0. /\ ContractInv /\ PrintingBegan /\ began \subseteq began' /\ assigned[k] \in Printer
      /\ assigned' = assigned
  BY BeganGrows, AssignedKept DEF PlateInv
<1>1. Sound(assigned[k])
  BY <1>0, SoundBefore
<1>2. RunningIsTrue(assigned[k]) /\ ConfirmedBegan(k)
  BY <1>0, <1>1 DEF PlateInv
<1>3. CASE status[k] = "printing"
  BY <1>0, <1>1, <1>3 DEF PrintingBegan
<1>4. CASE CommitPrinting(k) /\ status[k] = "starting"
  BY <1>0, <1>2, <1>4 DEF CommitPrinting, ConfirmedBegan, InFlight, Physical
<1>5. ASSUME NEW p \in Printer, report[p].status = "printing", row[p].current = k
      PROVE  k \in began
  <2>1. p = assigned[k] /\ k # NoJob
    BY <1>0, <1>5, StoreAssumption DEF OwnerIsHere
  <2>2. client[p].gcode = "RUNNING"
    BY <1>2, <1>5, <2>1 DEF RunningIsTrue
  <2>3. QED
    BY <1>2, <1>5, <2>1, <2>2 DEF RunningIsTrue
<1>6. QED
  BY <1>0, <1>3, <1>4, <1>5, PrintingMoves

(* RunningIsTrue stays as long as client, report and owner do, and the row  *)
(* does not turn "idle".                                                   *)
LEMMA RunningKept ==
    ASSUME NEW p \in Printer, RunningIsTrue(p), began \subseteq began',
           client'[p] = client[p], report'[p] = report[p],
           row'[p].current = row[p].current,
           row'[p].status = "idle" => row[p].status = "idle"
    PROVE  RunningIsTrue(p)'
BY DEF RunningIsTrue

(* It also holds of every client that does not say RUNNING or "printing".  *)
LEMMA NotRunning ==
    ASSUME NEW p \in Printer, client'[p].gcode # "RUNNING", client'[p].status # "printing",
           report'[p].status # "printing"
    PROVE  RunningIsTrue(p)'
BY DEF RunningIsTrue

(* A report: RUNNING comes from the printer, which runs its slot's job, or *)
(* repeats what the client said before.                                    *)
LEMMA ReceiveRunning ==
    ASSUME PlateInv, NEW p \in Printer, Sound(p), FullReport(p) \/ PartialReport(p)
    PROVE  RunningIsTrue(p)'
<1> USE PlateTypes
<1>0. ContractInv /\ LoadedOnly(p) /\ RunningIsTrue(p)
  BY DEF PlateInv
<1>1. PICK reported, full :
            /\ Receive(p, reported, full)
            /\ reported = machine[p].phase \/ reported = client[p].gcode
  BY DEF FullReport, PartialReport
<1> DEFINE c == HandlePrint(client[p], reported, full)
<1>2. /\ client'[p] = c /\ report'[p] = [status |-> c.status, gcode |-> c.gcode]
      /\ report[p] = NoSnapshot /\ row' = row /\ began' = began
  BY <1>0, <1>1 DEF Receive, storeVars, machineVars
<1>3. /\ c.gcode = IF reported = "FAILED" /\ client[p].ack THEN "IDLE" ELSE reported
      /\ c.status = IF c.gcode \in DOMAIN StateMap THEN StateMap[c.gcode] ELSE client[p].status
  BY <1>0 DEF HandlePrint, ClientType
<1>4. c.gcode = "RUNNING" => c.status = "printing" /\ reported = "RUNNING"
  BY <1>3 DEF StateMap
<1>5. c.status = "printing" => c.gcode = "RUNNING"
  <2>1. CASE c.gcode \in DOMAIN StateMap
    BY <1>3, <2>1 DEF StateMap
  <2>2. CASE c.gcode \notin DOMAIN StateMap
    <3>1. c.gcode = reported /\ reported \notin {"IDLE", "RUNNING", "PAUSE", "FAILED", "FINISH"}
      BY <1>3, <2>2 DEF StateMap
    <3>2. reported = client[p].gcode
      BY <1>0, <1>1, <3>1 DEF MachineType, Phase
    <3>3. QED
      BY <1>0, <1>3, <2>2, <3>1, <3>2 DEF RunningIsTrue
  <2>3. QED
    BY <2>1, <2>2
<1>6. CASE c.gcode = "RUNNING"
  <2>1. row[p].current # NoJob => row[p].current \in began
    <3>1. CASE machine[p].phase = "RUNNING"
      BY <1>0, <3>1, StoreAssumption DEF LoadedOnly, Busy, Load
    <3>2. CASE client[p].gcode = "RUNNING"
      BY <1>0, <3>2 DEF RunningIsTrue
    <3>3. QED
      BY <1>1, <1>4, <1>6, <3>1, <3>2
  <2>2. row[p].current = NoJob => row[p].status # "idle"
    <3>1. CASE machine[p].phase = "RUNNING"
      <4>1. Load(p) \in Job
        BY <1>0, <3>1 DEF LoadedOnly, Busy
      <4>2. QED
        BY <4>1, StoreAssumption DEF Load
    <3>2. CASE client[p].gcode = "RUNNING"
      BY <1>0, <3>2 DEF RunningIsTrue
    <3>3. QED
      BY <1>1, <1>4, <1>6, <3>1, <3>2
  <2>3. report'[p] # NoSnapshot /\ report'[p].status = "printing" /\ report'[p].gcode = "RUNNING"
    BY <1>2, <1>4, <1>6 DEF NoSnapshot
  <2>4. QED
    BY <1>2, <1>6, <2>1, <2>2, <2>3 DEF RunningIsTrue
<1>7. CASE c.gcode # "RUNNING"
  <2>1. c.status # "printing" /\ report'[p].status = c.status
    BY <1>2, <1>5, <1>7
  <2>2. QED
    BY <1>2, <1>7, <2>1, NotRunning
<1>8. QED
  BY <1>6, <1>7

(* Every step keeps it.  A row is only freed when its job was not started, *)
(* or with no report on its way.                                           *)
LEMMA RunningStep ==
    ASSUME PlateInv, ~StaleWrites, [Next]_vars, NEW p \in Printer, Sound(p)'
    PROVE  RunningIsTrue(p)'
<1> USE PlateTypes
<1>0. /\ ContractInv /\ StartsMatch /\ Sound(p) /\ RunningIsTrue(p) /\ began \subseteq began'
  BY BeganGrows, SoundBefore DEF PlateInv
<1>1. CASE client'[p] = client[p] /\ report'[p] = report[p] /\ row'[p] = row[p]
  BY <1>0, <1>1, RunningKept
<1>2. ASSUME NEW j \in Job, Dispatch(j) PROVE RunningIsTrue(p)'
  <2>1. CASE assigned[j] = p
    <3>1. row[p].status = "idle" /\ row[p].current = NoJob /\ UNCHANGED <<client, report>>
      BY <1>2, <2>1 DEF Dispatch, Available
    <3>2. QED
      BY <1>0, <3>1, NotRunning DEF RunningIsTrue
  <2>2. CASE assigned[j] # p
    BY <1>0, <1>1, <1>2, <2>2 DEF Dispatch, SetRow
  <2>3. QED
    BY <2>1, <2>2
<1>3. ASSUME NEW j \in Job, Cancel(j) PROVE RunningIsTrue(p)'
  BY <1>1, <1>3 DEF Cancel
<1>4. ASSUME NEW j \in Job, TaskStep(j) PROVE RunningIsTrue(p)'
  <2>1. CASE CommitPrinting(j) \/ MarkPlate(j)
    <3>0. row' = [row EXCEPT ![assigned[j]] = [row[assigned[j]] EXCEPT !.cleared = FALSE]]
      BY <2>1 DEF CommitPrinting, MarkPlate, SetRow
    <3>1. row'[p].current = row[p].current /\ row'[p].status = row[p].status
      BY <1>0, <3>0 DEF PrinterState
    <3>2. QED
      BY <1>0, <2>1, <3>1, RunningKept DEF CommitPrinting, MarkPlate
  <2>2. CASE Quarantine(j)
    <3>1. status[j] = "starting" => row[assigned[j]].current = j
      BY <1>0 DEF SlotOwned, InFlight, Physical
    <3>2. row'[p] = row[p] \/ (row'[p].current = row[p].current /\ row'[p].status = "error")
      BY <1>0, <2>2, <3>1 DEF Quarantine, Transition, SetRow
    <3>3. QED
      BY <1>0, <2>2, <3>2, RunningKept DEF Quarantine
  <2>3. CASE ReleaseSlot(j)
    <3>1. UNCHANGED <<client, report>> /\ (assigned[j] = p => ~(starts[j] > 0))
      BY <1>0, <2>3 DEF ReleaseSlot, StartOK, Sound
    <3>2. CASE row'[p] = row[p]
      BY <1>1, <3>1, <3>2
    <3>3. CASE Releasable(j) /\ assigned[j] = p
      <4>1. row[p].current = j /\ j # NoJob /\ j \notin began
        BY <1>0, <3>1, <3>3, StoreAssumption DEF Releasable, StartsMatch
      <4>2. QED
        BY <1>0, <3>1, <4>1, NotRunning DEF RunningIsTrue
    <3>4. QED
      BY <1>0, <2>3, <3>2, <3>3 DEF ReleaseSlot, SetRow
  <2>4. CASE StartAdmitted(j)
    <3>1. UNCHANGED <<report, row>>
      BY <2>4 DEF StartAdmitted, storeVars
    <3>2. client'[p].gcode = client[p].gcode /\ client'[p].status = client[p].status
      BY <1>0, <2>4 DEF StartAdmitted, ClientType
    <3>3. QED
      BY <1>0, <3>1, <3>2 DEF RunningIsTrue
  <2>5. CASE \/ UploadOk(j) \/ FailJob(j) \/ TakeTask(j) \/ UploadFails(j) \/ StartRefused(j)
             \/ Publish(j) \/ PublishRejected(j) \/ Acked(j) \/ NotAcked(j)
             \/ Confirmed(j) \/ Rejected(j) \/ TimedOut(j) \/ DbFault(j)
             \/ PublishQueued(j) \/ ReadConfirmed(j) \/ CommitLost(j)
    BY <1>1, <2>5 DEF UploadOk, FailJob, TakeTask, UploadFails, StartRefused, Publish,
       PublishRejected, Acked, NotAcked, Confirmed, Rejected, TimedOut, DbFault, PublishQueued,
       ReadConfirmed, CommitLost, storeVars
  <2>6. ~ReadSlot(j) /\ ~WriteSlot(j) /\ ~ReadMark(j) /\ ~WriteMark(j)
    BY <1>0 DEF ReadSlot, WriteSlot, ReadMark, WriteMark, NothingStale
  <2>7. QED
    BY <1>4, <2>1, <2>2, <2>3, <2>4, <2>5, <2>6 DEF TaskStep
<1>5. ASSUME NEW q \in Printer, ClientStep(q) PROVE RunningIsTrue(p)'
  <2>1. CASE q # p
    <3>1. CASE FullReport(q) \/ PartialReport(q)
      BY <1>0, <1>1, <2>1, <3>1 DEF FullReport, PartialReport, Receive, storeVars
    <3>2. CASE Connect(q) \/ Disconnect(q) \/ DropClient(q) \/ LoseReport(q)
      <4>1. row' = row
        BY <3>2 DEF Connect, Disconnect, DropClient, LoseReport, storeVars
      <4>2. client'[p] = client[p]
        BY <1>0, <2>1, <3>2 DEF Connect, Disconnect, DropClient, LoseReport
      <4>3. report'[p] = report[p]
        BY <1>0, <2>1, <3>2 DEF Connect, Disconnect, DropClient, LoseReport
      <4>4. QED
        BY <1>1, <4>1, <4>2, <4>3
    <3>3. QED
      BY <1>5, <3>1, <3>2 DEF ClientStep
  <2>2. CASE Connect(p)
    <3>1. client'[p].gcode = client[p].gcode /\ client'[p].status = client[p].status
      BY <1>0, <2>2 DEF Connect, ClientType
    <3>2. QED
      BY <1>0, <2>2, <3>1 DEF Connect, storeVars, RunningIsTrue
  <2>3. CASE Disconnect(p)
    <3>1. client'[p].gcode = client[p].gcode /\ client'[p].status = "offline"
      BY <1>0, <2>3 DEF Disconnect, ClientType
    <3>2. /\ report'[p].status = "offline" /\ report'[p].gcode = client[p].gcode
          /\ report[p].status # "printing" /\ UNCHANGED <<row, began>>
      BY <1>0, <2>3 DEF Disconnect, NoSnapshot, storeVars, machineVars
    <3>3. QED
      BY <1>0, <3>1, <3>2 DEF RunningIsTrue
  <2>4. CASE DropClient(p)
    <3>1. client'[p].gcode = client[p].gcode /\ client'[p].status \in {client[p].status, "offline"}
      BY <1>0, <2>4 DEF DropClient, ClientType
    <3>2. QED
      BY <1>0, <2>4, <3>1 DEF DropClient, storeVars, RunningIsTrue
  <2>5. CASE FullReport(p) \/ PartialReport(p)
    BY <1>0, <2>5, ReceiveRunning
  <2>6. CASE LoseReport(p)
    <3>1. UNCHANGED <<client, row, began>> /\ report'[p] = NoSnapshot /\ report[p] # NoSnapshot
      BY <1>0, <2>6 DEF LoseReport, storeVars, machineVars
    <3>2. report[p].status # "printing"
      BY <2>6 DEF LoseReport, Sound
    <3>3. QED
      BY <1>0, <3>1, <3>2 DEF RunningIsTrue, NoSnapshot
  <2>7. QED
    BY <1>5, <2>1, <2>2, <2>3, <2>4, <2>5, <2>6 DEF ClientStep
<1>6. ASSUME NEW q \in Printer, ApplyReport(q) PROVE RunningIsTrue(p)'
  <2>1. CASE q # p
    <3>1. client' = client /\ report'[p] = report[p]
      BY <1>0, <1>6, <2>1 DEF ApplyReport
    <3>2. row'[p] = row[p]
      BY <1>0, <1>6, <2>1 DEF ApplyReport, WriteStatus, WriteRunning, WriteEnd, SetRow
    <3>3. QED
      BY <1>1, <3>1, <3>2
  <2>2. CASE q = p /\ client[p].gcode # "RUNNING"
    <3>1. client' = client /\ report'[p] = NoSnapshot
      BY <1>0, <1>6, <2>2 DEF ApplyReport
    <3>2. QED
      BY <1>0, <2>2, <3>1, NotRunning DEF RunningIsTrue, NoSnapshot
  <2>3. CASE q = p /\ client[p].gcode = "RUNNING"
    <3>1. /\ client' = client /\ report'[p] = NoSnapshot /\ report[p] # NoSnapshot
      BY <1>0, <1>6, <2>3 DEF ApplyReport
    <3>2. report[p].gcode = "RUNNING" /\ report[p].status \in {"printing", "offline"}
      BY <1>0, <2>3, <3>1 DEF RunningIsTrue
    <3>3. ~WriteEnd(p, report[p])
      <4> SUFFICES ASSUME WriteEnd(p, report[p]) PROVE FALSE
        OBVIOUS
      <4> DEFINE st == status[row[p].current]
      <4>1. Verdict(st, report[p]) \in {"printing", st}
        BY <3>2 DEF Verdict
      <4>2. st \in {"attention", "completed", "failed"} /\ st \in Allowed[st]
        BY <4>1 DEF WriteEnd, Transition, Blocked
      <4>3. QED
        BY <4>2 DEF Allowed
    <3>4. /\ row'[p].current = row[p].current /\ row'[p].status = report[p].status
      BY <1>0, <1>6, <2>3, <3>3 DEF ApplyReport, WriteStatus, WriteRunning, SetRow, PrinterState
    <3>5. QED
      BY <1>0, <2>3, <3>1, <3>2, <3>4 DEF RunningIsTrue, NoSnapshot
  <2>4. QED
    BY <2>1, <2>2, <2>3
<1>7. ASSUME NEW q \in Printer, OperatorStep(q) PROVE RunningIsTrue(p)'
  <2>1. CASE q # p
    <3>1. client'[p] = client[p] /\ report' = report
      BY <1>0, <1>7, <2>1 DEF OperatorStep, ClearPlate, ReadPlate, WritePlate, AbortPlate,
         AcknowledgeIdle, AdmitIdle, TakeForIdle, WriteIdle
    <3>2. row'[p] = row[p]
      BY <1>0, <1>7, <2>1 DEF OperatorStep, ClearPlate, ReadPlate, WritePlate, AbortPlate,
         AcknowledgeIdle, AdmitIdle, WriteIdle, SetRow, storeVars, NothingStale
    <3>3. QED
      BY <1>1, <3>1, <3>2
  <2>2. CASE ClearPlate(p)
    <3>1. UNCHANGED <<client, report, began>> /\ report[p] = NoSnapshot
      BY <2>2 DEF ClearPlate, Inspected
    <3>2. row'[p].current = NoJob /\ row'[p].status = row[p].status
      BY <1>0, <2>2 DEF ClearPlate, SetRow, PrinterState
    <3>3. report[p].status # "printing"
      BY <3>1 DEF NoSnapshot
    <3>4. QED
      BY <1>0, <3>1, <3>2, <3>3 DEF RunningIsTrue
  <2>3. CASE AcknowledgeIdle(p)
    <3>1. client'[p].gcode = "IDLE" /\ client'[p].status = "idle" /\ report' = report
      BY <1>0, <2>3 DEF AcknowledgeIdle, TakeForIdle, ClientType
    <3>2. report[p].status # "printing"
      BY <1>0, <2>3 DEF AcknowledgeIdle, TakeForIdle, RunningIsTrue
    <3>3. QED
      BY <3>1, <3>2, NotRunning
  <2>4. /\ ~ReadPlate(p) /\ ~WritePlate(p) /\ ~AbortPlate(p)
        /\ ~AdmitIdle(p) /\ ~WriteIdle(p)
    BY <1>0 DEF ReadPlate, WritePlate, AbortPlate, AdmitIdle, WriteIdle, NothingStale
  <2>5. QED
    BY <1>7, <2>1, <2>2, <2>3, <2>4 DEF OperatorStep
<1>8. ASSUME NEW q \in Printer, MachineStep(q) PROVE RunningIsTrue(p)'
  BY <1>1, <1>8 DEF MachineStep, BeginPrint, RefusePrint, LoseStart, EndPrint, TouchScreen,
     storeVars
<1>9. CASE UNCHANGED vars \/ Stop \/ Boot
  BY <1>1, <1>9 DEF vars, Stop, Boot, storeVars
<1>10. CASE Exit \/ Crash
  <2>1. client'[p] = NewClient /\ report'[p] = NoSnapshot
    BY <1>10 DEF Exit, Crash, ProcessGone
  <2>2. QED
    BY <2>1, NotRunning DEF NewClient, NoSnapshot
<1>11. CASE Reconcile
  <2>1. row'[p] \in RestoredRow(p) /\ UNCHANGED <<client, report>>
    BY <1>11 DEF Reconcile
  <2>2. row'[p].status = "idle" => row[p].status = "idle"
    BY <2>1 DEF RestoredRow
  <2>3. QED
    BY <1>0, <1>11, <2>1, <2>2, ReconcileKeepsOwners, RunningKept
<1>12. QED
  BY <1>2, <1>3, <1>4, <1>5, <1>6, <1>7, <1>8, <1>9, <1>10, <1>11 DEF Next

----------------------------------------------------------------------------
(* At first no job is started, no client says anything and no printer runs.*)
LEMMA PlateInit == Init => PlateInv /\ Plate!Init
<1> SUFFICES ASSUME Init PROVE PlateInv /\ Plate!Init
  OBVIOUS
<1>1. ContractInv
  BY ContractInit
<1>2. PrintingBegan /\ StartsMatch /\ \A j \in Job : ConfirmedBegan(j)
  BY DEF Init, PrintingBegan, StartsMatch, ConfirmedBegan, IdleTask
<1>3. \A p \in Printer : /\ Load(p) = NoJob /\ wire[p] = {} /\ machine[p].phase \notin Busy
                         /\ machine[p].job = NoJob /\ machine[p].bedClear
  BY DEF Init, Load, SeedRow
<1>4. \A p \in Printer : LoadedOnly(p)
  BY <1>3 DEF LoadedOnly
<1>5. \A p \in Printer : RunningIsTrue(p)
  BY DEF Init, RunningIsTrue, NewClient, NoSnapshot
<1>6. \A p \in Printer : Sound(p)
  BY DEF Init, Sound
<1>7. Plate!Init
  BY <1>3, <1>6 DEF Plate!Init, Init
<1>8. QED
  BY <1>1, <1>2, <1>4, <1>5, <1>7 DEF PlateInv

(* The inductive invariant of the plate.  What it says of a printer ends   *)
(* where a task misjudges a start or a report of RUNNING is lost: the run  *)
(* lost_confirmation shows what the code does then.                        *)
THEOREM PlateInvariant == ~StaleWrites => (Spec => []PlateInv)
<1> SUFFICES ASSUME ~StaleWrites PROVE Spec => []PlateInv
  OBVIOUS
<1>1. ContractInv /\ [Next]_vars => ContractInv'
  BY TypeStep, SlotStep, NothingStaleStep, StartStep, OwnerStep DEF ContractInv, SlotInv
<1>2. ContractInv' => SlotOwned'
  BY DEF ContractInv, SlotInv
<1>3. ASSUME PlateInv, [Next]_vars PROVE PlateInv'
  <2>1. ContractInv' /\ StartsMatch' /\ PrintingBegan'
    BY <1>1, <1>2, <1>3, StartsStep, BeganStep DEF PlateInv
  <2>2. ASSUME NEW p \in Printer, Sound(p)' PROVE LoadedOnly(p)' /\ RunningIsTrue(p)'
    BY <1>3, <2>2, LoadedStep, RunningStep
  <2>3. ASSUME NEW k \in Job, Sound(assigned[k])' PROVE ConfirmedBegan(k)'
    BY <1>3, <2>3, ConfirmedStep
  <2>4. QED
    BY <2>1, <2>2, <2>3 DEF PlateInv
<1>4. QED
  BY <1>3, PlateInit, PTL DEF Spec

(* A job is "printing" on a sound printer only if that physically began it.*)
THEOREM PrintingWasBegun == ~StaleWrites => (Spec => []PrintingBegan)
<1> SUFFICES ASSUME ~StaleWrites PROVE Spec => []PrintingBegan
  OBVIOUS
<1>1. PlateInv => PrintingBegan
  BY DEF PlateInv
<1>2. QED
  BY <1>1, PlateInvariant, PTL

(* A start command is only published to a printer that is not printing,    *)
(* whose plate is clear and that has no other command coming.              *)
THEOREM StartsOnFreePlate == ~StaleWrites => (Spec => StartOnFreePlate)
<1> SUFFICES ASSUME ~StaleWrites PROVE Spec => StartOnFreePlate
  OBVIOUS
<1>1. ASSUME PlateInv, [Next]_vars, NEW k \in Job, Sound(assigned[k]), starts'[k] # starts[k]
      PROVE  /\ machine[assigned[k]].phase \notin Busy /\ machine[assigned[k]].bedClear
             /\ wire[assigned[k]] = {}
  <2> USE PlateTypes
  <2>0. ContractInv /\ StartsMatch /\ assigned[k] \in Printer /\ LoadedOnly(assigned[k])
    BY <1>1 DEF PlateInv
  <2>1. Publish(k) \/ PublishQueued(k)
    <3>1. ASSUME NEW j \in Job, Publish(j) \/ PublishQueued(j) PROVE j = k
      BY <1>1, <2>0, <3>1 DEF Publish, PublishQueued
    <3>2. ASSUME NEW q \in Printer, ClearPlate(q) \/ MachineStep(q) PROVE starts' = starts
      BY <3>2 DEF ClearPlate, MachineStep, BeginPrint, RefusePrint, LoseStart, EndPrint,
         TouchScreen, taskVars
    <3>3. QED
      BY <1>1, <2>0, <3>1, <3>2, PrinterLeftAlone
  <2>2. row[assigned[k]].current = k /\ starts[k] = 0
    BY <2>0, <2>1 DEF Publish, PublishQueued, StartsMatch, StartOK
  <2>3. Load(assigned[k]) = NoJob
    BY <2>2 DEF Load
  <2>4. machine[assigned[k]].phase \notin Busy
    BY <2>0, <2>3, StoreAssumption DEF LoadedOnly, TypeOK
  <2>5. NoJob \notin wire[assigned[k]]
    BY <2>0, StoreAssumption
  <2>6. QED
    BY <2>0, <2>3, <2>4, <2>5 DEF LoadedOnly
<1>2. PlateInv /\ [Next]_vars =>
        [\A j \in Job : LET p == assigned[j] IN
           Sound(p) /\ starts'[j] # starts[j] =>
              machine[p].phase \notin Busy /\ machine[p].bedClear /\ wire[p] = {}]_vars
  BY <1>1
<1>3. QED
  BY <1>2, PlateInvariant, PTL DEF Spec, StartOnFreePlate

(* A started job leaves its slot only with its printer at rest and its     *)
(* plate cleared by a human, for any number of crashes, restarts and       *)
(* failed transactions, whatever became of the printer's other jobs; its   *)
(* own task alone can give the slot back, if it has misjudged the start.   *)
THEOREM StartedKeepsSlot == ~StaleWrites => (Spec => StartedHoldsSlot)
<1> SUFFICES ASSUME ~StaleWrites PROVE Spec => StartedHoldsSlot
  OBVIOUS
<1>1. ASSUME ContractInv, [Next]_vars, NEW p \in Printer, row[p].current # NoJob,
             starts[row[p].current] > 0, row'[p].current # row[p].current,
             row[p].current \notin misjudged
      PROVE  machine[p].phase \notin Busy /\ machine'[p].bedClear
  <2> USE PlateTypes
  <2>1. ASSUME NEW j \in Job, Dispatch(j), assigned[j] = p PROVE FALSE
    BY <1>1, <2>1 DEF Dispatch, Available
  <2>2. ASSUME NEW j \in Job, ReleaseSlot(j), row[p].current = j PROVE FALSE
    BY <1>1, <2>2 DEF ReleaseSlot, StartOK
  <2>3. ClearPlate(p)
    BY <1>1, <2>1, <2>2, OwnersMove
  <2>4. QED
    BY <1>1, <2>3 DEF ClearPlate, Inspected, MachineType
<1>2. ContractInv /\ [Next]_vars =>
        [\A p \in Printer : LET j == row[p].current IN
           j # NoJob /\ starts[j] > 0 /\ row'[p].current # j =>
              \/ j \in misjudged
              \/ machine[p].phase \notin Busy /\ machine'[p].bedClear]_vars
  BY <1>1
<1>3. QED
  BY <1>2, ContractInvariant, PTL DEF Spec, StartedHoldsSlot

----------------------------------------------------------------------------
(* A step that leaves loads, prints and history alone is none of the plate's.*)
LEMMA PlateFrame ==
    ASSUME \A p \in Printer : Load(p)' = Load(p) /\ machine'[p].job = machine[p].job,
           starts' = starts, began' = began, UNCHANGED <<assigned, misjudged, unheard>>
    PROVE  UNCHANGED Plate!vars
<1>1. [p \in Printer |-> Load(p)]' = [p \in Printer |-> Load(p)]
  OBVIOUS
<1>2. [p \in Printer |-> machine[p].job]' = [p \in Printer |-> machine[p].job]
  OBVIOUS
<1>3. {p \in Printer : ~Sound(p)}' = {p \in Printer : ~Sound(p)}
  BY DEF Sound
<1>4. QED
  BY <1>1, <1>2, <1>3 DEF Plate!vars

(* The promise is given up of no printer.                                  *)
LEMMA AstrayKept ==
    ASSUME [Next]_vars, UNCHANGED <<misjudged, unheard>>
    PROVE  /\ {p \in Printer : ~Sound(p)}' = {p \in Printer : ~Sound(p)}
           /\ \A p \in Printer : Sound(p)' = Sound(p)
BY AssignedKept DEF Sound

(* A step at a printer that is not sound, or no longer, is one of those    *)
(* about which nothing is promised, as long as it touches no other.        *)
LEMMA StrayStep ==
    ASSUME PlateInv, PlateInv', ~StaleWrites, [Next]_vars, NEW p \in Printer, ~Sound(p)',
           \A q \in Printer : q # p => /\ Load(q)' = Load(q)
                                      /\ machine'[q].job = machine[q].job
                                      /\ Sound(q)' = Sound(q),
           \A j \in Job : starts[j] > 0 => starts'[j] > 0
    PROVE  Plate!Next
<1>0. ContractInv /\ ContractInv' /\ StartsMatch'
  BY DEF PlateInv
<1>1. began \subseteq began' /\ began' \subseteq {j \in Job : starts'[j] > 0}
  <2>1. began' \subseteq Job
    BY <1>0 DEF ContractInv, SlotInv, TypeOK
  <2>2. QED
    BY <1>0, <2>1, BeganGrows DEF StartsMatch
<1>2. {q \in Printer : ~Sound(q)}' = {q \in Printer : ~Sound(q)} \cup {p}
  OBVIOUS
<1>3. machine'[p].job \in Job \cup {NoJob} /\ Load(p)' \in Job \cup {NoJob}
  BY DEF PlateInv, ContractInv, SlotInv, TypeOK, StoreTypeOK, MachineType, PrinterState, Load
<1>4. \A q \in Printer \ {p} :
         /\ [r \in Printer |-> Load(r)]'[q] = [r \in Printer |-> Load(r)][q]
         /\ [r \in Printer |-> machine[r].job]'[q] = [r \in Printer |-> machine[r].job][q]
  OBVIOUS
<1>5. {[r \in Printer |-> Load(r)]'[p], [r \in Printer |-> machine[r].job]'[p]}
         \subseteq Job \cup {NoJob}
  BY <1>3
<1>6. {j \in Job : starts[j] > 0} \subseteq {j \in Job : starts[j] > 0}'
  OBVIOUS
<1>7. Plate!Stray(p)
  BY <1>1, <1>2, <1>4, <1>5, <1>6 DEF Plate!Stray
<1>8. QED
  BY <1>7 DEF Plate!Next

(* A start that is published, or kept by Paho, touches one printer.        *)
LEMMA PublishTouches ==
    ASSUME PlateInv, NEW j \in Job, Publish(j) \/ PublishQueued(j)
    PROVE  /\ \A q \in Printer : q # assigned[j] => Load(q)' = Load(q)
           /\ \A q \in Printer : machine'[q].job = machine[q].job
           /\ \A k \in Job : starts[k] > 0 => starts'[k] > 0
<1> USE PlateTypes
<1>0. ContractInv
  BY DEF PlateInv
<1>1. starts' = [starts EXCEPT ![j] = @ + 1] /\ UNCHANGED <<machine, row>>
  BY DEF Publish, PublishQueued, storeVars
<1>2. ASSUME NEW q \in Printer, q # assigned[j] PROVE Load(q)' = Load(q)
  <2>1. row[q].current # j
    BY <1>0, <1>2, StoreAssumption DEF OwnerIsHere
  <2>2. row[q].current # NoJob => row[q].current \in Job
    BY <1>0 DEF PrinterState
  <2>3. QED
    BY <1>0, <1>1, <2>1, <2>2 DEF Load
<1>3. QED
  BY <1>0, <1>1, <1>2

(* Publishing a start sends its job to the free plate of its slot.         *)
LEMMA PublishSends ==
    ASSUME PlateInv, PlateInv', ~StaleWrites, [Next]_vars, NEW j \in Job, Publish(j)
    PROVE  Plate!Next
<1> USE PlateTypes
<1>0. ContractInv /\ StartsMatch
  BY DEF PlateInv
<1>1. PICK p \in Printer : p = assigned[j]
  BY <1>0
<1>2. /\ starts' = [starts EXCEPT ![j] = @ + 1] /\ UNCHANGED <<machine, began, row>>
      /\ task[j].pc = "publish" /\ UNCHANGED <<misjudged, unheard>>
  BY DEF Publish, storeVars, bounds
<1>3. CASE ~Sound(p)
  BY <1>1, <1>2, <1>3, AstrayKept, PublishTouches, StrayStep
<1>4. CASE Sound(p)
  <2>0. LoadedOnly(p)
    BY <1>4 DEF PlateInv
  <2>1. starts[j] = 0 /\ row[p].current = j /\ j # NoJob
    BY <1>0, <1>1, <1>2, StoreAssumption DEF StartsMatch, StartOK
  <2>2. Load(p) = NoJob /\ Load(p)' = j
    BY <1>0, <1>2, <2>1 DEF Load
  <2>3. machine[p].job = NoJob
    BY <1>0, <2>0, <2>2, StoreAssumption DEF LoadedOnly, TypeOK
  <2>4. [q \in Printer |-> Load(q)]' = [[q \in Printer |-> Load(q)] EXCEPT ![p] = j]
    BY <1>1, <2>2, PublishTouches
  <2>5. {k \in Job : starts[k] > 0}' = {k \in Job : starts[k] > 0} \cup {j}
    BY <1>0, <1>2, <2>1
  <2>6. j \notin {k \in Job : starts[k] > 0}
    BY <2>1
  <2>7. [q \in Printer |-> machine[q].job]' = [q \in Printer |-> machine[q].job]
    BY <1>2
  <2>8. {q \in Printer : ~Sound(q)}' = {q \in Printer : ~Sound(q)}
    BY <1>2, AstrayKept
  <2>9. Plate!Send(p, j)
    BY <1>2, <2>2, <2>3, <2>4, <2>5, <2>6, <2>7, <2>8 DEF Plate!Send
  <2>10. QED
    BY <2>9 DEF Plate!Next
<1>5. QED
  BY <1>3, <1>4

(* A sound printer that comes to rest, or stays at rest.                   *)
LEMMA PrinterRests ==
    ASSUME PlateInv, ~StaleWrites, [Next]_vars, NEW p \in Printer, Sound(p), NEW phase \in Phase,
           SetPhase(p, phase), phase \in Busy => machine[p].phase \in Busy,
           UNCHANGED <<starts, began, row, misjudged, unheard>>
    PROVE  [Plate!Next]_Plate!vars
<1> USE PlateTypes
<1>0. ContractInv /\ LoadedOnly(p)
  BY DEF PlateInv
<1>1. \A q \in Printer : Load(q)' = Load(q)
  BY DEF Load
<1>2. machine' = [machine EXCEPT ![p] = [phase |-> phase,
          job |-> IF phase \in Busy THEN machine[p].job ELSE NoJob,
          bedClear |-> machine[p].bedClear]]
  BY DEF SetPhase
<1>3. CASE phase \in Busy \/ machine[p].phase \notin Busy
  <2>1. \A q \in Printer : machine'[q].job = machine[q].job
    BY <1>0, <1>2, <1>3 DEF LoadedOnly
  <2>2. QED
    BY <1>1, <2>1, PlateFrame, AssignedKept
<1>4. CASE phase \notin Busy /\ machine[p].phase \in Busy
  <2>1. machine[p].job # NoJob
    BY <1>0, <1>4, StoreAssumption DEF TypeOK
  <2>2. [q \in Printer |-> machine[q].job]' = [[q \in Printer |-> machine[q].job] EXCEPT ![p] = NoJob]
    BY <1>0, <1>2, <1>4
  <2>3. [q \in Printer |-> Load(q)]' = [q \in Printer |-> Load(q)]
    BY <1>1
  <2>4. {q \in Printer : ~Sound(q)}' = {q \in Printer : ~Sound(q)}
    BY AstrayKept
  <2>5. Plate!Rest(p)
    BY <2>1, <2>2, <2>3, <2>4 DEF Plate!Rest
  <2>6. QED
    BY <2>5 DEF Plate!Next
<1>5. QED
  BY <1>3, <1>4

(* What the printer does: when sound, it runs what was sent to it, once.   *)
LEMMA MachineKeepsPlate ==
    ASSUME PlateInv, PlateInv', ~StaleWrites, [Next]_vars, NEW p \in Printer, MachineStep(p)
    PROVE  [Plate!Next]_Plate!vars
<1> USE PlateTypes
<1>0. ContractInv
  BY DEF PlateInv
<1>1. /\ UNCHANGED <<starts, row, misjudged, unheard>>
      /\ \A q \in Printer : Load(q)' = Load(q)
  BY DEF MachineStep, BeginPrint, RefusePrint, LoseStart, EndPrint, TouchScreen, storeVars,
     taskVars, bounds, Load
<1>2. CASE ~Sound(p)
  <2>1. \A q \in Printer : q # p => machine'[q].job = machine[q].job
    BY <1>0 DEF MachineStep, BeginPrint, RefusePrint, LoseStart, EndPrint, TouchScreen, SetPhase
  <2>2. QED
    BY <1>1, <1>2, <2>1, AstrayKept, StrayStep
<1>3. CASE Sound(p)
  <2>0. LoadedOnly(p)
    BY <1>3 DEF PlateInv
  <2>1. ASSUME NEW j \in Job, BeginPrint(p, j) PROVE Plate!Next
    <3>1. /\ machine' = [machine EXCEPT
                           ![p] = [phase |-> "RUNNING", job |-> j, bedClear |-> FALSE]]
          /\ began' = began \cup {j} /\ machine[p].phase \notin Busy /\ j \in wire[p]
      BY <2>1 DEF BeginPrint
    <3>2. Load(p) = j /\ j \notin began /\ j # NoJob /\ machine[p].job = NoJob
      BY <1>0, <2>0, <3>1, StoreAssumption DEF LoadedOnly
    <3>3. [q \in Printer |-> machine[q].job]' = [[q \in Printer |-> machine[q].job] EXCEPT ![p] = j]
      BY <1>0, <3>1
    <3>4. [q \in Printer |-> Load(q)]' = [q \in Printer |-> Load(q)]
      BY <1>1
    <3>5. {k \in Job : starts[k] > 0}' = {k \in Job : starts[k] > 0}
      BY <1>1
    <3>6. {q \in Printer : ~Sound(q)}' = {q \in Printer : ~Sound(q)}
      BY <1>1, AstrayKept
    <3>7. Plate!Run(p)
      BY <3>1, <3>2, <3>3, <3>4, <3>5, <3>6 DEF Plate!Run
    <3>8. QED
      BY <3>7 DEF Plate!Next
  <2>2. ASSUME NEW j \in Job, RefusePrint(p, j) PROVE [Plate!Next]_Plate!vars
    BY <1>0, <1>1, <1>3, <2>2, PrinterRests DEF RefusePrint, Phase, Busy
  <2>3. ASSUME NEW j \in Job, LoseStart(p, j) PROVE UNCHANGED Plate!vars
    BY <1>1, <2>3, PlateFrame, AssignedKept DEF LoseStart
  <2>4. CASE EndPrint(p)
    BY <1>0, <1>1, <1>3, <2>4, PrinterRests DEF EndPrint, Phase, Busy
  <2>5. CASE TouchScreen(p)
    BY <1>0, <1>1, <1>3, <2>5, PrinterRests DEF TouchScreen, Phase, Busy
  <2>6. QED
    BY <2>1, <2>2, <2>3, <2>4, <2>5 DEF MachineStep
<1>4. QED
  BY <1>2, <1>3

(* The operator clears the plate of a printer at rest.                     *)
LEMMA ClearCleans ==
    ASSUME PlateInv, PlateInv', ~StaleWrites, [Next]_vars, NEW p \in Printer, ClearPlate(p)
    PROVE  [Plate!Next]_Plate!vars
<1> USE PlateTypes
<1>0. ContractInv
  BY DEF PlateInv
<1>1. /\ machine' = [machine EXCEPT ![p].bedClear = TRUE] /\ UNCHANGED <<began, starts>>
      /\ machine[p].phase \notin Busy /\ UNCHANGED <<misjudged, unheard>>
  BY DEF ClearPlate, Inspected, taskVars, bounds
<1>2. \A q \in Printer : machine'[q].job = machine[q].job
  BY <1>0, <1>1 DEF MachineType
<1>3. Load(p)' = NoJob
  BY <1>0 DEF ClearPlate, SetRow, PrinterState, Load
<1>4. ASSUME NEW q \in Printer, q # p PROVE Load(q)' = Load(q)
  BY <1>0, <1>1, <1>4 DEF ClearPlate, SetRow, Load
<1>5. CASE Load(p) = NoJob
  BY <1>1, <1>2, <1>3, <1>4, <1>5, PlateFrame, AssignedKept
<1>6. CASE ~Sound(p)
  BY <1>1, <1>2, <1>4, <1>6, AstrayKept, StrayStep
<1>7. CASE Load(p) # NoJob /\ Sound(p)
  <2>1. [q \in Printer |-> Load(q)]' = [[q \in Printer |-> Load(q)] EXCEPT ![p] = NoJob]
    BY <1>3, <1>4
  <2>2. [q \in Printer |-> machine[q].job]' = [q \in Printer |-> machine[q].job]
    BY <1>2
  <2>3. machine[p].job = NoJob
    BY <1>0, <1>1, <1>7 DEF LoadedOnly, PlateInv
  <2>4. {k \in Job : starts[k] > 0}' = {k \in Job : starts[k] > 0}
    BY <1>1
  <2>5. {q \in Printer : ~Sound(q)}' = {q \in Printer : ~Sound(q)}
    BY <1>1, AstrayKept
  <2>6. Plate!Clean(p)
    BY <1>1, <1>7, <2>1, <2>2, <2>3, <2>4, <2>5 DEF Plate!Clean
  <2>7. QED
    BY <2>6 DEF Plate!Next
<1>8. QED
  BY <1>5, <1>6, <1>7

(* A slot that a task gives back against what it was started for is that   *)
(* of a printer gone astray; nothing else gives a load up by itself.       *)
LEMMA LoadStrays ==
    ASSUME PlateInv, PlateInv', ~StaleWrites, [Next]_vars, UNCHANGED <<misjudged, unheard>>,
           UNCHANGED <<starts, machine, wire, began>>, ~(\E p \in Printer : ClearPlate(p))
    PROVE  [Plate!Next]_Plate!vars
<1> USE PlateTypes
<1>0. ContractInv
  BY DEF PlateInv
<1>1. CASE \A p \in Printer : Load(p)' = Load(p)
  BY <1>1, PlateFrame, AssignedKept
<1>2. ASSUME NEW p \in Printer, Load(p)' # Load(p) PROVE Plate!Next
  <2>1. \A j \in Job : ~Publish(j)
    BY <1>0 DEF Publish
  <2>2. ~Sound(p)'
    BY <1>2, <2>1, LoadMoves
  <2>3. row'[p].current # row[p].current
    BY <1>2 DEF Load
  <2>4. PICK j \in Job : assigned[j] = p /\ (Dispatch(j) \/ ReleaseSlot(j))
    BY <1>0, <2>3, OwnersMove
  <2>5. ASSUME NEW q \in Printer, q # p PROVE row'[q] = row[q]
    BY <1>0, <2>4, <2>5 DEF Dispatch, ReleaseSlot, SetRow
  <2>6. \A q \in Printer : q # p => Load(q)' = Load(q)
    BY <2>5 DEF Load
  <2>7. QED
    BY <2>2, <2>6, AstrayKept, StrayStep
<1>3. QED
  BY <1>1, <1>2

(* A printer goes astray with what it is loaded with.                      *)
LEMMA PrinterStrays ==
    ASSUME PlateInv, PlateInv', ~StaleWrites, [Next]_vars, ~UNCHANGED <<misjudged, unheard>>
    PROVE  Plate!Next
<1> USE PlateTypes
<1>0. ContractInv /\ assigned' = assigned
  BY AssignedKept DEF PlateInv
<1>1. ASSUME NEW j \in Job, PublishQueued(j) \/ CommitLost(j) \/ DbFault(j),
             misjudged' = misjudged \cup {j}, unheard' = unheard
      PROVE  Plate!Next
  <2>0. PICK p \in Printer : p = assigned[j]
    BY <1>0
  <2>1. ~Sound(p)'
    BY <1>0, <1>1, <2>0 DEF Sound
  <2>2. \A q \in Printer : q # p => Sound(q)' = Sound(q)
    BY <1>0, <1>1, <2>0 DEF Sound
  <2>3. CASE PublishQueued(j)
    <3>1. /\ \A q \in Printer : q # p => Load(q)' = Load(q)
          /\ \A q \in Printer : machine'[q].job = machine[q].job
          /\ \A k \in Job : starts[k] > 0 => starts'[k] > 0
      BY <2>0, <2>3, PublishTouches
    <3>2. QED
      BY <2>1, <2>2, <3>1, StrayStep
  <2>4. CASE CommitLost(j) \/ DbFault(j)
    <3>1. UNCHANGED <<row, starts, machine>>
      BY <2>4 DEF CommitLost, DbFault, storeVars, machineVars
    <3>2. \A q \in Printer : Load(q)' = Load(q)
      BY <3>1 DEF Load
    <3>3. QED
      BY <2>1, <2>2, <3>1, <3>2, StrayStep
  <2>5. QED
    BY <1>1, <2>3, <2>4
<1>2. ASSUME NEW p \in Printer, LoseReport(p), misjudged' = misjudged,
             unheard' = unheard \cup {p}
      PROVE  Plate!Next
  <2>1. ~Sound(p)' /\ \A q \in Printer : q # p => Sound(q)' = Sound(q)
    BY <1>0, <1>2 DEF Sound
  <2>2. UNCHANGED <<row, starts, machine>>
    BY <1>2 DEF LoseReport, storeVars, taskVars, machineVars
  <2>3. \A q \in Printer : Load(q)' = Load(q)
    BY <2>2 DEF Load
  <2>4. QED
    BY <2>1, <2>2, <2>3, StrayStep
<1>3. QED
  BY <1>1, <1>2, SoundMoves

(* Every step is one of the protocol, or none.                             *)
LEMMA PlateStep ==
    ASSUME PlateInv, PlateInv', ~StaleWrites, [Next]_vars
    PROVE  [Plate!Next]_Plate!vars
<1>0. ContractInv
  BY DEF PlateInv
<1>1. CASE ~UNCHANGED <<misjudged, unheard>>
  BY <1>1, PrinterStrays
<1>2. ASSUME NEW j \in Job, Publish(j) PROVE Plate!Next
  BY <1>2, PublishSends
<1>3. ASSUME NEW j \in Job, PublishQueued(j), UNCHANGED <<misjudged, unheard>>
      PROVE  [Plate!Next]_Plate!vars
  <2>0. PICK p \in Printer : p = assigned[j]
    BY <1>0, PlateTypes
  <2>1. ~Sound(p)'
    BY <1>3, <2>0, AssignedKept DEF PublishQueued, Sound
  <2>2. /\ \A q \in Printer : q # p => Load(q)' = Load(q)
        /\ \A q \in Printer : machine'[q].job = machine[q].job
        /\ \A k \in Job : starts[k] > 0 => starts'[k] > 0
    BY <1>3, <2>0, PublishTouches
  <2>3. QED
    BY <1>3, <2>1, <2>2, AstrayKept, StrayStep
<1>4. ASSUME NEW p \in Printer, ClearPlate(p) \/ MachineStep(p) PROVE [Plate!Next]_Plate!vars
  BY <1>4, ClearCleans, MachineKeepsPlate
<1>5. CASE /\ UNCHANGED <<misjudged, unheard>> /\ UNCHANGED <<starts, machine, wire, began>>
           /\ ~(\E p \in Printer : ClearPlate(p))
  BY <1>5, LoadStrays
<1>6. QED
  BY <1>0, <1>1, <1>2, <1>3, <1>4, <1>5, PrinterLeftAlone

(* The handoff implements the protocol promised to the operator: of every  *)
(* printer as long as it is sound, whatever becomes of the others.         *)
THEOREM HandoffKeepsPlate == ~StaleWrites => (Spec => PlateKept)
<1> SUFFICES ASSUME ~StaleWrites PROVE Spec => PlateKept
  OBVIOUS
<1>1. PlateInv /\ PlateInv' /\ [Next]_vars => [Plate!Next]_Plate!vars
  BY PlateStep
<1>2. QED
  BY <1>1, PlateInit, PlateInvariant, PTL DEF Spec, PlateKept, Plate!Spec
=============================================================================
