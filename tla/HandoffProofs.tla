--------------------------- MODULE HandoffProofs ---------------------------
(***************************************************************************)
(* For any number of jobs, printers, executor threads, crashes and failed  *)
(* transactions: the types of Handoff, that an ended job stays ended, that *)
(* a job is started at most once and a cancelled one never; and, when no   *)
(* commit falls between a handler's read and its write, that a printer's   *)
(* slot belongs to one job.                                                *)
(***************************************************************************)
EXTENDS Handoff, TLAPS

(* A transition keeps the status column well typed. *)
LEMMA TransitionType ==
    ASSUME NEW j, NEW from, NEW to \in JobStatus,
           status \in [Job -> JobStatus], Transition(j, from, to)
    PROVE  status' \in [Job -> JobStatus]
BY DEF Transition

(* What a flush writes is a printer row. *)
LEMMA FlushedType ==
    ASSUME NEW now \in PrinterState, NEW seen \in PrinterState, NEW new \in PrinterState
    PROVE  Flushed(now, seen, new) \in PrinterState
BY DEF Flushed, Column, PrinterState

(* A row written with a printer row keeps the table well typed. *)
LEMMA RowType ==
    ASSUME NEW p, NEW new \in PrinterState,
           row \in [Printer -> PrinterState], SetRow(p, new)
    PROVE  row' \in [Printer -> PrinterState]
BY DEF SetRow

(* A row one of whose columns is replaced is a row. *)
LEMMA ColumnType ==
    ASSUME NEW r \in PrinterState, NEW st \in PrinterStatus
    PROVE  [r EXCEPT !.status = st] \in PrinterState
BY DEF PrinterState

(* So is a row whose plate is blocked or cleared, or whose slot is claimed. *)
LEMMA PlateType ==
    ASSUME NEW r \in PrinterState, NEW b \in BOOLEAN
    PROVE  /\ [r EXCEPT !.cleared = b] \in PrinterState
           /\ [r EXCEPT !.cleared = b, !.current = NoJob] \in PrinterState
           /\ \A j \in Job : [r EXCEPT !.current = j] \in PrinterState
BY DEF PrinterState

(* The seed of init_db is a printer row. *)
LEMMA SeedRowType == SeedRow \in PrinterState
BY DEF SeedRow, PrinterState, PrinterStatus

(* Whatever a report makes of a job is a status. *)
LEMMA VerdictType ==
    ASSUME NEW st \in JobStatus, NEW s
    PROVE  Verdict(st, s) \in JobStatus
BY DEF Verdict, JobStatus

(* A task that only moves on stays well typed. *)
LEMMA GotoType ==
    ASSUME NEW j, NEW pc \in TaskPC, task \in [Job -> TaskType], Goto(j, pc)
    PROVE  task' \in [Job -> TaskType]
BY DEF Goto, TaskType

(* So does one that has ended. *)
LEMMA EndedType ==
    ASSUME NEW j, task \in [Job -> TaskType], Ended(j)
    PROVE  task' \in [Job -> TaskType]
BY SeedRowType DEF Ended, IdleTask, TaskType, TaskPC

(* So does one that also notes a report or the row it read. *)
LEMMA TaskNotes ==
    ASSUME NEW j \in Job, NEW pc \in TaskPC, NEW b \in BOOLEAN, NEW r \in PrinterState,
           task \in [Job -> TaskType]
    PROVE  /\ [task EXCEPT ![j].pc = pc, ![j].fresh = b] \in [Job -> TaskType]
           /\ [task EXCEPT ![j].pc = pc, ![j].seen = r] \in [Job -> TaskType]
BY DEF TaskType

(* A client one or more of whose fields are replaced is a client. *)
LEMMA ClientFlag ==
    ASSUME NEW p \in Printer, NEW b \in BOOLEAN, client \in [Printer -> ClientType]
    PROVE  /\ [client EXCEPT ![p].up = b] \in [Printer -> ClientType]
           /\ [client EXCEPT ![p].ack = b] \in [Printer -> ClientType]
<1>1. client[p] \in ClientType
  OBVIOUS
<1>2. [client[p] EXCEPT !.up = b] \in ClientType
  BY <1>1 DEF ClientType
<1>3. [client[p] EXCEPT !.ack = b] \in ClientType
  BY <1>1 DEF ClientType
<1>4. QED
  BY <1>2, <1>3

(* The same of a client that also takes a new status. *)
LEMMA ClientNotes ==
    ASSUME NEW p \in Printer, NEW b \in BOOLEAN, NEW st \in PrinterStatus, NEW g \in Gcode,
           client \in [Printer -> ClientType]
    PROVE  /\ [client EXCEPT ![p].up = b, ![p].status = st] \in [Printer -> ClientType]
           /\ [client EXCEPT ![p].ack = b, ![p].status = st, ![p].gcode = g]
                \in [Printer -> ClientType]
<1>1. client[p] \in ClientType
  OBVIOUS
<1>2. [client[p] EXCEPT !.up = b, !.status = st] \in ClientType
  BY <1>1 DEF ClientType
<1>3. [client[p] EXCEPT !.ack = b, !.status = st, !.gcode = g] \in ClientType
  BY <1>1 DEF ClientType
<1>4. QED
  BY <1>2, <1>3

(* The client's new state is well typed whatever is reported. *)
LEMMA HandlePrintType ==
    ASSUME NEW c \in ClientType, NEW reported \in Gcode, NEW full \in BOOLEAN
    PROVE  HandlePrint(c, reported, full) \in ClientType
<1> DEFINE suppressed == reported = "FAILED" /\ c.ack
           gcode == IF suppressed THEN "IDLE" ELSE reported
<1>1. gcode \in Gcode
    BY DEF Gcode
<1>2. (IF gcode \in DOMAIN StateMap THEN StateMap[gcode] ELSE c.status) \in PrinterStatus
    BY <1>1 DEF Gcode, StateMap, PrinterStatus, ClientType
<1>3. (IF full /\ reported # "FAILED" THEN FALSE ELSE c.ack) \in BOOLEAN
    BY DEF ClientType
<1>4. QED
    BY <1>1, <1>2, <1>3 DEF HandlePrint, ClientType

(* The printers report what the client knows. *)
LEMMA PhaseIsGcode ==
    ASSUME TypeOK, NEW p \in Printer
    PROVE  machine[p].phase \in Gcode
BY DEF TypeOK, MachineType, Phase, Gcode

(* A carried snapshot is one. *)
LEMMA SnapshotType ==
    ASSUME TypeOK, NEW p \in Printer, report[p] # NoSnapshot
    PROVE  /\ report[p] \in Snapshot
           /\ report[p].status \in PrinterStatus /\ report[p].gcode \in Gcode
BY DEF TypeOK, Snapshot

(* A report touches the client, the carried snapshot and the tasks' fresh. *)
LEMMA ReceiveType ==
    ASSUME TypeOK, NEW p \in Printer, NEW reported \in Gcode, NEW full \in BOOLEAN,
           Receive(p, reported, full)
    PROVE  TypeOK'
<1> DEFINE c == HandlePrint(client[p], reported, full)
<1>1. c \in ClientType
    BY HandlePrintType DEF TypeOK
<1>2. client' \in [Printer -> ClientType]
    BY <1>1 DEF Receive, TypeOK
<1>3. report' \in [Printer -> Snapshot \cup {NoSnapshot}]
    BY <1>1 DEF Receive, TypeOK, Snapshot, ClientType
<1>4. task' \in [Job -> TaskType]
    BY DEF Receive, TypeOK, TaskType
<1>5. QED
    BY <1>2, <1>3, <1>4 DEF Receive, TypeOK, StoreTypeOK, storeVars, machineVars, bounds

(* A snapshot that is written leaves the two tables well typed. *)
LEMMA WrittenType ==
    ASSUME TypeOK, NEW p \in Printer, NEW s \in Snapshot,
           WriteStatus(p, s) \/ WriteRunning(p, s) \/ WriteEnd(p, s)
    PROVE  row' \in [Printer -> PrinterState] /\ status' \in [Job -> JobStatus]
<1> USE DEF TypeOK, StoreTypeOK
<1>1. [row[p] EXCEPT !.status = s.status] \in PrinterState
  BY ColumnType DEF Snapshot
<1>2. CASE WriteStatus(p, s) \/ WriteRunning(p, s)
  <2>1. row' \in [Printer -> PrinterState]
    BY <1>1, <1>2, RowType DEF WriteStatus, WriteRunning
  <2>2. status' \in [Job -> JobStatus]
    BY <1>2, TransitionType DEF WriteStatus, WriteRunning, JobStatus
  <2>3. QED
    BY <2>1, <2>2
<1>3. CASE WriteEnd(p, s)
  <2> DEFINE v == Verdict(status[row[p].current], s)
  <2>1. v \in {"attention", "completed", "failed"} /\ Blocked[v] \in {"error", "idle"}
    BY <1>3 DEF WriteEnd, Blocked
  <2>2. [status |-> Blocked[v], current |-> row[p].current, cleared |-> FALSE] \in PrinterState
    BY <2>1 DEF PrinterState, PrinterStatus
  <2>3. row' \in [Printer -> PrinterState]
    BY <1>3, <2>2, RowType DEF WriteEnd
  <2>4. status' \in [Job -> JobStatus]
    BY <1>3, <2>1, TransitionType DEF WriteEnd, JobStatus
  <2>5. QED
    BY <2>3, <2>4
<1>4. QED
  BY <1>2, <1>3

(* Reconciliation writes printer rows. *)
LEMMA RestoredRowType ==
    ASSUME TypeOK, Reconcile
    PROVE  row' \in [Printer -> PrinterState]
<1>1. ASSUME NEW p \in Printer PROVE RestoredRow(p) \subseteq PrinterState
  <2>1. CASE JobsOf(p, {"printing"}) # {}
    BY <2>1 DEF RestoredRow, JobsOf, PrinterState, PrinterStatus
  <2>2. CASE JobsOf(p, {"printing"}) = {} /\ JobsOf(p, {"uploading", "starting"}) # {}
    BY <2>2 DEF RestoredRow, JobsOf, PrinterState, PrinterStatus
  <2>3. CASE JobsOf(p, {"printing"}) = {} /\ JobsOf(p, {"uploading", "starting"}) = {}
    <3>1. RestoredRow(p) = {row[p]}
      BY <2>3 DEF RestoredRow
    <3>2. row[p] \in PrinterState
      BY DEF TypeOK, StoreTypeOK
    <3>3. QED
      BY <3>1, <3>2
  <2>4. QED
    BY <2>1, <2>2, <2>3
<1>2. \A p \in Printer : row'[p] \in PrinterState
  <2>1. \A p \in Printer : row'[p] \in RestoredRow(p)
    BY DEF Reconcile
  <2>2. QED
    BY <1>1, <2>1
<1>3. \E R : row' \in [Printer -> R]
  BY DEF Reconcile
<1>4. QED
  BY <1>2, <1>3

(* The operator's inspection leaves the bed clear and the rest as it was. *)
LEMMA BedType ==
    ASSUME TypeOK, NEW p \in Printer, machine' = [machine EXCEPT ![p].bedClear = TRUE]
    PROVE  /\ machine' \in [Printer -> MachineType]
           /\ \A q \in Printer : machine'[q].phase \in Busy => machine'[q].job \in Job
<1>1. machine \in [Printer -> MachineType]
  BY DEF TypeOK
<1>2. ASSUME NEW m \in MachineType
      PROVE  [m EXCEPT !.bedClear = TRUE] \in MachineType
  BY DEF MachineType
<1>3. machine' = [machine EXCEPT ![p] = [machine[p] EXCEPT !.bedClear = TRUE]]
  OBVIOUS
<1>4. machine' \in [Printer -> MachineType]
  BY <1>1, <1>2, <1>3
<1>5. \A q \in Printer : machine'[q].phase = machine[q].phase /\ machine'[q].job = machine[q].job
  BY <1>1, <1>3 DEF MachineType
<1>6. QED
  BY <1>4, <1>5 DEF TypeOK

(* A printer that is not busy has no job; a pause or a resumption keeps it. *)
LEMMA SetPhaseType ==
    ASSUME TypeOK, NEW p \in Printer, NEW phase \in Phase, SetPhase(p, phase),
           phase \in Busy => machine[p].phase \in Busy
    PROVE  /\ machine' \in [Printer -> MachineType]
           /\ \A q \in Printer : machine'[q].phase \in Busy => machine'[q].job \in Job
<1> DEFINE job == IF phase \in Busy THEN machine[p].job ELSE NoJob
           m == [phase |-> phase, job |-> job, bedClear |-> machine[p].bedClear]
<1>1. machine \in [Printer -> MachineType]
  BY DEF TypeOK
<1>2. m \in MachineType
  BY <1>1 DEF MachineType
<1>3. machine' = [machine EXCEPT ![p] = m]
  BY DEF SetPhase
<1>4. m.phase \in Busy => m.job \in Job
  BY DEF TypeOK
<1>5. QED
  BY <1>1, <1>2, <1>3, <1>4 DEF TypeOK

----------------------------------------------------------------------------
(* The types hold in the first states. *)
LEMMA TypeInit == Init => TypeOK
<1> SUFFICES ASSUME Init PROVE TypeOK
    OBVIOUS
<1> USE DEF Init
<1>1. StoreTypeOK /\ assigned \in [Job -> Printer] /\ proc \in {"down", "booting", "up", "stopping"}
  BY SeedRowType DEF StoreTypeOK, JobStatus
<1>2. task \in [Job -> TaskType]
  BY SeedRowType DEF IdleTask, TaskType, TaskPC
<1>3. client \in [Printer -> ClientType]
  BY DEF NewClient, ClientType, PrinterStatus, Gcode
<1>4. report \in [Printer -> Snapshot \cup {NoSnapshot}]
  OBVIOUS
<1>5. request \in [Printer -> RequestType]
  BY SeedRowType DEF NoRequest, RequestType
<1>6. machine \in [Printer -> MachineType]
  BY DEF MachineType
<1>7. \A p \in Printer : machine[p].phase \notin Busy
  OBVIOUS
<1>8. crashes \in 0 .. MaxCrashes /\ dbFaults \in 0 .. MaxDbFaults
  BY HandoffAssumption
<1>9. QED
  BY <1>1, <1>2, <1>3, <1>4, <1>5, <1>6, <1>7, <1>8 DEF TypeOK

(* What is left when the process is gone is well typed. *)
LEMMA GoneType ==
    ASSUME TypeOK, ProcessGone, crashes' \in 0 .. MaxCrashes
    PROVE  TypeOK'
<1> USE DEF TypeOK, StoreTypeOK, storeVars, machineVars
<1>1. task' \in [Job -> TaskType]
  BY SeedRowType DEF ProcessGone, IdleTask, TaskType, TaskPC
<1>2. client' \in [Printer -> ClientType]
  BY DEF ProcessGone, NewClient, ClientType, PrinterStatus, Gcode
<1>3. request' \in [Printer -> RequestType]
  BY SeedRowType DEF ProcessGone, NoRequest, RequestType
<1>4. report' \in [Printer -> Snapshot \cup {NoSnapshot}]
  BY DEF ProcessGone
<1>5. QED
  BY <1>1, <1>2, <1>3, <1>4 DEF ProcessGone

(* Every step keeps the types. *)
LEMMA TypeStep == TypeOK /\ [Next]_vars => TypeOK'
<1> SUFFICES ASSUME TypeOK, [Next]_vars PROVE TypeOK'
    OBVIOUS
<1> USE DEF TypeOK, StoreTypeOK, storeVars, taskVars, machineVars, bounds
<1>1. ASSUME UNCHANGED vars PROVE TypeOK'
  BY <1>1 DEF vars
<1>2. ASSUME NEW j \in Job, Dispatch(j) PROVE TypeOK'
  <2>1. task' \in [Job -> TaskType]
    <3>1. CASE UNCHANGED task
      BY <3>1
    <3>2. CASE task' = [task EXCEPT ![j].pc = "submitted"]
      BY <3>2, GotoType DEF Goto, TaskPC
    <3>3. QED
      BY <1>2, <3>1, <3>2 DEF Dispatch
  <2>2. status' \in [Job -> JobStatus]
    BY <1>2, TransitionType DEF Dispatch, JobStatus
  <2>3. [row[assigned[j]] EXCEPT !.current = j] \in PrinterState
    BY PlateType
  <2>4. row' \in [Printer -> PrinterState]
    BY <1>2, <2>3, RowType DEF Dispatch
  <2>5. QED
    BY <1>2, <2>1, <2>2, <2>4 DEF Dispatch
<1>3. ASSUME NEW j \in Job, Cancel(j) PROVE TypeOK'
  BY <1>3 DEF Cancel, TransitionFrom, Transition, JobStatus
<1>4. ASSUME NEW j \in Job, TakeTask(j) PROVE TypeOK'
  BY <1>4, GotoType DEF TakeTask, TaskPC
<1>5. ASSUME NEW j \in Job, UploadOk(j) PROVE TypeOK'
  BY <1>5, GotoType, TransitionType DEF UploadOk, TaskPC, JobStatus
<1>6. ASSUME NEW j \in Job, UploadFails(j) PROVE TypeOK'
  BY <1>6, GotoType DEF UploadFails, TaskPC
<1>7. ASSUME NEW j \in Job, StartRefused(j) PROVE TypeOK'
  BY <1>7, GotoType DEF StartRefused, TaskPC
<1>8. ASSUME NEW j \in Job, StartAdmitted(j) PROVE TypeOK'
  <2>1. task' \in [Job -> TaskType]
    BY <1>8, TaskNotes, SeedRowType DEF StartAdmitted, TaskPC
  <2>2. client' \in [Printer -> ClientType]
    BY <1>8, ClientFlag DEF StartAdmitted
  <2>3. QED
    BY <1>8, <2>1, <2>2 DEF StartAdmitted
<1>9. ASSUME NEW j \in Job, Publish(j) PROVE TypeOK'
  BY <1>9, GotoType DEF Publish, TaskPC
<1>10. ASSUME NEW j \in Job, PublishRejected(j) PROVE TypeOK'
  BY <1>10, GotoType DEF PublishRejected, TaskPC
<1>11. ASSUME NEW j \in Job, Acked(j) PROVE TypeOK'
  BY <1>11, GotoType DEF Acked, TaskPC
<1>12. ASSUME NEW j \in Job, NotAcked(j) PROVE TypeOK'
  BY <1>12, GotoType DEF NotAcked, TaskPC
<1>13. ASSUME NEW j \in Job, Confirmed(j) PROVE TypeOK'
  BY <1>13, GotoType DEF Confirmed, TaskPC
<1>14. ASSUME NEW j \in Job, Rejected(j) PROVE TypeOK'
  BY <1>14, GotoType DEF Rejected, TaskPC
<1>15. ASSUME NEW j \in Job, TimedOut(j) PROVE TypeOK'
  BY <1>15, GotoType DEF TimedOut, TaskPC
<1>16. ASSUME NEW j \in Job, CommitPrinting(j) \/ MarkPlate(j) PROVE TypeOK'
  <2>1. [row[assigned[j]] EXCEPT !.cleared = FALSE] \in PrinterState
    BY PlateType
  <2>2. row' \in [Printer -> PrinterState]
    BY <1>16, <2>1, RowType DEF CommitPrinting, MarkPlate
  <2>3. status' \in [Job -> JobStatus]
    BY <1>16, TransitionType DEF CommitPrinting, MarkPlate, JobStatus
  <2>4. task' \in [Job -> TaskType]
    BY <1>16, EndedType DEF CommitPrinting, MarkPlate
  <2>5. QED
    BY <1>16, <2>2, <2>3, <2>4 DEF CommitPrinting, MarkPlate
<1>17. ASSUME NEW j \in Job, Quarantine(j) PROVE TypeOK'
  BY <1>17, EndedType, TransitionType, RowType DEF Quarantine, JobStatus, PrinterState, PrinterStatus
<1>18. ASSUME NEW j \in Job, FailJob(j) PROVE TypeOK'
  BY <1>18, GotoType, TransitionType DEF FailJob, TaskPC, TransitionFrom, JobStatus
<1>19. ASSUME NEW j \in Job, ReleaseSlot(j) PROVE TypeOK'
  BY <1>19, EndedType, RowType DEF ReleaseSlot, FreedRow, PrinterState, PrinterStatus
<1>20. ASSUME NEW j \in Job, ReadSlot(j) \/ ReadMark(j) PROVE TypeOK'
  <2>1. row[assigned[j]] \in PrinterState
    OBVIOUS
  <2>2. task' \in [Job -> TaskType]
    <3>1. \/ task' = [task EXCEPT ![j].pc = "release", ![j].seen = row[assigned[j]]]
          \/ task' = [task EXCEPT ![j].pc = "mark", ![j].seen = row[assigned[j]]]
      BY <1>20 DEF ReadSlot, ReadMark
    <3>2. ASSUME NEW pc \in {"release", "mark"}
          PROVE  [task EXCEPT ![j].pc = pc, ![j].seen = row[assigned[j]]] \in [Job -> TaskType]
      <4>1. pc \in TaskPC
        BY DEF TaskPC
      <4>2. task \in [Job -> TaskType]
        OBVIOUS
      <4>3. QED
        BY ONLY <2>1, <4>1, <4>2, TaskNotes
    <3>3. QED
      BY <3>1, <3>2
  <2>3. QED
    BY <1>20, <2>2 DEF ReadSlot, ReadMark
<1>21. ASSUME NEW j \in Job, WriteSlot(j) \/ WriteMark(j) PROVE TypeOK'
  <2>1. task[j].seen \in PrinterState /\ row[assigned[j]] \in PrinterState
    BY DEF TaskType
  <2>2. FreedRow \in PrinterState /\ [task[j].seen EXCEPT !.cleared = FALSE] \in PrinterState
    BY <2>1, PlateType DEF FreedRow, PrinterState, PrinterStatus
  <2>3. row' \in [Printer -> PrinterState]
    BY <1>21, <2>1, <2>2, FlushedType, RowType DEF WriteSlot, WriteMark
  <2>4. task' \in [Job -> TaskType]
    BY <1>21, EndedType DEF WriteSlot, WriteMark
  <2>5. QED
    BY <1>21, <2>3, <2>4 DEF WriteSlot, WriteMark
<1>22. ASSUME NEW j \in Job, DbFault(j) PROVE TypeOK'
  <2>1. task' \in [Job -> TaskType]
    BY <1>22, GotoType, EndedType DEF DbFault, TaskPC
  <2>2. dbFaults' \in 0 .. MaxDbFaults
    BY <1>22, HandoffAssumption DEF DbFault
  <2>3. misjudged' \in SUBSET Job
    BY <1>22 DEF DbFault
  <2>4. QED
    BY <1>22, <2>1, <2>2, <2>3 DEF DbFault
<1>23. ASSUME NEW p \in Printer, Connect(p) PROVE TypeOK'
  BY <1>23 DEF Connect, ClientType
<1>24. ASSUME NEW p \in Printer, Disconnect(p) PROVE TypeOK'
  <2>1. client' \in [Printer -> ClientType]
    BY <1>24, ClientNotes DEF Disconnect, PrinterStatus, Gcode
  <2>2. client[p].gcode \in Gcode
    BY DEF ClientType
  <2>3. report' \in [Printer -> Snapshot \cup {NoSnapshot}]
    BY <1>24, <2>2 DEF Disconnect, Snapshot, PrinterStatus
  <2>4. QED
    BY <1>24, <2>1, <2>3 DEF Disconnect
<1>25. ASSUME NEW p \in Printer, FullReport(p) PROVE TypeOK'
  BY <1>25, ReceiveType, PhaseIsGcode DEF FullReport
<1>26. ASSUME NEW p \in Printer, PartialReport(p) PROVE TypeOK'
  BY <1>26, ReceiveType DEF PartialReport, ClientType
<1>27. ASSUME NEW p \in Printer, ApplyReport(p) PROVE TypeOK'
  <2>1. row' \in [Printer -> PrinterState] /\ status' \in [Job -> JobStatus]
    BY <1>27, SnapshotType, WrittenType DEF ApplyReport
  <2>2. report' \in [Printer -> Snapshot \cup {NoSnapshot}]
    BY <1>27 DEF ApplyReport
  <2>3. QED
    BY <1>27, <2>1, <2>2 DEF ApplyReport
<1>28. ASSUME NEW p \in Printer, WriteIdle(p) PROVE TypeOK'
  <2>1. IdleSnapshot \in Snapshot
    BY DEF IdleSnapshot, Snapshot, PrinterStatus, Gcode
  <2>2. row' \in [Printer -> PrinterState] /\ status' \in [Job -> JobStatus]
    BY <1>28, <2>1, WrittenType DEF WriteIdle
  <2>3. request' \in [Printer -> RequestType]
    BY <1>28, SeedRowType DEF WriteIdle, NoRequest, RequestType
  <2>4. QED
    BY <1>28, <2>2, <2>3 DEF WriteIdle
<1>29. ASSUME NEW j \in Job, ReadConfirmed(j) \/ CommitLost(j) \/ PublishQueued(j) PROVE TypeOK'
  <2>1. task' \in [Job -> TaskType]
    BY <1>29, GotoType, EndedType DEF ReadConfirmed, CommitLost, PublishQueued, TaskPC
  <2>2. misjudged' \in SUBSET Job
    BY <1>29 DEF ReadConfirmed, CommitLost, PublishQueued
  <2>3. QED
    BY <1>29, <2>1, <2>2 DEF ReadConfirmed, CommitLost, PublishQueued
<1>30. ASSUME NEW p \in Printer, ClearPlate(p) PROVE TypeOK'
  <2>1. [row[p] EXCEPT !.cleared = TRUE, !.current = NoJob] \in PrinterState
    BY PlateType
  <2>2. row' \in [Printer -> PrinterState]
    BY <1>30, <2>1, RowType DEF ClearPlate
  <2>3. status' \in [Job -> JobStatus]
    BY <1>30, TransitionType DEF ClearPlate, JobStatus
  <2>4. QED
    BY <1>30, <2>2, <2>3, BedType DEF ClearPlate
<1>31. ASSUME NEW p \in Printer, ReadPlate(p) PROVE TypeOK'
  <2>1. request' \in [Printer -> RequestType]
    BY <1>31 DEF ReadPlate, RequestType
  <2>2. QED
    BY <1>31, <2>1, BedType DEF ReadPlate
<1>32. ASSUME NEW p \in Printer, WritePlate(p) PROVE TypeOK'
  <2> DEFINE seen == request[p].seen
             new == [seen EXCEPT !.cleared = TRUE, !.current = NoJob]
  <2>1. seen \in PrinterState /\ row[p] \in PrinterState
    BY DEF RequestType
  <2>2. new \in PrinterState
    BY <2>1 DEF PrinterState
  <2>3. row' \in [Printer -> PrinterState]
    BY <1>32, <2>1, <2>2, FlushedType, RowType DEF WritePlate
  <2>4. status' \in [Job -> JobStatus]
    BY <1>32, TransitionType DEF WritePlate, JobStatus
  <2>5. request' \in [Printer -> RequestType]
    BY <1>32, SeedRowType DEF WritePlate, NoRequest, RequestType
  <2>6. QED
    BY <1>32, <2>3, <2>4, <2>5 DEF WritePlate
<1>33. ASSUME NEW p \in Printer, AbortPlate(p) PROVE TypeOK'
  BY <1>33, SeedRowType DEF AbortPlate, NoRequest, RequestType
<1>34. ASSUME NEW p \in Printer, AcknowledgeIdle(p) \/ AdmitIdle(p) PROVE TypeOK'
  <2>1. TakeForIdle(p)
    BY <1>34 DEF AcknowledgeIdle, AdmitIdle
  <2>2. client' \in [Printer -> ClientType]
    <3>1. client' = [client EXCEPT ![p].ack = TRUE, ![p].status = "idle", ![p].gcode = "IDLE"]
      BY <2>1 DEF TakeForIdle
    <3>2. QED
      BY <3>1, ClientNotes DEF PrinterStatus, Gcode
  <2>3. UNCHANGED <<assigned, proc, taskVars, report, machineVars, bounds>>
    BY <2>1 DEF TakeForIdle
  <2>4. CASE AcknowledgeIdle(p)
    <3>1. [row[p] EXCEPT !.status = "idle"] \in PrinterState
      BY ColumnType DEF PrinterStatus
    <3>2. row' \in [Printer -> PrinterState]
      BY <2>4, <3>1, RowType DEF AcknowledgeIdle
    <3>3. UNCHANGED <<status, request>>
      BY <2>4 DEF AcknowledgeIdle
    <3>4. QED
      BY <2>2, <2>3, <3>2, <3>3
  <2>5. CASE AdmitIdle(p)
    <3>1. request' \in [Printer -> RequestType]
      BY <2>5 DEF AdmitIdle, RequestType
    <3>2. UNCHANGED <<status, row>>
      BY <2>5 DEF AdmitIdle
    <3>3. QED
      BY <2>2, <2>3, <3>1, <3>2
  <2>6. QED
    BY <1>34, <2>4, <2>5
<1>35. ASSUME NEW p \in Printer, NEW j \in Job, BeginPrint(p, j) PROVE TypeOK'
  BY <1>35 DEF BeginPrint, SetPhase, MachineType, Phase, Busy
<1>36. ASSUME NEW p \in Printer, NEW j \in Job, RefusePrint(p, j) PROVE TypeOK'
  <2>1. wire' \in [Printer -> SUBSET Job]
    BY <1>36 DEF RefusePrint
  <2>2. QED
    BY <1>36, <2>1, SetPhaseType DEF RefusePrint, Phase, Busy
<1>37. ASSUME NEW p \in Printer, NEW j \in Job, LoseStart(p, j) PROVE TypeOK'
  BY <1>37 DEF LoseStart, SetPhase, MachineType, Phase, Busy
<1>38. ASSUME NEW p \in Printer, EndPrint(p) PROVE TypeOK'
  BY <1>38, SetPhaseType DEF EndPrint, Phase, Busy
<1>39. ASSUME NEW p \in Printer, TouchScreen(p) PROVE TypeOK'
  BY <1>39, SetPhaseType DEF TouchScreen, Phase, Busy
<1>40. ASSUME Exit \/ Crash PROVE TypeOK'
  <2>1. crashes' \in 0 .. MaxCrashes
    BY <1>40, HandoffAssumption DEF Exit, Crash
  <2>2. ProcessGone
    BY <1>40 DEF Exit, Crash
  <2>3. QED
    BY <2>1, <2>2, GoneType
<1>41. ASSUME Boot PROVE TypeOK'
  BY <1>41 DEF Boot
<1>42. ASSUME Reconcile PROVE TypeOK'
  BY <1>42, RestoredRowType DEF Reconcile, Recovered, JobStatus
<1>43. ASSUME NEW p \in Printer, DropClient(p) PROVE TypeOK'
  <2>1. client[p].up \in BOOLEAN /\ client[p].status \in PrinterStatus
    BY DEF ClientType
  <2>2. PICK st \in {client[p].status, "offline"} :
               client' = [client EXCEPT ![p].up = FALSE, ![p].status = st]
    BY <1>43 DEF DropClient
  <2>3. st \in PrinterStatus /\ "IDLE" \in Gcode
    BY <2>1 DEF PrinterStatus, Gcode
  <2>4. client' \in [Printer -> ClientType]
    BY <2>2, <2>3, ClientNotes
  <2>5. QED
    BY <1>43, <2>4 DEF DropClient
<1>44. ASSUME NEW p \in Printer, LoseReport(p) PROVE TypeOK'
  <2>1. dbFaults' \in 0 .. MaxDbFaults
    BY <1>44, HandoffAssumption DEF LoseReport
  <2>2. report' \in [Printer -> Snapshot \cup {NoSnapshot}]
    BY <1>44 DEF LoseReport
  <2>3. unheard' \in SUBSET Printer
    BY <1>44 DEF LoseReport
  <2>4. QED
    BY <1>44, <2>1, <2>2, <2>3 DEF LoseReport
<1>45. ASSUME Stop PROVE TypeOK'
  <2>1. task' \in [Job -> TaskType]
    BY <1>45, SeedRowType DEF Stop, IdleTask, TaskType, TaskPC
  <2>2. crashes' \in 0 .. MaxCrashes
    BY <1>45, HandoffAssumption DEF Stop
  <2>3. QED
    BY <1>45, <2>1, <2>2 DEF Stop
<1>46. QED
  BY <1>1, <1>2, <1>3, <1>4, <1>5, <1>6, <1>7, <1>8, <1>9, <1>10, <1>11, <1>12, <1>13,
     <1>14, <1>15, <1>16, <1>17, <1>18, <1>19, <1>20, <1>21, <1>22, <1>23, <1>24, <1>25,
     <1>26, <1>27, <1>28, <1>29, <1>30, <1>31, <1>32, <1>33, <1>34, <1>35, <1>36, <1>37,
     <1>38, <1>39, <1>40, <1>41, <1>42, <1>43, <1>44, <1>45 DEF Next, TaskStep, ClientStep,
     OperatorStep, MachineStep

(* Every variable keeps its type, with stale writes, crashes and faults.   *)
THEOREM TypeCorrect == Spec => []TypeOK
BY TypeInit, TypeStep, PTL DEF Spec

----------------------------------------------------------------------------
(* One transition moves one job, out of a status that is not terminal; a   *)
(* job handed to its printer stays so.                                     *)
LEMMA TransitionMoves ==
    ASSUME TypeOK, NEW j \in Job, NEW from, NEW to, Transition(j, from, to), NEW k \in Job
    PROVE  \/ status'[k] = status[k]
           \/ /\ status[k] \notin Terminal
              /\ status[k] \in Handed \cup {"uploading"} => status'[k] \in Handed
<1>1. status \in [Job -> JobStatus] /\ from = status[j] /\ from \in JobStatus
  BY DEF TypeOK, StoreTypeOK, Transition
<1>2. from \notin Terminal /\ (from \in Handed \cup {"uploading"} => to \in Handed)
  BY <1>1 DEF Transition, Allowed, JobStatus, Terminal, Handed, Physical
<1>3. status' = [status EXCEPT ![j] = to]
  BY DEF Transition
<1>4. QED
  BY <1>1, <1>2, <1>3

(* The same of every step.                                                 *)
LEMMA StatusMoves ==
    ASSUME TypeOK, [Next]_vars, NEW k \in Job
    PROVE  \/ status'[k] = status[k]
           \/ /\ status[k] \notin Terminal
              /\ status[k] \in Handed \cup {"uploading"} => status'[k] \in Handed
<1> DEFINE Moves == \/ status'[k] = status[k]
                    \/ /\ status[k] \notin Terminal
                       /\ status[k] \in Handed \cup {"uploading"} => status'[k] \in Handed
<1>1. CASE UNCHANGED vars
  BY <1>1 DEF vars, storeVars
<1>2. ASSUME NEW j \in Job, Dispatch(j) \/ Cancel(j) PROVE Moves
  BY <1>2, TransitionMoves DEF Dispatch, Cancel, TransitionFrom
<1>3. ASSUME NEW j \in Job, TaskStep(j) PROVE Moves
  <2>1. CASE UploadOk(j) \/ CommitPrinting(j) \/ Quarantine(j) \/ FailJob(j)
    BY <2>1, TransitionMoves DEF UploadOk, CommitPrinting, Quarantine, FailJob, TransitionFrom
  <2>2. CASE \/ TakeTask(j) \/ UploadFails(j) \/ StartRefused(j) \/ StartAdmitted(j)
             \/ Publish(j) \/ PublishRejected(j) \/ Acked(j) \/ NotAcked(j)
    BY <2>2 DEF storeVars, TakeTask, UploadFails, StartRefused, StartAdmitted, Publish,
                PublishRejected, Acked, NotAcked
  <2>3. CASE \/ Confirmed(j) \/ Rejected(j) \/ TimedOut(j)
             \/ ReleaseSlot(j) \/ ReadSlot(j) \/ WriteSlot(j) \/ DbFault(j)
    BY <2>3 DEF storeVars, Confirmed, Rejected, TimedOut, ReleaseSlot, ReadSlot, WriteSlot, DbFault
  <2>4. CASE \/ PublishQueued(j) \/ ReadConfirmed(j) \/ CommitLost(j)
             \/ MarkPlate(j) \/ ReadMark(j) \/ WriteMark(j)
    BY <2>4 DEF storeVars, PublishQueued, ReadConfirmed, CommitLost, MarkPlate, ReadMark, WriteMark
  <2>5. QED
    BY <1>3, <2>1, <2>2, <2>3, <2>4 DEF TaskStep
<1>4. ASSUME NEW p \in Printer, ClientStep(p) \/ MachineStep(p) PROVE Moves
  BY <1>4 DEF ClientStep, MachineStep, storeVars, Connect, Disconnect, DropClient, FullReport, PartialReport, LoseReport,
              Receive, BeginPrint, RefusePrint, LoseStart, EndPrint, TouchScreen
<1>5. ASSUME NEW p \in Printer, ApplyReport(p) PROVE Moves
  <2>1. row[p].current \in Job \cup {NoJob}
    BY DEF TypeOK, StoreTypeOK, PrinterState
  <2>2. QED
    BY <1>5, <2>1, TransitionMoves DEF ApplyReport, WriteStatus, WriteRunning, WriteEnd
<1>6. ASSUME NEW p \in Printer, OperatorStep(p) PROVE Moves
  <2>1. CASE ClearPlate(p)
    <3>1. InAttention(p) => row[p].current \in Job
      BY DEF InAttention, TypeOK, StoreTypeOK, PrinterState
    <3>2. QED
      BY <2>1, <3>1, TransitionMoves DEF ClearPlate
  <2>2. CASE WritePlate(p)
    <3>1. CASE UNCHANGED status
      BY <3>1
    <3>2. CASE Transition(request[p].seen.current, "attention", "failed")
      <4>1. CASE request[p].seen.current \in Job
        BY <3>2, <4>1, TransitionMoves
      <4>2. CASE request[p].seen.current \notin Job
        BY <3>2, <4>2 DEF Transition, TypeOK, StoreTypeOK
      <4>3. QED
        BY <4>1, <4>2
    <3>3. QED
      BY <2>2, <3>1, <3>2 DEF WritePlate
  <2>3. CASE ReadPlate(p) \/ AbortPlate(p) \/ AcknowledgeIdle(p) \/ AdmitIdle(p)
    BY <2>3 DEF storeVars, ReadPlate, AbortPlate, AcknowledgeIdle, AdmitIdle
  <2>4. CASE WriteIdle(p)
    <3>1. row[p].current \in Job \cup {NoJob}
      BY DEF TypeOK, StoreTypeOK, PrinterState
    <3>2. QED
      BY <2>4, <3>1, TransitionMoves DEF WriteIdle, WriteStatus, WriteEnd
  <2>5. QED
    BY <1>6, <2>1, <2>2, <2>3, <2>4 DEF OperatorStep
<1>7. CASE Stop \/ Exit \/ Crash \/ Boot
  BY <1>7 DEF Stop, Exit, Crash, ProcessGone, Boot, storeVars
<1>8. CASE Reconcile
  BY <1>8 DEF Reconcile, Recovered, Terminal, Handed, Physical
<1>9. QED
  BY <1>1, <1>2, <1>3, <1>4, <1>5, <1>6, <1>7, <1>8 DEF Next

(* A terminal status is never left, by any thread, callback or restart.    *)
THEOREM TerminalHolds == Spec => TerminalIsFinal
<1>1. TypeOK /\ [Next]_vars =>
        [\A j \in Job : status[j] \in Terminal => status'[j] = status[j]]_vars
  BY StatusMoves
<1>2. QED
  BY <1>1, TypeCorrect, PTL DEF Spec, TerminalIsFinal

----------------------------------------------------------------------------
(* A step that leaves a job's task where it is keeps its StartOK.          *)
LEMMA StartKept ==
    ASSUME TypeOK, [Next]_vars, NEW k \in Job, StartOK(k),
           task'[k].pc = task[k].pc, starts'[k] = starts[k], misjudged \subseteq misjudged'
    PROVE  StartOK(k)'
<1>1. \/ status'[k] = status[k]
      \/ status[k] \in Handed \cup {"uploading"} => status'[k] \in Handed
  BY StatusMoves
<1>2. QED
  BY <1>1 DEF StartOK

(* So does one that only moves a task on, past the publishing of a start;  *)
(* a start that is handled as failed was not published, or is misjudged.   *)
LEMMA StartMoved ==
    ASSUME StartInv, [Next]_vars, NEW j \in Job, NEW pc \in TaskPC, Goto(j, pc),
           task[j].pc # "none", pc \notin {"submitted", "upload", "guard", "publish"},
           pc \in {"failing", "releasing", "release"} => starts[j] = 0 \/ j \in misjudged',
           starts' = starts, misjudged \subseteq misjudged', NEW k \in Job
    PROVE  StartOK(k)'
<1>1. task \in [Job -> TaskType] /\ TypeOK /\ StartOK(k)
  BY DEF StartInv, TypeOK
<1>2. CASE k # j
  BY <1>1, <1>2, StartKept DEF Goto
<1>3. CASE k = j
  <2>1. task'[k].pc = pc
    BY <1>1, <1>3 DEF Goto, TaskType
  <2>2. \/ status'[k] = status[k]
        \/ status[k] \in Handed \cup {"uploading"} => status'[k] \in Handed
    BY <1>1, StatusMoves
  <2>3. QED
    BY <1>1, <1>3, <2>1, <2>2 DEF StartOK
<1>4. QED
  BY <1>2, <1>3

(* So does the end of a task. *)
LEMMA StartEnded ==
    ASSUME StartInv, [Next]_vars, NEW j \in Job, Ended(j), task[j].pc # "none",
           starts' = starts, misjudged \subseteq misjudged', NEW k \in Job
    PROVE  StartOK(k)'
<1>1. task \in [Job -> TaskType] /\ TypeOK /\ StartOK(k)
  BY DEF StartInv, TypeOK
<1>2. CASE k # j
  BY <1>1, <1>2, StartKept DEF Ended
<1>3. CASE k = j
  <2>1. task'[k].pc = "none"
    BY <1>1, <1>3 DEF Ended, IdleTask
  <2>2. \/ status'[k] = status[k]
        \/ status[k] \in Handed \cup {"uploading"} => status'[k] \in Handed
    BY <1>1, StatusMoves
  <2>3. QED
    BY <1>1, <1>3, <2>1, <2>2 DEF StartOK
<1>4. QED
  BY <1>2, <1>3

(* Every step keeps StartInv: one case per action that moves a task, a     *)
(* status or the count of starts.                                          *)
LEMMA StartStep == StartInv /\ [Next]_vars => StartInv'
<1> SUFFICES ASSUME StartInv, [Next]_vars, NEW k \in Job PROVE StartOK(k)'
  BY TypeStep DEF StartInv
<1> USE DEF TaskPC
<1>0. TypeOK /\ task \in [Job -> TaskType] /\ status \in [Job -> JobStatus]
      /\ starts \in [Job -> Nat] /\ StartOK(k)
  BY DEF StartInv, TypeOK, StoreTypeOK
<1>1. CASE UNCHANGED vars
  BY <1>0, <1>1, StartKept DEF vars, taskVars
<1>2. ASSUME NEW j \in Job, Dispatch(j) PROVE StartOK(k)'
  <2>1. CASE k = j
    <3>1. status[k] = "queued" /\ status'[k] = "uploading" /\ starts'[k] = starts[k]
      BY <1>0, <1>2, <2>1 DEF Dispatch, Transition
    <3>2. task'[k].pc \in {task[k].pc, "submitted"}
      BY <1>0, <1>2, <2>1 DEF Dispatch, TaskType
    <3>3. task[k].pc = "none" /\ starts[k] = 0
      BY <1>0, <3>1 DEF StartOK, Handed, Physical
    <3>4. QED
      BY <3>1, <3>2, <3>3 DEF StartOK
  <2>2. CASE k # j
    <3>1. task'[k].pc = task[k].pc /\ starts'[k] = starts[k] /\ misjudged' = misjudged
      BY <1>0, <1>2, <2>2 DEF Dispatch, TaskType
    <3>2. QED
      BY <1>0, <3>1, StartKept
  <2>3. QED
    BY <2>1, <2>2
<1>3. ASSUME NEW j \in Job, Cancel(j) PROVE StartOK(k)'
  BY <1>0, <1>3, StartKept DEF Cancel, taskVars
<1>4. ASSUME NEW j \in Job, TaskStep(j) PROVE StartOK(k)'
  <2>1. CASE TakeTask(j)
    BY <1>0, <2>1 DEF TakeTask, storeVars, Goto, StartOK, TaskType
  <2>2. CASE UploadOk(j)
    BY <1>0, <2>2 DEF UploadOk, Transition, Goto, StartOK, TaskType, Handed, Physical
  <2>3. CASE StartAdmitted(j)
    BY <1>0, <2>3 DEF StartAdmitted, storeVars, StartOK, TaskType
  <2>4. CASE Publish(j)
    BY <1>0, <2>4 DEF Publish, storeVars, Goto, StartOK, TaskType
  <2>5. CASE \/ UploadFails(j) \/ StartRefused(j) \/ PublishRejected(j)
    <3>1. starts[j] = 0
      BY <2>5 DEF UploadFails, StartRefused, PublishRejected, StartInv, StartOK
    <3>2. QED
      BY <2>5, <3>1, StartMoved DEF UploadFails, StartRefused, PublishRejected
  <2>6. CASE \/ Acked(j) \/ NotAcked(j) \/ Confirmed(j) \/ Rejected(j) \/ TimedOut(j)
    BY <2>6, StartMoved DEF Acked, NotAcked, Confirmed, Rejected, TimedOut
  <2>7. CASE PublishQueued(j)
    BY <1>0, <2>7 DEF PublishQueued, storeVars, Goto, StartOK, TaskType
  <2>8. CASE ReadConfirmed(j) \/ CommitLost(j) \/ DbFault(j)
    BY <2>8, StartMoved, StartEnded DEF ReadConfirmed, CommitLost, DbFault
  <2>9. CASE FailJob(j)
    <3>1. starts[j] = 0 \/ j \in misjudged
      BY <2>9 DEF FailJob, StartInv, StartOK
    <3>2. QED
      BY <2>9, <3>1, StartMoved DEF FailJob
  <2>10. CASE \/ CommitPrinting(j) \/ MarkPlate(j) \/ WriteMark(j) \/ Quarantine(j)
              \/ ReleaseSlot(j) \/ WriteSlot(j)
    BY <2>10, StartEnded DEF CommitPrinting, MarkPlate, WriteMark, Quarantine, ReleaseSlot, WriteSlot
  <2>11. CASE ReadSlot(j) \/ ReadMark(j)
    BY <1>0, <2>11 DEF ReadSlot, ReadMark, storeVars, StartOK, TaskType
  <2>12. QED
    BY <1>4, <2>1, <2>2, <2>3, <2>4, <2>5, <2>6, <2>7, <2>8, <2>9, <2>10, <2>11 DEF TaskStep
<1>5. ASSUME NEW p \in Printer, ClientStep(p) PROVE StartOK(k)'
  <2>1. CASE Connect(p) \/ Disconnect(p) \/ DropClient(p) \/ LoseReport(p)
    BY <1>0, <2>1, StartKept DEF Connect, Disconnect, DropClient, LoseReport, taskVars
  <2>2. CASE FullReport(p) \/ PartialReport(p)
    <3>1. task'[k].pc = task[k].pc /\ starts' = starts /\ misjudged' = misjudged
      BY <1>0, <2>2 DEF FullReport, PartialReport, Receive, TaskType
    <3>2. QED
      BY <1>0, <3>1, StartKept
  <2>3. QED
    BY <1>5, <2>1, <2>2 DEF ClientStep
<1>6. ASSUME NEW p \in Printer, ApplyReport(p) \/ OperatorStep(p) PROVE StartOK(k)'
  <2>1. UNCHANGED taskVars
    BY <1>6 DEF ApplyReport, OperatorStep, ClearPlate, ReadPlate, WritePlate, AbortPlate,
                AcknowledgeIdle, AdmitIdle, TakeForIdle, WriteIdle
  <2>2. QED
    BY <1>0, <2>1, StartKept DEF taskVars
<1>7. ASSUME NEW p \in Printer, MachineStep(p) PROVE StartOK(k)'
  <2>1. UNCHANGED taskVars
    BY <1>7 DEF MachineStep, BeginPrint, RefusePrint, LoseStart, EndPrint, TouchScreen
  <2>2. QED
    BY <1>0, <2>1, StartKept DEF taskVars
<1>8. CASE Stop \/ Exit \/ Crash
  <2>1. starts' = starts /\ status' = status /\ misjudged' = misjudged
    BY <1>8 DEF Stop, Exit, Crash, ProcessGone, storeVars
  <2>2. task'[k].pc \in {task[k].pc, "none"}
    BY <1>0, <1>8 DEF Stop, Exit, Crash, ProcessGone, IdleTask
  <2>3. QED
    BY <1>0, <2>1, <2>2 DEF StartOK
<1>9. CASE Boot \/ Reconcile
  BY <1>0, <1>9, StartKept DEF Boot, Reconcile, taskVars
<1>10. QED
  BY <1>1, <1>2, <1>3, <1>4, <1>5, <1>6, <1>7, <1>8, <1>9 DEF Next

(* At first no task exists and nothing was started. *)
LEMMA StartInit == Init => StartInv
<1>1. ASSUME Init, NEW j \in Job PROVE StartOK(j)
  <2>1. task[j].pc = "none" /\ starts[j] = 0
    BY <1>1 DEF Init, IdleTask
  <2>2. QED
    BY <2>1 DEF StartOK
<1>2. QED
  BY <1>1, TypeInit DEF StartInv

(* Where the task of a job is tells whether its start was published, with  *)
(* failed transactions and stale writes too.                               *)
THEOREM StartInvariant == Spec => []StartInv
BY StartInit, StartStep, PTL DEF Spec

(* A job's start command is published at most once, for any number of      *)
(* crashes, failed transactions and stale writes.                          *)
THEOREM StartOnce == Spec => []StartedAtMostOnce
<1>1. StartInv => StartedAtMostOnce
  <2> SUFFICES ASSUME StartInv, NEW j \in Job PROVE starts[j] <= 1
    BY DEF StartedAtMostOnce
  <2>1. starts[j] \in Nat /\ StartOK(j)
    BY DEF StartInv, TypeOK
  <2>2. QED
    BY <2>1 DEF StartOK
<1>2. QED
  BY <1>1, StartInit, StartStep, PTL DEF Spec

(* A cancelled job was not started and has no task that could start it.    *)
THEOREM CancelledStaysUnstarted == Spec => []CancelledNeverStarted
<1>1. StartInv => CancelledNeverStarted
  <2> SUFFICES ASSUME StartInv, NEW j \in Job, status[j] = "cancelled"
               PROVE  starts[j] = 0 /\ task[j].pc = "none"
    BY DEF CancelledNeverStarted
  <2>1. starts[j] \in Nat /\ StartOK(j)
    BY DEF StartInv, TypeOK
  <2>2. QED
    BY <2>1 DEF StartOK, Handed, Physical
<1>2. QED
  BY <1>1, StartInit, StartStep, PTL DEF Spec

----------------------------------------------------------------------------
(* A step that touches neither the rows nor a job's status keeps the slots. *)
LEMMA SlotKept ==
    ASSUME SlotOwned, UploadingIsClear, UNCHANGED storeVars
    PROVE  SlotOwned' /\ UploadingIsClear'
BY DEF SlotOwned, UploadingIsClear, storeVars

(* Without stale writes no handler is between a read and its write.        *)
LEMMA NothingStaleStep ==
    ASSUME SlotInv, ~StaleWrites, [Next]_vars
    PROVE  NothingStale'
<1> USE DEF NothingStale
<1>0. TypeOK /\ NothingStale /\ task \in [Job -> TaskType]
      /\ request \in [Printer -> RequestType]
  BY DEF SlotInv, TypeOK
<1>1. CASE UNCHANGED vars
  BY <1>0, <1>1 DEF vars, taskVars
<1>2. ASSUME NEW j \in Job, Dispatch(j) \/ Cancel(j) PROVE NothingStale'
  <2>1. request' = request
    BY <1>2 DEF Dispatch, Cancel
  <2>2. CASE UNCHANGED task
    BY <1>0, <2>1, <2>2
  <2>3. CASE task' = [task EXCEPT ![j].pc = "submitted"]
    BY <1>0, <2>1, <2>3 DEF TaskType
  <2>4. QED
    BY <1>2, <2>2, <2>3 DEF Dispatch, Cancel, taskVars
<1>3. ASSUME NEW j \in Job, TaskStep(j) PROVE NothingStale'
  <2>1. request' = request /\ ~ReadSlot(j) /\ ~ReadMark(j) /\ ~WriteSlot(j) /\ ~WriteMark(j)
    BY <1>0, <1>3 DEF TaskStep, TakeTask, UploadOk, UploadFails, StartRefused, StartAdmitted,
       Publish, PublishRejected, PublishQueued, Acked, NotAcked, Confirmed, Rejected, TimedOut,
       ReadConfirmed, CommitPrinting, CommitLost, MarkPlate, ReadMark, WriteMark,
       Quarantine, FailJob, ReleaseSlot, ReadSlot, WriteSlot, DbFault
  <2>2. ASSUME NEW pc \in TaskPC \ {"mark", "release"}, Goto(j, pc), NEW k \in Job
        PROVE  task'[k].pc \notin {"mark", "release"}
    BY <1>0, <2>2 DEF Goto, TaskType
  <2>3. ASSUME Ended(j), NEW k \in Job PROVE task'[k].pc \notin {"mark", "release"}
    BY <1>0, <2>3 DEF Ended, IdleTask
  <2>4. CASE \/ TakeTask(j) \/ UploadOk(j) \/ UploadFails(j) \/ StartRefused(j)
             \/ Publish(j) \/ PublishRejected(j) \/ PublishQueued(j) \/ Acked(j) \/ NotAcked(j)
    BY <1>0, <2>1, <2>2, <2>4 DEF TakeTask, UploadOk, UploadFails, StartRefused,
       Publish, PublishRejected, PublishQueued, Acked, NotAcked, TaskPC
  <2>5. CASE \/ Confirmed(j) \/ Rejected(j) \/ TimedOut(j) \/ ReadConfirmed(j)
             \/ CommitLost(j) \/ FailJob(j) \/ DbFault(j)
    BY <1>0, <2>1, <2>2, <2>3, <2>5 DEF Confirmed, Rejected, TimedOut, ReadConfirmed,
       CommitLost, FailJob, DbFault, TaskPC
  <2>6. CASE CommitPrinting(j) \/ MarkPlate(j) \/ Quarantine(j) \/ ReleaseSlot(j)
    BY <1>0, <2>1, <2>3, <2>6 DEF CommitPrinting, MarkPlate, Quarantine, ReleaseSlot
  <2>7. CASE StartAdmitted(j)
    BY <1>0, <2>1, <2>7 DEF StartAdmitted, TaskType
  <2>8. QED
    BY <1>3, <2>1, <2>4, <2>5, <2>6, <2>7 DEF TaskStep
<1>4. ASSUME NEW p \in Printer, ClientStep(p) PROVE NothingStale'
  <2>1. \A k \in Job : task'[k].pc = task[k].pc
    BY <1>0, <1>4 DEF ClientStep, Connect, Disconnect, DropClient, LoseReport,
       FullReport, PartialReport, Receive,
       taskVars, TaskType
  <2>2. request' = request
    BY <1>4 DEF ClientStep, Connect, Disconnect, DropClient, LoseReport,
       FullReport, PartialReport, Receive
  <2>3. QED
    BY <1>0, <2>1, <2>2
<1>5. ASSUME NEW p \in Printer, ApplyReport(p) \/ MachineStep(p) PROVE NothingStale'
  BY <1>0, <1>5 DEF ApplyReport, MachineStep,
     BeginPrint, RefusePrint, LoseStart, EndPrint, TouchScreen, taskVars
<1>6. ASSUME NEW p \in Printer, OperatorStep(p) PROVE NothingStale'
  BY <1>0, <1>6 DEF OperatorStep, ClearPlate, ReadPlate, WritePlate, AbortPlate,
     AcknowledgeIdle, AdmitIdle, TakeForIdle, WriteIdle, NoRequest, taskVars, RequestType
<1>7. CASE Stop \/ Exit \/ Crash
  BY <1>0, <1>7 DEF Stop, Exit, Crash, ProcessGone, IdleTask, NoRequest
<1>8. CASE Boot \/ Reconcile
  BY <1>0, <1>8 DEF Boot, Reconcile, taskVars
<1>9. QED
  BY <1>1, <1>2, <1>3, <1>4, <1>5, <1>6, <1>7, <1>8 DEF Next

(* What the other actions do to the slots, for one in-flight job k of the  *)
(* next state: it was in flight before, or it has just claimed its slot.   *)
LEMMA SlotStep ==
    ASSUME SlotInv, ~StaleWrites, [Next]_vars
    PROVE  SlotOwned' /\ UploadingIsClear'
<1> USE DEF SlotOwned, UploadingIsClear
<1>0. /\ TypeOK /\ SlotOwned /\ UploadingIsClear /\ NothingStale
      /\ status \in [Job -> JobStatus] /\ assigned \in [Job -> Printer]
      /\ row \in [Printer -> PrinterState]
  BY DEF SlotInv, TypeOK, StoreTypeOK
<1>1. CASE UNCHANGED vars
  BY <1>0, <1>1, SlotKept DEF vars
<1>2. ASSUME NEW j \in Job, Dispatch(j) PROVE SlotOwned' /\ UploadingIsClear'
  <2> DEFINE p == assigned[j]
  <2>1. /\ row' = [row EXCEPT ![p] = [row[p] EXCEPT !.current = j]]
        /\ status' = [status EXCEPT ![j] = "uploading"] /\ assigned' = assigned
        /\ row[p].cleared /\ row[p].current = NoJob
    BY <1>2 DEF Dispatch, SetRow, Transition, Available
  <2>2. \A k \in Job : status[k] \in InFlight => assigned[k] # p
    BY <1>0, <2>1, StoreAssumption
  <2>3. row'[p].current = j /\ row'[p].cleared
    BY <1>0, <2>1 DEF PrinterState
  <2>4. ASSUME NEW k \in Job, k # j, status'[k] \in InFlight PROVE row'[assigned[k]] = row[assigned[k]]
    BY <1>0, <2>1, <2>2, <2>4
  <2>5. QED
    BY <1>0, <2>1, <2>3, <2>4 DEF InFlight
<1>3. ASSUME NEW j \in Job, Cancel(j) PROVE SlotOwned' /\ UploadingIsClear'
  BY <1>0, <1>3 DEF Cancel, TransitionFrom, Transition, InFlight, Physical
<1>4. ASSUME NEW j \in Job, TaskStep(j) PROVE SlotOwned' /\ UploadingIsClear'
  <2>1. CASE UploadOk(j)
    BY <1>0, <2>1 DEF UploadOk, Transition, InFlight, Physical
  <2>2. CASE CommitPrinting(j) \/ MarkPlate(j)
    BY <1>0, <2>2 DEF CommitPrinting, MarkPlate, Transition, SetRow, InFlight, Physical, PrinterState
  <2>3. CASE Quarantine(j)
    BY <1>0, <2>3 DEF Quarantine, Transition, SetRow, InFlight, Physical
  <2>4. CASE FailJob(j)
    BY <1>0, <2>4 DEF FailJob, TransitionFrom, Transition, InFlight, Physical, Terminal
  <2>5. CASE ReleaseSlot(j)
    BY <1>0, <2>5 DEF ReleaseSlot, Releasable, SetRow, FreedRow, InFlight, Physical
  <2>6. CASE \/ TakeTask(j) \/ UploadFails(j) \/ StartRefused(j) \/ StartAdmitted(j)
             \/ Publish(j) \/ PublishRejected(j) \/ Acked(j) \/ NotAcked(j)
             \/ Confirmed(j) \/ Rejected(j) \/ TimedOut(j) \/ DbFault(j)
             \/ PublishQueued(j) \/ ReadConfirmed(j) \/ CommitLost(j)
    <3>1. UNCHANGED storeVars
      BY <2>6 DEF TakeTask, UploadFails, StartRefused, StartAdmitted, Publish,
         PublishRejected, Acked, NotAcked, Confirmed, Rejected, TimedOut, DbFault,
         PublishQueued, ReadConfirmed, CommitLost
    <3>2. QED
      BY <1>0, <3>1, SlotKept
  <2>7. ~ReadSlot(j) /\ ~WriteSlot(j) /\ ~ReadMark(j) /\ ~WriteMark(j)
    BY <1>0 DEF ReadSlot, WriteSlot, ReadMark, WriteMark, NothingStale
  <2>8. QED
    BY <1>4, <2>1, <2>2, <2>3, <2>4, <2>5, <2>6, <2>7 DEF TaskStep
<1>5. ASSUME NEW p \in Printer, ClientStep(p) \/ MachineStep(p)
      PROVE  SlotOwned' /\ UploadingIsClear'
  <2>1. UNCHANGED storeVars
    BY <1>5 DEF ClientStep, Connect, Disconnect, DropClient, LoseReport,
       FullReport, PartialReport, Receive,
       MachineStep, BeginPrint, RefusePrint, LoseStart, EndPrint, TouchScreen
  <2>2. QED
    BY <1>0, <2>1, SlotKept
<1>6. ASSUME NEW p \in Printer, ApplyReport(p) PROVE SlotOwned' /\ UploadingIsClear'
  <2> DEFINE s == report[p]
             j == row[p].current
  <2>0. assigned' = assigned
    BY <1>6 DEF ApplyReport
  <2>1. CASE WriteStatus(p, s)
    BY <1>0, <2>0, <2>1 DEF WriteStatus, SetRow, PrinterState
  <2>2. CASE WriteRunning(p, s)
    <3>1. status[j] \in {"starting", "attention", "printing"}
      BY <2>2 DEF WriteRunning, Verdict
    <3>2. QED
      BY <1>0, <2>0, <2>2, <3>1 DEF WriteRunning, Transition, SetRow, InFlight, Physical, PrinterState
  <2>3. CASE WriteEnd(p, s)
    <3> DEFINE v == Verdict(status[j], s)
    <3>1. v \in {"attention", "completed", "failed"}
      BY <2>3 DEF WriteEnd, Blocked
    <3>2. status[j] \in Physical \/ v = status[j]
      BY DEF Verdict, Physical
    <3>3. /\ row' = [row EXCEPT ![p] = [status |-> Blocked[v], current |-> j, cleared |-> FALSE]]
          /\ status' = [status EXCEPT ![j] = v]
          /\ v \in Allowed[status[j]]
      BY <2>3 DEF WriteEnd, SetRow, Transition
    <3>4. j \in Job
      BY <1>0, <2>3 DEF WriteEnd, PrinterState
    <3>5. status[j] \in Physical
      BY <1>0, <3>1, <3>2, <3>3, <3>4 DEF Allowed, Physical
    <3>6. row'[p].current = j /\ \A q \in Printer : q # p => row'[q] = row[q]
      BY <1>0, <3>3
    <3>7. ASSUME NEW k \in Job, status'[k] \in InFlight PROVE row'[assigned[k]].current = k
      BY <1>0, <3>3, <3>4, <3>5, <3>6, <3>7 DEF InFlight
    <3>8. ASSUME NEW k \in Job, status'[k] = "uploading"
          PROVE  status[k] = "uploading" /\ assigned[k] # p
      BY <1>0, <3>1, <3>3, <3>4, <3>5, <3>8 DEF InFlight, Physical
    <3>9. QED
      BY <1>0, <2>0, <3>3, <3>6, <3>7, <3>8
  <2>4. QED
    BY <1>6, <2>1, <2>2, <2>3 DEF ApplyReport
<1>7. ASSUME NEW p \in Printer, OperatorStep(p) PROVE SlotOwned' /\ UploadingIsClear'
  <2>1. CASE ClearPlate(p)
    <3>1. \A k \in Job : assigned[k] = p => status'[k] \notin InFlight
      <4> SUFFICES ASSUME NEW k \in Job, assigned[k] = p, status'[k] \in InFlight PROVE FALSE
        OBVIOUS
      <4>1. status[k] \in InFlight
        BY <1>0, <2>1 DEF ClearPlate, Transition, InFlight, Physical
      <4>2. row[p].current = k /\ k # NoJob
        BY <1>0, <4>1, StoreAssumption
      <4>3. status[k] = "attention"
        BY <1>0, <2>1, <4>1, <4>2 DEF ClearPlate, Clearable, InFlight, Physical
      <4>4. status'[k] = "failed"
        BY <1>0, <2>1, <4>2, <4>3 DEF ClearPlate, InAttention, Transition
      <4>5. QED
        BY <4>4 DEF InFlight, Physical
    <3>2. \A k \in Job : status'[k] \in InFlight => status'[k] = status[k]
      BY <1>0, <2>1 DEF ClearPlate, Transition, InFlight, Physical
    <3>3. QED
      BY <1>0, <2>1, <3>1, <3>2 DEF ClearPlate, SetRow, InFlight
  <2>2. CASE AcknowledgeIdle(p)
    BY <1>0, <2>2 DEF AcknowledgeIdle, TakeForIdle, SetRow, PrinterState
  <2>3. /\ ~ReadPlate(p) /\ ~WritePlate(p) /\ ~AbortPlate(p)
        /\ ~AdmitIdle(p) /\ ~WriteIdle(p)
    BY <1>0 DEF ReadPlate, WritePlate, AbortPlate, AdmitIdle, WriteIdle, NothingStale
  <2>4. QED
    BY <1>7, <2>1, <2>2, <2>3 DEF OperatorStep
<1>8. CASE Stop \/ Exit \/ Crash \/ Boot
  BY <1>0, <1>8, SlotKept DEF Stop, Exit, Crash, ProcessGone, Boot
<1>9. CASE Reconcile
  <2>1. ASSUME NEW k \in Job, status'[k] \in InFlight
        PROVE  status'[k] # "uploading" /\ status[k] \in InFlight
    BY <1>0, <1>9, <2>1 DEF Reconcile, Recovered, InFlight, Physical
  <2>2. ASSUME NEW p \in Printer, NEW k \in Job, status[k] \in InFlight, assigned[k] = p
        PROVE  \A new \in RestoredRow(p) : new.current = k
    <3>1. \A statuses \in SUBSET InFlight : JobsOf(p, statuses) \subseteq {k}
      BY <1>0, <2>2 DEF JobsOf
    <3>2. {"printing"} \in SUBSET InFlight /\ {"uploading", "starting"} \in SUBSET InFlight
      BY DEF InFlight, Physical
    <3>3. row[p].current = k
      BY <1>0, <2>2
    <3>4. QED
      BY <3>1, <3>2, <3>3 DEF RestoredRow
  <2>3. assigned' = assigned /\ \A p \in Printer : row'[p] \in RestoredRow(p)
    BY <1>9 DEF Reconcile
  <2>4. ASSUME NEW k \in Job, status'[k] \in InFlight PROVE row'[assigned'[k]].current = k
    <3>1. status[k] \in InFlight /\ assigned[k] \in Printer
      BY <1>0, <2>1, <2>4
    <3>2. row'[assigned[k]] \in RestoredRow(assigned[k])
      BY <2>3, <3>1
    <3>3. \A new \in RestoredRow(assigned[k]) : new.current = k
      BY <2>2, <3>1
    <3>4. QED
      BY <2>3, <3>2, <3>3
  <2>5. \A k \in Job : status'[k] # "uploading"
    BY <2>1 DEF InFlight
  <2>6. QED
    BY <2>4, <2>5
<1>10. QED
  BY <1>1, <1>2, <1>3, <1>4, <1>5, <1>6, <1>7, <1>8, <1>9 DEF Next

(* At first every job is queued and no handler is at work. *)
LEMMA SlotInit == Init => SlotInv
<1>1. Init => SlotOwned /\ UploadingIsClear /\ NothingStale
  BY DEF Init, SlotOwned, UploadingIsClear, NothingStale, InFlight, Physical, IdleTask, NoRequest
<1>2. QED
  BY <1>1, TypeInit DEF SlotInv

(* Every job that a printer may be busy with owns that printer's slot, for *)
(* any number of jobs, printers, threads and crashes, as long as a handler *)
(* writes what it read.                                                    *)
THEOREM SlotExclusive == ~StaleWrites => (Spec => []SlotOwned)
<1> SUFFICES ASSUME ~StaleWrites PROVE Spec => []SlotOwned
    OBVIOUS
<1>1. SlotInv /\ [Next]_vars => SlotInv'
  BY TypeStep, SlotStep, NothingStaleStep DEF SlotInv
<1>2. SlotInv => SlotOwned
  BY DEF SlotInv
<1>3. QED
  BY <1>1, <1>2, SlotInit, PTL DEF Spec
=============================================================================
