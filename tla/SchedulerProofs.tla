--------------------------- MODULE SchedulerProofs ---------------------------
(***************************************************************************)
(* For any number of jobs, deployments, crashes and failed transactions,   *)
(* and any limits and threshold: the rule that routes a model to a         *)
(* printer, and that the scheduler's threads, whatever their interleaving  *)
(* with cancellations, a stop, a crash and reconciliation, never give a    *)
(* job two workers, revive it, or send it a printer that its archive was   *)
(* not sliced for.                                                         *)
(***************************************************************************)
EXTENDS Scheduler, TLAPS, FiniteSetTheorems

(* Which printers a deployment may have. *)
LEMMA Deployments ==
    ASSUME NEW enabled \in SUBSET PrinterID
    PROVE  enabled \in {{}, {P1S}, {A1Mini}, PrinterID}
<1>1. CASE P1S \in enabled /\ A1Mini \in enabled
  BY <1>1 DEF PrinterID
<1>2. CASE P1S \in enabled /\ A1Mini \notin enabled
  <2>1. enabled = {P1S}
    BY <1>2 DEF PrinterID
  <2>. QED  BY <2>1
<1>3. CASE P1S \notin enabled /\ A1Mini \in enabled
  <2>1. enabled = {A1Mini}
    BY <1>3 DEF PrinterID
  <2>. QED  BY <2>1
<1>4. CASE P1S \notin enabled /\ A1Mini \notin enabled
  <2>1. enabled = {}
    BY <1>4 DEF PrinterID
  <2>. QED  BY <2>1
<1>. QED  BY <1>1, <1>2, <1>3, <1>4

(* select_printer only returns an enabled printer whose volume holds the   *)
(* model.                                                                  *)
THEOREM SelectionIsSound ==
    ASSUME NEW m \in Model, NEW enabled \in SUBSET PrinterID
    PROVE  SelectionFits(m, enabled)
<1>1. CASE enabled = {}
  BY <1>1 DEF SelectionFits, SelectPrinter
<1>2. CASE enabled = {P1S}
  BY <1>2, RoutingAssumption DEF SelectionFits, SelectPrinter, PrinterID
<1>3. CASE enabled = {A1Mini}
  BY <1>3, RoutingAssumption DEF SelectionFits, SelectPrinter, PrinterID
<1>4. CASE enabled = PrinterID
  BY <1>4, RoutingAssumption DEF SelectionFits, SelectPrinter, PrinterID
<1>. QED  BY Deployments, <1>1, <1>2, <1>3, <1>4

(* The tests of select_printer, in the order the code makes them, amount   *)
(* to the published rule.                                                  *)
THEOREM SelectionIsPublished ==
    ASSUME NEW m \in Model, NEW enabled \in SUBSET PrinterID
    PROVE  PublishedRule(m, enabled)
<1>1. CASE enabled = {P1S}
  BY <1>1, RoutingAssumption DEF PublishedRule, Rule, SelectPrinter, PrinterID
<1>2. CASE enabled = {A1Mini}
  BY <1>2, RoutingAssumption DEF PublishedRule, Rule, SelectPrinter, PrinterID
<1>3. CASE enabled = PrinterID
  BY <1>3, RoutingAssumption DEF PublishedRule, Rule, SelectPrinter, PrinterID
<1>4. CASE enabled = {}
  BY <1>4, RoutingAssumption DEF PublishedRule, Rule, SelectPrinter, PrinterID
<1>. QED  BY Deployments, <1>1, <1>2, <1>3, <1>4

(* If an A1 Mini is nowhere larger than a P1S, what it can hold a P1S can. *)
LEMMA NestedVolumes ==
    ASSUME NEW m \in Model, Nested, Fits(m.bbox, A1Mini)
    PROVE  Fits(m.bbox, P1S)
<1>. SUFFICES ASSUME NEW a \in Axis
              PROVE  m.bbox[a] <= Limit[P1S][a]
  BY DEF Fits
<1>1. m.bbox[a] \in Int /\ Limit[A1Mini][a] \in Int /\ Limit[P1S][a] \in Int
  BY RoutingAssumption DEF Model, PrinterID
<1>2. m.bbox[a] <= Limit[A1Mini][a] /\ Limit[A1Mini][a] <= Limit[P1S][a]
  BY DEF Fits, Nested
<1>. QED  BY <1>1, <1>2

(* select_printer tests the P1S first and rejects what it cannot hold,     *)
(* without a look at the A1 Mini: nothing printable is lost by that as     *)
(* long as the volumes are nested, as the shipped limits are.              *)
THEOREM RejectionIsJustified ==
    ASSUME NEW m \in Model, NEW enabled \in SUBSET PrinterID
    PROVE  RejectedFitsNowhere(m, enabled)
<1>. SUFFICES ASSUME Nested, SelectPrinter(m, enabled) = Rejection
              PROVE  \A p \in enabled : ~Fits(m.bbox, p)
  BY DEF RejectedFitsNowhere
<1>1. CASE enabled = {}
  BY <1>1
<1>2. CASE enabled = {P1S}
  BY <1>2, RoutingAssumption DEF SelectPrinter, PrinterID
<1>3. CASE enabled = {A1Mini}
  BY <1>3, RoutingAssumption DEF SelectPrinter, PrinterID
<1>4. CASE enabled = PrinterID
  <2>1. ~Fits(m.bbox, P1S)
    BY <1>4, RoutingAssumption DEF SelectPrinter, PrinterID
  <2>. QED  BY <1>4, <2>1, NestedVolumes DEF PrinterID
<1>. QED  BY Deployments, <1>1, <1>2, <1>3, <1>4

----------------------------------------------------------------------------
(* Types *)

(* A transition keeps the status column well typed, and touches one job,   *)
(* whose status it names.                                                  *)
LEMMA TransitionStep ==
    ASSUME NEW j \in Job, NEW from, NEW to \in JobStatus,
           status \in [Job -> JobStatus], Transition(j, from, to)
    PROVE  /\ status' \in [Job -> JobStatus]
           /\ status[j] = from /\ to \in Allowed[from] /\ status'[j] = to
           /\ \A k \in Job : k # j => status'[k] = status[k]
BY DEF Transition

(* The rows that the environment and a claim write are printer rows. *)
LEMMA RowTypes ==
    ASSUME NEW r \in PrinterState
    PROVE  /\ \A st \in PrinterStatus : [r EXCEPT !.status = st] \in PrinterState
           /\ \A j \in Job : [r EXCEPT !.current = j] \in PrinterState
           /\ [r EXCEPT !.current = NoJob, !.cleared = TRUE] \in PrinterState
BY DEF PrinterState

(* The printers a tick serves. *)
LEMMA ServeOrderType == ServeOrder \in Seq(Printer)
<1>. A1Mini \in Printer /\ P1S \in Printer
  BY SchedulerAssumption DEF PrinterID
<1>1. <<A1Mini>> \in Seq(Printer) /\ <<P1S>> \in Seq(Printer) /\ <<>> \in Seq(Printer)
  OBVIOUS
<1>. QED  BY <1>1 DEF ServeOrder

PollType == [pc : {"wait", "submit", "dispatch", "fallback"},
             batch : SUBSET Job, rest : Seq(Printer)]

SlicerType == [pc : SlicerPC, job : Job \cup {NoJob}, target : Printer \cup {NoPrinter}]

(* Whatever Serve is given to serve, the polling thread stays well typed,  *)
(* and has a printer when it dispatches.                                   *)
LEMMA ServeType ==
    ASSUME NEW rest \in Seq(Printer), Serve(rest)
    PROVE  /\ poll' \in PollType
           /\ poll'.pc \in {"dispatch", "fallback"} => poll'.rest # <<>>
           /\ poll'.batch = {}
BY DEF Serve, PollType, IdlePoll

(* A polling thread that dispatches has a printer to serve. *)
PollServes == poll.pc \in {"dispatch", "fallback"} => poll.rest # <<>>

(* The slicer's thread has a job unless it waits for one. *)
WorkerHasJob == slicer.pc = "idle" <=> slicer.job = NoJob

(* A worker's place, and the backlog that an item joins, stay well typed. *)
LEMMA SlicerMoves ==
    ASSUME slicer \in SlicerType, NEW pc \in SlicerPC
    PROVE  /\ [slicer EXCEPT !.pc = pc] \in SlicerType
           /\ \A p \in Printer : [slicer EXCEPT !.pc = pc, !.target = p] \in SlicerType
BY DEF SlicerType

(* A job that is uploaded once is listed once. *)
LEMMA UploadType ==
    ASSUME submitted \in Seq(Job), IsInjective(submitted), NEW j \in Job, ~Exists(j)
    PROVE  Append(submitted, j) \in Seq(Job) /\ IsInjective(Append(submitted, j))
BY DEF Exists, Range, IsInjective

(* What the routing selects for a model of a job that is analysed. *)
LEMMA RouteType ==
    ASSUME TypeOK, NEW j \in Job
    PROVE  SelectPrinter(model[j], deploy.enabled) \in Printer \cup {Rejection}
<1>1. model[j] \in Model /\ deploy.enabled \in SUBSET PrinterID
  BY SchedulerAssumption DEF TypeOK
<1>2. SelectPrinter(model[j], deploy.enabled) = Rejection
        \/ SelectPrinter(model[j], deploy.enabled) \in deploy.enabled
  BY <1>1, SelectionIsSound DEF SelectionFits
<1>. QED  BY <1>1, <1>2, SchedulerAssumption

(* The stored tables stay well typed: every write is a transition, a row   *)
(* of the seed's type, or reconciliation's.                                *)
LEMMA StoreTypeStep ==
    ASSUME TypeOK, PollServes, Next
    PROVE  StoreTypeOK'
<1>. USE DEF StoreTypeOK
<1>0. /\ status \in [Job -> JobStatus]
      /\ assigned \in [Job -> Printer \cup {NoPrinter}]
      /\ row \in [Printer -> PrinterState]
      /\ slicer.job \in Job \cup {NoJob} /\ slicer.target \in Printer \cup {NoPrinter}
  BY DEF TypeOK
<1>u. ASSUME UNCHANGED storeVars PROVE StoreTypeOK'
  BY <1>0, <1>u DEF storeVars
<1>r. ASSUME UNCHANGED <<status, assigned>>, NEW p, NEW r \in PrinterState, SetRow(p, r)
      PROVE  StoreTypeOK'
  BY <1>0, <1>r DEF SetRow
<1>s. ASSUME UNCHANGED <<assigned, row>>, status' \in [Job -> JobStatus]
      PROVE  StoreTypeOK'
  BY <1>0, <1>s
<1>t. ASSUME NEW j, NEW from, NEW to \in JobStatus, Transition(j, from, to)
      PROVE  status' \in [Job -> JobStatus]
  BY <1>0, <1>t DEF Transition
<1>c. {"analysing", "slicing", "queued", "uploading", "rejected", "cancelled", "failed"} \subseteq JobStatus
  BY DEF JobStatus
<1>1. ASSUME NEW j \in Job, Cancel(j) PROVE StoreTypeOK'
  BY <1>1, <1>s, <1>t, <1>c DEF Cancel, TransitionFrom
<1>2. ASSUME NEW j \in Job, Dispatch(j) PROVE StoreTypeOK'
  <2>1. Head(poll.rest) \in Printer
    BY <1>2 DEF PollServes, TypeOK, Dispatch
  <2>2. [row[Head(poll.rest)] EXCEPT !.current = j] \in PrinterState
    BY <1>0, <2>1 DEF PrinterState
  <2>3. status' \in [Job -> JobStatus]
    BY <1>2, <1>t, <1>c DEF Dispatch
  <2>4. UNCHANGED assigned /\ row' \in [Printer -> PrinterState]
    BY <1>0, <1>2, <2>1, <2>2 DEF Dispatch, SetRow
  <2>. QED  BY <1>0, <2>3, <2>4
<1>3. ASSUME NEW j \in Job, Fallback(j) PROVE StoreTypeOK'
  BY <1>3, <1>s, <1>t, <1>c DEF Fallback
<1>4. CASE BeginAnalysis
  BY <1>0, <1>4, <1>s, <1>t, <1>c DEF BeginAnalysis
<1>5. CASE Analysed
  <2>1. PICK p : p = SelectPrinter(model[slicer.job], deploy.enabled)
    OBVIOUS
  <2>2. UNCHANGED row /\ status' \in [Job -> JobStatus]
    BY <1>0, <1>5, <1>t, <1>c DEF Analysed
  <2>3. assigned' = assigned \/ (p # Rejection /\ status[slicer.job] = "analysing"
                                  /\ assigned' = [assigned EXCEPT ![slicer.job] = p])
    BY <1>5, <2>1 DEF Analysed, Transition
  <2>4. assigned' \in [Job -> Printer \cup {NoPrinter}]
    <3>1. CASE slicer.job \in Job
      BY <1>0, <2>1, <2>3, <3>1, RouteType
    <3>2. CASE slicer.job \notin Job
      BY <1>0, <2>3, <3>2
    <3>. QED  BY <3>1, <3>2
  <2>. QED  BY <1>0, <2>2, <2>4
<1>6. CASE Sliced
  BY <1>0, <1>6, <1>s, <1>t, <1>c DEF Sliced
<1>7. CASE FailJob
  BY <1>0, <1>7, <1>s, <1>t, <1>c DEF FailJob, TransitionFrom
<1>8. CASE Resliced
  <2>1. UNCHANGED row /\ status' \in [Job -> JobStatus]
    BY <1>0, <1>8, <1>t, <1>c DEF Resliced
  <2>2. assigned' \in [Job -> Printer \cup {NoPrinter}]
    BY <1>0, <1>8 DEF Resliced
  <2>. QED  BY <1>0, <2>1, <2>2
<1>9. CASE AbortFallback
  BY <1>0, <1>9, <1>s, <1>t, <1>c DEF AbortFallback
<1>10. ASSUME NEW p \in Printer, Report(p) \/ GoesOffline(p) \/ PlateCleared(p) PROVE StoreTypeOK'
  <2>1. /\ [row[p] EXCEPT !.status = "idle"] \in PrinterState
        /\ [row[p] EXCEPT !.status = "offline"] \in PrinterState
        /\ [row[p] EXCEPT !.current = NoJob, !.cleared = TRUE] \in PrinterState
    BY <1>0, RowTypes DEF PrinterStatus
  <2>. QED  BY <1>10, <1>r, <2>1 DEF Report, GoesOffline, PlateCleared
<1>11. ASSUME NEW j \in Job, HandoffEnds(j) PROVE StoreTypeOK'
  <2>1. /\ [status |-> "idle", current |-> NoJob, cleared |-> TRUE] \in PrinterState
        /\ [status |-> "error", current |-> j, cleared |-> FALSE] \in PrinterState
    BY DEF PrinterState, PrinterStatus
  <2>. QED  BY <1>0, <1>11, <2>1, <1>c DEF HandoffEnds, SetRow
<1>12. CASE Restart
  <2>1. \A st \in JobStatus : Recovered(st) \in JobStatus
    BY DEF Recovered, JobStatus
  <2>2. \A p \in Printer : (\E j \in Job : status[j] = "uploading" /\ assigned[j] = p) =>
          [status |-> "error", cleared |-> FALSE,
           current |-> CHOOSE j \in Job : status[j] = "uploading" /\ assigned[j] = p] \in PrinterState
    BY DEF PrinterState, PrinterStatus
  <2>. QED  BY <1>0, <1>12, <2>1, <2>2 DEF Restart
<1>13. ASSUME NEW j \in Job, Upload(j) PROVE StoreTypeOK'
  BY <1>13, <1>u DEF Upload
<1>14. CASE \/ ReadPending \/ AllSubmitted \/ NothingToDispatch \/ NoFallback \/ TickRaises
            \/ \E j \in Job : Submit(j) \/ SubmitRefused(j) \/ FallbackRaises(j)
  BY <1>14, <1>u DEF ReadPending, AllSubmitted, NothingToDispatch, NoFallback, TickRaises,
       Submit, SubmitRefused, FallbackRaises
<1>15. CASE \/ TakeItem \/ PipelineRaises \/ FailJobRaises \/ ReadForReslice \/ ResliceRaises
            \/ AbortRaises \/ ItemDone \/ Stop \/ Exit \/ Crash
  BY <1>15, <1>u DEF TakeItem, PipelineRaises, FailJobRaises, ReadForReslice, ResliceRaises,
       AbortRaises, ItemDone, Stop, Exit, Crash, ProcessGone
<1>. QED
  BY <1>1, <1>2, <1>3, <1>4, <1>5, <1>6, <1>7, <1>8, <1>9, <1>10, <1>11, <1>12, <1>13, <1>14,
     <1>15 DEF Next, PollStep, SlicerStep, Environment

(* The tables of the jobs stay well typed. *)
DurableType ==
    /\ submitted \in Seq(Job) /\ IsInjective(submitted)
    /\ measured \in SUBSET Job /\ marked \in SUBSET Job
    /\ slicedFor \in [Job -> Printer \cup {NoPrinter}]
    /\ model \in [Job -> Model]

(* No step puts anything else into the tables. *)
LEMMA DurableTypeStep ==
    ASSUME TypeOK, WorkerHasJob, Next
    PROVE  DurableType'
<1>. USE DEF DurableType
<1>0. DurableType /\ slicer.job \in Job \cup {NoJob} /\ slicer.target \in Printer \cup {NoPrinter} /\ WorkerHasJob
  BY DEF TypeOK
<1>d. ASSUME UNCHANGED durable PROVE DurableType'
  BY <1>0, <1>d DEF durable
<1>1. ASSUME NEW j \in Job, Upload(j) PROVE DurableType'
  <2>1. submitted' \in Seq(Job) /\ IsInjective(submitted')
    BY <1>0, <1>1, UploadType DEF Upload
  <2>2. PICK m \in Uploads[j] : model' = [model EXCEPT ![j] = m]
    BY <1>1 DEF Upload
  <2>3. m \in Model
    BY <2>2, SchedulerAssumption
  <2>. QED  BY <1>0, <1>1, <2>1, <2>2, <2>3 DEF Upload
<1>2. CASE Analysed
  BY <1>0, <1>2 DEF Analysed, WorkerHasJob
<1>3. CASE Sliced
  BY <1>0, <1>3 DEF Sliced
<1>4. CASE Resliced
  BY <1>0, <1>4 DEF Resliced
<1>5. CASE AbortFallback
  BY <1>0, <1>5 DEF AbortFallback, WorkerHasJob
<1>6. CASE PollStep
  BY <1>6, <1>d DEF PollStep, ReadPending, AllSubmitted, Submit, SubmitRefused, Dispatch,
       Fallback, FallbackRaises, NothingToDispatch, NoFallback, TickRaises
<1>7. CASE \/ TakeItem \/ BeginAnalysis \/ PipelineRaises \/ FailJob \/ FailJobRaises
           \/ ReadForReslice \/ ResliceRaises \/ AbortRaises \/ ItemDone
  BY <1>7, <1>d DEF TakeItem, BeginAnalysis, PipelineRaises, FailJob, FailJobRaises,
       ReadForReslice, ResliceRaises, AbortRaises, ItemDone
<1>8. CASE Environment \/ Stop \/ Exit \/ Crash \/ Restart \/ \E j \in Job : Cancel(j)
  BY <1>8, <1>d DEF Environment, Report, GoesOffline, PlateCleared, HandoffEnds, Stop, Exit,
       Crash, Restart, ProcessGone, Cancel
<1>. QED
  BY <1>1, <1>2, <1>3, <1>4, <1>5, <1>6, <1>7, <1>8 DEF Next, SlicerStep

(* So do the service's phase, its deployment and the bounds. *)
ServiceType ==
    /\ proc \in {"down", "stopping", "up"} /\ deploy \in Deployment
    /\ reserved \in SUBSET Job
    /\ crashes \in 0 .. MaxCrashes /\ faults \in 0 .. MaxFaults

(* No step leaves a bound or the service's phases. *)
LEMMA ServiceTypeStep ==
    ASSUME TypeOK, Next
    PROVE  ServiceType'
<1>. USE DEF ServiceType
<1>0. ServiceType /\ MaxCrashes \in Nat /\ MaxFaults \in Nat
  BY SchedulerAssumption DEF TypeOK
<1>1. ASSUME UNCHANGED <<proc, deploy, crashes>>, reserved' \in SUBSET Job,
             faults' = faults \/ Fault
      PROVE  ServiceType'
  BY <1>0, <1>1 DEF Fault
<1>2. ASSUME NEW j \in Job, Upload(j) \/ Cancel(j) PROVE ServiceType'
  BY <1>0, <1>1, <1>2 DEF Upload, Cancel, service, threads, bounds
<1>3. CASE PollStep
  BY <1>0, <1>1, <1>3 DEF PollStep, ReadPending, AllSubmitted, Submit, SubmitRefused, Dispatch,
       Fallback, FallbackRaises, NothingToDispatch, NoFallback, TickRaises, service, bounds, Fault
<1>4. CASE SlicerStep
  BY <1>0, <1>1, <1>4 DEF SlicerStep, TakeItem, BeginAnalysis, PipelineRaises, FailJob,
       FailJobRaises, ReadForReslice, ResliceRaises, AbortRaises, ItemDone, Analysed, Sliced,
       Resliced, AbortFallback, service, bounds, Fault
<1>5. CASE Environment
  BY <1>0, <1>1, <1>5 DEF Environment, Report, GoesOffline, PlateCleared, HandoffEnds, service,
       threads, bounds
<1>6. CASE Stop
  BY <1>0, <1>6 DEF Stop
<1>7. CASE Exit \/ Crash
  BY <1>0, <1>7 DEF Exit, Crash, ProcessGone
<1>8. CASE Restart
  BY <1>0, <1>8 DEF Restart, threads, bounds
<1>. QED
  BY <1>2, <1>3, <1>4, <1>5, <1>6, <1>7, <1>8 DEF Next

(* And the threads: what they took up last, and what waits. *)
ThreadType == poll \in PollType /\ backlog \in Seq(Item) /\ slicer \in SlicerType

(* No step hands a thread anything but a job, a printer or nothing. *)
LEMMA ThreadTypeStep ==
    ASSUME TypeOK, PollServes, WorkerHasJob, Next
    PROVE  ThreadType' /\ PollServes'
<1>. USE DEF ThreadType
<1>0. ThreadType /\ PollServes /\ IdlePoll \in PollType /\ IdlePoll.pc = "wait"
  BY DEF TypeOK, PollType, SlicerType, IdlePoll
<1>1. ASSUME UNCHANGED threads PROVE ThreadType' /\ PollServes'
  BY <1>0, <1>1 DEF threads, PollServes
<1>2. ASSUME poll' \in PollType, PollServes', UNCHANGED <<backlog, slicer>>
      PROVE  ThreadType' /\ PollServes'
  BY <1>0, <1>2
<1>3. ASSUME UNCHANGED <<poll, backlog>>, slicer' \in SlicerType
      PROVE  ThreadType' /\ PollServes'
  BY <1>0, <1>3 DEF PollServes
<1>4. ASSUME poll' = IdlePoll \/ \E rest \in Seq(Printer) : Serve(rest)
      PROVE  poll' \in PollType /\ PollServes'
  BY <1>0, <1>4, ServeType DEF PollServes
<1>5. ASSUME NEW pc \in SlicerPC, SlicerGoto(pc)
      PROVE  slicer' \in SlicerType
  BY <1>0, <1>5, SlicerMoves DEF SlicerGoto
<1>6. ASSUME poll.pc \in {"dispatch", "fallback"}
      PROVE  Head(poll.rest) \in Printer /\ Tail(poll.rest) \in Seq(Printer)
  BY <1>0, <1>6 DEF PollType, PollServes
<1>10. CASE ReadPending
  <2>1. poll' \in PollType /\ PollServes'
    BY <1>10 DEF ReadPending, PollType, PollServes
  <2>. QED  BY <1>2, <1>10, <2>1 DEF ReadPending
<1>11. ASSUME NEW j \in Job, NEW to \in Printer \cup {NoPrinter}
       PROVE  Append(backlog, [job |-> j, target |-> to]) \in Seq(Item)
  BY <1>0, <1>11 DEF Item
<1>12. ASSUME NEW j \in Job, Submit(j) PROVE ThreadType' /\ PollServes'
  <2>1. poll' \in PollType /\ PollServes'
    BY <1>0, <1>12 DEF Submit, PollType, PollServes, NextInBatch
  <2>. QED  BY <1>0, <1>11, <1>12, <2>1 DEF Submit
<1>13. CASE AllSubmitted
  BY <1>2, <1>4, <1>13, ServeOrderType DEF AllSubmitted
<1>14. ASSUME NEW j \in Job, Dispatch(j) PROVE ThreadType' /\ PollServes'
  BY <1>2, <1>4, <1>6, <1>14 DEF Dispatch
<1>15. ASSUME NEW j \in Job, Fallback(j) PROVE ThreadType' /\ PollServes'
  <2>1. poll' \in PollType /\ PollServes'
    BY <1>4, <1>6, <1>15 DEF Fallback
  <2>. QED  BY <1>0, <1>6, <1>11, <1>15, <2>1 DEF Fallback
<1>16. CASE NothingToDispatch
  <2>1. poll' \in PollType /\ PollServes'
    BY <1>0, <1>16 DEF NothingToDispatch, PollType, PollServes
  <2>. QED  BY <1>2, <1>16, <2>1 DEF NothingToDispatch
<1>17. CASE NoFallback
  BY <1>2, <1>4, <1>6, <1>17 DEF NoFallback
<1>18. CASE TickRaises \/ \E j \in Job : SubmitRefused(j) \/ FallbackRaises(j)
  BY <1>2, <1>4, <1>18 DEF TickRaises, SubmitRefused, FallbackRaises
<1>20. CASE TakeItem
  <2>1. Head(backlog) \in Item /\ Tail(backlog) \in Seq(Item)
    BY <1>0, <1>20 DEF TakeItem
  <2>2. slicer' \in SlicerType
    BY <1>20, <2>1 DEF TakeItem, SlicerType, SlicerPC, Item
  <2>. QED  BY <1>0, <1>20, <2>1, <2>2 DEF TakeItem, PollServes
<1>21. CASE Analysed
  <2>1. SelectPrinter(model[slicer.job], deploy.enabled) \in Printer \cup {Rejection}
          \/ slicer.job \notin Job
    BY RouteType
  <2>2. PICK p : p = SelectPrinter(model[slicer.job], deploy.enabled)
    OBVIOUS
  <2>3. slicer.job \in Job
    BY <1>0, <1>21 DEF Analysed, SlicerType, WorkerHasJob
  <2>. QED
    BY <1>3, <1>5, <1>21, <2>1, <2>2, <2>3, <1>0, SlicerMoves DEF Analysed, SlicerPC
<1>22. CASE \/ BeginAnalysis \/ Sliced \/ PipelineRaises \/ FailJob \/ FailJobRaises
            \/ ReadForReslice \/ Resliced \/ ResliceRaises \/ AbortFallback \/ AbortRaises
  <2>1. slicer' \in SlicerType
    BY <1>5, <1>22 DEF BeginAnalysis, Sliced, PipelineRaises, FailJob, FailJobRaises,
         ReadForReslice, Resliced, ResliceRaises, AbortFallback, AbortRaises, SlicerPC
  <2>. QED
    BY <1>3, <1>22, <2>1 DEF BeginAnalysis, Sliced, PipelineRaises, FailJob, FailJobRaises,
         ReadForReslice, Resliced, ResliceRaises, AbortFallback, AbortRaises
<1>23. IdleSlicer \in SlicerType
  BY DEF IdleSlicer, SlicerType, SlicerPC
<1>24. CASE ItemDone
  BY <1>3, <1>23, <1>24 DEF ItemDone
<1>25. CASE Stop
  BY <1>0, <1>25 DEF Stop, PollServes
<1>26. CASE Exit \/ Crash
  <2>1. poll' = IdlePoll /\ backlog' = <<>> /\ slicer' = IdleSlicer
    BY <1>26 DEF Exit, Crash, ProcessGone
  <2>. QED  BY <1>0, <1>23, <2>1 DEF PollServes
<1>27. CASE Environment \/ Restart \/ \E j \in Job : Upload(j) \/ Cancel(j)
  BY <1>1, <1>27 DEF Environment, Report, GoesOffline, PlateCleared, HandoffEnds, Restart,
       Upload, Cancel
<1>. QED
  BY <1>10, <1>12, <1>13, <1>14, <1>15, <1>16, <1>17, <1>18, <1>20, <1>21, <1>22, <1>24, <1>25,
     <1>26, <1>27 DEF Next, PollStep, SlicerStep

----------------------------------------------------------------------------
(* One worker per job *)

(* OneWorkerPerJob, said of the executor's queue and its thread apart.     *)
OneJobEach ==
    /\ \A i, k \in 1 .. Len(backlog) : backlog[i].job = backlog[k].job => i = k
    /\ \A i \in 1 .. Len(backlog) : backlog[i].job \in reserved \ {slicer.job}
    /\ slicer.job \in reserved \cup {NoJob}

(* WorkTracked, likewise. *)
WorkListed ==
    /\ \A j \in Job : ~Exists(j) => status[j] = "pending"
    /\ \A i \in 1 .. Len(backlog) : Exists(backlog[i].job)
    /\ slicer.job # NoJob => Exists(slicer.job)
    /\ \A j \in poll.batch : Exists(j)
    /\ WorkerHasJob /\ PollServes
    /\ proc = "down" => /\ poll = IdlePoll /\ backlog = <<>> /\ slicer = IdleSlicer
                        /\ reserved = {} /\ faults = 0

(* The items of the queue name jobs. *)
LEMMA BacklogJobs ==
    ASSUME TypeOK, NEW i \in 1 .. Len(backlog)
    PROVE  backlog[i] \in Item /\ backlog[i].job \in Job /\ backlog[i].job # NoJob
<1>1. backlog \in Seq(Item)
  BY DEF TypeOK
<1>2. backlog[i] \in Item
  BY <1>1
<1>. QED  BY <1>2, StoreAssumption DEF Item

(* What the two forms of the work in hand have in common. *)
LEMMA WorkOf ==
    ASSUME TypeOK, WorkerHasJob, NEW j
    PROVE  j \in Range(Work) <=> \/ \E i \in 1 .. Len(backlog) : backlog[i].job = j
                                 \/ slicer.job # NoJob /\ slicer.job = j
<1>1. backlog \in Seq(Item)
  BY DEF TypeOK
<1>2. CASE slicer.pc = "idle"
  <2>1. slicer.job = NoJob /\ Work = [i \in 1 .. Len(backlog) |-> backlog[i].job] \o <<>>
    BY <1>2 DEF WorkerHasJob, Work
  <2>2. Len(Work) = Len(backlog) /\ DOMAIN Work = 1 .. Len(backlog)
        /\ \A i \in 1 .. Len(backlog) : Work[i] = backlog[i].job
    BY <1>1, <2>1
  <2>. QED  BY <2>1, <2>2 DEF Range
<1>3. CASE slicer.pc # "idle"
  <2>1. slicer.job # NoJob
        /\ Work = [i \in 1 .. Len(backlog) |-> backlog[i].job] \o <<slicer.job>>
    BY <1>3 DEF WorkerHasJob, Work
  <2>2. Len(backlog) \in Nat /\ DOMAIN Work = 1 .. Len(backlog) + 1
        /\ (\A i \in 1 .. Len(backlog) : Work[i] = backlog[i].job)
        /\ Work[Len(backlog) + 1] = slicer.job
    BY <1>1, <2>1
  <2>. QED  BY <2>1, <2>2 DEF Range
<1>. QED  BY <1>2, <1>3

(* They come to the same. *)
LEMMA WorkForms ==
    ASSUME TypeOK, WorkListed, OneJobEach
    PROVE  OneWorkerPerJob /\ WorkTracked
<1>1. backlog \in Seq(Item) /\ WorkerHasJob /\ slicer.job \in Job \cup {NoJob}
  BY DEF TypeOK, WorkListed
<1>2. ASSUME NEW j \in Range(Work) PROVE j \in reserved /\ Exists(j)
  <2>1. \/ \E i \in 1 .. Len(backlog) : backlog[i].job = j
        \/ slicer.job # NoJob /\ slicer.job = j
    BY <1>1, WorkOf
  <2>. QED  BY <2>1 DEF OneJobEach, WorkListed
<1>3. WorkTracked
  BY <1>2 DEF WorkTracked, WorkListed, WorkerHasJob, PollServes, Exists
<1>4. IsInjective(Work)
  <2>1. CASE slicer.pc = "idle"
    <3>1. Work = [i \in 1 .. Len(backlog) |-> backlog[i].job] \o <<>>
      BY <2>1 DEF Work
    <3>2. DOMAIN Work = 1 .. Len(backlog)
          /\ \A i \in 1 .. Len(backlog) : Work[i] = backlog[i].job
      BY <1>1, <3>1
    <3>. QED  BY <3>2 DEF IsInjective, OneJobEach
  <2>2. CASE slicer.pc # "idle"
    <3>1. Work = [i \in 1 .. Len(backlog) |-> backlog[i].job] \o <<slicer.job>>
      BY <2>2 DEF Work
    <3>2. Len(backlog) \in Nat /\ DOMAIN Work = 1 .. Len(backlog) + 1
          /\ (\A i \in 1 .. Len(backlog) : Work[i] = backlog[i].job)
          /\ Work[Len(backlog) + 1] = slicer.job
      BY <1>1, <3>1
    <3>3. ASSUME NEW a \in 1 .. Len(backlog) + 1, NEW b \in 1 .. Len(backlog) + 1,
                 Work[a] = Work[b]
          PROVE  a = b
      <4>1. CASE a \in 1 .. Len(backlog) /\ b \in 1 .. Len(backlog)
        BY <3>2, <3>3, <4>1 DEF OneJobEach
      <4>2. CASE a \in 1 .. Len(backlog) /\ b \notin 1 .. Len(backlog)
        <5>1. b = Len(backlog) + 1
          BY <3>2, <4>2
        <5>. QED  BY <3>2, <3>3, <4>2, <5>1 DEF OneJobEach
      <4>3. CASE a \notin 1 .. Len(backlog) /\ b \in 1 .. Len(backlog)
        <5>1. a = Len(backlog) + 1
          BY <3>2, <4>3
        <5>. QED  BY <3>2, <3>3, <4>3, <5>1 DEF OneJobEach
      <4>4. CASE a \notin 1 .. Len(backlog) /\ b \notin 1 .. Len(backlog)
        BY <3>2, <4>4
      <4>. QED  BY <4>1, <4>2, <4>3, <4>4
    <3>. QED  BY <3>2, <3>3 DEF IsInjective
  <2>. QED  BY <2>1, <2>2
<1>. QED  BY <1>2, <1>3, <1>4 DEF OneWorkerPerJob

(* An item joins the queue: its job was not reserved, and is now. *)
Joins(j, to) ==
    /\ j \notin reserved /\ reserved' = reserved \cup {j}
    /\ backlog' = Append(backlog, [job |-> j, target |-> to])

(* The work in hand only changes in these ways. *)
LEMMA WorkMoves ==
    ASSUME TypeOK, PollServes, Next
    PROVE  \/ /\ UNCHANGED backlog /\ slicer'.job = slicer.job
              /\ reserved \subseteq reserved'
           \/ \E j \in Job : Submit(j) /\ Joins(j, NoPrinter)
           \/ \E j \in Job : Fallback(j) /\ Joins(j, Head(poll.rest))
           \/ TakeItem \/ ItemDone
           \/ Stop \/ ProcessGone
<1>0. slicer \in SlicerType
  BY DEF TypeOK, SlicerType
<1>1. ASSUME NEW pc, SlicerGoto(pc)
      PROVE  slicer'.job = slicer.job
  BY <1>0, <1>1 DEF SlicerGoto, SlicerType
<1>2. CASE \/ Analysed \/ BeginAnalysis \/ Sliced \/ PipelineRaises \/ FailJob \/ FailJobRaises
           \/ ReadForReslice \/ Resliced \/ ResliceRaises \/ AbortFallback \/ AbortRaises
  <2>1. slicer'.job = slicer.job
    BY <1>0, <1>1, <1>2 DEF Analysed, BeginAnalysis, Sliced, PipelineRaises, FailJob, FailJobRaises,
         ReadForReslice, Resliced, ResliceRaises, AbortFallback, AbortRaises, SlicerType
  <2>2. UNCHANGED <<backlog, reserved>>
    BY <1>2 DEF Analysed, BeginAnalysis, Sliced, PipelineRaises, FailJob, FailJobRaises,
         ReadForReslice, Resliced, ResliceRaises, AbortFallback, AbortRaises
  <2>. QED  BY <2>1, <2>2
<1>3. ASSUME NEW j \in Job, Submit(j)
      PROVE  UNCHANGED <<backlog, reserved, slicer>> \/ Joins(j, NoPrinter)
  BY <1>3 DEF Submit, Joins, storeVars, durable, service
<1>4. ASSUME NEW j \in Job, Fallback(j)
      PROVE  (UNCHANGED <<backlog, slicer>> /\ reserved \subseteq reserved')
               \/ Joins(j, Head(poll.rest))
  BY <1>4 DEF Fallback, Joins, Candidates
<1>5. CASE \/ ReadPending \/ AllSubmitted \/ NothingToDispatch \/ NoFallback \/ TickRaises
           \/ \E j \in Job : SubmitRefused(j) \/ Dispatch(j) \/ FallbackRaises(j)
  BY <1>5 DEF ReadPending, AllSubmitted, NothingToDispatch, NoFallback, TickRaises,
       SubmitRefused, Dispatch, FallbackRaises
<1>6. CASE Environment \/ Restart \/ \E j \in Job : Upload(j) \/ Cancel(j)
  BY <1>6 DEF Environment, Report, GoesOffline, PlateCleared, HandoffEnds, Restart,
       Upload, Cancel, threads
<1>7. CASE Exit \/ Crash
  BY <1>7 DEF Exit, Crash
<1>. QED
  BY <1>2, <1>3, <1>4, <1>5, <1>6, <1>7 DEF Next, PollStep, SlicerStep

(* No step gives a job a second worker, whatever stale list of pending     *)
(* jobs the polling thread goes by.                                        *)
LEMMA OneJobEachStep ==
    ASSUME TypeOK, WorkListed, OneJobEach, Next
    PROVE  OneJobEach'
<1>0. /\ backlog \in Seq(Item) /\ slicer \in SlicerType
      /\ WorkerHasJob /\ PollServes /\ NoJob \notin Job
  BY StoreAssumption DEF TypeOK, SlicerType, WorkListed
<1>1. CASE UNCHANGED backlog /\ slicer'.job = slicer.job /\ reserved \subseteq reserved'
  BY <1>1 DEF OneJobEach
<1>2. ASSUME NEW j \in Job, NEW to, Joins(j, to), UNCHANGED slicer PROVE OneJobEach'
  <2>1. Len(backlog) \in Nat /\ Len(backlog') = Len(backlog) + 1
    BY <1>0, <1>2 DEF Joins
  <2>2. /\ \A i \in 1 .. Len(backlog) : backlog'[i] = backlog[i]
        /\ backlog'[Len(backlog) + 1].job = j
    BY <1>0, <1>2 DEF Joins
  <2>3. \A i \in 1 .. Len(backlog) : backlog'[i].job # j
    BY <1>2, <2>2 DEF Joins, OneJobEach
  <2>4. slicer.job # j
    BY <1>0, <1>2 DEF Joins, OneJobEach
  <2>5. \A i \in 1 .. Len(backlog') : i \in 1 .. Len(backlog) \/ i = Len(backlog) + 1
    BY <2>1
  <2>6. \A i, k \in 1 .. Len(backlog') : backlog'[i].job = backlog'[k].job => i = k
    BY <2>2, <2>3, <2>5 DEF OneJobEach
  <2>7. \A i \in 1 .. Len(backlog') : backlog'[i].job \in reserved' \ {slicer'.job}
    BY <1>2, <2>2, <2>4, <2>5 DEF OneJobEach, Joins
  <2>8. slicer'.job \in reserved' \cup {NoJob}
    BY <1>2 DEF OneJobEach, Joins
  <2>. QED  BY <2>6, <2>7, <2>8 DEF OneJobEach
<1>3. CASE TakeItem
  <2>1. /\ Len(backlog) \in Nat /\ Len(backlog) >= 1 /\ backlog' = Tail(backlog)
        /\ slicer'.job = backlog[1].job /\ reserved' = reserved
    BY <1>0, <1>3 DEF TakeItem
  <2>2. /\ Len(backlog') = Len(backlog) - 1
        /\ \A i \in 1 .. Len(backlog') : i + 1 \in 1 .. Len(backlog) /\ backlog'[i] = backlog[i + 1]
    BY <1>0, <2>1
  <2>3. ASSUME NEW i \in 1 .. Len(backlog'), NEW k \in 1 .. Len(backlog'),
               backlog'[i].job = backlog'[k].job
        PROVE  i = k
    <3>1. i + 1 = k + 1
      BY <2>2, <2>3 DEF OneJobEach
    <3>. QED  BY <2>1, <2>2, <3>1
  <2>4. ASSUME NEW i \in 1 .. Len(backlog')
        PROVE  backlog'[i].job \in reserved \ {backlog[1].job}
    <3>1. i + 1 # 1 /\ 1 \in 1 .. Len(backlog)
      BY <2>1, <2>2
    <3>2. backlog[i + 1].job # backlog[1].job
      BY <2>2, <3>1 DEF OneJobEach
    <3>. QED  BY <2>2, <3>2 DEF OneJobEach
  <2>5. backlog[1].job \in reserved
    BY <2>1 DEF OneJobEach
  <2>. QED  BY <2>1, <2>3, <2>4, <2>5 DEF OneJobEach
<1>4. CASE ItemDone
  <2>1. UNCHANGED backlog /\ reserved' = reserved \ {slicer.job} /\ slicer'.job = NoJob
    BY <1>4 DEF ItemDone, IdleSlicer
  <2>. QED
    BY <2>1, BacklogJobs DEF OneJobEach
<1>5. CASE Stop \/ ProcessGone
  <2>1. backlog' = <<>> /\ ((slicer' = slicer /\ reserved' = reserved) \/ slicer'.job = NoJob)
    BY <1>5 DEF Stop, ProcessGone, IdleSlicer
  <2>. QED  BY <2>1 DEF OneJobEach
<1>6. \A j \in Job : Submit(j) \/ Fallback(j) => UNCHANGED slicer
  BY DEF Submit, Fallback
<1>. QED  BY <1>0, <1>1, <1>2, <1>3, <1>4, <1>5, <1>6, WorkMoves

(* No row of table jobs is ever deleted. *)
LEMMA RowsStay ==
    ASSUME TypeOK, Next
    PROVE  Range(submitted) \subseteq Range(submitted')
<1>1. ASSUME NEW k \in Job, Upload(k), NEW j \in Range(submitted) PROVE j \in Range(submitted')
  <2>1. submitted \in Seq(Job) /\ submitted' = Append(submitted, k)
    BY <1>1 DEF TypeOK, Upload
  <2>2. PICK i \in 1 .. Len(submitted) : submitted[i] = j
    BY <1>1, <2>1 DEF Range
  <2>3. i \in 1 .. Len(submitted') /\ submitted'[i] = j /\ submitted' \in Seq(Job)
    BY <2>1, <2>2
  <2>. QED  BY <2>3 DEF Range
<1>2. ASSUME UNCHANGED submitted PROVE Range(submitted) \subseteq Range(submitted')
  BY <1>2
<1>3. CASE PollStep
  BY <1>2, <1>3 DEF PollStep, ReadPending, AllSubmitted, Submit, SubmitRefused, Dispatch,
       Fallback, FallbackRaises, NothingToDispatch, NoFallback, TickRaises, durable
<1>4. CASE SlicerStep
  BY <1>2, <1>4 DEF SlicerStep, TakeItem, BeginAnalysis, PipelineRaises, FailJob,
       FailJobRaises, ReadForReslice, ResliceRaises, AbortRaises, ItemDone, Analysed, Sliced,
       Resliced, AbortFallback, durable
<1>5. CASE Environment \/ Stop \/ Exit \/ Crash \/ Restart \/ \E j \in Job : Cancel(j)
  BY <1>2, <1>5 DEF Environment, Report, GoesOffline, PlateCleared, HandoffEnds, Stop, Exit,
       Crash, Restart, ProcessGone, Cancel, durable
<1>. QED
  BY <1>1, <1>3, <1>4, <1>5 DEF Next

(* A worker works on a job. *)
LEMMA WorkerJob ==
    ASSUME TypeOK, WorkListed, slicer.pc # "idle"
    PROVE  slicer.job \in Job /\ Exists(slicer.job)
BY DEF TypeOK, WorkListed, WorkerHasJob

(* Every change of a status is one job's, uploaded and not ended before,   *)
(* or reconciliation's.                                                    *)
Moves(j) ==
    \E to \in JobStatus :
        /\ status[j] \notin Terminal /\ Exists(j)
        /\ status' = [status EXCEPT ![j] = to]

(* Transition is the only way to another status but for reconciliation's. *)
LEMMA StatusMoves ==
    ASSUME TypeOK, WorkListed, Next
    PROVE  \/ UNCHANGED status
           \/ \E j \in Job : Moves(j)
           \/ status' = [j \in Job |-> Recovered(status[j])]
<1>t. ASSUME NEW j, Exists(j),
             \/ Transition(j, "queued", "uploading") \/ Transition(j, "queued", "slicing")
             \/ Transition(j, "pending", "analysing") \/ Transition(j, "analysing", "slicing")
             \/ Transition(j, "analysing", "rejected") \/ Transition(j, "slicing", "queued")
      PROVE  Moves(j)
  BY <1>t DEF Transition, Moves, Terminal, JobStatus
<1>s. ASSUME NEW j, Exists(j), NEW from \in JobStatus \ Terminal, NEW to \in {"failed", "cancelled"},
             Transition(j, from, to)
      PROVE  Moves(j)
  BY <1>s DEF Transition, Moves, JobStatus
<1>1. ASSUME NEW j \in Job, Cancel(j) PROVE Moves(j)
  BY <1>1, <1>s DEF Cancel, TransitionFrom, Cancellable, JobStatus, Terminal
<1>2. ASSUME NEW j \in Job, Dispatch(j) \/ Fallback(j) PROVE Moves(j)
  BY <1>2, <1>t DEF Dispatch, Fallback, QueuedFor, Candidates
<1>3. CASE BeginAnalysis \/ Analysed \/ Sliced \/ Resliced \/ AbortFallback
  <2>1. slicer.job \in Job /\ Exists(slicer.job)
    BY <1>3, WorkerJob DEF BeginAnalysis, Analysed, Sliced, Resliced, AbortFallback
  <2>2. UNCHANGED status \/ Moves(slicer.job)
    BY <1>3, <1>t, <2>1 DEF BeginAnalysis, Analysed, Sliced, Resliced, AbortFallback
  <2>. QED  BY <2>1, <2>2
<1>4. CASE FailJob
  <2>1. slicer.job \in Job /\ Exists(slicer.job)
    BY <1>4, WorkerJob DEF FailJob
  <2>2. UNCHANGED status \/ Moves(slicer.job)
    BY <1>4, <1>s, <2>1 DEF FailJob, TransitionFrom
  <2>. QED  BY <2>1, <2>2
<1>5. ASSUME NEW j \in Job, HandoffEnds(j) PROVE Moves(j)
  <2>1. Exists(j) /\ status[j] \notin Terminal
    BY <1>5 DEF HandoffEnds, InFlight, Physical, Terminal, WorkListed
  <2>. QED  BY <1>5, <2>1 DEF HandoffEnds, Moves, JobStatus
<1>6. CASE Restart
  BY <1>6 DEF Restart
<1>7. CASE \/ ReadPending \/ AllSubmitted \/ NothingToDispatch \/ NoFallback \/ TickRaises
           \/ \E j \in Job : Submit(j) \/ SubmitRefused(j) \/ FallbackRaises(j) \/ Upload(j)
  BY <1>7 DEF ReadPending, AllSubmitted, NothingToDispatch, NoFallback, TickRaises,
       Submit, SubmitRefused, FallbackRaises, Upload, storeVars
<1>8. CASE \/ TakeItem \/ PipelineRaises \/ FailJobRaises \/ ReadForReslice \/ ResliceRaises
           \/ AbortRaises \/ ItemDone \/ Stop \/ Exit \/ Crash
           \/ \E p \in Printer : Report(p) \/ GoesOffline(p) \/ PlateCleared(p)
  BY <1>8 DEF TakeItem, PipelineRaises, FailJobRaises, ReadForReslice, ResliceRaises,
       AbortRaises, ItemDone, Stop, Exit, Crash, ProcessGone, storeVars,
       Report, GoesOffline, PlateCleared
<1>. QED
  BY <1>1, <1>2, <1>3, <1>4, <1>5, <1>6, <1>7, <1>8 DEF Next, PollStep, SlicerStep, Environment

(* While the service is down it is only restarted, and jobs are cancelled. *)
LEMMA DownRests ==
    ASSUME TypeOK, WorkListed, Next, proc = "down"
    PROVE  Restart \/ \E j \in Job : Cancel(j)
<1>0. /\ poll.pc = "wait" /\ backlog = <<>> /\ slicer.pc = "idle" /\ ~Running
  BY DEF WorkListed, IdlePoll, IdleSlicer, Running
<1>1. ~PollStep
  BY <1>0 DEF PollStep, ReadPending, AllSubmitted, Submit, SubmitRefused, Dispatch, NextInBatch,
       Fallback, FallbackRaises, NothingToDispatch, NoFallback, TickRaises
<1>2. ~SlicerStep
  BY <1>0 DEF SlicerStep, TakeItem, BeginAnalysis, PipelineRaises, FailJob,
       FailJobRaises, ReadForReslice, ResliceRaises, AbortRaises, ItemDone, Analysed, Sliced,
       Resliced, AbortFallback
<1>3. ~Environment /\ ~Stop /\ ~Exit /\ ~Crash /\ \A j \in Job : ~Upload(j)
  BY <1>0 DEF Environment, Report, GoesOffline, PlateCleared, HandoffEnds, Stop, Exit, Crash, Upload
<1>. QED  BY <1>1, <1>2, <1>3 DEF Next

(* Only stop, a crash and a restart change the service's phase. *)
LEMMA ProcMoves ==
    ASSUME Next
    PROVE  proc' = proc \/ ProcessGone \/ proc' # "down"
<1>1. CASE PollStep
  BY <1>1 DEF PollStep, ReadPending, AllSubmitted, Submit, SubmitRefused, Dispatch,
       Fallback, FallbackRaises, NothingToDispatch, NoFallback, TickRaises, service
<1>2. CASE SlicerStep
  BY <1>2 DEF SlicerStep, TakeItem, BeginAnalysis, PipelineRaises, FailJob,
       FailJobRaises, ReadForReslice, ResliceRaises, AbortRaises, ItemDone, Analysed, Sliced,
       Resliced, AbortFallback, service
<1>3. CASE Environment \/ Stop \/ Exit \/ Crash \/ Restart \/ \E j \in Job : Upload(j) \/ Cancel(j)
  BY <1>3 DEF Environment, Report, GoesOffline, PlateCleared, HandoffEnds, Stop, Exit,
       Crash, Restart, Upload, Cancel, service
<1>. QED  BY <1>1, <1>2, <1>3 DEF Next

(* Only uploaded jobs are worked on, and a service that is down rests. *)
LEMMA WorkListedStep ==
    ASSUME TypeOK, TypeOK', WorkListed, Next
    PROVE  WorkListed'
<1>0. /\ backlog \in Seq(Item) /\ slicer \in SlicerType /\ poll \in PollType
      /\ WorkerHasJob /\ PollServes /\ NoJob \notin Job
  BY StoreAssumption DEF TypeOK, SlicerType, PollType, WorkListed
<1>1. Range(submitted) \subseteq Range(submitted')
  BY RowsStay
<1>2. \A j \in Job : j \notin Range(submitted') => status'[j] = "pending"
  <2>1. \A j \in Job : j \notin Range(submitted') => status[j] = "pending" /\ ~Exists(j)
    BY <1>1 DEF WorkListed, Exists
  <2>2. status \in [Job -> JobStatus]
    BY DEF TypeOK, StoreTypeOK
  <2>. QED  BY <2>1, <2>2, StatusMoves DEF Moves, Recovered
<1>3. \A i \in 1 .. Len(backlog') : backlog'[i].job \in Range(submitted')
  <2>1. CASE UNCHANGED backlog
    BY <1>1, <2>1 DEF WorkListed, Exists
  <2>2. ASSUME NEW j \in Job, NEW to, Joins(j, to), Exists(j)
        PROVE  \A i \in 1 .. Len(backlog') : backlog'[i].job \in Range(submitted')
    <3>1. \A i \in 1 .. Len(backlog') :
             backlog'[i].job = j \/ (i \in 1 .. Len(backlog) /\ backlog'[i] = backlog[i])
      BY <1>0, <2>2 DEF Joins
    <3>. QED  BY <1>1, <2>2, <3>1 DEF WorkListed, Exists
  <2>3. ASSUME NEW j \in Job, Submit(j) \/ Fallback(j) PROVE Exists(j)
    BY <2>3 DEF Submit, NextInBatch, Fallback, Candidates, WorkListed
  <2>4. CASE TakeItem
    <3>1. \A i \in 1 .. Len(backlog') : i + 1 \in 1 .. Len(backlog) /\ backlog'[i] = backlog[i + 1]
      BY <1>0, <2>4 DEF TakeItem
    <3>. QED  BY <1>1, <3>1 DEF WorkListed, Exists
  <2>5. CASE ItemDone \/ Stop \/ ProcessGone
    BY <2>1, <2>5 DEF ItemDone, Stop, ProcessGone
  <2>. QED  BY <1>0, <2>1, <2>2, <2>3, <2>4, <2>5, WorkMoves
<1>4. slicer'.job # NoJob => slicer'.job \in Range(submitted')
  <2>1. CASE slicer'.job = slicer.job
    BY <1>1, <2>1 DEF WorkListed, Exists
  <2>2. CASE TakeItem
    <3>1. slicer'.job = backlog[1].job /\ 1 \in 1 .. Len(backlog)
      BY <1>0, <2>2 DEF TakeItem
    <3>. QED  BY <1>1, <3>1 DEF WorkListed, Exists
  <2>3. CASE ItemDone \/ ProcessGone
    BY <2>3 DEF ItemDone, ProcessGone, IdleSlicer
  <2>4. \A j \in Job : Submit(j) \/ Fallback(j) => slicer' = slicer
    BY DEF Submit, Fallback
  <2>5. Stop => slicer' = slicer
    BY DEF Stop
  <2>. QED  BY <1>0, <2>1, <2>2, <2>3, <2>4, <2>5, WorkMoves
<1>5. poll'.batch \subseteq Range(submitted')
  <2>1. poll'.batch \subseteq poll.batch \/ \A j \in poll'.batch : Exists(j)
    <3>1. ASSUME NEW rest, Serve(rest) PROVE poll'.batch = {}
      BY <3>1 DEF Serve, IdlePoll
    <3>2. IdlePoll.batch = {} /\ (poll' = poll => poll'.batch = poll.batch)
      BY DEF IdlePoll
    <3>3. CASE ReadPending
      BY <3>3 DEF ReadPending
    <3>4. ASSUME NEW j \in Job, Submit(j) PROVE poll'.batch \subseteq poll.batch
      BY <1>0, <3>4 DEF Submit, PollType
    <3>5. CASE NothingToDispatch
      BY <1>0, <3>5 DEF NothingToDispatch, PollType
    <3>6. CASE AllSubmitted \/ NoFallback \/ TickRaises
               \/ \E j \in Job : SubmitRefused(j) \/ Dispatch(j) \/ Fallback(j) \/ FallbackRaises(j)
      BY <3>1, <3>2, <3>6 DEF AllSubmitted, NoFallback, TickRaises, SubmitRefused, Dispatch,
           Fallback, FallbackRaises
    <3>7. CASE SlicerStep
      BY <3>2, <3>7 DEF SlicerStep, TakeItem, BeginAnalysis, PipelineRaises, FailJob,
           FailJobRaises, ReadForReslice, ResliceRaises, AbortRaises, ItemDone, Analysed, Sliced,
           Resliced, AbortFallback
    <3>8. CASE Environment \/ Stop \/ Exit \/ Crash \/ Restart \/ \E j \in Job : Upload(j) \/ Cancel(j)
      BY <3>2, <3>8 DEF Environment, Report, GoesOffline, PlateCleared, HandoffEnds, Stop, Exit,
           Crash, Restart, ProcessGone, Upload, Cancel, threads
    <3>. QED  BY <3>3, <3>4, <3>5, <3>6, <3>7, <3>8 DEF Next, PollStep
  <2>. QED  BY <1>1, <2>1 DEF WorkListed, Exists
<1>6. PollServes'
  BY <1>0, ThreadTypeStep
<1>7. WorkerHasJob'
  <2>1. CASE UNCHANGED slicer
    BY <1>0, <2>1 DEF WorkerHasJob
  <2>2. ASSUME NEW pc \in SlicerPC \ {"idle"}, slicer.pc # "idle",
               slicer'.pc = pc, slicer'.job = slicer.job
        PROVE  WorkerHasJob'
    BY <1>0, <2>2 DEF WorkerHasJob
  <2>3. CASE TakeItem
    <3>1. slicer'.job = backlog[1].job /\ 1 \in 1 .. Len(backlog) /\ slicer'.pc # "idle"
      BY <1>0, <2>3 DEF TakeItem
    <3>. QED  BY <3>1, BacklogJobs DEF WorkerHasJob
  <2>4. CASE ItemDone \/ ProcessGone
    BY <2>4 DEF ItemDone, ProcessGone, IdleSlicer, WorkerHasJob
  <2>5. CASE \/ Analysed \/ BeginAnalysis \/ Sliced \/ PipelineRaises \/ FailJob \/ FailJobRaises
             \/ ReadForReslice \/ Resliced \/ ResliceRaises \/ AbortFallback \/ AbortRaises
    <3>1. slicer.pc # "idle"
      BY <2>5 DEF Analysed, BeginAnalysis, Sliced, PipelineRaises, FailJob, FailJobRaises,
           ReadForReslice, Resliced, ResliceRaises, AbortFallback, AbortRaises
    <3>2. slicer'.pc # "idle" /\ slicer'.job = slicer.job
      BY <1>0, <2>5 DEF Analysed, BeginAnalysis, Sliced, PipelineRaises, FailJob, FailJobRaises,
           ReadForReslice, Resliced, ResliceRaises, AbortFallback, AbortRaises, SlicerGoto,
           SlicerType
    <3>. QED  BY <1>0, <3>1, <3>2 DEF WorkerHasJob
  <2>6. CASE PollStep
    BY <2>1, <2>6 DEF PollStep, ReadPending, AllSubmitted, Submit, SubmitRefused, Dispatch,
       Fallback, FallbackRaises, NothingToDispatch, NoFallback, TickRaises
  <2>7. CASE Environment \/ Stop \/ Restart \/ \E j \in Job : Upload(j) \/ Cancel(j)
    BY <2>1, <2>7 DEF Environment, Report, GoesOffline, PlateCleared, HandoffEnds, Stop,
         Restart, Upload, Cancel, threads
  <2>. QED  BY <2>3, <2>4, <2>5, <2>6, <2>7 DEF Next, SlicerStep, Exit, Crash
<1>8. proc' = "down" => /\ poll' = IdlePoll /\ backlog' = <<>> /\ slicer' = IdleSlicer
                        /\ reserved' = {} /\ faults' = 0
  <2>1. CASE ProcessGone
    BY <2>1 DEF ProcessGone
  <2>2. CASE proc' = proc /\ proc = "down"
    <3>1. UNCHANGED <<threads, bounds>>
      BY <2>2, DownRests DEF Cancel, Restart
    <3>. QED  BY <2>2, <3>1 DEF WorkListed, threads, bounds
  <2>. QED  BY <2>1, <2>2, ProcMoves
<1>. QED
  BY <1>2, <1>3, <1>4, <1>5, <1>6, <1>7, <1>8 DEF WorkListed, Exists

----------------------------------------------------------------------------
(* What moves a job *)

(* The steps in which a worker stores what it made of its job. *)
Stores(j) == slicer.pc # "idle" /\ j = slicer.job /\ (Analysed \/ Sliced \/ Resliced)

(* A job's printer and archive are a worker's to change, while the job is  *)
(* analysed or sliced; its model is that of its upload.                    *)
LEMMA ArchiveMoves ==
    ASSUME TypeOK, WorkListed, Next, NEW j \in Job
    PROVE  /\ assigned'[j] # assigned[j] \/ slicedFor'[j] # slicedFor[j] =>
                Stores(j) /\ status[j] \in {"analysing", "slicing"}
           /\ Exists(j) => model'[j] = model[j]
<1>0. /\ assigned \in [Job -> Printer \cup {NoPrinter}]
      /\ slicedFor \in [Job -> Printer \cup {NoPrinter}]
      /\ model \in [Job -> Model]
  BY DEF TypeOK, StoreTypeOK
<1>1. CASE Analysed \/ Sliced \/ Resliced
  <2>1. slicer.pc # "idle"
    BY <1>1 DEF Analysed, Sliced, Resliced
  <2>2. UNCHANGED model
    BY <1>1 DEF Analysed, Sliced, Resliced
  <2>3. assigned'[j] # assigned[j] \/ slicedFor'[j] # slicedFor[j] =>
           j = slicer.job /\ status[j] \in {"analysing", "slicing"}
    BY <1>0, <1>1 DEF Analysed, Sliced, Resliced, Transition
  <2>. QED  BY <1>1, <2>1, <2>2, <2>3 DEF Stores
<1>2. ASSUME NEW k \in Job, Upload(k)
      PROVE  UNCHANGED <<assigned, slicedFor>> /\ (Exists(j) => model'[j] = model[j])
  <2>1. ~Exists(k) /\ \E m \in Uploads[k] : model' = [model EXCEPT ![k] = m]
    BY <1>2 DEF Upload
  <2>2. UNCHANGED <<assigned, slicedFor>>
    BY <1>2 DEF Upload, storeVars
  <2>. QED  BY <1>0, <2>1, <2>2
<1>3. CASE PollStep
  BY <1>3 DEF PollStep, ReadPending, AllSubmitted, Submit, SubmitRefused, Dispatch,
       Fallback, FallbackRaises, NothingToDispatch, NoFallback, TickRaises, durable, storeVars
<1>4. CASE \/ TakeItem \/ BeginAnalysis \/ PipelineRaises \/ FailJob \/ FailJobRaises
           \/ ReadForReslice \/ ResliceRaises \/ AbortRaises \/ ItemDone \/ AbortFallback
  BY <1>4 DEF TakeItem, BeginAnalysis, PipelineRaises, FailJob, FailJobRaises, ReadForReslice,
       ResliceRaises, AbortRaises, ItemDone, AbortFallback, durable, storeVars
<1>5. CASE Environment \/ Stop \/ Exit \/ Crash \/ Restart \/ \E k \in Job : Cancel(k)
  BY <1>5 DEF Environment, Report, GoesOffline, PlateCleared, HandoffEnds, Stop, Exit,
       Crash, Restart, ProcessGone, Cancel, durable, storeVars
<1>. QED
  BY <1>1, <1>2, <1>3, <1>4, <1>5 DEF Next, SlicerStep

(* Where a status that matters to a printer or a worker comes from. *)
Comes(j) ==
    /\ status'[j] = "queued" =>
          j = slicer.job /\ status[j] = "slicing" /\ (Sliced \/ Resliced \/ AbortFallback)
    /\ status'[j] = "uploading" => Dispatch(j)
    /\ status'[j] \notin {"starting", "printing"}
    /\ status'[j] = "attention" => Restart /\ status[j] = "uploading"
    /\ status'[j] = "analysing" => j = slicer.job /\ BeginAnalysis
    /\ status'[j] = "slicing" =>
          Fallback(j) \/ (j = slicer.job /\ status[j] = "analysing" /\ Analysed)
    /\ status'[j] = "rejected" => j = slicer.job /\ status[j] = "analysing" /\ Analysed

(* Every change of a status has the cause that Comes names. *)
LEMMA StatusComes ==
    ASSUME TypeOK, WorkListed, Next, NEW j \in Job, status'[j] # status[j]
    PROVE  Comes(j)
<1>0. status \in [Job -> JobStatus]
  BY DEF TypeOK, StoreTypeOK
<1>t. ASSUME NEW k, NEW from, NEW to, Transition(k, from, to)
      PROVE  j = k /\ status[j] = from /\ status'[j] = to
  BY <1>0, <1>t DEF Transition
<1>1. ASSUME NEW k \in Job, Cancel(k) PROVE Comes(j)
  BY <1>1, <1>t DEF Cancel, TransitionFrom, Comes
<1>2. ASSUME NEW k \in Job, Dispatch(k) PROVE Comes(j)
  <2>1. j = k /\ status'[j] = "uploading"
    BY <1>2, <1>t DEF Dispatch
  <2>. QED  BY <1>2, <2>1 DEF Comes
<1>3. ASSUME NEW k \in Job, Fallback(k) PROVE Comes(j)
  <2>1. j = k /\ status'[j] = "slicing"
    BY <1>3, <1>t DEF Fallback
  <2>. QED  BY <1>3, <2>1 DEF Comes
<1>4. CASE BeginAnalysis
  <2>1. j = slicer.job /\ status'[j] = "analysing"
    BY <1>4, <1>t DEF BeginAnalysis
  <2>. QED  BY <1>4, <2>1 DEF Comes
<1>5. CASE Analysed
  <2>1. j = slicer.job /\ status[j] = "analysing" /\ status'[j] \in {"slicing", "rejected"}
    BY <1>5, <1>t DEF Analysed
  <2>. QED  BY <1>5, <2>1 DEF Comes
<1>6. CASE Sliced \/ Resliced \/ AbortFallback
  <2>1. j = slicer.job /\ status[j] = "slicing" /\ status'[j] = "queued"
    BY <1>6, <1>t DEF Sliced, Resliced, AbortFallback
  <2>. QED  BY <1>6, <2>1 DEF Comes
<1>7. CASE FailJob
  <2>1. status'[j] = "failed"
    BY <1>7, <1>t DEF FailJob, TransitionFrom
  <2>. QED  BY <2>1 DEF Comes
<1>8. ASSUME NEW k \in Job, HandoffEnds(k) PROVE Comes(j)
  <2>1. status'[j] = "failed"
    BY <1>0, <1>8 DEF HandoffEnds
  <2>. QED  BY <2>1 DEF Comes
<1>9. CASE Restart
  <2>1. \/ status'[j] = "pending"
        \/ status'[j] = "attention" /\ status[j] = "uploading"
    BY <1>9 DEF Restart, Recovered
  <2>. QED  BY <1>9, <2>1 DEF Comes
<1>10. CASE \/ ReadPending \/ AllSubmitted \/ NothingToDispatch \/ NoFallback \/ TickRaises
            \/ \E k \in Job : Submit(k) \/ SubmitRefused(k) \/ FallbackRaises(k) \/ Upload(k)
  BY <1>10 DEF ReadPending, AllSubmitted, NothingToDispatch, NoFallback, TickRaises,
       Submit, SubmitRefused, FallbackRaises, Upload, storeVars
<1>11. CASE \/ TakeItem \/ PipelineRaises \/ FailJobRaises \/ ReadForReslice \/ ResliceRaises
            \/ AbortRaises \/ ItemDone \/ Stop \/ Exit \/ Crash
            \/ \E p \in Printer : Report(p) \/ GoesOffline(p) \/ PlateCleared(p)
  BY <1>11 DEF TakeItem, PipelineRaises, FailJobRaises, ReadForReslice, ResliceRaises,
       AbortRaises, ItemDone, Stop, Exit, Crash, ProcessGone, storeVars,
       Report, GoesOffline, PlateCleared
<1>. QED
  BY <1>1, <1>2, <1>3, <1>4, <1>5, <1>6, <1>7, <1>8, <1>9, <1>10, <1>11
     DEF Next, PollStep, SlicerStep, Environment

----------------------------------------------------------------------------
(* Archives, targets and slots *)

(* What is inductive: WorkForms gives the form that the runs check. *)
IInv ==
    /\ TypeOK /\ OneJobEach /\ WorkListed
    /\ ArchiveMatches /\ TargetsFit /\ SlotsHeld

(* An archive that is stored is for the printer that its job waits for. *)
LEMMA ArchiveStep ==
    ASSUME IInv, TypeOK', Next
    PROVE  ArchiveMatches'
<1>. SUFFICES ASSUME NEW j \in Job, status'[j] \in {"queued", "uploading"}
              PROVE  slicedFor'[j] = assigned'[j] /\ Fits(model'[j].bbox, assigned'[j])
  BY DEF ArchiveMatches, Fits
<1>0. /\ TypeOK /\ WorkListed /\ ArchiveMatches /\ TargetsFit /\ SlotsHeld
      /\ assigned \in [Job -> Printer \cup {NoPrinter}]
      /\ slicedFor \in [Job -> Printer \cup {NoPrinter}]
  BY DEF IInv, TypeOK, StoreTypeOK
<1>1. CASE status'[j] = status[j]
  <2>1. Exists(j)
    BY <1>0, <1>1 DEF WorkListed
  <2>2. assigned'[j] = assigned[j] /\ slicedFor'[j] = slicedFor[j] /\ model'[j] = model[j]
    BY <1>0, <1>1, <2>1, ArchiveMoves
  <2>. QED  BY <1>0, <1>1, <2>2 DEF ArchiveMatches
<1>2. CASE status'[j] # status[j]
  <2>0. Comes(j)
    BY <1>0, <1>2, StatusComes
  <2>1. CASE status'[j] = "uploading"
    <3>1. Dispatch(j) /\ status[j] = "queued" /\ Exists(j)
      BY <2>0, <2>1 DEF Comes, Dispatch, QueuedFor
    <3>2. assigned'[j] = assigned[j] /\ slicedFor'[j] = slicedFor[j] /\ model'[j] = model[j]
      BY <1>0, <3>1, ArchiveMoves
    <3>. QED  BY <1>0, <3>1, <3>2 DEF ArchiveMatches
  <2>2. CASE status'[j] = "queued"
    <3>1. j = slicer.job /\ status[j] = "slicing" /\ (Sliced \/ Resliced \/ AbortFallback)
      BY <2>0, <2>2 DEF Comes
    <3>2. Exists(j)
      BY <1>0, <3>1 DEF WorkListed
    <3>3. model'[j] = model[j]
      BY <1>0, <3>2, ArchiveMoves
    <3>4. CASE Sliced
      <4>1. /\ slicer.target = assigned[j] /\ Fits(model[j].bbox, slicer.target)
            /\ assigned' = assigned
        BY <1>0, <3>1, <3>4 DEF TargetsFit, Sliced
      <4>2. slicedFor'[j] = slicer.target
        BY <1>0, <3>1, <3>4 DEF Sliced
      <4>. QED  BY <3>3, <4>1, <4>2
    <3>5. CASE Resliced
      <4>1. Fits(model[j].bbox, slicer.target)
        BY <1>0, <3>1, <3>5 DEF TargetsFit, Resliceable, Resliced
      <4>2. assigned'[j] = slicer.target /\ slicedFor'[j] = slicer.target
        BY <1>0, <3>1, <3>5 DEF Resliced
      <4>. QED  BY <3>3, <4>1, <4>2
    <3>6. CASE AbortFallback
      <4>1. slicedFor[j] = assigned[j] /\ Fits(model[j].bbox, assigned[j])
        BY <1>0, <3>1, <3>6 DEF TargetsFit, Resliceable, AbortFallback
      <4>2. assigned' = assigned /\ slicedFor' = slicedFor
        BY <3>6 DEF AbortFallback
      <4>. QED  BY <3>3, <4>1, <4>2
    <3>. QED  BY <3>1, <3>4, <3>5, <3>6
  <2>. QED  BY <2>1, <2>2
<1>. QED  BY <1>1, <1>2

(* What is true of a job that waits for, or is in, a re-slicing stays so   *)
(* until its own worker stores something: nobody else touches it.          *)
LEMMA ResliceKept ==
    ASSUME IInv, TypeOK', Next, NEW j \in reserved, Exists(j), ~Stores(j),
           NEW target, Resliceable(j, target)
    PROVE  Resliceable(j, target)'
<1>0. TypeOK /\ WorkListed /\ j \in Job
  BY DEF IInv, TypeOK
<1>1. assigned'[j] = assigned[j] /\ slicedFor'[j] = slicedFor[j] /\ model'[j] = model[j]
  BY <1>0, ArchiveMoves
<1>2. status'[j] = "slicing" => status[j] = "slicing"
  <2>1. ~Fallback(j)
    BY DEF Fallback, Candidates
  <2>2. j = slicer.job /\ Analysed => Stores(j)
    BY DEF Stores, Analysed
  <2>. QED  BY <1>0, <2>1, <2>2, StatusComes DEF Comes
<1>3. Resliceable(j, target)
  OBVIOUS
<1>. QED  BY <1>1, <1>2, <1>3 DEF Resliceable, Fits

(* The items of the queue stay for printers that can take their jobs. *)
LEMMA BacklogStep ==
    ASSUME IInv, TypeOK', Next, NEW i \in 1 .. Len(backlog'),
           backlog'[i].target # NoPrinter
    PROVE  LET j == backlog'[i].job  target == backlog'[i].target IN
           /\ target \in Printer /\ Fits(model'[j].bbox, target)
           /\ status'[j] = "slicing" =>
                /\ assigned'[j] \in Printer /\ slicedFor'[j] = assigned'[j]
                /\ Fits(model'[j].bbox, assigned'[j])
<1>0. /\ TypeOK /\ WorkListed /\ OneJobEach /\ ArchiveMatches /\ TargetsFit /\ SlotsHeld
      /\ PollServes /\ backlog \in Seq(Item)
  BY DEF IInv, TypeOK, WorkListed
<1>1. ASSUME NEW k \in 1 .. Len(backlog), backlog[k].target # NoPrinter,
             NEW j, NEW target, j = backlog[k].job, target = backlog[k].target
      PROVE  Resliceable(j, target)'
  <2>1. Resliceable(j, target) /\ j \in reserved /\ Exists(j) /\ j # slicer.job
    BY <1>0, <1>1 DEF TargetsFit, OneJobEach, WorkListed
  <2>. QED  BY <2>1, ResliceKept DEF Stores
<1>2. CASE \E k \in 1 .. Len(backlog) : backlog'[i] = backlog[k]
  <2>1. PICK k \in 1 .. Len(backlog) : backlog'[i] = backlog[k]
    BY <1>2
  <2>2. PICK j, target : j = backlog[k].job /\ target = backlog[k].target
    OBVIOUS
  <2>3. Resliceable(j, target)'
    BY <1>1, <2>1, <2>2
  <2>. QED  BY <2>1, <2>2, <2>3 DEF Resliceable, Fits
<1>3. ASSUME NEW j \in Job, Submit(j), Joins(j, NoPrinter)
      PROVE  \E k \in 1 .. Len(backlog) : backlog'[i] = backlog[k]
  BY <1>0, <1>3 DEF Joins
<1>4. ASSUME NEW j \in Job, NEW target, target = Head(poll.rest), Fallback(j), Joins(j, target),
             ~\E k \in 1 .. Len(backlog) : backlog'[i] = backlog[k]
      PROVE  /\ backlog'[i].job = j /\ backlog'[i].target = target
             /\ Resliceable(j, target)'
  <2>1. backlog'[i].job = j /\ backlog'[i].target = target
    BY <1>0, <1>4 DEF Joins
  <2>2. /\ j \in Candidates(target) /\ poll.pc = "fallback"
        /\ UNCHANGED <<assigned, slicedFor, model>>
    BY <1>4 DEF Fallback, durable
  <2>3. target \in Printer
    <3>1. poll \in PollType /\ poll.rest # <<>>
      BY <1>0, <2>2 DEF TypeOK, PollType, PollServes
    <3>. QED  BY <1>4, <3>1 DEF PollType
  <2>4. /\ slicedFor[j] = assigned[j] /\ Fits(model[j].bbox, assigned[j])
        /\ assigned[j] \in Printer /\ Fits(model[j].bbox, target)
    BY <1>0, <2>2 DEF Candidates, ArchiveMatches, SlotsHeld
  <2>. QED  BY <2>1, <2>2, <2>3, <2>4 DEF Resliceable, Fits
<1>5. CASE TakeItem
  <2>1. i + 1 \in 1 .. Len(backlog) /\ backlog'[i] = backlog[i + 1]
    BY <1>0, <1>5 DEF TakeItem
  <2>. QED  BY <1>2, <2>1
<1>6. CASE ItemDone \/ UNCHANGED backlog
  BY <1>2, <1>6 DEF ItemDone
<1>7. CASE Stop \/ ProcessGone
  <2>1. backlog' = <<>>
    BY <1>7 DEF Stop, ProcessGone
  <2>. QED  BY <2>1
<1>8. ASSUME NEW j \in Job, Fallback(j), Joins(j, Head(poll.rest)),
             ~\E k \in 1 .. Len(backlog) : backlog'[i] = backlog[k]
      PROVE  /\ backlog'[i].job = j /\ backlog'[i].target \in Printer
             /\ Fits(model'[j].bbox, backlog'[i].target)
             /\ status'[j] = "slicing" =>
                  /\ assigned'[j] \in Printer /\ slicedFor'[j] = assigned'[j]
                  /\ Fits(model'[j].bbox, assigned'[j])
  <2>1. PICK target : target = Head(poll.rest)
    OBVIOUS
  <2>2. /\ backlog'[i].job = j /\ backlog'[i].target = target
        /\ Resliceable(j, target)'
    BY <1>4, <1>8, <2>1
  <2>. QED  BY <2>2 DEF Resliceable, Fits
<1>. QED  BY <1>0, <1>2, <1>3, <1>5, <1>6, <1>7, <1>8, WorkMoves

(* The slicer's thread is only moved by itself, a crash and an exit. *)
LEMMA SlicerOwn ==
    ASSUME Next
    PROVE  UNCHANGED slicer \/ SlicerStep \/ ProcessGone
<1>1. CASE PollStep
  BY <1>1 DEF PollStep, ReadPending, AllSubmitted, Submit, SubmitRefused, Dispatch,
       Fallback, FallbackRaises, NothingToDispatch, NoFallback, TickRaises
<1>2. CASE Environment \/ Stop \/ Exit \/ Crash \/ Restart \/ \E j \in Job : Upload(j) \/ Cancel(j)
  BY <1>2 DEF Environment, Report, GoesOffline, PlateCleared, HandoffEnds, Stop, Exit, Crash,
       Restart, Upload, Cancel, threads
<1>. QED  BY <1>1, <1>2 DEF Next

(* How its thread comes to slice, and to the steps of a re-slicing. *)
LEMMA SlicerComes ==
    ASSUME slicer \in SlicerType, SlicerStep
    PROVE  /\ slicer'.pc = "slice" => Analysed /\ slicer'.job = slicer.job
           /\ slicer'.pc \in {"read", "reslice", "abort"} =>
                \/ TakeItem
                \/ /\ ReadForReslice \/ ResliceRaises
                   /\ slicer.pc \in {"read", "reslice"} /\ slicer'.job = slicer.job
                   /\ slicer'.target = slicer.target
<1>1. ASSUME NEW pc, SlicerGoto(pc)
      PROVE  slicer'.pc = pc /\ slicer'.job = slicer.job /\ slicer'.target = slicer.target
  BY <1>1 DEF SlicerGoto, SlicerType
<1>2. CASE TakeItem
  <2>1. slicer'.pc # "slice"
    BY <1>2 DEF TakeItem
  <2>. QED  BY <1>2, <2>1
<1>3. CASE Analysed
  <2>1. slicer'.job = slicer.job /\ slicer'.pc \in {"slice", "done"}
    BY <1>1, <1>3 DEF Analysed, SlicerType
  <2>. QED  BY <1>3, <2>1
<1>4. CASE ReadForReslice \/ ResliceRaises
  <2>1. /\ slicer.pc \in {"read", "reslice"} /\ slicer'.job = slicer.job
        /\ slicer'.target = slicer.target /\ slicer'.pc # "slice"
    BY <1>1, <1>4 DEF ReadForReslice, ResliceRaises
  <2>. QED  BY <1>4, <2>1
<1>5. CASE ItemDone
  BY <1>5 DEF ItemDone, IdleSlicer
<1>6. CASE \/ BeginAnalysis \/ Sliced \/ PipelineRaises \/ FailJob \/ FailJobRaises
           \/ Resliced \/ AbortFallback \/ AbortRaises
  <2>1. slicer'.pc \in {"analyse", "done", "failing"}
    BY <1>1, <1>6 DEF BeginAnalysis, Sliced, PipelineRaises, FailJob, FailJobRaises, Resliced,
         AbortFallback, AbortRaises
  <2>. QED  BY <2>1
<1>. QED  BY <1>2, <1>3, <1>4, <1>5, <1>6 DEF SlicerStep

(* The thread's job fits where it is sliced for, and can be given back. *)
LEMMA TargetsStep ==
    ASSUME IInv, TypeOK', Next
    PROVE  TargetsFit'
<1>0. /\ TypeOK /\ WorkListed /\ OneJobEach /\ TargetsFit
      /\ slicer \in SlicerType /\ assigned \in [Job -> Printer \cup {NoPrinter}]
      /\ model \in [Job -> Model] /\ deploy.enabled \in SUBSET PrinterID /\ Printer = PrinterID
  BY SchedulerAssumption DEF IInv, TypeOK, SlicerType, StoreTypeOK
<1>1. slicer'.pc = "slice" =>
        /\ slicer'.target \in Printer /\ slicer'.target = assigned'[slicer'.job]
        /\ Fits(model'[slicer'.job].bbox, slicer'.target)
  <2>. SUFFICES ASSUME slicer'.pc = "slice"
                PROVE  /\ slicer'.target \in Printer /\ slicer'.target = assigned'[slicer'.job]
                       /\ Fits(model'[slicer'.job].bbox, slicer'.target)
    OBVIOUS
  <2>1. CASE UNCHANGED slicer
    <3>1. slicer.job \in Job /\ Exists(slicer.job)
      BY <1>0, <2>1, WorkerJob
    <3>2. ~Stores(slicer.job)
      BY <1>0, <2>1 DEF Stores, Analysed, Sliced, Resliced, SlicerGoto, SlicerType
    <3>3. assigned'[slicer.job] = assigned[slicer.job] /\ model'[slicer.job] = model[slicer.job]
      BY <1>0, <3>1, <3>2, ArchiveMoves
    <3>. QED  BY <1>0, <2>1, <3>3 DEF TargetsFit
  <2>2. CASE SlicerStep
    <3>1. Analysed /\ slicer'.job = slicer.job
      BY <1>0, <2>2, SlicerComes
    <3>2. slicer.job \in Job
      BY <1>0, <3>1, WorkerJob DEF Analysed
    <3>3. PICK p : p = SelectPrinter(model[slicer.job], deploy.enabled)
      OBVIOUS
    <3>4. p # Rejection /\ assigned' = [assigned EXCEPT ![slicer.job] = p] /\ slicer'.target = p
      BY <1>0, <3>1, <3>3 DEF Analysed, SlicerGoto, SlicerType
    <3>5. p \in deploy.enabled /\ Fits(model[slicer.job].bbox, p)
      BY <1>0, <3>2, <3>3, <3>4, SelectionIsSound DEF SelectionFits
    <3>6. UNCHANGED model
      BY <3>1 DEF Analysed
    <3>. QED  BY <1>0, <3>1, <3>2, <3>4, <3>5, <3>6
  <2>3. CASE ProcessGone
    BY <2>3 DEF ProcessGone, IdleSlicer
  <2>. QED  BY <2>1, <2>2, <2>3, SlicerOwn
<1>2. slicer'.pc \in {"read", "reslice", "abort"} =>
        LET j == slicer'.job  target == slicer'.target IN
        /\ target \in Printer /\ Fits(model'[j].bbox, target)
        /\ status'[j] = "slicing" =>
             /\ assigned'[j] \in Printer /\ slicedFor'[j] = assigned'[j]
             /\ Fits(model'[j].bbox, assigned'[j])
  <2>. SUFFICES ASSUME NEW j, NEW target, j = slicer'.job, target = slicer'.target,
                       slicer'.pc \in {"read", "reslice", "abort"}
                PROVE  Resliceable(j, target)'
    BY DEF Resliceable, Fits
  <2>1. CASE UNCHANGED slicer
    <3>1. j \in reserved /\ Exists(j)
      BY <1>0, <2>1, WorkerJob, StoreAssumption DEF OneJobEach
    <3>2. ~Stores(j)
      BY <1>0, <2>1 DEF Stores, Analysed, Sliced, Resliced, SlicerGoto, SlicerType
    <3>3. Resliceable(j, target)
      BY <1>0, <2>1 DEF TargetsFit
    <3>. QED  BY <3>1, <3>2, <3>3, ResliceKept
  <2>2. CASE SlicerStep
    <3>1. \/ TakeItem
          \/ /\ ReadForReslice \/ ResliceRaises
             /\ slicer.pc \in {"read", "reslice"} /\ slicer'.job = slicer.job
             /\ slicer'.target = slicer.target
      BY <1>0, <2>2, SlicerComes
    <3>2. UNCHANGED <<storeVars, durable>>
      BY <3>1 DEF TakeItem, ReadForReslice, ResliceRaises
    <3>3. Resliceable(j, target)
      <4>1. CASE TakeItem
        <5>1. backlog \in Seq(Item) /\ backlog # <<>> /\ 1 \in 1 .. Len(backlog)
          BY <1>0, <4>1 DEF TypeOK, TakeItem
        <5>2. j = backlog[1].job /\ target = backlog[1].target /\ target # NoPrinter
          BY <4>1, <5>1 DEF TakeItem
        <5>. QED  BY <1>0, <5>1, <5>2 DEF TargetsFit
      <4>2. CASE ~TakeItem
        BY <1>0, <3>1, <4>2 DEF TargetsFit
      <4>. QED  BY <4>1, <4>2
    <3>. QED  BY <3>2, <3>3 DEF Resliceable, Fits, storeVars, durable
  <2>3. CASE ProcessGone
    BY <2>3 DEF ProcessGone, IdleSlicer
  <2>. QED  BY <2>1, <2>2, <2>3, SlicerOwn
<1>. QED  BY <1>1, <1>2, BacklogStep DEF TargetsFit, Resliceable, Fits

(* A slot changes hands when it is free and claimed, when its job ends,    *)
(* when the plate is cleared, and in reconciliation.                       *)
LEMMA OwnerMoves ==
    ASSUME TypeOK, PollServes, Next, NEW p \in Printer, row'[p].current # row[p].current
    PROVE  \/ \E j \in Job : Dispatch(j) /\ p = Head(poll.rest)
                             /\ row[p].current = NoJob /\ row'[p].current = j
           \/ \E j \in Job : /\ HandoffEnds(j) /\ p = assigned[j]
                             /\ row'[p].current \in {j, NoJob}
           \/ PlateCleared(p) /\ row'[p].current = NoJob
           \/ Restart
<1>0. row \in [Printer -> PrinterState]
  BY DEF TypeOK, StoreTypeOK
<1>1. ASSUME NEW j \in Job, Dispatch(j)
      PROVE  p = Head(poll.rest) /\ row[p].current = NoJob /\ row'[p].current = j
  <2>1. row' = [row EXCEPT ![Head(poll.rest)] = [row[Head(poll.rest)] EXCEPT !.current = j]]
    BY <1>1 DEF Dispatch, SetRow
  <2>2. p = Head(poll.rest)
    BY <1>0, <2>1
  <2>3. row[p].current = NoJob
    BY <1>1, <2>2 DEF Dispatch, Available
  <2>4. row'[p].current = j
    BY <1>0, <2>1, <2>2 DEF PrinterState
  <2>. QED  BY <2>2, <2>3, <2>4
<1>2. ASSUME NEW j \in Job, HandoffEnds(j)
      PROVE  p = assigned[j] /\ row'[p].current \in {j, NoJob}
  BY <1>0, <1>2 DEF HandoffEnds, SetRow
<1>3. ASSUME NEW q \in Printer, PlateCleared(q) PROVE p = q /\ row'[p].current = NoJob
  BY <1>0, <1>3 DEF PlateCleared, SetRow, PrinterState
<1>4. ASSUME NEW q \in Printer, Report(q) \/ GoesOffline(q) PROVE row'[p].current = row[p].current
  BY <1>0, <1>4 DEF Report, GoesOffline, SetRow, PrinterState
<1>5. UNCHANGED row =>  row'[p].current = row[p].current
  OBVIOUS
<1>6. CASE \/ ReadPending \/ AllSubmitted \/ NothingToDispatch \/ NoFallback \/ TickRaises
           \/ \E j \in Job : Submit(j) \/ SubmitRefused(j) \/ Fallback(j) \/ FallbackRaises(j)
  BY <1>5, <1>6 DEF ReadPending, AllSubmitted, Submit, SubmitRefused,
       Fallback, FallbackRaises, NothingToDispatch, NoFallback, TickRaises, storeVars
<1>7. CASE SlicerStep
  BY <1>5, <1>7 DEF SlicerStep, TakeItem, BeginAnalysis, PipelineRaises, FailJob,
       FailJobRaises, ReadForReslice, ResliceRaises, AbortRaises, ItemDone, Analysed, Sliced,
       Resliced, AbortFallback, storeVars
<1>8. CASE Stop \/ Exit \/ Crash \/ \E j \in Job : Upload(j) \/ Cancel(j)
  BY <1>5, <1>8 DEF Stop, Exit, Crash, ProcessGone, Upload, Cancel, storeVars
<1>. QED
  BY <1>1, <1>2, <1>3, <1>4, <1>6, <1>7, <1>8 DEF Next, PollStep, Environment

(* A queued job has a printer, and one in flight owns that printer's slot. *)
LEMMA SlotsHeldStep ==
    ASSUME IInv, TypeOK', Next
    PROVE  SlotsHeld'
<1>. SUFFICES ASSUME NEW j \in Job, status'[j] \in {"queued"} \cup InFlight
              PROVE  /\ assigned'[j] \in Printer
                     /\ status'[j] \in InFlight => row'[assigned'[j]].current = j
  BY DEF SlotsHeld
<1>0. /\ TypeOK /\ WorkListed /\ TargetsFit /\ SlotsHeld /\ PollServes
      /\ assigned \in [Job -> Printer \cup {NoPrinter}]
      /\ status \in [Job -> JobStatus] /\ row \in [Printer -> PrinterState]
      /\ NoJob \notin Job
  BY StoreAssumption DEF IInv, TypeOK, StoreTypeOK, WorkListed
<1>1. CASE status'[j] = "queued" /\ status[j] # "queued"
  <2>1. /\ j = slicer.job /\ status[j] = "slicing" /\ (Sliced \/ Resliced \/ AbortFallback)
        /\ status'[j] \notin InFlight
    BY <1>0, <1>1, StatusComes DEF Comes, InFlight, Physical
  <2>2. CASE Sliced
    <3>1. slicer.target \in Printer /\ slicer.target = assigned[j] /\ assigned' = assigned
      BY <1>0, <2>1, <2>2 DEF TargetsFit, Sliced
    <3>. QED  BY <2>1, <3>1
  <2>3. CASE Resliced
    <3>1. slicer.target \in Printer /\ assigned'[j] = slicer.target
      BY <1>0, <2>1, <2>3 DEF TargetsFit, Resliceable, Resliced
    <3>. QED  BY <2>1, <3>1
  <2>4. CASE AbortFallback
    <3>1. assigned[j] \in Printer /\ assigned' = assigned
      BY <1>0, <2>1, <2>4 DEF TargetsFit, Resliceable, AbortFallback
    <3>. QED  BY <2>1, <3>1
  <2>. QED  BY <2>1, <2>2, <2>3, <2>4
<1>2. CASE Dispatch(j) /\ status'[j] # status[j]
  <2>1. poll.pc = "dispatch" /\ assigned[j] = Head(poll.rest) /\ assigned' = assigned
    BY <1>2 DEF Dispatch, QueuedFor
  <2>2. Head(poll.rest) \in Printer
    <3>1. poll \in PollType /\ poll.rest # <<>>
      BY <1>0, <2>1 DEF TypeOK, PollType, PollServes
    <3>. QED  BY <3>1 DEF PollType
  <2>3. row'[Head(poll.rest)].current = j
    BY <1>0, <1>2, <2>2 DEF Dispatch, SetRow, PrinterState
  <2>. QED  BY <2>1, <2>2, <2>3
<1>3. CASE /\ status'[j] \in {"queued"} \cup InFlight
           /\ status'[j] = status[j] \/ (Restart /\ status[j] = "uploading")
  <2>1. status[j] \in {"queued"} \cup InFlight
        /\ (status'[j] \in InFlight => status[j] \in InFlight)
    BY <1>3 DEF InFlight
  <2>2. status[j] \notin {"analysing", "slicing"}
    BY <2>1 DEF InFlight, Physical
  <2>3. assigned'[j] = assigned[j] /\ assigned[j] \in Printer
    BY <1>0, <2>1, <2>2, ArchiveMoves DEF SlotsHeld
  <2>4. ASSUME status[j] \in InFlight PROVE row'[assigned[j]].current = j
    <3>1. row[assigned[j]].current = j
      BY <1>0, <2>4 DEF SlotsHeld
    <3>2. CASE row'[assigned[j]].current = row[assigned[j]].current
      BY <3>1, <3>2
    <3>3. ASSUME NEW k \in Job, row[assigned[j]].current = NoJob PROVE FALSE
      BY <1>0, <3>1, <3>3
    <3>4. ASSUME NEW k \in Job, HandoffEnds(k), assigned[j] = assigned[k],
                 row'[assigned[j]].current \in {k, NoJob}
          PROVE  FALSE
      <4>1. row[assigned[k]].current = k
        BY <1>0, <3>4 DEF SlotsHeld, HandoffEnds
      <4>2. j = k /\ status'[k] = "failed"
        BY <1>0, <3>1, <3>4, <4>1 DEF HandoffEnds
      <4>. QED  BY <1>3, <4>2 DEF InFlight, Physical
    <3>5. ASSUME PlateCleared(assigned[j]) PROVE FALSE
      <4>1. status[j] \in Terminal
        BY <1>0, <3>1, <3>5 DEF PlateCleared
      <4>. QED  BY <2>4, <4>1 DEF Terminal, InFlight, Physical
    <3>6. CASE Restart
      <4>1. CASE \E k \in Job : status[k] = "uploading" /\ assigned[k] = assigned[j]
        <5>1. \A k \in Job : status[k] = "uploading" /\ assigned[k] = assigned[j] => k = j
          BY <1>0, <3>1 DEF SlotsHeld, InFlight
        <5>2. (CHOOSE k \in Job : status[k] = "uploading" /\ assigned[k] = assigned[j]) = j
          BY <4>1, <5>1
        <5>. QED  BY <2>3, <3>6, <4>1, <5>2 DEF Restart
      <4>2. CASE ~\E k \in Job : status[k] = "uploading" /\ assigned[k] = assigned[j]
        BY <2>3, <3>1, <3>6, <4>2 DEF Restart
      <4>. QED  BY <4>1, <4>2
    <3>. QED  BY <1>0, <2>3, <3>2, <3>3, <3>4, <3>5, <3>6, OwnerMoves
  <2>. QED  BY <2>1, <2>3, <2>4
<1>4. status'[j] # status[j] /\ status'[j] # "queued" =>
        (Restart /\ status[j] = "uploading") \/ Dispatch(j)
  BY <1>0, StatusComes DEF Comes, InFlight, Physical
<1>. QED  BY <1>1, <1>2, <1>3, <1>4

(* A stuttering step keeps everything. *)
LEMMA Stutters ==
    ASSUME IInv, UNCHANGED vars
    PROVE  IInv'
<1>. USE DEF vars, storeVars, durable, service, threads, bounds
<1>1. TypeOK'
  BY DEF IInv, TypeOK, StoreTypeOK
<1>2. OneJobEach'
  BY DEF IInv, OneJobEach
<1>3. WorkListed'
  BY DEF IInv, WorkListed, WorkerHasJob, PollServes, Exists
<1>4. ArchiveMatches' /\ TargetsFit' /\ SlotsHeld'
  BY DEF IInv, ArchiveMatches, TargetsFit, SlotsHeld, Resliceable, Fits
<1>. QED  BY <1>1, <1>2, <1>3, <1>4 DEF IInv

(* Every step keeps the invariant, and so does a stutter. *)
LEMMA IInvStep ==
    ASSUME IInv, [Next]_vars
    PROVE  IInv'
<1>1. CASE UNCHANGED vars
  BY <1>1, Stutters
<1>2. CASE Next
  <2>0. TypeOK /\ WorkListed /\ OneJobEach /\ PollServes /\ WorkerHasJob
    BY DEF IInv, WorkListed
  <2>1. TypeOK'
    <3>1. StoreTypeOK' /\ DurableType' /\ ServiceType' /\ ThreadType'
      BY <1>2, <2>0, StoreTypeStep, DurableTypeStep, ServiceTypeStep, ThreadTypeStep
    <3>. QED
      BY <3>1 DEF TypeOK, DurableType, ServiceType, ThreadType, PollType, SlicerType
  <2>2. OneJobEach' /\ WorkListed'
    BY <1>2, <2>0, <2>1, OneJobEachStep, WorkListedStep
  <2>3. ArchiveMatches' /\ TargetsFit' /\ SlotsHeld'
    BY <1>2, <2>1, ArchiveStep, TargetsStep, SlotsHeldStep
  <2>. QED  BY <2>1, <2>2, <2>3 DEF IInv
<1>. QED  BY <1>1, <1>2

(* The first start finds no jobs and free slots. *)
LEMMA IInvInit ==
    ASSUME Init
    PROVE  IInv
<1>. USE DEF Init
<1>1. TypeOK
  <2>1. StoreTypeOK
    BY DEF StoreTypeOK, JobStatus, SeedRow, PrinterState, PrinterStatus
  <2>2. NoModel \in Model
    <3>1. 0 \in 0 .. 100
      OBVIOUS
    <3>. QED  BY <3>1 DEF NoModel, Model
  <2>3. DurableType
    BY <2>2 DEF DurableType, IsInjective
  <2>4. ServiceType
    BY SchedulerAssumption DEF ServiceType
  <2>5. ThreadType
    BY DEF ThreadType, PollType, SlicerType, IdlePoll, IdleSlicer, SlicerPC
  <2>. QED
    BY <2>1, <2>3, <2>4, <2>5 DEF TypeOK, DurableType, ServiceType, ThreadType, PollType, SlicerType
<1>2. OneJobEach
  BY DEF OneJobEach, IdleSlicer
<1>3. WorkListed
  BY DEF WorkListed, WorkerHasJob, PollServes, IdlePoll, IdleSlicer
<1>4. ArchiveMatches /\ SlotsHeld
  BY DEF ArchiveMatches, SlotsHeld, InFlight, Physical
<1>5. TargetsFit
  BY DEF TargetsFit, IdleSlicer
<1>. QED  BY <1>1, <1>2, <1>3, <1>4, <1>5 DEF IInv

----------------------------------------------------------------------------
(* The types, and all that the scheduler keeps true of its workers, its    *)
(* archives and the slots: the invariant the runs check as SchedulerInv.   *)
THEOREM SchedulerInvariant == Spec => []SchedulerInv
<1>1. IInv => SchedulerInv
  BY WorkForms DEF IInv, SchedulerInv
<1>2. QED
  BY <1>1, IInvInit, IInvStep, PTL DEF Spec

(* _slicing_jobs does its work: a job never waits twice in the executor,   *)
(* nor waits while it is worked on.                                        *)
THEOREM NoJobHasTwoWorkers == Spec => []OneWorkerPerJob
<1>1. IInv => OneWorkerPerJob
  BY WorkForms DEF IInv
<1>2. QED
  BY <1>1, IInvInit, IInvStep, PTL DEF Spec

(* What is queued or sent is an archive for that printer, of a model that  *)
(* its volume holds, after any fallbacks, cancellations and crashes.       *)
THEOREM QueuedArchiveFits == Spec => []ArchiveMatches
<1>1. IInv => ArchiveMatches
  BY DEF IInv
<1>2. QED
  BY <1>1, IInvInit, IInvStep, PTL DEF Spec

(* A late result of the slicer never swaps what is being sent or printed.  *)
THEOREM ArchiveFixedOnceQueued == Spec => DispatchedArchiveIsFixed
<1>1. ASSUME IInv, [Next]_vars
      PROVE  [\A j \in Job : assigned'[j] # assigned[j] \/ slicedFor'[j] # slicedFor[j] =>
                 status[j] \in {"analysing", "slicing"}]_vars
  BY <1>1, ArchiveMoves DEF IInv
<1>2. QED
  BY <1>1, IInvInit, IInvStep, PTL DEF Spec, DispatchedArchiveIsFixed

(* A job whose fallback failed is only sliced again after a restart took   *)
(* it back to pending: never out of the queue.                             *)
THEOREM FallbackIsTriedOnce == Spec => FallbackFailsOnce
<1>1. ASSUME IInv, [Next]_vars
      PROVE  [\A j \in marked : status[j] = "queued" => status'[j] # "slicing"]_vars
  <2>. SUFFICES ASSUME Next, NEW j \in marked, status[j] = "queued", status'[j] = "slicing"
                PROVE  FALSE
    BY <1>1
  <2>1. j \in Job /\ TypeOK /\ WorkListed
    BY <1>1 DEF IInv, TypeOK
  <2>2. Fallback(j)
    BY <2>1, StatusComes DEF Comes
  <2>. QED  BY <2>2 DEF Fallback, Candidates
<1>2. QED
  BY <1>1, IInvInit, IInvStep, PTL DEF Spec, FallbackFailsOnce

(* Whatever a late worker, an operator, a tick or reconciliation does, a   *)
(* job that has ended keeps its verdict.                                   *)
THEOREM EndedStaysEnded == Spec => NeverRevived
<1>1. ASSUME IInv, [Next]_vars
      PROVE  [\A j \in Job : status[j] \in Terminal => status'[j] = status[j]]_vars
  <2>. SUFFICES ASSUME Next, NEW j \in Job, status[j] \in Terminal
                PROVE  status'[j] = status[j]
    BY <1>1
  <2>1. TypeOK /\ WorkListed /\ status \in [Job -> JobStatus]
    BY <1>1 DEF IInv, TypeOK, StoreTypeOK
  <2>2. Recovered(status[j]) = status[j]
    BY DEF Recovered, Terminal
  <2>. QED  BY <2>1, <2>2, StatusMoves DEF Moves
<1>2. QED
  BY <1>1, IInvInit, IInvStep, PTL DEF Spec, NeverRevived

(* An analysis ends as the published rule says for the printers that are   *)
(* enabled then, whichever restarts and retries came before it.            *)
THEOREM AnalysesFollowTheRule == Spec => RoutedByRule
<1>1. ASSUME IInv, [Next]_vars
      PROVE  [\A j \in Job :
          /\ status[j] = "analysing" /\ status'[j] = "slicing" =>
                Rule(model[j], deploy.enabled, assigned'[j])
          /\ status[j] = "analysing" /\ status'[j] = "rejected" =>
                Rule(model[j], deploy.enabled, Rejection)]_vars
  <2>. SUFFICES ASSUME Next, NEW j \in Job, status[j] = "analysing",
                       status'[j] \in {"slicing", "rejected"}
                PROVE  Rule(model[j], deploy.enabled,
                            IF status'[j] = "slicing" THEN assigned'[j] ELSE Rejection)
    BY <1>1
  <2>1. /\ TypeOK /\ WorkListed /\ assigned \in [Job -> Printer \cup {NoPrinter}]
        /\ status \in [Job -> JobStatus]
        /\ model[j] \in Model /\ deploy.enabled \in SUBSET PrinterID
    BY <1>1, SchedulerAssumption DEF IInv, TypeOK, StoreTypeOK
  <2>2. Analysed /\ j = slicer.job
    BY <2>1, StatusComes DEF Comes, Fallback, Transition
  <2>3. PICK p : p = SelectPrinter(model[j], deploy.enabled)
    OBVIOUS
  <2>4. \/ status'[j] = "slicing" /\ assigned'[j] = p
        \/ status'[j] = "rejected" /\ p = Rejection
    BY <2>1, <2>2, <2>3 DEF Analysed, Transition
  <2>5. Rule(model[j], deploy.enabled, p)
    BY <2>1, <2>3, SelectionIsPublished DEF PublishedRule
  <2>. QED  BY <2>4, <2>5
<1>2. QED
  BY <1>1, IInvInit, IInvStep, PTL DEF Spec, RoutedByRule

(* A job is rejected only if no printer of the deployment could hold it,   *)
(* when the volumes are nested.                                            *)
THEOREM RejectedJobsFitNowhere == Spec => NothingPrintableRejected
<1>1. ASSUME IInv, [Next]_vars
      PROVE  [\A j \in Job : Nested /\ status[j] # "rejected" /\ status'[j] = "rejected" =>
                 \A p \in deploy.enabled : ~Fits(model[j].bbox, p)]_vars
  <2>. SUFFICES ASSUME Next, NEW j \in Job, Nested, status[j] # "rejected",
                       status'[j] = "rejected"
                PROVE  \A p \in deploy.enabled : ~Fits(model[j].bbox, p)
    BY <1>1
  <2>1. /\ TypeOK /\ WorkListed /\ status \in [Job -> JobStatus]
        /\ model[j] \in Model /\ deploy.enabled \in SUBSET PrinterID
    BY <1>1, SchedulerAssumption DEF IInv, TypeOK, StoreTypeOK
  <2>2. Analysed /\ j = slicer.job
    BY <2>1, StatusComes DEF Comes
  <2>3. SelectPrinter(model[j], deploy.enabled) = Rejection
    BY <2>1, <2>2 DEF Analysed, Transition
  <2>. QED  BY <2>1, <2>3, RejectionIsJustified DEF RejectedFitsNowhere
<1>2. QED
  BY <1>1, IInvInit, IInvStep, PTL DEF Spec, NothingPrintableRejected

----------------------------------------------------------------------------
(* The contract on the slots *)

(* The stage of each status. *)
LEMMA StageTable ==
    /\ \A st \in {"pending", "analysing", "slicing"} : Stage(st) = "ready"
    /\ Stage("queued") = "queued"
    /\ \A st \in InFlight : Stage(st) = "held"
    /\ \A st \in Terminal : Stage(st) = "ended"
    /\ \A st \in JobStatus : Stage(st) \in {"ready", "queued", "held", "ended"}
BY DEF Stage, InFlight, Physical, Terminal

(* Nothing of the contract moves when every job keeps its stage and, in a  *)
(* queue or a slot, its printer, and every slot its owner.                 *)
LEMMA StageKept ==
    ASSUME \A j \in Job : Stage(status'[j]) = Stage(status[j]),
           \A j \in Job : assigned'[j] = assigned[j] \/ Stage(status[j]) = "ready",
           \A p \in Printer : row'[p].current = row[p].current
    PROVE  UNCHANGED Slots!vars
<1>1. UNCHANGED SlotStage
  BY DEF SlotStage
<1>2. UNCHANGED SlotAt
  BY <1>1 DEF SlotAt, SlotStage
<1>3. UNCHANGED SlotOwner
  BY DEF SlotOwner
<1>. QED  BY <1>1, <1>2, <1>3 DEF Slots!vars

(* The moves that leave the rows of the printers alone: a job is queued    *)
(* with a printer, taken back, given up before a printer has it, or fails  *)
(* where it is held.                                                       *)
LEMMA JobMoves ==
    ASSUME IInv, NEW j \in Job, NEW to \in JobStatus,
           status' = [status EXCEPT ![j] = to], UNCHANGED row,
           \A k \in Job \ {j} : assigned'[k] = assigned[k],
           \/ Stage(status[j]) = "ready" /\ Stage(to) = "queued" /\ assigned'[j] \in Printer
           \/ Stage(status[j]) = "ready" /\ Stage(to) = "ready"
           \/ Stage(status[j]) = "queued" /\ Stage(to) = "ready"
           \/ Stage(status[j]) \in {"ready", "queued", "held"} /\ Stage(to) = "ended"
    PROVE  [Slots!Next]_Slots!vars
<1>0. status \in [Job -> JobStatus] /\ SlotsHeld
  BY DEF IInv, TypeOK, StoreTypeOK
<1>1. SlotStage' = [SlotStage EXCEPT ![j] = Stage(to)] /\ SlotStage[j] = Stage(status[j])
  BY <1>0 DEF SlotStage
<1>2. UNCHANGED SlotOwner
  BY DEF SlotOwner
<1>3. \A k \in Job : SlotAt'[k] = IF k = j THEN IF Stage(to) \in {"queued", "held"}
                                                THEN assigned'[j] ELSE NoPrinter
                                  ELSE SlotAt[k]
  <2>1. \A k \in Job : SlotStage'[k] = IF k = j THEN Stage(to) ELSE SlotStage[k]
    BY <1>1 DEF SlotStage
  <2>2. SlotAt' = [k \in Job |-> IF SlotStage'[k] \in {"queued", "held"}
                                 THEN assigned'[k] ELSE NoPrinter]
    BY DEF SlotAt
  <2>. QED  BY <2>1, <2>2 DEF SlotAt
<1>4. DOMAIN SlotAt = Job /\ SlotAt' = [k \in Job |-> SlotAt'[k]]
      /\ SlotAt = [k \in Job |-> SlotAt[k]]
  BY DEF SlotAt
<1>5. CASE Stage(status[j]) = "ready" /\ Stage(to) = "queued" /\ assigned'[j] \in Printer
  <2>1. PICK p \in Printer : p = assigned'[j]
    BY <1>5
  <2>2. SlotAt' = [SlotAt EXCEPT ![j] = p]
    BY <1>3, <1>4, <1>5, <2>1
  <2>3. Slots!Enqueue(j)
    BY <1>1, <1>2, <1>5, <2>2 DEF Slots!Enqueue
  <2>. QED  BY <2>3 DEF Slots!Next
<1>6. CASE Stage(status[j]) = "ready" /\ Stage(to) = "ready"
  <2>1. \A k \in Job : Stage(status'[k]) = Stage(status[k])
    BY <1>0, <1>6
  <2>. QED  BY <1>6, <2>1, StageKept
<1>7. Stage(to) \in {"ready", "ended"} => SlotAt' = [SlotAt EXCEPT ![j] = NoPrinter]
  BY <1>3, <1>4
<1>8. CASE Stage(status[j]) = "queued" /\ Stage(to) = "ready"
  <2>1. Slots!TakeBack(j)
    BY <1>1, <1>2, <1>7, <1>8 DEF Slots!TakeBack
  <2>. QED  BY <2>1 DEF Slots!Next
<1>9. CASE Stage(status[j]) \in {"ready", "queued"} /\ Stage(to) = "ended"
  <2>1. Slots!Drop(j)
    BY <1>1, <1>2, <1>7, <1>9 DEF Slots!Drop
  <2>. QED  BY <2>1 DEF Slots!Next
<1>10. CASE Stage(status[j]) = "held" /\ Stage(to) = "ended"
  <2>1. status[j] \in InFlight
    BY <1>10 DEF Stage
  <2>2. assigned[j] \in Printer /\ row[assigned[j]].current = j
    BY <1>0, <2>1 DEF SlotsHeld
  <2>3. SlotAt[j] = assigned[j] /\ SlotOwner[SlotAt[j]] = j
    BY <1>1, <1>10, <2>2 DEF SlotAt, SlotOwner
  <2>4. Slots!End(j)
    BY <1>1, <1>2, <1>7, <1>10, <2>3 DEF Slots!End
  <2>. QED  BY <2>4 DEF Slots!Next
<1>. QED  BY <1>5, <1>6, <1>8, <1>9, <1>10

(* A dispatch claims the slot it found free. *)
LEMMA DispatchClaims ==
    ASSUME IInv, NEW j \in Job, Dispatch(j)
    PROVE  [Slots!Next]_Slots!vars
<1>0. /\ status \in [Job -> JobStatus] /\ row \in [Printer -> PrinterState]
      /\ SlotsHeld
  BY DEF IInv, TypeOK, StoreTypeOK
<1>1. PICK p : p = Head(poll.rest)
  OBVIOUS
<1>2. /\ status[j] = "queued" /\ status' = [status EXCEPT ![j] = "uploading"]
      /\ assigned[j] = p /\ UNCHANGED assigned /\ row[p].current = NoJob
      /\ row' = [row EXCEPT ![p] = [row[p] EXCEPT !.current = j]]
  BY <1>1 DEF Dispatch, QueuedFor, Available, Transition, SetRow
<1>3. p \in Printer
  BY <1>0, <1>2 DEF SlotsHeld
<1>4. Stage("queued") = "queued" /\ Stage("uploading") = "held"
  BY StageTable DEF InFlight
<1>5. SlotStage' = [SlotStage EXCEPT ![j] = "held"]
  BY <1>0, <1>2, <1>4 DEF SlotStage
<1>6. UNCHANGED SlotAt
  BY <1>0, <1>2, <1>4 DEF SlotAt, SlotStage
<1>7. SlotStage[j] = "queued" /\ SlotAt[j] = p /\ SlotOwner[p] = NoJob
  BY <1>2, <1>3, <1>4 DEF SlotStage, SlotAt, SlotOwner
<1>8. SlotOwner' = [SlotOwner EXCEPT ![p] = j]
  BY <1>0, <1>2, <1>3 DEF SlotOwner, PrinterState
<1>9. Slots!Claim(j)
  BY <1>5, <1>6, <1>7, <1>8 DEF Slots!Claim
<1>. QED  BY <1>9 DEF Slots!Next

(* A handoff that ends gives the slot back or blocks it. *)
LEMMA HandoffEndsHeld ==
    ASSUME IInv, NEW j \in Job, HandoffEnds(j)
    PROVE  [Slots!Next]_Slots!vars
<1>0. /\ status \in [Job -> JobStatus] /\ row \in [Printer -> PrinterState]
      /\ status[j] \in InFlight /\ SlotsHeld
  BY DEF IInv, TypeOK, StoreTypeOK, HandoffEnds
<1>1. PICK p \in Printer : p = assigned[j] /\ row[p].current = j
  BY <1>0 DEF SlotsHeld
<1>2. /\ status' = [status EXCEPT ![j] = "failed"] /\ UNCHANGED assigned
      /\ \/ row' = [row EXCEPT ![p] = [status |-> "idle", current |-> NoJob, cleared |-> TRUE]]
         \/ row' = [row EXCEPT ![p] = [status |-> "error", current |-> j, cleared |-> FALSE]]
  BY <1>1 DEF HandoffEnds, SetRow
<1>3. Stage(status[j]) = "held" /\ Stage("failed") = "ended"
  BY <1>0, StageTable DEF Terminal
<1>4. SlotStage' = [SlotStage EXCEPT ![j] = "ended"]
  BY <1>0, <1>2, <1>3 DEF SlotStage
<1>5. SlotAt' = [SlotAt EXCEPT ![j] = NoPrinter]
  <2>1. \A k \in Job : SlotStage'[k] = IF k = j THEN "ended" ELSE SlotStage[k]
    BY <1>4 DEF SlotStage
  <2>. QED  BY <1>2, <2>1 DEF SlotAt
<1>6. SlotStage[j] = "held" /\ SlotAt[j] = p /\ SlotOwner[p] = j
  BY <1>1, <1>3 DEF SlotStage, SlotAt, SlotOwner
<1>7. UNCHANGED SlotOwner \/ SlotOwner' = [SlotOwner EXCEPT ![p] = NoJob]
  <2>1. CASE \A q \in Printer : row'[q].current = IF q = p THEN NoJob ELSE row[q].current
    BY <2>1 DEF SlotOwner
  <2>2. CASE \A q \in Printer : row'[q].current = IF q = p THEN j ELSE row[q].current
    BY <1>1, <2>2 DEF SlotOwner
  <2>. QED  BY <1>0, <1>2, <2>1, <2>2
<1>8. Slots!End(j)
  BY <1>4, <1>5, <1>6, <1>7 DEF Slots!End
<1>. QED  BY <1>8 DEF Slots!Next

(* The operator only takes the slot from a job that has ended. *)
LEMMA PlateClearedYields ==
    ASSUME IInv, NEW p \in Printer, PlateCleared(p)
    PROVE  [Slots!Next]_Slots!vars
<1>0. /\ status \in [Job -> JobStatus] /\ row \in [Printer -> PrinterState]
      /\ row[p].current \in Job \cup {NoJob}
  BY DEF IInv, TypeOK, StoreTypeOK, PrinterState
<1>1. /\ UNCHANGED <<status, assigned>>
      /\ row[p].current # NoJob => status[row[p].current] \in Terminal
      /\ row' = [row EXCEPT ![p] = [row[p] EXCEPT !.current = NoJob, !.cleared = TRUE]]
  BY DEF PlateCleared, SetRow
<1>2. UNCHANGED <<SlotStage, SlotAt>>
  BY <1>1 DEF SlotStage, SlotAt
<1>3. SlotOwner' = [SlotOwner EXCEPT ![p] = NoJob]
  BY <1>0, <1>1 DEF SlotOwner, PrinterState
<1>4. CASE row[p].current = NoJob
  <2>1. UNCHANGED SlotOwner
    BY <1>3, <1>4 DEF SlotOwner
  <2>. QED  BY <1>2, <2>1 DEF Slots!vars
<1>5. CASE row[p].current # NoJob
  <2>1. SlotOwner[p] # NoJob /\ SlotStage[SlotOwner[p]] = "ended"
    BY <1>0, <1>1, <1>5, StageTable DEF SlotOwner, SlotStage
  <2>2. Slots!Yield(p)
    BY <1>2, <1>3, <2>1 DEF Slots!Yield
  <2>. QED  BY <2>2 DEF Slots!Next
<1>. QED  BY <1>4, <1>5

(* Reconciliation leaves every job that holds a slot where it is. *)
LEMMA RestartKeepsSlots ==
    ASSUME IInv, Restart
    PROVE  UNCHANGED Slots!vars
<1>0. /\ status \in [Job -> JobStatus] /\ row \in [Printer -> PrinterState] /\ SlotsHeld
  BY DEF IInv, TypeOK, StoreTypeOK
<1>1. \A st \in JobStatus : Stage(Recovered(st)) = Stage(st)
  BY DEF Stage, Recovered, InFlight, Physical
<1>2. UNCHANGED assigned /\ \A j \in Job : Stage(status'[j]) = Stage(status[j])
  BY <1>0, <1>1 DEF Restart
<1>3. ASSUME NEW p \in Printer PROVE row'[p].current = row[p].current
  <2>1. \A k \in Job : status[k] = "uploading" /\ assigned[k] = p => row[p].current = k
    BY <1>0 DEF SlotsHeld, InFlight
  <2>2. CASE \E k \in Job : status[k] = "uploading" /\ assigned[k] = p
    <3>1. (CHOOSE k \in Job : status[k] = "uploading" /\ assigned[k] = p) = row[p].current
      BY <2>1, <2>2
    <3>. QED  BY <2>2, <3>1 DEF Restart
  <2>3. CASE ~\E k \in Job : status[k] = "uploading" /\ assigned[k] = p
    BY <2>3 DEF Restart
  <2>. QED  BY <2>2, <2>3
<1>. QED  BY <1>2, <1>3, StageKept

(* Every step of the scheduler is one of the contract, or none of it. *)
LEMMA SlotsStep ==
    ASSUME IInv, IInv', [Next]_vars
    PROVE  [Slots!Next]_Slots!vars
<1>0. /\ TypeOK /\ WorkListed /\ TargetsFit /\ SlotsHeld /\ SlotsHeld'
      /\ status \in [Job -> JobStatus] /\ row \in [Printer -> PrinterState]
      /\ assigned \in [Job -> Printer \cup {NoPrinter}]
  BY DEF IInv, TypeOK, StoreTypeOK
<1>s. ASSUME UNCHANGED storeVars PROVE UNCHANGED Slots!vars
  BY <1>s, StageKept DEF storeVars
<1>t. ASSUME NEW j, NEW from, NEW to, Transition(j, from, to)
      PROVE  status[j] = from /\ status' = [status EXCEPT ![j] = to]
  BY <1>t DEF Transition
<1>k. /\ {"pending", "analysing", "slicing", "queued", "cancelled", "failed", "rejected"}
           \subseteq JobStatus
      /\ Stage("cancelled") = "ended" /\ Stage("failed") = "ended" /\ Stage("rejected") = "ended"
      /\ Stage("pending") = "ready" /\ Stage("analysing") = "ready" /\ Stage("slicing") = "ready"
      /\ Stage("queued") = "queued"
  BY StageTable DEF JobStatus, Terminal
<1>1. ASSUME NEW j \in Job, Cancel(j) PROVE [Slots!Next]_Slots!vars
  <2>1. PICK from \in Cancellable : Transition(j, from, "cancelled")
    BY <1>1 DEF Cancel, TransitionFrom
  <2>2. UNCHANGED <<assigned, row>> /\ Stage(status[j]) \in {"ready", "queued"}
    BY <1>1, <1>t, <1>k, <2>1 DEF Cancel, Cancellable
  <2>. QED  BY <1>t, <1>k, <2>1, <2>2, JobMoves
<1>2. ASSUME NEW j \in Job, Fallback(j) PROVE [Slots!Next]_Slots!vars
  <2>1. Transition(j, "queued", "slicing") /\ UNCHANGED <<assigned, row>>
    BY <1>2 DEF Fallback
  <2>. QED  BY <1>t, <1>k, <2>1, JobMoves
<1>3. CASE BeginAnalysis
  <2>1. /\ slicer.job \in Job /\ UNCHANGED <<assigned, row>>
        /\ UNCHANGED status \/ Transition(slicer.job, "pending", "analysing")
    BY <1>0, <1>3, WorkerJob DEF BeginAnalysis
  <2>. QED  BY <1>s, <1>t, <1>k, <2>1, JobMoves DEF storeVars
<1>4. CASE Analysed
  <2>1. /\ slicer.job \in Job /\ UNCHANGED row
        /\ \A k \in Job \ {slicer.job} : assigned'[k] = assigned[k]
        /\ \/ UNCHANGED <<status, assigned>>
           \/ Transition(slicer.job, "analysing", "slicing")
           \/ Transition(slicer.job, "analysing", "rejected")
    BY <1>0, <1>4, WorkerJob DEF Analysed
  <2>. QED  BY <1>s, <1>t, <1>k, <2>1, JobMoves DEF storeVars
<1>5. CASE Sliced \/ Resliced \/ AbortFallback
  <2>1. /\ slicer.job \in Job /\ UNCHANGED row
        /\ \A k \in Job \ {slicer.job} : assigned'[k] = assigned[k]
        /\ \/ UNCHANGED <<status, assigned>>
           \/ Transition(slicer.job, "slicing", "queued")
    BY <1>0, <1>5, WorkerJob DEF Sliced, Resliced, AbortFallback
  <2>2. ASSUME Transition(slicer.job, "slicing", "queued")
        PROVE  [Slots!Next]_Slots!vars
    <3>1. status'[slicer.job] = "queued"
      BY <1>0, <1>t, <2>1, <2>2
    <3>2. assigned'[slicer.job] \in Printer
      BY <1>0, <2>1, <3>1 DEF SlotsHeld
    <3>. QED  BY <1>t, <1>k, <2>1, <2>2, <3>2, JobMoves
  <2>. QED  BY <1>s, <2>1, <2>2 DEF storeVars
<1>6. CASE FailJob
  <2>1. slicer.job \in Job /\ UNCHANGED <<row, assigned>>
    BY <1>0, <1>6, WorkerJob DEF FailJob
  <2>2. ASSUME NEW from \in JobStatus \ Terminal, Transition(slicer.job, from, "failed")
        PROVE  [Slots!Next]_Slots!vars
    <3>1. Stage(status[slicer.job]) \in {"ready", "queued", "held"}
      BY <1>t, <2>2 DEF Stage, JobStatus, Terminal, InFlight, Physical
    <3>. QED  BY <1>t, <1>k, <2>1, <2>2, <3>1, JobMoves
  <2>. QED  BY <1>6, <1>s, <2>1, <2>2 DEF FailJob, TransitionFrom, storeVars
<1>7. ASSUME NEW j \in Job, Dispatch(j) \/ HandoffEnds(j) PROVE [Slots!Next]_Slots!vars
  BY <1>7, DispatchClaims, HandoffEndsHeld
<1>8. ASSUME NEW p \in Printer, PlateCleared(p) PROVE [Slots!Next]_Slots!vars
  BY <1>8, PlateClearedYields
<1>9. CASE Restart
  BY <1>9, RestartKeepsSlots
<1>10. ASSUME NEW p \in Printer, Report(p) \/ GoesOffline(p) PROVE UNCHANGED Slots!vars
  <2>1. /\ UNCHANGED <<status, assigned>>
        /\ \A q \in Printer : row'[q].current = row[q].current
    BY <1>0, <1>10 DEF Report, GoesOffline, SetRow, PrinterState
  <2>. QED  BY <2>1, StageKept
<1>11. CASE \/ ReadPending \/ AllSubmitted \/ NothingToDispatch \/ NoFallback \/ TickRaises
            \/ \E j \in Job : Submit(j) \/ SubmitRefused(j) \/ FallbackRaises(j) \/ Upload(j)
  BY <1>s, <1>11 DEF ReadPending, AllSubmitted, NothingToDispatch, NoFallback, TickRaises,
       Submit, SubmitRefused, FallbackRaises, Upload
<1>12. CASE \/ TakeItem \/ PipelineRaises \/ FailJobRaises \/ ReadForReslice \/ ResliceRaises
            \/ AbortRaises \/ ItemDone \/ Stop \/ Exit \/ Crash \/ UNCHANGED vars
  BY <1>s, <1>12 DEF TakeItem, PipelineRaises, FailJobRaises, ReadForReslice, ResliceRaises,
       AbortRaises, ItemDone, Stop, Exit, Crash, ProcessGone, vars
<1>. QED
  BY <1>1, <1>2, <1>3, <1>4, <1>5, <1>6, <1>7, <1>8, <1>9, <1>10, <1>11, <1>12
     DEF Next, PollStep, SlicerStep, Environment

(* The scheduler keeps its side of the contract with Handoff, for any      *)
(* number of jobs: with HandoffKeepsContract, what each of the two leaves  *)
(* to its environment is something that the other one may do.              *)
THEOREM SchedulerKeepsContract == Spec => SlotsKept
<1>1. Init => Slots!Init
  <2>. SUFFICES ASSUME Init PROVE Slots!Init
    OBVIOUS
  <2>1. SlotStage = [j \in Job |-> "ready"]
    BY StageTable DEF Init, SlotStage
  <2>2. SlotAt = [j \in Job |-> NoPrinter]
    BY <2>1 DEF SlotAt
  <2>3. SlotOwner = [p \in Printer |-> NoJob]
    BY DEF Init, SlotOwner, SeedRow
  <2>. QED  BY <2>1, <2>2, <2>3 DEF Slots!Init
<1>2. QED
  BY <1>1, IInvInit, IInvStep, SlotsStep, PTL DEF Spec, SlotsKept, Slots!Spec

----------------------------------------------------------------------------
(* What a failed transaction costs *)

(* A job is in the executor's hands. *)
InHand(j) == slicer.job = j \/ \E i \in 1 .. Len(backlog) : backlog[i].job = j

LostJob(j) ==
    \/ status[j] \in {"analysing", "slicing"} /\ ~Working(j)
    \/ j \in reserved /\ ~InHand(j)

LostJobs == {j \in Job : LostJob(j)}

(* Lost, said of the executor's queue and its thread apart. *)
LEMMA LostForms ==
    ASSUME IInv
    PROVE  Lost = LostJobs
<1>0. TypeOK /\ WorkerHasJob /\ NoJob \notin Job /\ reserved \subseteq Job
  BY StoreAssumption DEF IInv, WorkListed, TypeOK
<1>1. \A j \in Job : j \in Range(Work) <=> InHand(j)
  BY <1>0, WorkOf DEF InHand
<1>. QED  BY <1>0, <1>1 DEF Lost, LostJobs, LostJob

(* A step of the slicer's thread on its job matters to no other job; to    *)
(* that one it only does if its status then shows work that is not done.   *)
LEMMA WorkerLoses ==
    ASSUME IInv, UNCHANGED <<backlog, reserved>>, slicer'.job = slicer.job,
           \A k \in Job \ {slicer.job} : status'[k] = status[k],
           NEW j \in Job, LostJob(j)'
    PROVE  LostJob(j) \/ (j = slicer.job /\ status'[j] \in {"analysing", "slicing"} /\ ~Working(j)')
<1>1. CASE j # slicer.job
  <2>1. status'[j] = status[j] /\ InHand(j)' = InHand(j) /\ Working(j)' = Working(j)
    BY <1>1 DEF InHand, Working
  <2>. QED  BY <2>1 DEF LostJob
<1>2. CASE j = slicer.job
  <2>1. InHand(j)'
    BY <1>2 DEF InHand
  <2>. QED  BY <1>2, <2>1 DEF LostJob
<1>. QED  BY <1>1, <1>2

(* A job's own worker: no step leaves its job without one, but a failed    *)
(* transaction.                                                            *)
LEMMA SlicerCost ==
    ASSUME IInv, IInv', SlicerStep, ~TakeItem, ~ItemDone, NEW j \in Job, LostJob(j)'
    PROVE  LostJob(j) \/ (j = slicer.job /\ (FailJobRaises \/ AbortRaises))
<1>0. /\ slicer \in SlicerType /\ status \in [Job -> JobStatus]
      /\ WorkerHasJob /\ OneJobEach /\ TypeOK /\ WorkListed
  BY DEF IInv, TypeOK, SlicerType, StoreTypeOK, WorkListed
<1>g. ASSUME NEW pc, SlicerGoto(pc) PROVE slicer'.pc = pc /\ slicer'.job = slicer.job
  BY <1>0, <1>g DEF SlicerGoto, SlicerType
<1>t. ASSUME NEW k, NEW from, NEW to, Transition(k, from, to)
      PROVE  status[k] = from /\ (k \in Job => status'[k] = to)
             /\ \A i \in Job \ {k} : status'[i] = status[i]
  BY <1>0, <1>t DEF Transition
<1>1. /\ UNCHANGED <<backlog, reserved>>
  BY DEF SlicerStep, BeginAnalysis, PipelineRaises, FailJob, FailJobRaises, ReadForReslice,
       ResliceRaises, AbortRaises, Analysed, Sliced, Resliced, AbortFallback
<1>2. slicer'.job = slicer.job
  <2>1. CASE Analysed
    BY <1>0, <1>g, <2>1 DEF Analysed, SlicerType
  <2>. QED
    BY <1>g, <2>1 DEF SlicerStep, BeginAnalysis, PipelineRaises, FailJob, FailJobRaises,
         ReadForReslice, ResliceRaises, AbortRaises, Sliced, Resliced, AbortFallback
<1>3. \A k \in Job \ {slicer.job} : status'[k] = status[k]
  BY <1>t DEF SlicerStep, BeginAnalysis, PipelineRaises, FailJob, FailJobRaises, ReadForReslice,
       ResliceRaises, AbortRaises, Analysed, Sliced, Resliced, AbortFallback, TransitionFrom,
       storeVars
<1>. SUFFICES ASSUME j = slicer.job, status'[j] \in {"analysing", "slicing"}, ~Working(j)',
                     ~LostJob(j), ~FailJobRaises, ~AbortRaises
              PROVE  FALSE
  BY <1>1, <1>2, <1>3, WorkerLoses
<1>4. status[j] \in {"analysing", "slicing"} =>
        \/ status[j] = "analysing" /\ slicer.pc \in {"analyse", "failing"}
        \/ status[j] = "slicing" /\ slicer.pc \in SlicerPC \ {"begin", "analyse", "done"}
  BY <1>0 DEF LostJob, Working, OneJobEach
<1>5. /\ status'[j] = "analysing" => slicer'.pc \notin {"analyse", "failing"}
      /\ status'[j] = "slicing" => slicer'.pc \notin SlicerPC \ {"begin", "analyse", "done"}
  BY <1>2 DEF Working
<1>6. CASE BeginAnalysis
  BY <1>4, <1>5, <1>6, <1>g, <1>t DEF BeginAnalysis
<1>7. CASE Analysed
  <2>1. \/ status'[j] = "slicing" /\ slicer'.pc = "slice"
        \/ status'[j] = "rejected"
        \/ status'[j] = status[j] /\ status[j] # "analysing" /\ slicer'.pc = "done"
    BY <1>0, <1>7, <1>g, <1>t DEF Analysed, SlicerType
  <2>2. slicer.pc = "analyse"
    BY <1>7 DEF Analysed
  <2>. QED  BY <1>4, <1>5, <2>1, <2>2 DEF SlicerPC
<1>8. CASE Sliced \/ Resliced \/ AbortFallback
  <2>1. status'[j] = "queued" \/ (status'[j] = status[j] /\ status[j] # "slicing")
    BY <1>8, <1>t DEF Sliced, Resliced, AbortFallback
  <2>2. slicer.pc \in {"slice", "reslice", "abort"}
    BY <1>8 DEF Sliced, Resliced, AbortFallback
  <2>. QED  BY <1>4, <2>1, <2>2
<1>9. CASE PipelineRaises
  <2>1. slicer'.pc = "failing"
    BY <1>9, <1>g DEF PipelineRaises
  <2>. QED  BY <1>5, <2>1 DEF SlicerPC
<1>10. CASE FailJob
  <2>1. status'[j] = "failed" \/ (status'[j] = status[j] /\ status[j] \in Terminal)
    BY <1>10, <1>t DEF FailJob, TransitionFrom
  <2>. QED  BY <2>1 DEF Terminal
<1>11. CASE ReadForReslice
  <2>1. /\ status' = status /\ slicer.pc = "read"
        /\ slicer'.pc = IF status[j] = "slicing" THEN "reslice" ELSE "done"
    BY <1>11, <1>g DEF ReadForReslice, storeVars
  <2>. QED  BY <1>4, <1>5, <2>1 DEF SlicerPC
<1>12. CASE ResliceRaises
  <2>1. status' = status /\ slicer.pc \in {"read", "reslice"} /\ slicer'.pc = "abort"
    BY <1>12, <1>g DEF ResliceRaises, storeVars
  <2>. QED  BY <1>4, <1>5, <2>1 DEF SlicerPC
<1>. QED
  BY <1>6, <1>7, <1>8, <1>9, <1>10, <1>11, <1>12 DEF SlicerStep

(* Taking an item up and giving a reservation back lose nothing. *)
LEMMA TakeCost ==
    ASSUME IInv, IInv', TakeItem \/ ItemDone, NEW j \in Job, LostJob(j)'
    PROVE  LostJob(j)
<1>0. /\ slicer \in SlicerType /\ backlog \in Seq(Item) /\ UNCHANGED status
      /\ WorkerHasJob /\ OneJobEach /\ NoJob \notin Job
  BY StoreAssumption DEF IInv, TypeOK, SlicerType, WorkListed, TakeItem, ItemDone, storeVars
<1>1. CASE TakeItem
  <2>1. /\ Len(backlog) >= 1 /\ 1 \in 1 .. Len(backlog) /\ Len(backlog) \in Nat
        /\ slicer.job = NoJob /\ UNCHANGED reserved
        /\ slicer'.job = backlog[1].job
        /\ slicer'.pc = IF backlog[1].target = NoPrinter THEN "begin" ELSE "read"
        /\ \A i \in 2 .. Len(backlog) : i - 1 \in 1 .. Len(backlog') /\ backlog'[i - 1] = backlog[i]
    BY <1>0, <1>1 DEF TakeItem, WorkerHasJob
  <2>2. InHand(j) => InHand(j)'
    <3>1. ASSUME NEW i \in 1 .. Len(backlog), backlog[i].job = j PROVE InHand(j)'
      <4>1. CASE i = 1
        BY <2>1, <3>1, <4>1 DEF InHand
      <4>2. CASE i # 1
        <5>1. i \in 2 .. Len(backlog)
          BY <2>1, <4>2
        <5>. QED  BY <2>1, <3>1, <5>1 DEF InHand
      <4>. QED  BY <4>1, <4>2
    <3>. QED  BY <1>0, <2>1, <3>1 DEF InHand
  <2>3. Working(j) => Working(j)'
    <3>1. ASSUME NEW i \in 1 .. Len(backlog), backlog[i].job = j, status[j] = "slicing",
                 backlog[i].target # NoPrinter
          PROVE  Working(j)'
      <4>1. CASE i = 1
        BY <1>0, <2>1, <3>1, <4>1 DEF Working, SlicerPC
      <4>2. CASE i # 1
        <5>1. i \in 2 .. Len(backlog)
          BY <2>1, <4>2
        <5>. QED  BY <1>0, <2>1, <3>1, <5>1 DEF Working
      <4>. QED  BY <4>1, <4>2
    <3>. QED  BY <1>0, <2>1, <3>1 DEF Working
  <2>. QED  BY <1>0, <2>1, <2>2, <2>3 DEF LostJob
<1>2. CASE ItemDone
  <2>1. /\ slicer.pc = "done" /\ reserved' = reserved \ {slicer.job} /\ UNCHANGED backlog
        /\ slicer'.job = NoJob
    BY <1>2 DEF ItemDone, IdleSlicer
  <2>2. Working(j) => Working(j)'
    BY <1>0, <2>1 DEF Working
  <2>3. InHand(j) => InHand(j)' \/ j \notin reserved'
    BY <2>1 DEF InHand
  <2>. QED  BY <1>0, <2>1, <2>2, <2>3 DEF LostJob
<1>. QED  BY <1>1, <1>2

(* Nothing is lost when no job comes to be worked on and the executor is   *)
(* left alone.                                                             *)
LEMMA RestCost ==
    ASSUME UNCHANGED <<backlog, slicer, reserved>>, NEW j,
           status'[j] = status[j] \/ status'[j] \notin {"analysing", "slicing"}, LostJob(j)'
    PROVE  LostJob(j)
<1>1. InHand(j)' = InHand(j)
  BY DEF InHand
<1>2. CASE status'[j] = status[j]
  <2>1. Working(j)' = Working(j)
    BY <1>2 DEF Working
  <2>. QED  BY <1>1, <1>2, <2>1 DEF LostJob
<1>3. CASE status'[j] \notin {"analysing", "slicing"}
  BY <1>1, <1>3 DEF LostJob
<1>. QED  BY <1>2, <1>3

(* An item that joins the queue is in hand; a fallback's is worked on. *)
LEMMA JoinCost ==
    ASSUME IInv, IInv', NEW k \in Job, NEW to, Joins(k, to), UNCHANGED slicer,
           \/ UNCHANGED status
           \/ status' = [status EXCEPT ![k] = "slicing"] /\ to # NoPrinter,
           NEW j \in Job, LostJob(j)'
    PROVE  LostJob(j)
<1>0. backlog \in Seq(Item) /\ status \in [Job -> JobStatus]
  BY DEF IInv, TypeOK, StoreTypeOK
<1>1. /\ Len(backlog) \in Nat /\ Len(backlog') = Len(backlog) + 1
      /\ \A i \in 1 .. Len(backlog) : i \in 1 .. Len(backlog') /\ backlog'[i] = backlog[i]
      /\ Len(backlog) + 1 \in 1 .. Len(backlog')
      /\ backlog'[Len(backlog) + 1] = [job |-> k, target |-> to]
      /\ reserved' = reserved \cup {k}
  BY <1>0 DEF Joins
<1>2. InHand(j) \/ j = k => InHand(j)'
  <2>1. CASE j = k
    BY <1>1, <2>1 DEF InHand
  <2>2. CASE InHand(j)
    BY <1>1, <2>2 DEF InHand
  <2>. QED  BY <2>1, <2>2
<1>3. CASE status'[j] = status[j]
  <2>1. Working(j) => Working(j)'
    <3>1. ASSUME NEW i \in 1 .. Len(backlog), status[j] = "slicing", backlog[i].job = j,
                 backlog[i].target # NoPrinter
          PROVE  Working(j)'
      BY <1>1, <1>3, <3>1 DEF Working
    <3>. QED  BY <1>3, <3>1 DEF Working
  <2>. QED  BY <1>1, <1>2, <1>3, <2>1 DEF LostJob
<1>4. CASE status'[j] # status[j]
  <2>1. j = k /\ status'[j] = "slicing" /\ to # NoPrinter
    BY <1>0, <1>4
  <2>2. Working(j)'
    BY <1>1, <2>1 DEF Working
  <2>. QED  BY <1>1, <1>2, <2>1, <2>2 DEF LostJob
<1>. QED  BY <1>3, <1>4

(* While the service is up, a step loses at most the job whose transaction *)
(* raised, and counts it.                                                  *)
LEMMA StepCost ==
    ASSUME IInv, IInv', Next, proc = "up", proc' = "up"
    PROVE  \/ LostJobs' \subseteq LostJobs /\ faults' \in {faults, faults + 1}
           \/ \E x \in Job : LostJobs' \subseteq LostJobs \cup {x} /\ faults' = faults + 1
<1>0. /\ TypeOK /\ WorkListed /\ PollServes /\ status \in [Job -> JobStatus]
      /\ poll \in PollType /\ slicer.job \in Job \cup {NoJob} /\ WorkerHasJob
  BY DEF IInv, TypeOK, StoreTypeOK, PollType, WorkListed
<1>1. ASSUME UNCHANGED <<backlog, slicer, reserved>>,
             \A j \in Job : status'[j] = status[j] \/ status'[j] \notin {"analysing", "slicing"}
      PROVE  LostJobs' \subseteq LostJobs
  BY <1>1, RestCost DEF LostJobs
<1>2. ASSUME NEW k \in Job, Cancel(k) \/ Dispatch(k) \/ HandoffEnds(k)
      PROVE  LostJobs' \subseteq LostJobs /\ faults' = faults
  <2>1. \A j \in Job : status'[j] = status[j] \/ status'[j] \notin {"analysing", "slicing"}
    BY <1>0, <1>2 DEF Cancel, Dispatch, HandoffEnds, TransitionFrom, Transition
  <2>2. UNCHANGED <<backlog, slicer, reserved, faults>>
    BY <1>2 DEF Cancel, Dispatch, HandoffEnds, threads, bounds
  <2>. QED  BY <1>1, <2>1, <2>2
<1>3. ASSUME UNCHANGED <<status, backlog, slicer, reserved>>
      PROVE  LostJobs' \subseteq LostJobs
  BY <1>1, <1>3
<1>4. CASE \/ ReadPending \/ AllSubmitted \/ NothingToDispatch \/ NoFallback
           \/ \E k \in Job : Upload(k)
           \/ \E p \in Printer : Report(p) \/ GoesOffline(p) \/ PlateCleared(p)
  <2>1. UNCHANGED <<status, backlog, slicer, reserved, faults>>
    BY <1>4 DEF ReadPending, AllSubmitted, NothingToDispatch, NoFallback, Upload, Report,
         GoesOffline, PlateCleared, storeVars, threads, bounds
  <2>. QED  BY <1>3, <2>1
<1>5. ASSUME NEW k \in Job, Submit(k)
      PROVE  LostJobs' \subseteq LostJobs /\ faults' = faults
  <2>1. UNCHANGED <<status, slicer, faults>>
    BY <1>5 DEF Submit, storeVars, bounds
  <2>2. CASE UNCHANGED <<backlog, reserved>>
    BY <1>3, <2>1, <2>2
  <2>3. CASE Joins(k, NoPrinter)
    BY <2>1, <2>3, JoinCost DEF LostJobs
  <2>. QED  BY <1>5, <2>1, <2>2, <2>3 DEF Submit, Joins
<1>6. ASSUME NEW k \in Job, Fallback(k)
      PROVE  LostJobs' \subseteq LostJobs /\ faults' = faults
  <2>1. PICK to : to = Head(poll.rest)
    OBVIOUS
  <2>2. /\ UNCHANGED <<slicer, faults>> /\ Joins(k, to) /\ poll.pc = "fallback"
        /\ status' = [status EXCEPT ![k] = "slicing"]
    BY <1>6, <2>1 DEF Fallback, Joins, Candidates, Transition, bounds
  <2>3. to # NoPrinter
    <3>1. poll.rest \in Seq(Printer) /\ poll.rest # <<>>
      BY <1>0, <2>2 DEF PollType, PollServes
    <3>2. to \in Printer
      BY <2>1, <3>1
    <3>. QED  BY <3>2, StoreAssumption
  <2>. QED  BY <2>2, <2>3, JoinCost DEF LostJobs
<1>7. ASSUME NEW k \in Job, FallbackRaises(k)
      PROVE  LostJobs' \subseteq LostJobs \cup {k} /\ faults' = faults + 1
  <2>1. /\ UNCHANGED <<status, backlog, slicer>> /\ reserved' = reserved \cup {k}
        /\ faults' = faults + 1
    BY <1>7 DEF FallbackRaises, Fault, storeVars
  <2>2. ASSUME NEW j \in Job \ {k}, LostJob(j)' PROVE LostJob(j)
    BY <2>1, <2>2 DEF LostJob, Working, InHand
  <2>. QED  BY <2>1, <2>2 DEF LostJobs
<1>8. CASE TickRaises
  <2>1. UNCHANGED <<status, backlog, slicer, reserved>> /\ faults' = faults + 1
    BY <1>8 DEF TickRaises, Fault, storeVars
  <2>2. LostJobs' \subseteq LostJobs
    BY <1>3, <2>1
  <2>. QED  BY <2>1, <2>2
<1>9. CASE TakeItem \/ ItemDone
  <2>1. faults' = faults
    BY <1>9 DEF TakeItem, ItemDone, bounds
  <2>. QED  BY <1>9, <2>1, TakeCost DEF LostJobs
<1>10. CASE SlicerStep /\ ~TakeItem /\ ~ItemDone
  <2>1. CASE FailJobRaises \/ AbortRaises
    <3>1. faults' = faults + 1 /\ slicer.pc # "idle"
      BY <2>1 DEF FailJobRaises, AbortRaises, Fault
    <3>2. slicer.job \in Job
      BY <1>0, <3>1 DEF WorkerHasJob
    <3>3. LostJobs' \subseteq LostJobs \cup {slicer.job}
      BY <1>10, SlicerCost DEF LostJobs
    <3>. QED  BY <3>1, <3>2, <3>3
  <2>2. CASE ~FailJobRaises /\ ~AbortRaises
    <3>1. faults' = faults
      BY <1>10, <2>2 DEF SlicerStep, BeginAnalysis, PipelineRaises, FailJob, ReadForReslice,
           ResliceRaises, Analysed, Sliced, Resliced, AbortFallback, bounds
    <3>2. LostJobs' \subseteq LostJobs
      BY <1>10, <2>2, SlicerCost DEF LostJobs
    <3>. QED  BY <3>1, <3>2
  <2>. QED  BY <2>1, <2>2
<1>11. ~Stop /\ ~Exit /\ ~Crash /\ ~Restart /\ \A k \in Job : ~SubmitRefused(k)
  BY DEF Stop, Exit, Crash, Restart, ProcessGone, SubmitRefused
<1>. QED
  BY <1>2, <1>4, <1>5, <1>6, <1>7, <1>8, <1>9, <1>10, <1>11
     DEF Next, PollStep, SlicerStep, Environment

(* After a restart every job that was interrupted is pending again. *)
LEMMA RestartRepairs ==
    ASSUME IInv, Restart
    PROVE  LostJobs' = {}
<1>1. status \in [Job -> JobStatus] /\ reserved = {} /\ UNCHANGED reserved
  BY DEF IInv, TypeOK, StoreTypeOK, WorkListed, Restart, threads
<1>2. \A j \in Job : status'[j] \notin {"analysing", "slicing"}
  BY <1>1 DEF Restart, Recovered
<1>. QED  BY <1>1, <1>2 DEF LostJobs, LostJob

CostInv == proc = "up" => IsFiniteSet(LostJobs) /\ Cardinality(LostJobs) <= faults

(* Each job that is lost is paid for by a fault of its own. *)
LEMMA CostStep ==
    ASSUME IInv, IInv', CostInv, [Next]_vars
    PROVE  CostInv'
<1>. SUFFICES ASSUME proc' = "up"
              PROVE  IsFiniteSet(LostJobs') /\ Cardinality(LostJobs') <= faults'
  BY DEF CostInv
<1>0. faults \in Nat /\ faults' \in Nat
  BY SchedulerAssumption DEF IInv, TypeOK
<1>1. CASE UNCHANGED vars
  <2>1. LostJobs' = LostJobs /\ faults' = faults /\ proc' = proc
    BY <1>1 DEF vars, storeVars, durable, service, threads, bounds, LostJobs, LostJob, Working, InHand
  <2>. QED  BY <2>1 DEF CostInv
<1>2. CASE Next /\ proc # "up"
  <2>1. Restart
    <3>1. proc' # proc
      BY <1>2
    <3>. QED
      BY <1>2, <3>1 DEF Next, PollStep, ReadPending, AllSubmitted, Submit, SubmitRefused, Dispatch,
         Fallback, FallbackRaises, NothingToDispatch, NoFallback, TickRaises, SlicerStep,
         TakeItem, BeginAnalysis, PipelineRaises, FailJob, FailJobRaises, ReadForReslice,
         ResliceRaises, AbortRaises, ItemDone, Analysed, Sliced, Resliced, AbortFallback,
         Environment, Report, GoesOffline, PlateCleared, HandoffEnds, Stop, Exit, Crash,
         ProcessGone, Upload, Cancel, service
  <2>2. LostJobs' = {}
    BY <2>1, RestartRepairs
  <2>. QED  BY <1>0, <2>2, FS_EmptySet
<1>3. CASE Next /\ proc = "up"
  <2>0. IsFiniteSet(LostJobs) /\ Cardinality(LostJobs) <= faults
    BY <1>3 DEF CostInv
  <2>1. CASE LostJobs' \subseteq LostJobs /\ faults' \in {faults, faults + 1}
    <3>1. PICK L : L = LostJobs'
      OBVIOUS
    <3>2. IsFiniteSet(L) /\ Cardinality(L) <= Cardinality(LostJobs)
      BY <2>0, <2>1, <3>1, FS_Subset
    <3>3. Cardinality(L) \in Nat /\ Cardinality(LostJobs) \in Nat
      BY <2>0, <3>2, FS_CardinalityType
    <3>. QED  BY <1>0, <2>0, <2>1, <3>1, <3>2, <3>3
  <2>2. ASSUME NEW x \in Job, LostJobs' \subseteq LostJobs \cup {x}, faults' = faults + 1
        PROVE  IsFiniteSet(LostJobs') /\ Cardinality(LostJobs') <= faults'
    <3>1. PICK L : L = LostJobs'
      OBVIOUS
    <3>2. /\ IsFiniteSet(LostJobs \cup {x})
          /\ Cardinality(LostJobs \cup {x}) =
               IF x \in LostJobs THEN Cardinality(LostJobs) ELSE Cardinality(LostJobs) + 1
      BY <2>0, FS_AddElement
    <3>3. IsFiniteSet(L) /\ Cardinality(L) <= Cardinality(LostJobs \cup {x})
      BY <2>2, <3>1, <3>2, FS_Subset
    <3>4. Cardinality(L) \in Nat /\ Cardinality(LostJobs) \in Nat
      BY <2>0, <3>3, FS_CardinalityType
    <3>. QED  BY <1>0, <2>0, <2>2, <3>1, <3>2, <3>3, <3>4
  <2>. QED  BY <1>3, <2>1, <2>2, StepCost
<1>. QED  BY <1>1, <1>2, <1>3

(* A transaction that raises costs at most one job its turn until the next *)
(* restart, which gives every lost job back.                               *)
THEOREM FaultsAreContained == Spec => []FaultCostsOneJob
<1>1. Init => CostInv
  <2>. SUFFICES ASSUME Init PROVE CostInv
    OBVIOUS
  <2>1. LostJobs = {} /\ faults = 0
    BY DEF Init, LostJobs, LostJob
  <2>. QED  BY <2>1, FS_EmptySet DEF CostInv
<1>2. IInv /\ CostInv => FaultCostsOneJob
  BY LostForms DEF CostInv, FaultCostsOneJob
<1>3. QED
  BY <1>1, <1>2, IInvInit, IInvStep, CostStep, PTL DEF Spec
=============================================================================
