------------------------- MODULE SlotContractProofs -------------------------
(***************************************************************************)
(* What the contract on the slots gives to whoever keeps it, for any jobs  *)
(* and printers: a printer holds one job at most, and that job owns its    *)
(* slot.                                                                   *)
(***************************************************************************)
EXTENDS SlotContract, TLAPS

Stages == {"ready", "queued", "held", "ended"}

(* Where a job is, and HeldOwns.                                           *)
HeldInv ==
    /\ stage \in [Job -> Stages]
    /\ at \in [Job -> Printer \cup {NoPrinter}]
    /\ owner \in [Printer -> Job \cup {NoJob}]
    /\ \A j \in Job : stage[j] = "queued" => at[j] \in Printer
    /\ HeldOwns

(* Every step of the contract keeps HeldInv. *)
LEMMA HeldStep ==
    ASSUME NoJob \notin Job, NoPrinter \notin Printer, HeldInv, [Next]_vars
    PROVE  HeldInv'
<1> USE DEF HeldInv, HeldOwns, Stages
<1>1. CASE UNCHANGED vars
  BY <1>1 DEF vars
<1>2. ASSUME NEW j \in Job, Enqueue(j) PROVE HeldInv'
  BY <1>2 DEF Enqueue
<1>3. ASSUME NEW j \in Job, TakeBack(j) PROVE HeldInv'
  BY <1>3 DEF TakeBack
<1>4. ASSUME NEW j \in Job, Drop(j) PROVE HeldInv'
  BY <1>4 DEF Drop
<1>5. ASSUME NEW j \in Job, Claim(j) PROVE HeldInv'
  BY <1>5 DEF Claim
<1>6. ASSUME NEW j \in Job, End(j) PROVE HeldInv'
  BY <1>6 DEF End
<1>7. ASSUME NEW p \in Printer, Yield(p) PROVE HeldInv'
  BY <1>7 DEF Yield
<1>8. QED
  BY <1>1, <1>2, <1>3, <1>4, <1>5, <1>6, <1>7 DEF Next

(* Whoever keeps the contract keeps one job to a printer's slot.           *)
THEOREM OneHeldPerPrinter ==
    ASSUME NoJob \notin Job, NoPrinter \notin Printer
    PROVE  Spec => []HeldOwns
<1>1. Init => HeldInv
  BY DEF Init, HeldInv, HeldOwns, Stages
<1>2. HeldInv /\ [Next]_vars => HeldInv'
  BY HeldStep
<1>3. HeldInv => HeldOwns
  BY DEF HeldInv
<1>4. QED
  BY <1>1, <1>2, <1>3, PTL DEF Spec
=============================================================================
