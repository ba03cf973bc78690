------------------------------ MODULE Routing ------------------------------
(***************************************************************************)
(* core/complexity.py: which printer a model is sliced for.  A measured    *)
(* model is its bounding box, in the unit of the configured limits, and    *)
(* its complexity score; the arithmetic that yields the score is left out. *)
(***************************************************************************)
EXTENDS Integers

CONSTANTS
    P1S, A1Mini,    \* PrinterID
    Rejection,      \* select_printer returns no printer
    Limit,          \* build volume of each printer: P1S_MAX_X, ...
    Threshold       \* settings.COMPLEXITY_THRESHOLD

PrinterID == {P1S, A1Mini}
Axis == {"x", "y", "z"}

ASSUME RoutingAssumption ==
    /\ P1S # A1Mini /\ Rejection \notin PrinterID
    /\ Limit \in [PrinterID -> [Axis -> Nat \ {0}]]
    /\ Threshold \in 0 .. 100

Model == [bbox : [Axis -> Nat], score : 0 .. 100]

(* can_fit_on_printer *)
Fits(bbox, p) == \A a \in Axis : bbox[a] <= Limit[p][a]

(* Mutants: an A1 Mini is chosen by the score alone; the threshold itself  *)
(* counts as complex; what an A1 Mini cannot hold is rejected.             *)
SelectByScore(m, enabled) ==
    IF enabled = {} THEN Rejection
    ELSE IF P1S \notin enabled THEN A1Mini
    ELSE IF ~Fits(m.bbox, P1S) THEN Rejection
    ELSE IF A1Mini \in enabled /\ m.score <= Threshold THEN A1Mini ELSE P1S

SelectBelowThreshold(m, enabled) ==
    IF enabled = {} THEN Rejection
    ELSE IF P1S \in enabled /\ ~Fits(m.bbox, P1S) THEN Rejection
    ELSE IF P1S \notin enabled THEN IF Fits(m.bbox, A1Mini) THEN A1Mini ELSE Rejection
    ELSE IF A1Mini \notin enabled THEN P1S
    ELSE IF Fits(m.bbox, A1Mini) /\ m.score < Threshold THEN A1Mini ELSE P1S

SelectIfFitsAll(m, enabled) ==
    IF enabled = {} \/ \E p \in enabled : ~Fits(m.bbox, p) THEN Rejection
    ELSE IF A1Mini \in enabled /\ (P1S \notin enabled \/ m.score <= Threshold) THEN A1Mini
    ELSE P1S

(* select_printer, its tests in the code's order; "enabled" is the set of  *)
(* printers of this deployment.                                            *)
SelectPrinter(m, enabled) ==
    IF enabled = {} THEN Rejection
    ELSE IF P1S \in enabled /\ ~Fits(m.bbox, P1S) THEN Rejection
    ELSE IF P1S \notin enabled THEN IF Fits(m.bbox, A1Mini) THEN A1Mini ELSE Rejection
    ELSE IF A1Mini \notin enabled THEN P1S
    ELSE IF Fits(m.bbox, A1Mini) /\ m.score <= Threshold THEN A1Mini ELSE P1S

----------------------------------------------------------------------------
(* A model is only routed to a printer of the deployment that it fits on,  *)
(* whatever the limits of the two printers are.                            *)
SelectionFits(m, enabled) ==
    LET p == SelectPrinter(m, enabled) IN
    p # Rejection => p \in enabled /\ Fits(m.bbox, p)

(* The published rule for a verdict p: P1S's volume decides when a P1S is  *)
(* there, the score only when both printers can take the model.            *)
Rule(m, enabled, p) ==
    /\ enabled = {} => p = Rejection
    /\ enabled = {P1S} => p = IF Fits(m.bbox, P1S) THEN P1S ELSE Rejection
    /\ enabled = {A1Mini} => p = IF Fits(m.bbox, A1Mini) THEN A1Mini ELSE Rejection
    /\ enabled = PrinterID =>
         /\ p = Rejection <=> ~Fits(m.bbox, P1S)
         /\ p = A1Mini <=> /\ Fits(m.bbox, P1S) /\ Fits(m.bbox, A1Mini)
                           /\ m.score <= Threshold

PublishedRule(m, enabled) == Rule(m, enabled, SelectPrinter(m, enabled))

(* Nothing printable is turned away: with the shipped limits, under which  *)
(* what fits an A1 Mini fits a P1S, a model is rejected only if no enabled *)
(* printer can take it.                                                    *)
Nested == \A a \in Axis : Limit[A1Mini][a] <= Limit[P1S][a]

RejectedFitsNowhere(m, enabled) ==
    Nested /\ SelectPrinter(m, enabled) = Rejection =>
        \A p \in enabled : ~Fits(m.bbox, p)
=============================================================================
