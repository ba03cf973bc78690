---------------------------- MODULE MCScheduler ----------------------------
(* A complex model that fits both printers, which a deployment with both   *)
(* routes to the P1S and one with an A1 Mini alone to that, and a large    *)
(* one that only a P1S can hold.  Routes takes one job of every size       *)
(* around limits that are no cubes (a mistaken axis shows), on both sides  *)
(* of the threshold, to every deployment.                                  *)
EXTENDS Scheduler

CONSTANTS complex, large

Printers == {P1S, A1Mini}

Limits == [p \in PrinterID |-> [a \in Axis |-> IF p = P1S THEN 2 ELSE 1]]

Cube(n, score) == [bbox |-> [a \in Axis |-> n], score |-> score]

Cubes == [j \in Job |-> {IF j = complex THEN Cube(1, 90) ELSE Cube(2, 10)}]

Deployments == [enabled : {{P1S, A1Mini}, {A1Mini}}, live : {TRUE}]

RouteLimits == [p \in PrinterID |->
    IF p = P1S THEN [x |-> 3, y |-> 2, z |-> 3] ELSE [x |-> 2, y |-> 2, z |-> 1]]

(* On each axis what fits both printers, the P1S alone, and neither. *)
Boxes == [x : {2, 3, 4}, y : {2, 3}, z : {1, 3, 4}]

Routes == [j \in Job |-> [bbox : Boxes, score : {Threshold, Threshold + 1}]]

EveryDeployment ==
    {d \in [enabled : SUBSET Printer, live : BOOLEAN] : d.live => d.enabled # {}}
=============================================================================
