----------------------------- MODULE MCStorage -----------------------------
(* A small and a big model that do not fit the quota together. *)
EXTENDS Storage

CONSTANTS small, big

Sizes == [j \in Job |-> IF j = small THEN 1 ELSE 2]
=============================================================================
