--------------------------- MODULE MCBookBuilder ---------------------------
(* Instances of BookBuilder for TLC. *)
EXTENDS BookBuilder

CONSTANTS o1, o2

MCOrders == {o1, o2}

(* Nothing the properties of the passing run speak of depends on the sizes  *)
(* at the last commit or on its verdicts, only its next commit's verdicts.  *)
MCView == <<orders, levels, mask, [s \in Sides |-> PriceOf(prev[s])], batch>>
=============================================================================
