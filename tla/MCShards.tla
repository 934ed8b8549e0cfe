------------------------------ MODULE MCShards ------------------------------
(* Instances of Shards for TLC. *)
EXTENDS Shards

(* As with more than ten machines: "machine-10" comes before "machine-2".   *)
MCPathOrder == <<0>> \o [i \in 1 .. MaxMachines - 1 |-> MaxMachines - i]

MCTrades == [f \in Folds |-> f + 1]

(* A report depends on the bucket and nothing depends on it. *)
MCView == <<machines, launch, stage, next, results, disk, bucket, local>>
=============================================================================
