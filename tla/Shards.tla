------------------------------- MODULE Shards -------------------------------
(***************************************************************************)
(* A cross-validation whose folds are run by several machines              *)
(* (research/03-event-lob-probability/scripts/                             *)
(* ec2-launch-imbalance-cpcv-distributed.sh) and put together afterwards   *)
(* (tools/event-backtest/src/main.rs, run_imbalance with a fold range and  *)
(* run_aggregate; statistics.rs).                                          *)
(*                                                                         *)
(* The launch script cuts the folds into ranges and starts one-time spot   *)
(* machines one after the other. A machine's boot script builds the tool,  *)
(* runs it on its range, copies the result directory to the bucket, writes *)
(* an exit code and shuts the machine down; it runs under "set -e", so a   *)
(* command that fails ends it and leaves the machine up. The tool itself   *)
(* uploads its partial results first, and only warns when that fails. The  *)
(* operator fetches every partial file of the run and aggregates them.     *)
(*                                                                         *)
(* A run of the tool without a range is the other way to do it: the folds  *)
(* of a pool of threads, several at once, and a report at the end. With no *)
(* machines the behaviour is such a run.                                   *)
(*                                                                         *)
(* What a fold computes is FoldRun; here a fold succeeds, with a number of *)
(* trades, or fails.                                                       *)
(***************************************************************************)
EXTENDS Integers, FiniteSets, SequencesExt

CONSTANTS
  TotalFolds,   (* TOTAL_FOLDS, the number of splits                        *)
  MaxMachines,  (* the largest number of machines asked for                 *)
  PathOrder,    (* the machines in the order of their directories' names    *)
  Trades,       (* the number of trades of each fold                        *)
  Threads,      (* --parallel-folds, of a run without a range               *)
  Absent        (* no file, no report                                       *)

ASSUME ShardsAssumption ==
  /\ TotalFolds \in Nat \ {0} /\ MaxMachines \in Nat \ {0}
  /\ PathOrder \in [1 .. MaxMachines -> 0 .. MaxMachines - 1] /\ IsInjective(PathOrder)
  /\ Trades \in [0 .. TotalFolds - 1 -> Nat]
  /\ Threads \subseteq Nat \ {0}

Folds  == 0 .. TotalFolds - 1
Places == <<"tool", "results">>   (* machine-i/ and machine-i/results/      *)

VARIABLES
  machines,  (* the number of machines of this run                          *)
  launch,    (* the script: machines started, and whether it goes on        *)
  stage,     (* how far each machine is                                     *)
  next,      (* the fold each machine runs next                             *)
  results,   (* the results of the folds that succeeded, in its memory      *)
  disk,      (* fold-results-partial.json on its disk, or Absent            *)
  bucket,    (* the partial files in the bucket, by machine and place       *)
  report,    (* the last report of the operator, or Absent                  *)
  local      (* the run without a range                                     *)

shards == <<launch, stage, next, results, disk, bucket, report>>
run    == <<machines, shards, local>>

Machines == 0 .. MaxMachines - 1

-----------------------------------------------------------------------------
(* The ranges: the remainder goes to the first machines.                    *)

SizeNoRemainder(i) ==  (* mutant: the remainder goes to no machine *)
  TotalFolds \div machines

Size(i) ==
  (TotalFolds \div machines) + IF i < TotalFolds % machines THEN 1 ELSE 0

Start[i \in 0 .. MaxMachines] == IF i = 0 \/ machines = 0 THEN 0 ELSE Start[i - 1] + Size(i - 1)

End(i) == Start[i + 1]

ShardsInit ==
  /\ machines \in 0 .. MaxMachines
  /\ launch = [started |-> 0, going |-> machines > 0]
  /\ stage = [m \in Machines |-> "planned"]
  /\ next = [m \in Machines |-> Start[m]]
  /\ results = [m \in Machines |-> <<>>]
  /\ disk = [m \in Machines |-> Absent]
  /\ bucket = [f \in {} |-> <<>>]
  /\ report = Absent
  /\ \E threads \in Threads, mode \in {"cpcv", "imbalance"} :
       local = [pc |-> IF machines = 0 THEN "folds" ELSE "none",
                threads |-> IF machines = 0 THEN threads ELSE 1,
                mode |-> IF machines = 0 THEN mode ELSE "imbalance",
                begun |-> {}, ended |-> {}, kept |-> <<>>,
                partial |-> Absent, report |-> Absent, uploaded |-> FALSE]

-----------------------------------------------------------------------------
(* The launch script. A request that fails ends it at once, before the      *)
(* lines that would terminate the machines already started.                 *)

Launch ==
  /\ launch.going /\ launch.started < machines
  /\ stage' = [stage EXCEPT ![launch.started] = "boot"]
  /\ launch' = [launch EXCEPT !.started = @ + 1]
  /\ UNCHANGED <<machines, next, results, disk, bucket, report, local>>

LaunchFails ==
  /\ launch.going /\ launch.started < machines
  /\ launch' = [launch EXCEPT !.going = FALSE]
  /\ UNCHANGED <<machines, stage, next, results, disk, bucket, report, local>>

-----------------------------------------------------------------------------
(* A machine. *)

Goes(m, from, to) == stage[m] = from /\ stage' = [stage EXCEPT ![m] = to]

(* A command of the boot script fails, or the tool is killed.               *)
Stops(m) ==
  /\ stage[m] \in {"boot", "folds", "uploaded", "synced"}
  /\ stage' = [stage EXCEPT ![m] = "stuck"]
  /\ UNCHANGED <<machines, launch, next, results, disk, bucket, report, local>>

Reclaimed(m) ==
  /\ stage[m] \notin {"planned", "off", "gone"}
  /\ stage' = [stage EXCEPT ![m] = "gone"]
  /\ UNCHANGED <<machines, launch, next, results, disk, bucket, report, local>>

(* parse_fold_range. *)
ValidRange(m) == Start[m] < End(m) /\ End(m) <= TotalFolds

StartTool(m) ==
  /\ Goes(m, "boot", IF ValidRange(m) THEN "folds" ELSE "stuck")
  /\ UNCHANGED <<machines, launch, next, results, disk, bucket, report, local>>

(* A fold that fails is left out. *)
RunFold(m) ==
  /\ stage[m] = "folds" /\ next[m] < End(m)
  /\ next' = [next EXCEPT ![m] = @ + 1]
  /\ \/ results' = [results EXCEPT ![m] = Append(@, next[m])]
     \/ UNCHANGED results
  /\ UNCHANGED <<machines, launch, stage, disk, bucket, report, local>>

(* After the last fold: without a result the tool fails and writes nothing. *)
WritePartialEarly(m) ==  (* mutant: the loop leaves out the last fold of the range *)
  /\ next[m] >= End(m) - 1
  /\ Goes(m, "folds", IF results[m] = <<>> THEN "stuck" ELSE "written")
  /\ disk' = [disk EXCEPT ![m] = IF results[m] = <<>> THEN Absent ELSE results[m]]
  /\ UNCHANGED <<machines, launch, next, results, bucket, report, local>>

WritePartial(m) ==
  /\ next[m] = End(m)
  /\ Goes(m, "folds", IF results[m] = <<>> THEN "stuck" ELSE "written")
  /\ disk' = [disk EXCEPT ![m] = IF results[m] = <<>> THEN Absent ELSE results[m]]
  /\ UNCHANGED <<machines, launch, next, results, bucket, report, local>>

Stored(m, place) ==
  bucket' = [f \in DOMAIN bucket \cup {<<m, place>>} |->
               IF f = <<m, place>> THEN disk[m] ELSE bucket[f]]

(* The tool's own upload: a failure is a warning.                           *)
UploadPartial(m) ==
  /\ Goes(m, "written", "uploaded")
  /\ Stored(m, "tool") \/ UNCHANGED bucket
  /\ UNCHANGED <<machines, launch, next, results, disk, report, local>>

(* The boot script's copy of the result directory: a failure is Stops.      *)
SyncResultsOrNot(m) ==  (* mutant: a failure of the copy is ignored *)
  /\ Goes(m, "uploaded", "synced")
  /\ Stored(m, "results") \/ UNCHANGED bucket
  /\ UNCHANGED <<machines, launch, next, results, disk, report, local>>

SyncResults(m) ==
  /\ Goes(m, "uploaded", "synced")
  /\ Stored(m, "results")
  /\ UNCHANGED <<machines, launch, next, results, disk, report, local>>

WriteExitCode(m) ==
  /\ Goes(m, "synced", "exited")
  /\ UNCHANGED <<machines, launch, next, results, disk, bucket, report, local>>

Shutdown(m) ==
  /\ Goes(m, "exited", "off")
  /\ UNCHANGED <<machines, launch, next, results, disk, bucket, report, local>>

-----------------------------------------------------------------------------
(* Aggregation. *)

(* find_partial_files, sorted by path. *)
Path(i) == <<PathOrder[(i + 1) \div 2], Places[2 - (i % 2)]>>

Concatenated(partials) ==
  LET all[i \in 0 .. 2 * MaxMachines] ==
        IF i = 0 THEN <<>>
        ELSE all[i - 1] \o IF Path(i) \in DOMAIN partials THEN partials[Path(i)] ELSE <<>>
  IN  all[2 * MaxMachines]

(* sort_by_key on the number of the split, which is stable: a result goes   *)
(* where its rank says.                                                     *)
Rank(seq, i) ==
  Cardinality({j \in DOMAIN seq : seq[j] < seq[i] \/ (seq[j] = seq[i] /\ j <= i)})

Sorted(seq) == [r \in DOMAIN seq |-> seq[CHOOSE i \in DOMAIN seq : Rank(seq, i) = r]]

InOrder(S) == Sorted(SetToSeq(S))

(* aggregate_results: what it computes, it computes from the results one by *)
(* one in this order; their number stands for n_folds.                      *)
AggregateResults(seq) ==
  [n_folds        |-> Len(seq),
   fold_summaries |-> seq,
   total_trades   |-> FoldLeft(LAMBDA sum, f : sum + Trades[f], 0, seq)]

(* run_aggregate: neither copies nor missing folds are looked for.          *)
RunAggregateUnsorted(partials) ==  (* mutant: in the order of the files *)
  AggregateResults(Concatenated(partials))

RunAggregate(partials) == AggregateResults(Sorted(Concatenated(partials)))

(* aws s3 sync of every partial file, and run_aggregate; without a file it  *)
(* fails.                                                                   *)
Aggregate ==
  /\ bucket # <<>>
  /\ report' = RunAggregate(bucket)
  /\ UNCHANGED <<machines, launch, stage, next, results, disk, bucket, local>>

-----------------------------------------------------------------------------
(* The tool without a range (run_cpcv, and run_imbalance). The folds are    *)
(* taken in the order of the splits by one thread and in any order by       *)
(* several, whose results are put at the places of their splits.            *)

Running == local.begun \ local.ended

BeginFold(f) ==
  /\ local.pc = "folds" /\ f \notin local.begun
  /\ Cardinality(Running) < local.threads
  /\ local.threads = 1 => \A g \in Folds \ local.begun : f <= g
  /\ local' = [local EXCEPT !.begun = @ \cup {f}]
  /\ UNCHANGED <<machines, shards>>

EndFold(f) ==
  /\ f \in Running
  /\ \E ok \in BOOLEAN :
       local' = [local EXCEPT !.ended = @ \cup {f}, !.kept = IF ok THEN Append(@, f) ELSE @]
  /\ UNCHANGED <<machines, shards>>

CollectedAsEnded ==  (* mutant: each fold adds its result when it ends *)
  local.kept

(* One thread appends a result as it comes; par_iter's collect has a place  *)
(* for each split, those of the failed folds are then left out.             *)
Collected == IF local.threads = 1 THEN local.kept ELSE InOrder(ToSet(local.kept))

(* Without a result the tool fails; imbalance mode leaves a partial file.   *)
FoldsOver ==
  /\ local.pc = "folds" /\ local.ended = Folds
  /\ local' = IF local.kept = <<>> THEN [local EXCEPT !.pc = "failed"]
              ELSE [local EXCEPT !.pc = "report",
                                 !.partial = IF local.mode = "imbalance" THEN Collected ELSE Absent]
  /\ UNCHANGED <<machines, shards>>

WriteReport ==
  /\ local.pc = "report"
  /\ local' = [local EXCEPT !.pc = "upload", !.report = AggregateResults(Collected)]
  /\ UNCHANGED <<machines, shards>>

(* An upload that fails is a warning. *)
UploadReport ==
  /\ local.pc = "upload"
  /\ \E ok \in BOOLEAN : local' = [local EXCEPT !.pc = "done", !.uploaded = ok]
  /\ UNCHANGED <<machines, shards>>

Local ==
  \/ \E f \in Folds : BeginFold(f) \/ EndFold(f)
  \/ FoldsOver \/ WriteReport \/ UploadReport

Machine(m) ==
  \/ Stops(m) \/ Reclaimed(m)
  \/ StartTool(m) \/ RunFold(m) \/ WritePartial(m) \/ UploadPartial(m)
  \/ SyncResults(m) \/ WriteExitCode(m) \/ Shutdown(m)

ShardsNext == Launch \/ LaunchFails \/ (\E m \in Machines : Machine(m)) \/ Aggregate \/ Local

ShardsSpec == ShardsInit /\ [][ShardsNext]_run

-----------------------------------------------------------------------------
(* The report of one machine that runs every fold with the same outcomes    *)
(* (run_imbalance without a fold range; OrderIsOfSplits).                   *)
Succeeded == UNION {ToSet(results[m]) : m \in Machines}

LocalReport == AggregateResults(InOrder(Succeeded))

(* A sequence without the repetitions of an element in a row.               *)
Once(seq) == LET keep == {i \in DOMAIN seq : i = 1 \/ seq[i] # seq[i - 1]}
             IN  [i \in 1 .. Cardinality(keep) |-> seq[InOrder(keep)[i]]]

HasExitCode(m) == stage[m] \in {"exited", "off"}

(* A report made once every machine has written its exit code is the one    *)
(* that a single machine would have made, but for the folds that it counts  *)
(* more than once: every fold was run, none that succeeded is missing, and  *)
(* they come in the order of the splits, which the pooled trades are tested *)
(* in. This holds although the tool's own upload may fail and although the  *)
(* files are read in the order of their names.                              *)
ReportIsLocal ==
  machines > 0 /\ (\A m \in 0 .. machines - 1 : HasExitCode(m)) =>
    /\ UNION {Start[m] .. next[m] - 1 : m \in 0 .. machines - 1} = Folds
    /\ AggregateResults(Once(RunAggregate(bucket).fold_summaries)) = LocalReport

(* However many folds run at once and in whatever order they end, the       *)
(* report of the run without a range is that of its folds one after the     *)
(* other, and a file of partial results, where there is one, aggregates to  *)
(* the same: the pooled trades are tested for serial correlation, so their  *)
(* order counts (main.rs:471-525, statistics.rs:84-198). A failed upload    *)
(* takes nothing away.                                                      *)
OrderIsOfSplits ==
  local.report # Absent =>
    /\ local.report = AggregateResults(InOrder(ToSet(local.kept)))
    /\ local.partial # Absent => RunAggregate([f \in {<<0, "tool">>} |-> local.partial]) = local.report
    /\ local.ended = Folds

(* Whatever failed and whenever the operator aggregates, a report has all   *)
(* that the folds of a machine gave or nothing of it, and nothing that no   *)
(* machine computed.                                                        *)
WholeShards ==
  LET got == ToSet(RunAggregate(bucket).fold_summaries)
  IN  /\ got \subseteq Succeeded
      /\ \A m \in Machines :
           ToSet(results[m]) \cap got # {} =>
             ToSet(results[m]) \subseteq got /\ next[m] = End(m)

(* What the documentation of the run says (README.md:83-89 of the research, *)
(* and the recipe in the header of the launch script): each fold belongs to *)
(* one machine and the aggregation combines their results, so none counts   *)
(* twice. It does not hold: the tool and the boot script each leave a copy  *)
(* of the partial results below the machine's prefix, and the recipe        *)
(* fetches both.                                                            *)
EachFoldOnce ==
  report # Absent => IsInjective(report.fold_summaries) /\ report.n_folds <= TotalFolds
=============================================================================
