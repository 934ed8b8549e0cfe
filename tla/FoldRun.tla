------------------------------ MODULE FoldRun ------------------------------
(***************************************************************************)
(* One fold of the event backtest (tools/event-backtest): the days of a    *)
(* split are loaded, a model is trained with early stopping, the test days *)
(* are predicted and the trades are executed one after the other. Folds    *)
(* run in parallel and share nothing, so one stands for all.               *)
(*                                                                         *)
(* The model is external: a validation loss is any of Losses, a prediction *)
(* has an edge or not. Profits and the statistics of them are left out.    *)
(***************************************************************************)
EXTENDS Cpcv, Labels

CONSTANTS
  DataDirs,      (* the data: sequences of days, in the order of their dates *)
  Configs,       (* the tools pass no purge and no embargo                  *)
  Losses,
  NRounds,       (* n_rounds                                                *)
  EvalEvery,     (* EVAL_EVERY (50)                                         *)
  EarlyStopping, (* early_stopping                                          *)
  None

ASSUME FoldAssumption ==
  /\ \A c \in Configs : c.purge \in Nat /\ c.embargo \in Nat
                          /\ c.groups \in Nat \ {0} /\ c.kTest \in Nat
  /\ Losses \subseteq Nat /\ None \notin Losses
  /\ \A dir \in DataDirs :
       /\ dir \in Seq(Days)
       /\ \A d, e \in DOMAIN dir : d < e =>
            \A i \in DOMAIN dir[d], j \in DOMAIN dir[e] : dir[d][i].ts <= dir[e][j].ts
  /\ NRounds \in Nat \ {0} /\ EvalEvery \in Nat \ {0} /\ EarlyStopping \in Nat

VARIABLES
  data,      (* the rows of each day's file                                 *)
  mode,      (* "cpcv" or "imbalance"                                       *)
  filter,    (* in imbalance mode the geometry asked for, or None           *)
  config,
  split,     (* the split of this fold                                      *)
  pc,        (* where the fold is                                           *)
  hasVal,    (* there are validation rows                                   *)
  losses,    (* history: the validation losses, in order                    *)
  bestLoss, bestIter, stale,  (* best_loss, best_iter, rounds_no_improve    *)
  events,    (* the rows of the test days that are left: day and place      *)
  nextTs,    (* next_available_ts                                           *)
  trades,    (* the events traded                                           *)
  skipped,   (* history: the events passed over while in a position         *)
  own        (* the walk of each geometry by itself: its lock and trades    *)

input    == <<data, mode, filter, config, split>>
training == <<hasVal, losses, bestLoss, bestIter, stale>>
walk     == <<events, nextTs, trades, skipped, own>>
vars     == <<input, pc, training, walk>>

Counts(files) == [d \in DOMAIN files |-> Len(files[d])]

Init ==
  /\ \E dir \in DataDirs : data = [d \in DOMAIN dir |-> ExportDay(dir[d])]
  /\ mode \in {"cpcv", "imbalance"}
  /\ filter \in (IF mode = "imbalance" THEN Range(Geometries) ELSE {}) \cup {None}
  /\ config \in {c \in Configs : c.groups <= Len(data)}
  /\ split \in Splits(DayMetas(Counts(data), config.groups), config)
  /\ pc = "load"
  /\ hasVal = FALSE /\ losses = <<>> /\ bestLoss = None /\ bestIter = 0 /\ stale = 0
  /\ events = {} /\ nextTs = 0 /\ trades = {} /\ skipped = {}
  /\ own = [g \in Range(Geometries) |-> [next |-> 0, trades |-> {}]]

-----------------------------------------------------------------------------
(* load_day_impl: rows that ended at the horizon are dropped, and in        *)
(* imbalance mode those that are weak or of another geometry.               *)
PassesHorizons(row) ==  (* mutant: rows that ended at the horizon are kept *)
  mode = "imbalance" => row.strong /\ filter \in {None, row.geometry}

Passes(row) ==
  /\ row.outcome # -1
  /\ mode = "imbalance" => row.strong /\ filter \in {None, row.geometry}

RowAt(e) == data[e[1]][e[2]]

LoadDay(d) == {d} \X {i \in DOMAIN data[d] : Passes(data[d][i])}

Load(days) == UNION {LoadDay(d) : d \in days}

Fail == pc' = "failed"

(* The last fifth of the chunks, one for each of the days, is for validation. *)
StartTraining(days, rows) ==
  LET Chunk(d) == Cardinality({e \in days : e < d})
      val      == {e \in rows : Chunk(e[1]) >= (Cardinality(days) * 4) \div 5}
  IN  \/ rows \ val = {} /\ Fail /\ UNCHANGED hasVal
      \/ rows \ val # {} /\ pc' = "train" /\ hasVal' = (val # {})

(* run_fold samples rows by a hash of their time: any set of times.         *)
Sampled(times) == {e \in Load(split.train) : RowAt(e).ts \in times}  (* hash_subsample *)

Times == {RowAt(e).ts : e \in Load(split.train)}

LoadTrain ==
  /\ pc = "load" /\ mode = "cpcv"
  /\ \E times \in SUBSET Times : StartTraining(split.train, Sampled(times))
  /\ UNCHANGED <<input, losses, bestLoss, bestIter, stale, walk>>

(* run_imbalance_fold takes every row and drops the days left empty.        *)
LoadImbalanceTrain ==
  /\ pc = "load" /\ mode = "imbalance"
  /\ StartTraining({d \in split.train : LoadDay(d) # {}}, Load(split.train))
  /\ UNCHANGED <<input, losses, bestLoss, bestIter, stale, walk>>

(* A file that cannot be read, or a prediction, fails the fold.             *)
LoadFails ==
  /\ pc \in {"load", "predict"}
  /\ Fail
  /\ UNCHANGED <<input, training, walk>>

-----------------------------------------------------------------------------
(* train_xgboost. The loss is looked at after every EvalEvery rounds.       *)

Evaluations == NRounds \div EvalEvery

Better(loss) == bestLoss # None => loss < bestLoss

KeepCounting(loss) ==  (* mutant: a new best does not restart the count *)
  stale + (IF Better(loss) THEN 0 ELSE EvalEvery)

NoImprove(loss) == IF Better(loss) THEN 0 ELSE stale + EvalEvery

Evaluate ==
  /\ pc = "train" /\ hasVal /\ Len(losses) < Evaluations
  /\ \E loss \in Losses :
       /\ losses' = Append(losses, loss)
       /\ stale' = NoImprove(loss)
       /\ \/ /\ Better(loss)
             /\ bestLoss' = loss /\ bestIter' = EvalEvery * (Len(losses) + 1) - 1
          \/ ~Better(loss) /\ UNCHANGED <<bestLoss, bestIter>>
       /\ pc' = IF NoImprove(loss) >= EarlyStopping THEN "predict" ELSE "train"
  /\ UNCHANGED <<input, hasVal, walk>>

(* The last round was trained. *)
TrainingEnds ==
  /\ pc = "train" /\ (~hasVal \/ Len(losses) = Evaluations)
  /\ bestIter' = IF hasVal THEN bestIter ELSE NRounds - 1
  /\ pc' = "predict"
  /\ UNCHANGED <<input, hasVal, losses, bestLoss, stale, walk>>

(* A round or the prediction of an evaluation that fails fails the fold.    *)
TrainingFails ==
  /\ pc = "train"
  /\ Fail
  /\ UNCHANGED <<input, training, walk>>

-----------------------------------------------------------------------------
(* The test days, one after the other, without sampling. The state of the   *)
(* training is of no more use and forgotten.                                *)
PredictDays ==
  /\ pc = "predict"
  /\ events' = Load(split.test)
  /\ pc' = IF events' = {} THEN "failed" ELSE "walk"
  /\ hasVal' = FALSE /\ losses' = <<>>
  /\ bestLoss' = None /\ bestIter' = 0 /\ stale' = 0
  /\ UNCHANGED <<input, nextTs, trades, skipped, own>>

Predict          == mode = "cpcv" /\ PredictDays
PredictImbalance == mode = "imbalance" /\ PredictDays

(* compute_serial_pnl: an event in a position is passed over, one with an   *)
(* edge is traded and locks the walk until its exit.                        *)
InPosition(e) == RowAt(e).ts < nextTs

SerialStep(e, edge) ==
  \/ /\ InPosition(e)
     /\ skipped' = skipped \cup {e}
     /\ UNCHANGED <<nextTs, trades>>
  \/ /\ ~InPosition(e) /\ edge
     /\ trades' = trades \cup {e} /\ nextTs' = RowAt(e).exit
     /\ UNCHANGED skipped
  \/ /\ ~InPosition(e) /\ ~edge
     /\ UNCHANGED <<nextTs, trades, skipped>>

(* compute_geometry_metrics: the same, over the events of one geometry.     *)
InOwnPositionOrExit(row) ==  (* mutant: the time of the exit is still locked *)
  row.ts <= own[row.geometry].next

InOwnPosition(row) == row.ts < own[row.geometry].next

GeometryStep(e, edge) ==
  LET row == RowAt(e)
  IN  own' = IF edge /\ ~InOwnPosition(row)
             THEN [own EXCEPT ![row.geometry] = [next |-> row.exit, trades |-> @.trades \cup {e}]]
             ELSE own

(* The two loops read the same predictions; here they go in step, through   *)
(* the days and the rows of each in order.                                  *)
Earlier(e, f) == e[1] < f[1] \/ (e[1] = f[1] /\ e[2] < f[2])

WalkEvent ==
  /\ pc = "walk"
  /\ \E e \in events :
       /\ \A f \in events \ {e} : Earlier(e, f)
       /\ \E edge \in BOOLEAN : SerialStep(e, edge) /\ GeometryStep(e, edge)
       /\ events' = events \ {e}
  /\ UNCHANGED <<input, pc, training>>

WalkEnds ==
  /\ pc = "walk" /\ events = {}
  /\ pc' = "done"
  /\ UNCHANGED <<input, training, walk>>

Finished == pc \in {"done", "failed"} /\ UNCHANGED vars

Next ==
  \/ LoadTrain \/ LoadImbalanceTrain \/ LoadFails
  \/ Evaluate \/ TrainingEnds \/ TrainingFails
  \/ Predict \/ PredictImbalance \/ WalkEvent \/ WalkEnds \/ Finished

Spec == Init /\ [][Next]_vars

-----------------------------------------------------------------------------
(* The rows of a file come from one set of prices: if a wide target is      *)
(* touched before a narrow stop, a narrow target is touched before a wide   *)
(* stop, no later; and the other way round (event-labels lib.rs:81-140,     *)
(* which walks the ticks anew for each geometry). The data never changes,   *)
(* so the first state of a fold decides this, as it decides NoLeak.         *)
Eases(g, h) == g.target <= h.target /\ g.stop >= h.stop

LabelsNest ==
  pc = "load" =>
  \A d \in DOMAIN data : \A i, j \in DOMAIN data[d] :
    LET easy == data[d][i]
        hard == data[d][j]
    IN  StateOf(i) = StateOf(j) /\ Eases(easy.geometry, hard.geometry) =>
          /\ hard.outcome = 1 => easy.outcome = 1 /\ easy.exit <= hard.exit
          /\ easy.outcome = 0 => hard.outcome = 0 /\ hard.exit <= easy.exit

(* Bar by bar, a day is trained on only if it is not tested and none of its *)
(* bars is within the purge before a test bar or the embargo after one      *)
(* (cpcv.rs:191-194, which compares whole days with whole blocks), and, if  *)
(* the test days have rows, whenever that is so. A test day without rows    *)
(* makes a block of its own that excludes the days around it.               *)
Bars(metas, d) == metas[d].start .. metas[d].end - 1

Near(b, t) == (b < t /\ t - b <= config.purge) \/ (t < b /\ b - t <= config.embargo)

NoLeak ==
  pc = "load" =>
  LET metas    == DayMetas(Counts(data), config.groups)
      test     == UNION {Bars(metas, d) : d \in split.test}
      Clear(d) == d \notin split.test /\ \A b \in Bars(metas, d), t \in test : ~Near(b, t)
      hasRows  == {d \in DOMAIN data : Bars(metas, d) # {}}
  IN  /\ \A d \in split.train : Clear(d)
      /\ split.test \subseteq hasRows => \A d \in hasRows : Clear(d) => d \in split.train

(* Training that stops before its last evaluation predicts with the best    *)
(* round it saw, and saw none better in the EarlyStopping rounds after it   *)
(* (fold_runner.rs:466-514).                                                *)
StopsAtTheBest ==
  pc = "predict" /\ losses # <<>> =>
    LET best == (bestIter + 1) \div EvalEvery
    IN  /\ \A e \in DOMAIN losses : losses[best] <= losses[e] /\ (e < best => losses[best] < losses[e])
        /\ Len(losses) < Evaluations => (Len(losses) - best) * EvalEvery >= EarlyStopping

(* Trades are serial: each ends after it began and before the next begins,  *)
(* no two at one time although several geometries and days follow each      *)
(* other, and an event is passed over only while one of them is open        *)
(* (fold_runner.rs:516-553).                                                *)
Inside(k, i) == RowAt(i).ts <= RowAt(k).ts /\ RowAt(k).ts < RowAt(i).exit

Serial ==
  /\ \A i \in trades :
       /\ RowAt(i).ts < RowAt(i).exit
       /\ \A j \in trades : Earlier(i, j) => RowAt(i).exit <= RowAt(j).ts
  /\ \A k \in skipped : \E i \in trades : Inside(k, i)

(* The breakdown by geometry walks each geometry by itself, so it does not  *)
(* add up to the total; but the two differ only by the positions of other   *)
(* geometries: a trade of the breakdown that the total has not made was     *)
(* passed over in a position, a trade of the total that the breakdown has   *)
(* not made fell into an earlier trade of its own geometry, and with one    *)
(* geometry asked for they are the same (fold_runner.rs:516-553, 594-656).  *)
BreakdownExplained ==
  /\ \A g \in Range(Geometries) : own[g].trades \subseteq trades \cup skipped
  /\ \A k \in trades :
       LET mine == own[RowAt(k).geometry].trades
       IN  k \in mine \/ \E i \in mine : Earlier(i, k) /\ Inside(k, i)
  /\ \A g \in Range(Geometries) : \A i, k \in own[g].trades : Earlier(i, k) => ~Inside(k, i)
  /\ filter # None => own[filter].trades = trades
=============================================================================
