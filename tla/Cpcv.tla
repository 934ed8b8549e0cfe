-------------------------------- MODULE Cpcv --------------------------------
(***************************************************************************)
(* Combinatorial purged cross-validation (crates/backtest/src/cpcv.rs):    *)
(* days in groups, every choice of test groups, and the training days that *)
(* are left when those near a test block are purged or embargoed.          *)
(*                                                                         *)
(* Days are numbered from 1 in order of date, groups from 0. A bar is a    *)
(* row of a day's file; day m holds the bars m.start to m.end - 1.         *)
(***************************************************************************)
EXTENDS Integers, Sequences, FiniteSets

(* assign_groups: as even as can be, the first groups one day longer.       *)
GroupStart(g, days, groups) ==
  g * (days \div groups) + (IF g < days % groups THEN g ELSE days % groups)

GroupOf(i, days, groups) ==
  CHOOSE g \in 0 .. groups - 1 :
    GroupStart(g, days, groups) < i /\ i <= GroupStart(g + 1, days, groups)

(* build_day_metas, from the row counts of the days: a day's first bar is   *)
(* how many rows the days before it have.                                   *)
RowsOf(counts, days) == UNION {{d} \X (1 .. counts[d]) : d \in days}

Before(counts, i) == Cardinality(RowsOf(counts, 1 .. i - 1))

DayMetas(counts, groups) ==
  [i \in DOMAIN counts |->
     [group |-> GroupOf(i, Len(counts), groups),
      start |-> Before(counts, i), end |-> Before(counts, i) + counts[i]]]

(* combinations: the choices of k of n groups.                              *)
Combinations(n, k) == {S \in SUBSET (0 .. n - 1) : Cardinality(S) = k}

TestDays(metas, test) == {i \in DOMAIN metas : metas[i].group \in test}

(* find_test_boundaries: a block ends where the next test day does not      *)
(* start, so two test days are in one block if every day between them is    *)
(* tested or has no rows.                                                   *)
Joined(metas, test, i, j) ==
  \A k \in i .. j : k \in TestDays(metas, test) \/ metas[k].start = metas[k].end

IsBlock(metas, test, i, j) ==
  /\ i <= j /\ Joined(metas, test, i, j)
  /\ \A k \in TestDays(metas, test) :
       /\ k < i => metas[k].end # metas[i].start
       /\ k > j => metas[k].start # metas[j].end

TestBlocks(metas, test) ==
  LET runs == {r \in TestDays(metas, test) \X TestDays(metas, test) : IsBlock(metas, test, r[1], r[2])}
  IN  {[start |-> metas[r[1]].start, end |-> metas[r[2]].end] : r \in runs}

EmbargoFromStart(m, block, config) ==  (* mutant: counted from the wrong end *)
  m.start < block.start + config.embargo /\ m.end > block.end

Embargoed(m, block, config) ==
  m.start < block.end + config.embargo /\ m.end > block.end

Purged(m, block, config) ==
  LET from == IF block.start < config.purge THEN 0 ELSE block.start - config.purge
  IN  m.end > from /\ m.start < block.start

(* generate_splits: one split; its days are taken in order.                 *)
IsTrain(metas, test, config, i) ==
  /\ i \notin TestDays(metas, test)
  /\ \A b \in TestBlocks(metas, test) :
       ~Purged(metas[i], b, config) /\ ~Embargoed(metas[i], b, config)

Split(metas, test, config) ==
  [test  |-> TestDays(metas, test),
   train |-> {i \in DOMAIN metas : IsTrain(metas, test, config, i)}]

Splits(metas, config) ==
  {Split(metas, test, config) : test \in Combinations(config.groups, config.kTest)}
=============================================================================
