----------------------------- MODULE MCFoldRun -----------------------------
(* Instances of FoldRun for TLC. *)
EXTENDS FoldRun

MCGeometries == <<[target |-> 1, stop |-> 1], [target |-> 2, stop |-> 1], [target |-> 1, stop |-> 2]>>

MCDay(times, bids, sides) ==
  [i \in DOMAIN times |->
     [ts |-> times[i], bid |-> bids[i], ask |-> bids[i] + 1, side |-> sides[i], strong |-> i # 2]]

(* Every day of three states at a few times, alone. *)
MCAnyDay ==
  {<<MCDay(times, bids, sides)>> : times \in {<<1, 2, 3>>, <<1, 1, 2>>, <<1, 2, 4>>},
                                   bids \in [1 .. 3 -> 0 .. 3], sides \in [1 .. 3 -> {1, -1}]}

(* Days that lead to trades of each kind, to none, and a day without rows.  *)
MCKind(kind, t) ==
  CASE kind = "rises" -> MCDay(<<t, t + 1, t + 2, t + 3>>, <<0, 2, 0, 3>>, <<1, 1, 1, 1>>)
    [] kind = "burst" -> MCDay(<<t, t, t + 1>>, <<2, 0, 3>>, <<-1, 1, 1>>)
    [] kind = "flat"  -> MCDay(<<t, t + 1>>, <<1, 1>>, <<1, 1>>)
    [] kind = "none"  -> <<>>

MCKinds == {"rises", "burst", "flat", "none"}

MCThreeDays ==
  {[d \in 1 .. 3 |-> MCKind(kinds[d], 10 * d)] : kinds \in [1 .. 3 -> MCKinds]}

(* Two of four days are tested, one after the other. *)
MCFourDays ==
  {[d \in 1 .. 4 |-> MCKind(IF d % 2 = 0 THEN "burst" ELSE "rises", 10 * d)]}

MCDataDirs == MCAnyDay \cup MCThreeDays \cup MCFourDays

MCConfigs ==
  {[groups |-> g, kTest |-> k, purge |-> gap.purge, embargo |-> gap.embargo] :
     g \in 1 .. 3, k \in 1 .. 2,
     gap \in {[purge |-> 0, embargo |-> 0], [purge |-> 4, embargo |-> 7]}}
=============================================================================
