---------------------------- MODULE BookBuilder ----------------------------
(***************************************************************************)
(* The order book of one instrument (crates/book-builder/src/lib.rs) and   *)
(* what its flow accumulators say of each commit (flow.rs): orders, the    *)
(* price levels they add up to, what moved the best prices in a batch, and *)
(* the order-flow imbalance between commits. The caller is the day-file    *)
(* ingester (databento-ingest), which reads the committed state and the    *)
(* flow state after the last event of a batch.                             *)
(*                                                                         *)
(* A level vector sorted by price is a function from its prices; the best  *)
(* price is the largest bid or the smallest ask. The exponential averages  *)
(* are left out: only the imbalance of each commit is kept. Sizes are      *)
(* natural numbers: a level holds far less than 2^32 contracts. Events of  *)
(* other instruments, which change nothing, are left out.                  *)
(***************************************************************************)
EXTENDS Integers, FiniteSets

CONSTANTS
  OrderIds,
  Prices,   (* fixed-point prices, as integers                              *)
  Sizes,    (* order sizes in contracts                                     *)
  None      (* no price, no order                                           *)

ASSUME BookAssumption ==
  /\ Prices \subseteq Int /\ IsFiniteSet(OrderIds)
  /\ Sizes \subseteq Nat \ {0}
  /\ None \notin Prices /\ None \notin OrderIds
  /\ None \notin [price : Prices, size : Nat]

VARIABLES
  orders,    (* the live orders                                             *)
  levels,    (* the size at each price that has a level, per side           *)
  mask,      (* the kinds of action that moved the top since the commit     *)
  prev,      (* the best bid and ask at the last commit                     *)
  flow,      (* bbo_change_cause and the imbalance of the last commit       *)
  captured,  (* bbo_changed of the last committed state the caller read     *)
  batch      (* history: the last batch cleared the book, and is committed  *)

vars == <<orders, levels, mask, prev, flow, captured, batch>>

Sides   == {"B", "A"}
Order   == [price : Prices, size : Nat, side : Sides]

NoOrders == [o \in {} |-> None]
NoLevels == [s \in Sides |-> [p \in {} |-> 0]]
NoTop    == [s \in Sides |-> None]

Init ==
  /\ orders = NoOrders /\ levels = NoLevels
  /\ mask = {} /\ prev = NoTop
  /\ flow = [cause |-> "None", ofi |-> 0]
  /\ captured = FALSE
  /\ batch = [clear |-> FALSE, closed |-> TRUE]

-----------------------------------------------------------------------------
(* Levels and orders. *)

With(f, x, v)  == [y \in DOMAIN f \cup {x} |-> IF y = x THEN v ELSE f[y]]
Without(f, x)  == [y \in DOMAIN f \ {x} |-> f[y]]

LevelAdd(lv, p, n) == With(lv, p, IF p \in DOMAIN lv THEN lv[p] + n ELSE n)

LevelSub(lv, p, n) ==
  IF p \notin DOMAIN lv THEN lv
  ELSE IF lv[p] <= n THEN Without(lv, p)
  ELSE With(lv, p, lv[p] - n)

(* A book is its orders and its levels. *)
Place(bk, id, o) ==
  [orders |-> With(bk.orders, id, o),
   levels |-> [bk.levels EXCEPT ![o.side] = LevelAdd(@, o.price, o.size)]]

Remove(bk, id) ==
  LET o == bk.orders[id]
  IN  [orders |-> Without(bk.orders, id),
       levels |-> [bk.levels EXCEPT ![o.side] = LevelSub(@, o.price, o.size)]]

Emptied == [orders |-> NoOrders, levels |-> NoLevels]

(* Cancel, modify and fill of an unknown order do nothing; the size of a    *)
(* fill is what remains of the order.                                       *)
ModifyFresh(bk, e) ==  (* mutant: the old order is not taken off its level *)
  Place(bk, e.id, [price |-> e.price, size |-> e.size, side |-> e.side])

Modify(bk, e) ==
  Place(Remove(bk, e.id), e.id, [price |-> e.price, size |-> e.size, side |-> e.side])

Fill(bk, e) ==
  IF e.size = 0 THEN Remove(bk, e.id)
  ELSE Place(Remove(bk, e.id), e.id, [bk.orders[e.id] EXCEPT !.size = e.size])

Apply(bk, e) ==
  CASE e.action = "A" -> Place(bk, e.id, [price |-> e.price, size |-> e.size, side |-> e.side])
    [] e.action = "R" -> Emptied
    [] e.action \in {"C", "M", "F"} /\ e.id \in DOMAIN bk.orders ->
         (CASE e.action = "C" -> Remove(bk, e.id)
            [] e.action = "M" -> Modify(bk, e)
            [] e.action = "F" -> Fill(bk, e))
    [] OTHER -> bk

-----------------------------------------------------------------------------
(* The top of the book and what the flow accumulators make of it.           *)

Best(s, lv) ==
  IF DOMAIN lv = {} THEN None
  ELSE LET p == CHOOSE q \in DOMAIN lv :
                  \A r \in DOMAIN lv : IF s = "B" THEN r <= q ELSE q <= r
       IN  [price |-> p, size |-> lv[p]]

Top(lvs) == [s \in Sides |-> Best(s, lvs[s])]

PriceOf(best) == IF best = None THEN None ELSE best.price

SamePrices(t, u) == \A s \in Sides : PriceOf(t[s]) = PriceOf(u[s])

(* record_bbo_action: trade or fill, cancel, add, modify; a clear has no bit. *)
KindMerged(a) ==  (* mutant: a modify is counted as an add *)
  CASE a \in {"T", "F"} -> {"AggressiveTrade"}
    [] a = "C"          -> {"Cancel"}
    [] a \in {"A", "M"} -> {"NewLevel"}
    [] OTHER            -> {}

Kind(a) ==
  CASE a \in {"T", "F"} -> {"AggressiveTrade"}
    [] a = "C"          -> {"Cancel"}
    [] a = "A"          -> {"NewLevel"}
    [] a = "M"          -> {"Modify"}
    [] OTHER            -> {}

Cause(kinds) ==
  IF kinds = {} THEN "None"
  ELSE IF Cardinality(kinds) > 1 THEN "Multiple"
  ELSE CHOOSE k \in kinds : TRUE

(* compute_side_ofi, the same for both sides. *)
SideOfi(old, new) ==
  IF new = None THEN (IF old = None THEN 0 ELSE -old.size)
  ELSE IF old = None THEN new.size
  ELSE IF new.price > old.price THEN new.size
  ELSE IF new.price = old.price THEN new.size - old.size
  ELSE -old.size

Ofi(old, new) == SideOfi(old["B"], new["B"]) - SideOfi(old["A"], new["A"])

-----------------------------------------------------------------------------
(* process_event, and the reading of the committed state that follows it.   *)

Moved(e, old, new) == IF SamePrices(old, new) THEN {} ELSE Kind(e.action)

Commit(kinds, new) ==
  /\ flow' = [cause |-> IF SamePrices(prev, new) THEN "None" ELSE Cause(kinds),
              ofi |-> Ofi(prev, new)]
  /\ prev' = new
  /\ mask' = {}

(* current_committed_state. *)
BboChanged(before, top) == ~SamePrices(before, top)

ProcessEvent(e) ==
  LET book  == Apply([orders |-> orders, levels |-> levels], e)
      new   == Top(book.levels)
      kinds == mask \cup Moved(e, Top(levels), new)
  IN  /\ orders' = book.orders
      /\ levels' = book.levels
      /\ \/ /\ e.last
            /\ Commit(kinds, new)
            /\ captured' = BboChanged(prev', new)
         \/ /\ ~e.last
            /\ mask' = kinds
            /\ UNCHANGED <<prev, flow, captured>>
      /\ batch' = [clear |-> e.action = "R" \/ (~batch.closed /\ batch.clear), closed |-> e.last]

(* The records of a day file. An exchange reuses no identifier of a live     *)
(* order, gives no order size zero, and quotes in a cancel or a fill the     *)
(* order it is about. An order that is not live was added before the file    *)
(* began. A trade names no order and may have no side ("N"), and an action   *)
(* that the code does not know ("N") is fed like the others.                 *)
Record(a, id, s, p, n, last) ==
  [action |-> a, id |-> id, side |-> s, price |-> p, size |-> n, last |-> last]

Feed ==
  UNION {
    {Record("A", id, s, p, n, last) :
       id \in OrderIds \ DOMAIN orders, s \in Sides, p \in Prices, n \in Sizes, last \in BOOLEAN},
    {Record("M", id, s, p, n, last) :
       id \in DOMAIN orders, s \in Sides, p \in Prices, n \in Sizes, last \in BOOLEAN},
    {Record(a, id, orders[id].side, orders[id].price, n, last) :
       a \in {"C", "F"}, id \in DOMAIN orders, n \in Sizes \cup {0}, last \in BOOLEAN},
    {Record(a, None, "B", p, n, last) :
       a \in {"C", "F", "M"}, p \in Prices, n \in Sizes, last \in BOOLEAN},
    {Record("T", None, s, p, n, last) :
       s \in Sides \cup {"N"}, p \in Prices, n \in Sizes, last \in BOOLEAN},
    {Record(a, None, "N", None, 0, last) : a \in {"R", "N"}, last \in BOOLEAN}}

Next == \E e \in Feed : ProcessEvent(e)

Spec == Init /\ [][Next]_vars

-----------------------------------------------------------------------------
At(s, p) == {o \in DOMAIN orders : orders[o].side = s /\ orders[o].price = p}

(* The contracts of the live orders at a price, one by one. *)
Contracts(s, p) == UNION {{o} \X (1 .. orders[o].size) : o \in At(s, p)}

(* The levels are what the live orders add up to: no level without an       *)
(* order, none missing, every size the sum of the orders there, through     *)
(* modifies that change side or price, fills and cancels of orders that are *)
(* unknown, and clears in the middle of a batch.                            *)
LevelsAggregateOrders ==
  \A s \in Sides, p \in Prices :
    IF At(s, p) = {} THEN p \notin DOMAIN levels[s]
    ELSE p \in DOMAIN levels[s] /\ levels[s][p] = Cardinality(Contracts(s, p))

(* The cause a commit reports explains how the best prices moved since the  *)
(* one before, unless the batch cleared the book: adds never move the top   *)
(* back, cancels and fills never forward, whatever came and went in between *)
(* behind it, and a move always has a cause.                                *)
NoWorse(s, old, new) ==
  old # None => new # None /\ (IF s = "B" THEN old.price <= new.price ELSE new.price <= old.price)

CauseExplainsMove ==
  [][batch'.closed /\ ~batch'.clear =>
       /\ flow'.cause = "NewLevel" => \A s \in Sides : NoWorse(s, prev[s], prev'[s])
       /\ flow'.cause \in {"Cancel", "AggressiveTrade"} =>
            \A s \in Sides : NoWorse(s, prev'[s], prev[s])
       /\ flow'.cause = "None" <=> SamePrices(prev, prev')]_vars

(* What lib.rs:36 says of a committed state: bbo_changed is set if the best *)
(* bid or ask changed since the previous commit. It does not hold: the      *)
(* commit overwrites the previous prices before the state is read, so the   *)
(* flag is never set, and the exporter that filters on it selects nothing.  *)
BboChangedIsSet ==
  [][batch'.closed => captured' = ~SamePrices(prev, prev')]_vars
=============================================================================
