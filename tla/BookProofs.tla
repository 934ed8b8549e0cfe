----------------------------- MODULE BookProofs -----------------------------
(***************************************************************************)
(* The order book and the causes of its commits, for any orders, prices    *)
(* and sizes and any sequence of records, alone and under the tokenizer;   *)
(* then what the tokenizer's stream and statistics say of the records.     *)
(***************************************************************************)
EXTENDS Tokenizer, FiniteSetTheorems, WellFoundedInduction, TLAPS

(* A book as it can be: live orders with contracts, and levels that add     *)
(* them up. AtIn and ContractsIn are At and Contracts of any orders.        *)
LiveOrder == [price : Prices, size : Nat \ {0}, side : Sides]

Live(ord) == DOMAIN ord \subseteq OrderIds /\ ord \in [DOMAIN ord -> LiveOrder]

AtIn(ord, s, p) == {o \in DOMAIN ord : ord[o].side = s /\ ord[o].price = p}

ContractsIn(ord, s, p) == UNION {{o} \X (1 .. ord[o].size) : o \in AtIn(ord, s, p)}

AddsUp(ord, level, s, p) ==
  IF AtIn(ord, s, p) = {} THEN p \notin DOMAIN level
  ELSE p \in DOMAIN level /\ level[p] = Cardinality(ContractsIn(ord, s, p))

Level(level) == DOMAIN level \subseteq Prices /\ IsFiniteSet(DOMAIN level)

Book(ord, lv) ==
  /\ Live(ord) /\ DOMAIN lv = Sides
  /\ \A s \in Sides : Level(lv[s]) /\ \A p \in Prices : AddsUp(ord, lv[s], s, p)

(* The contracts of live orders can be counted, and there is one wherever   *)
(* there is an order.                                                       *)
LEMMA ContractsCount ==
  ASSUME NEW ord, Live(ord), NEW s, NEW p
  PROVE  /\ IsFiniteSet(ContractsIn(ord, s, p))
         /\ Cardinality(ContractsIn(ord, s, p)) \in Nat
         /\ Cardinality(ContractsIn(ord, s, p)) = 0 <=> AtIn(ord, s, p) = {}
<1> DEFINE A == AtIn(ord, s, p)
           C(o) == {o} \X (1 .. ord[o].size)
           F == {C(o) : o \in A}
<1>1. IsFiniteSet(A) /\ \A o \in A : ord[o].size \in Nat \ {0}
  <2>1. A \in SUBSET OrderIds
    BY DEF Live, AtIn
  <2> QED
    BY <2>1, FS_Subset, BookAssumption DEF Live, LiveOrder, AtIn
<1>2. IsFiniteSet(F)
  <2> DEFINE f == [o \in A |-> C(o)]
  <2> HIDE DEF A, C
  <2>1. f \in Surjection(A, F)
    BY DEF Surjection
  <2> HIDE DEF f, F
  <2> QED
    BY <1>1, <2>1, FS_Surjection
<1>3. \A T \in F : IsFiniteSet(T)
  <2> SUFFICES ASSUME NEW o \in A PROVE IsFiniteSet(C(o))
    OBVIOUS
  <2>1. ord[o].size \in Int /\ 1 \in Int
    BY <1>1
  <2>2. IsFiniteSet(1 .. ord[o].size)
    BY <2>1, FS_Interval
  <2>3. IsFiniteSet({o})
    BY FS_Singleton
  <2> QED
    BY <2>2, <2>3, FS_Product
<1>4. IsFiniteSet(UNION F)
  <2> HIDE DEF F
  <2> QED
    BY <1>2, <1>3, FS_UNION
<1>5. ContractsIn(ord, s, p) = UNION F
  BY DEF ContractsIn
<1>6. UNION F = {} <=> A = {}
  <2>1. ASSUME NEW o \in A PROVE UNION F # {}
    <3>1. 1 \in 1 .. ord[o].size
      BY <1>1
    <3>2. <<o, 1>> \in C(o) /\ C(o) \in F
      BY <3>1
    <3> QED
      BY <3>2
  <2> QED
    BY <2>1
<1> HIDE DEF F
<1> QED
  BY <1>4, <1>5, <1>6, FS_CardinalityType, FS_EmptySet

(* The orders new are those of old and one more.                            *)
Adds(old, new, id, o) ==
  /\ DOMAIN new = DOMAIN old \cup {id} /\ new[id] = o
  /\ \A s, p : s = o.side /\ p = o.price =>
       /\ AtIn(new, s, p) = AtIn(old, s, p) \cup {id}
       /\ Cardinality(ContractsIn(new, s, p)) = Cardinality(ContractsIn(old, s, p)) + o.size
  /\ \A s, p : ~(s = o.side /\ p = o.price) =>
       /\ AtIn(new, s, p) = AtIn(old, s, p)
       /\ ContractsIn(new, s, p) = ContractsIn(old, s, p)

(* It adds its size where it is placed, and nothing elsewhere.              *)
LEMMA ContractsWith ==
  ASSUME NEW ord, Live(ord), NEW id \in OrderIds \ DOMAIN ord, NEW o \in LiveOrder
  PROVE  Live(With(ord, id, o)) /\ Adds(ord, With(ord, id, o), id, o)
<1> DEFINE new == With(ord, id, o)
<1>1. /\ DOMAIN new = DOMAIN ord \cup {id} /\ new[id] = o
      /\ \A x \in DOMAIN ord : new[x] = ord[x] /\ x # id
  BY DEF With
<1>2. Live(new)
  <2>1. DOMAIN new \subseteq OrderIds
    BY <1>1 DEF Live
  <2>2. new = [y \in DOMAIN new |-> new[y]]
    BY DEF With
  <2>3. \A y \in DOMAIN new : new[y] \in LiveOrder
    BY <1>1 DEF Live
  <2> HIDE DEF new
  <2>4. new \in [DOMAIN new -> LiveOrder]
    BY <2>2, <2>3
  <2> QED
    BY <2>1, <2>4 DEF Live
<1> HIDE DEF new
<1>3. ASSUME NEW s, NEW p, ~(s = o.side /\ p = o.price)
      PROVE  AtIn(new, s, p) = AtIn(ord, s, p) /\ ContractsIn(new, s, p) = ContractsIn(ord, s, p)
  <2>1. AtIn(new, s, p) = AtIn(ord, s, p)
    BY <1>1, <1>3 DEF AtIn
  <2>2. \A x \in AtIn(ord, s, p) : new[x] = ord[x]
    BY <1>1 DEF AtIn
  <2> QED
    BY <2>1, <2>2 DEF ContractsIn
<1>4. ASSUME NEW s, NEW p, s = o.side, p = o.price
      PROVE  /\ AtIn(new, s, p) = AtIn(ord, s, p) \cup {id}
             /\ Cardinality(ContractsIn(new, s, p)) = Cardinality(ContractsIn(ord, s, p)) + o.size
  <2> DEFINE A == AtIn(ord, s, p)
             old == ContractsIn(ord, s, p)
             own == {id} \X (1 .. o.size)
  <2>1. AtIn(new, s, p) = A \cup {id}
    BY <1>1, <1>4 DEF AtIn
  <2>2. ContractsIn(new, s, p) = old \cup own
    <3>1. \A x \in A : new[x] = ord[x]
      BY <1>1 DEF AtIn
    <3>2. ContractsIn(new, s, p) = UNION {{x} \X (1 .. new[x].size) : x \in A \cup {id}}
      BY <2>1 DEF ContractsIn
    <3> HIDE DEF A
    <3>3. {{x} \X (1 .. new[x].size) : x \in A \cup {id}}
            = {{x} \X (1 .. ord[x].size) : x \in A} \cup {own}
      BY <1>1, <3>1
    <3>4. old = UNION {{x} \X (1 .. ord[x].size) : x \in A}
      BY DEF ContractsIn, A
    <3> HIDE DEF old, own
    <3> QED
      BY <3>2, <3>3, <3>4
  <2>3. old \cap own = {}
    BY DEF ContractsIn, AtIn
  <2>4. IsFiniteSet(own) /\ Cardinality(own) = o.size
    <3>1. o.size \in Nat \ {0} /\ 1 \in Int /\ o.size \in Int
      BY DEF LiveOrder
    <3>2. IsFiniteSet(1 .. o.size) /\ Cardinality(1 .. o.size) = o.size
      <4>1. /\ IsFiniteSet(1 .. o.size)
            /\ Cardinality(1 .. o.size) = IF 1 > o.size THEN 0 ELSE o.size - 1 + 1
        BY <3>1, FS_Interval
      <4> QED
        BY <3>1, <4>1
    <3>3. IsFiniteSet({id}) /\ Cardinality({id}) = 1
      BY FS_Singleton
    <3>4. IsFiniteSet(own) /\ Cardinality(own) = Cardinality({id}) * Cardinality(1 .. o.size)
      BY <3>2, <3>3, FS_Product
    <3> QED
      BY <3>1, <3>2, <3>3, <3>4
  <2>5. IsFiniteSet(old) /\ Cardinality(old) \in Nat
    BY ContractsCount
  <2>6. Cardinality(old \cup own) = Cardinality(old) + Cardinality(own) - 0
    <3> HIDE DEF old, own
    <3> QED
      BY <2>3, <2>4, <2>5, FS_Union, FS_EmptySet
  <2>7. o.size \in Nat
    BY DEF LiveOrder
  <2> QED
    BY <2>1, <2>2, <2>4, <2>5, <2>6, <2>7
<1> QED
  BY <1>1, <1>2, <1>3, <1>4 DEF new, Adds

(* An order less is the other way round. *)
LEMMA ContractsWithout ==
  ASSUME NEW ord, Live(ord), NEW id \in DOMAIN ord
  PROVE  /\ Live(Without(ord, id)) /\ DOMAIN Without(ord, id) = DOMAIN ord \ {id}
         /\ Adds(Without(ord, id), ord, id, ord[id])
<1> DEFINE new == Without(ord, id)
<1>1. /\ DOMAIN new = DOMAIN ord \ {id} /\ \A x \in DOMAIN new : new[x] = ord[x]
      /\ new = [x \in DOMAIN new |-> new[x]]
  BY DEF Without
<1> HIDE DEF new
<1>2. Live(new)
  <2>1. DOMAIN new \subseteq OrderIds /\ \A x \in DOMAIN new : new[x] \in LiveOrder
    BY <1>1 DEF Live
  <2>2. new \in [DOMAIN new -> LiveOrder]
    BY <1>1, <2>1
  <2> QED
    BY <2>1, <2>2 DEF Live
<1>3. id \in OrderIds \ DOMAIN new /\ ord[id] \in LiveOrder
  BY <1>1 DEF Live
<1>4. ord = With(new, id, ord[id])
  <2>1. ord = [x \in DOMAIN ord |-> ord[x]]
    BY DEF Live
  <2>2. DOMAIN ord = DOMAIN new \cup {id}
    BY <1>1
  <2>3. \A x \in DOMAIN ord : ord[x] = IF x = id THEN ord[id] ELSE new[x]
    BY <1>1
  <2> QED
    BY <2>1, <2>2, <2>3 DEF With
<1>5. PICK o \in LiveOrder : o = ord[id]
  BY <1>3
<1>6. Adds(new, With(new, id, o), id, o)
  BY <1>2, <1>3, ContractsWith
<1> QED
  BY <1>1, <1>2, <1>4, <1>5, <1>6 DEF new

(* The levels new are those of old with one more, or with perhaps one less. *)
LevelCame(old, new, o) ==
  \A s \in Sides :
    /\ DOMAIN old[s] \subseteq DOMAIN new[s]
    /\ s = o.side => DOMAIN new[s] = DOMAIN old[s] \cup {o.price}
    /\ s # o.side => DOMAIN new[s] = DOMAIN old[s]

LevelWent(old, new, o) ==
  /\ o.price \in DOMAIN old[o.side]
  /\ \A s \in Sides :
       /\ DOMAIN new[s] \subseteq DOMAIN old[s]
       /\ s = o.side => DOMAIN old[s] \subseteq DOMAIN new[s] \cup {o.price}
       /\ s # o.side => DOMAIN new[s] = DOMAIN old[s]

Raised(lv, o)  == [lv EXCEPT ![o.side] = LevelAdd(@, o.price, o.size)]
Lowered(lv, o) == [lv EXCEPT ![o.side] = LevelSub(@, o.price, o.size)]

(* Placing an order leaves the levels adding up, and adds its level.        *)
LEMMA PlaceAddsUp ==
  ASSUME NEW ord, NEW lv, Book(ord, lv), NEW id \in OrderIds \ DOMAIN ord, NEW o \in LiveOrder
  PROVE  Book(With(ord, id, o), Raised(lv, o)) /\ LevelCame(lv, Raised(lv, o), o)
<1> DEFINE level == LevelAdd(lv[o.side], o.price, o.size)
           new == Raised(lv, o)
           more == With(ord, id, o)
<1>1. /\ o.side \in Sides /\ o.price \in Prices /\ o.size \in Nat \ {0}
      /\ Live(ord) /\ DOMAIN lv = Sides
      /\ \A s \in Sides : Level(lv[s]) /\ \A p \in Prices : AddsUp(ord, lv[s], s, p)
  BY DEF LiveOrder, Book
<1>2. /\ DOMAIN new = Sides /\ new[o.side] = level
      /\ \A s \in Sides : s # o.side => new[s] = lv[s]
  BY <1>1 DEF Raised
<1>3. /\ DOMAIN level = DOMAIN lv[o.side] \cup {o.price}
      /\ level[o.price] = IF o.price \in DOMAIN lv[o.side] THEN lv[o.side][o.price] + o.size
                          ELSE o.size
      /\ \A p \in DOMAIN lv[o.side] : p # o.price => level[p] = lv[o.side][p]
  BY DEF LevelAdd, With
<1>4. Live(more) /\ Adds(ord, more, id, o)
  BY <1>1, ContractsWith
<1> HIDE DEF level, new, more
<1>5. ASSUME NEW s \in Sides PROVE Level(new[s])
  <2>1. CASE s = o.side
    <3>1. IsFiniteSet(DOMAIN lv[s] \cup {o.price})
      BY <1>1, FS_AddElement DEF Level
    <3> QED
      BY <1>1, <1>2, <1>3, <2>1, <3>1 DEF Level
  <2> QED
    BY <1>1, <1>2, <2>1
<1>6. ASSUME NEW s \in Sides, NEW p \in Prices PROVE AddsUp(more, new[s], s, p)
  <2>0. AddsUp(ord, lv[s], s, p)
    BY <1>1
  <2>1. CASE s = o.side /\ p = o.price
    <3>1. /\ AtIn(more, s, p) # {}
          /\ Cardinality(ContractsIn(more, s, p)) = Cardinality(ContractsIn(ord, s, p)) + o.size
      BY <1>4, <2>1 DEF Adds
    <3>2. CASE AtIn(ord, s, p) = {}
      <4>1. Cardinality(ContractsIn(ord, s, p)) = 0
        BY <1>1, <3>2, ContractsCount
      <4>2. p \notin DOMAIN lv[s]
        BY <2>0, <3>2 DEF AddsUp
      <4>3. p \in DOMAIN new[s] /\ new[s][p] = o.size
        BY <1>2, <1>3, <2>1, <4>2
      <4> QED
        BY <1>1, <3>1, <4>1, <4>3 DEF AddsUp
    <3>3. CASE AtIn(ord, s, p) # {}
      <4>1. p \in DOMAIN lv[s] /\ lv[s][p] = Cardinality(ContractsIn(ord, s, p))
        BY <2>0, <3>3 DEF AddsUp
      <4>2. p \in DOMAIN new[s] /\ new[s][p] = lv[s][p] + o.size
        BY <1>2, <1>3, <2>1, <4>1
      <4> QED
        BY <3>1, <4>1, <4>2 DEF AddsUp
    <3> QED
      BY <3>2, <3>3
  <2>2. CASE ~(s = o.side /\ p = o.price)
    <3>1. AtIn(more, s, p) = AtIn(ord, s, p) /\ ContractsIn(more, s, p) = ContractsIn(ord, s, p)
      BY <1>4, <2>2 DEF Adds
    <3>2. /\ p \in DOMAIN new[s] <=> p \in DOMAIN lv[s]
          /\ p \in DOMAIN lv[s] => new[s][p] = lv[s][p]
      BY <1>2, <1>3, <2>2
    <3> QED
      BY <2>0, <3>1, <3>2 DEF AddsUp
  <2> QED
    BY <2>1, <2>2
<1>7. LevelCame(lv, new, o)
  BY <1>2, <1>3 DEF LevelCame
<1> QED
  BY <1>2, <1>4, <1>5, <1>6, <1>7 DEF Book, new, more

(* Removing an order leaves the levels adding up, and at most its level     *)
(* goes.                                                                    *)
LEMMA RemoveAddsUp ==
  ASSUME NEW ord, NEW lv, Book(ord, lv), NEW id \in DOMAIN ord
  PROVE  /\ Book(Without(ord, id), Lowered(lv, ord[id]))
         /\ DOMAIN Without(ord, id) = DOMAIN ord \ {id}
         /\ id \in OrderIds /\ ord[id] \in LiveOrder
         /\ LevelWent(lv, Lowered(lv, ord[id]), ord[id])
<1>0. ord[id] \in LiveOrder /\ id \in OrderIds
  BY DEF Book, Live
<1>1. PICK o \in LiveOrder : o = ord[id]
  BY <1>0
<1> DEFINE level == LevelSub(lv[o.side], o.price, o.size)
           new == Lowered(lv, o)
           less == Without(ord, id)
<1>2. /\ o.side \in Sides /\ o.price \in Prices /\ o.size \in Nat \ {0}
      /\ Live(ord) /\ DOMAIN lv = Sides
      /\ \A s \in Sides : Level(lv[s]) /\ \A p \in Prices : AddsUp(ord, lv[s], s, p)
  BY DEF LiveOrder, Book
<1>3. /\ DOMAIN new = Sides /\ new[o.side] = level
      /\ \A s \in Sides : s # o.side => new[s] = lv[s]
  BY <1>2 DEF Lowered
<1>4. Live(less) /\ DOMAIN less = DOMAIN ord \ {id} /\ Adds(less, ord, id, o)
  BY <1>1, <1>2, ContractsWithout
<1>5. /\ o.price \in DOMAIN lv[o.side]
      /\ lv[o.side][o.price] = Cardinality(ContractsIn(less, o.side, o.price)) + o.size
  BY <1>2, <1>4 DEF AddsUp, Adds
<1>6. /\ Cardinality(ContractsIn(less, o.side, o.price)) \in Nat
      /\ Cardinality(ContractsIn(less, o.side, o.price)) = 0 <=> AtIn(less, o.side, o.price) = {}
  BY <1>4, ContractsCount
<1>7. /\ AtIn(less, o.side, o.price) = {} => level = Without(lv[o.side], o.price)
      /\ AtIn(less, o.side, o.price) # {} =>
           level = With(lv[o.side], o.price, Cardinality(ContractsIn(less, o.side, o.price)))
  <2>1. lv[o.side][o.price] <= o.size <=> AtIn(less, o.side, o.price) = {}
    BY <1>2, <1>5, <1>6
  <2>2. lv[o.side][o.price] - o.size = Cardinality(ContractsIn(less, o.side, o.price))
    BY <1>2, <1>5, <1>6
  <2> QED
    BY <1>5, <2>1, <2>2 DEF LevelSub
<1>8. /\ AtIn(less, o.side, o.price) = {} => DOMAIN level = DOMAIN lv[o.side] \ {o.price}
      /\ AtIn(less, o.side, o.price) # {} =>
           /\ DOMAIN level = DOMAIN lv[o.side]
           /\ level[o.price] = Cardinality(ContractsIn(less, o.side, o.price))
      /\ \A p \in DOMAIN lv[o.side] : p # o.price => level[p] = lv[o.side][p]
  BY <1>5, <1>7 DEF With, Without
<1> HIDE DEF level, new, less
<1>9. LevelWent(lv, new, o)
  BY <1>3, <1>5, <1>8 DEF LevelWent
<1>10. ASSUME NEW s \in Sides PROVE Level(new[s])
  <2>1. Level(lv[s]) /\ DOMAIN new[s] \in SUBSET DOMAIN lv[s]
    BY <1>2, <1>9 DEF LevelWent
  <2> QED
    BY <2>1, FS_Subset DEF Level
<1>11. ASSUME NEW s \in Sides, NEW p \in Prices PROVE AddsUp(less, new[s], s, p)
  <2>0. AddsUp(ord, lv[s], s, p)
    BY <1>2
  <2>1. CASE s = o.side /\ p = o.price
    BY <1>3, <1>5, <1>8, <2>1 DEF AddsUp
  <2>2. CASE ~(s = o.side /\ p = o.price)
    <3>1. AtIn(less, s, p) = AtIn(ord, s, p) /\ ContractsIn(less, s, p) = ContractsIn(ord, s, p)
      BY <1>4, <2>2 DEF Adds
    <3>2. /\ p \in DOMAIN new[s] <=> p \in DOMAIN lv[s]
          /\ p \in DOMAIN lv[s] => new[s][p] = lv[s][p]
      BY <1>3, <1>8, <2>2
    <3> QED
      BY <2>0, <3>1, <3>2 DEF AddsUp
  <2> QED
    BY <2>1, <2>2
<1> QED
  BY <1>0, <1>1, <1>3, <1>4, <1>9, <1>10, <1>11 DEF Book, new, less

-----------------------------------------------------------------------------
(* What a record of the feed is, whatever the orders that are live.         *)
FitsOrders(ord, e) ==
  \/ /\ e.action = "A" /\ e.id \in OrderIds \ DOMAIN ord
     /\ [price |-> e.price, size |-> e.size, side |-> e.side] \in LiveOrder
  \/ /\ e.action = "M" /\ e.id \in DOMAIN ord
     /\ [price |-> e.price, size |-> e.size, side |-> e.side] \in LiveOrder
  \/ e.action \in {"C", "F"} /\ e.id \in DOMAIN ord /\ e.size \in Nat
  \/ e.action \in {"C", "F", "M"} /\ e.id \notin OrderIds
  \/ e.action \in {"T", "N", "R"}

LEMMA FeedFits ==
  ASSUME NEW e \in Feed
  PROVE  FitsOrders(orders, e)
  BY BookAssumption DEF Feed, Record, FitsOrders, LiveOrder

Wider(lv, new)    == \A s \in Sides : DOMAIN lv[s] \subseteq DOMAIN new[s]
SameLevels(lv, new) == \A s \in Sides : DOMAIN lv[s] = DOMAIN new[s]

(* A record keeps the book adding up. An add takes no level away, a cancel  *)
(* or a fill brings none, and a trade, an action that is not known and a    *)
(* record of an order that is not live change none.                         *)
LEMMA ApplyAddsUp ==
  ASSUME NEW ord, NEW lv, Book(ord, lv), NEW e, FitsOrders(ord, e)
  PROVE  LET new == Apply([orders |-> ord, levels |-> lv], e)
         IN  /\ Book(new.orders, new.levels)
             /\ e.action = "A" => Wider(lv, new.levels)
             /\ e.action \in {"C", "F"} => Wider(new.levels, lv)
             /\ e.action \in {"T", "N"} => SameLevels(lv, new.levels)
<1> DEFINE bk == [orders |-> ord, levels |-> lv]
           new == Apply(bk, e)
           o == [price |-> e.price, size |-> e.size, side |-> e.side]
           rest == Remove(bk, e.id)
<1>1. bk.orders = ord /\ bk.levels = lv /\ Live(ord) /\ DOMAIN ord \subseteq OrderIds
  BY DEF Book, Live
<1>2. ASSUME NEW b, Book(b.orders, b.levels), NEW id \in OrderIds \ DOMAIN b.orders,
             NEW x \in LiveOrder
      PROVE  /\ Book(Place(b, id, x).orders, Place(b, id, x).levels)
             /\ LevelCame(b.levels, Place(b, id, x).levels, x)
  <2>1. Place(b, id, x).orders = With(b.orders, id, x) /\ Place(b, id, x).levels = Raised(b.levels, x)
    BY DEF Place, Raised
  <2> QED
    BY <1>2, <2>1, PlaceAddsUp
<1>3. ASSUME e.id \in DOMAIN ord
      PROVE  /\ Book(rest.orders, rest.levels) /\ e.id \in OrderIds \ DOMAIN rest.orders
             /\ ord[e.id] \in LiveOrder /\ LevelWent(lv, rest.levels, ord[e.id])
  <2>1. rest.orders = Without(ord, e.id) /\ rest.levels = Lowered(lv, ord[e.id])
    BY DEF Remove, Lowered
  <2> HIDE DEF rest
  <2>2. /\ Book(Without(ord, e.id), Lowered(lv, ord[e.id]))
        /\ DOMAIN Without(ord, e.id) = DOMAIN ord \ {e.id}
        /\ e.id \in OrderIds /\ ord[e.id] \in LiveOrder
        /\ LevelWent(lv, Lowered(lv, ord[e.id]), ord[e.id])
    BY <1>3, RemoveAddsUp, Zenon
  <2> QED
    BY <2>1, <2>2
<1>4. CASE e.action = "A" /\ e.id \in OrderIds \ DOMAIN ord /\ o \in LiveOrder
  <2>1. new = Place(bk, e.id, o)
    BY <1>4 DEF Apply
  <2> HIDE DEF new, bk, o
  <2>2. Book(new.orders, new.levels) /\ LevelCame(lv, new.levels, o)
    BY <1>1, <1>2, <1>4, <2>1
  <2> QED
    BY <1>4, <2>2 DEF LevelCame, Wider, new, bk
<1>5. CASE e.action = "M" /\ e.id \in DOMAIN ord /\ o \in LiveOrder
  <2>1. new = Place(rest, e.id, o)
    BY <1>5 DEF Apply, Modify
  <2> HIDE DEF new, rest, o
  <2>2. Book(new.orders, new.levels)
    BY <1>2, <1>3, <1>5, <2>1
  <2> QED
    BY <1>5, <2>2 DEF new
<1>6. CASE e.action = "C" /\ e.id \in DOMAIN ord
  <2>1. new = rest
    BY <1>6 DEF Apply
  <2> HIDE DEF new, rest
  <2> QED
    BY <1>3, <1>6, <2>1 DEF LevelWent, Wider, new
<1>7. CASE e.action = "F" /\ e.id \in DOMAIN ord /\ e.size = 0
  <2>1. new = rest
    BY <1>7 DEF Apply, Fill
  <2> HIDE DEF new, rest
  <2> QED
    BY <1>3, <1>7, <2>1 DEF LevelWent, Wider, new
<1>8. CASE e.action = "F" /\ e.id \in DOMAIN ord /\ e.size \in Nat \ {0}
  <2> DEFINE x == [ord[e.id] EXCEPT !.size = e.size]
  <2>1. new = Place(rest, e.id, x)
    BY <1>8 DEF Apply, Fill
  <2>2. x \in LiveOrder /\ x.side = ord[e.id].side /\ x.price = ord[e.id].price
    BY <1>3, <1>8 DEF LiveOrder
  <2> HIDE DEF new, rest, x
  <2>3. Book(new.orders, new.levels) /\ LevelCame(rest.levels, new.levels, x)
    BY <1>2, <1>3, <1>8, <2>1, <2>2
  <2>4. Wider(new.levels, lv)
    BY <1>3, <1>8, <2>2, <2>3 DEF Wider, LevelCame, LevelWent
  <2> QED
    BY <1>8, <2>3, <2>4 DEF new
<1>9. CASE e.action \in {"C", "F", "M"} /\ e.id \notin OrderIds
  <2>1. new = bk
    BY <1>1, <1>9 DEF Apply
  <2> QED
    BY <1>9, <2>1 DEF Wider
<1>10. CASE e.action \in {"T", "N"}
  <2>1. new = bk
    BY <1>10 DEF Apply
  <2> QED
    BY <1>10, <2>1 DEF SameLevels
<1>11. CASE e.action = "R"
  <2>1. new.orders = NoOrders /\ new.levels = NoLevels
    BY <1>11 DEF Apply, Emptied
  <2>2. Book(NoOrders, NoLevels)
    <3>1. DOMAIN NoOrders = {} /\ NoOrders \in [{} -> LiveOrder]
      BY DEF NoOrders
    <3>2. /\ DOMAIN NoLevels = Sides
          /\ \A s \in Sides : DOMAIN NoLevels[s] = {}
      BY DEF NoLevels
    <3>3. \A s \in Sides : Level(NoLevels[s])
      BY <3>2, FS_EmptySet DEF Level
    <3> QED
      BY <3>1, <3>2, <3>3 DEF Book, Live, AddsUp, AtIn
  <2> QED
    BY <1>11, <2>1, <2>2
<1> QED
  BY <1>4, <1>5, <1>6, <1>7, <1>8, <1>9, <1>10, <1>11 DEF FitsOrders

-----------------------------------------------------------------------------
(* A finite set of prices has a largest and a smallest: a smallest set      *)
(* without them would have one without them that is smaller.                *)
HasEnds(T) == \E hi, lo \in T : \A x \in T : x <= hi /\ lo <= x

LEMMA Ends ==
  ASSUME NEW S \in SUBSET Int, IsFiniteSet(S), S # {}
  PROVE  HasEnds(S)
<1> DEFINE Endless == {T \in SUBSET S : T # {} /\ ~HasEnds(T)}
           Counts == {Cardinality(T) : T \in Endless}
<1>1. \A T \in SUBSET S : IsFiniteSet(T) /\ Cardinality(T) \in Nat
  BY FS_Subset, FS_CardinalityType
<1>2. CASE Counts # {}
  <2>1. Counts \in SUBSET Nat
    BY <1>1
  <2>2. PICK n \in Counts : \A m \in Counts : <<m, n>> \notin OpToRel(<, Nat)
    <3> HIDE DEF Counts
    <3> QED
      BY <1>2, <2>1, WFMin, NatLessThanWellFounded, Zenon
  <2>3. \A m \in Counts : ~(m < n)
    BY <2>1, <2>2, Zenon DEF OpToRel
  <2>4. PICK T \in Endless : Cardinality(T) = n
    OBVIOUS
  <2>5. PICK x \in T : TRUE
    OBVIOUS
  <2>6. Cardinality(T \ {x}) = Cardinality(T) - 1
    BY <1>1, <2>5, FS_RemoveElement
  <2>7. T \ {x} \notin Endless
    <3>1. Cardinality(T) \in Nat
      BY <1>1, <2>4
    <3>2. Cardinality(T \ {x}) < n
      BY <2>4, <2>6, <3>1
    <3>3. ASSUME T \ {x} \in Endless PROVE Cardinality(T \ {x}) \in Counts
      BY <3>3
    <3> HIDE DEF Endless, Counts
    <3> QED
      BY <2>3, <3>2, <3>3
  <2>8. T \subseteq Int /\ ~HasEnds(T)
    OBVIOUS
  <2>9. CASE T \ {x} = {}
    <3>1. \A y \in T : y = x
      BY <2>9
    <3> QED
      BY <2>5, <2>8, <3>1 DEF HasEnds
  <2>10. CASE T \ {x} # {}
    <3>1. HasEnds(T \ {x})
      BY <2>7, <2>10
    <3>2. PICK hi \in T \ {x}, lo \in T \ {x} : \A y \in T \ {x} : y <= hi /\ lo <= y
      BY <3>1 DEF HasEnds
    <3>3. x \in Int /\ hi \in Int /\ lo \in Int /\ hi \in T /\ lo \in T
      BY <2>5, <2>8
    <3> DEFINE top == IF hi <= x THEN x ELSE hi
               low == IF x <= lo THEN x ELSE lo
    <3>4. top \in T /\ low \in T /\ x <= top /\ hi <= top /\ low <= x /\ low <= lo
      BY <2>5, <3>3
    <3>5. ASSUME NEW y \in T PROVE y <= top /\ low <= y
      <4>1. CASE y = x
        BY <3>4, <4>1
      <4>2. CASE y # x
        <5>1. y <= hi /\ lo <= y /\ y \in Int
          BY <2>8, <3>2, <4>2
        <5>2. top \in Int /\ low \in Int
          BY <2>8, <3>4
        <5> HIDE DEF top, low
        <5> QED
          BY <3>3, <3>4, <5>1, <5>2
      <4> QED
        BY <4>1, <4>2
    <3> QED
      BY <2>8, <3>4, <3>5 DEF HasEnds
  <2> QED
    BY <2>9, <2>10
<1> QED
  BY <1>2

(* The best price of a side is one of its levels, and no level is better.   *)
Worse(s, p, q) == IF s = "B" THEN p <= q ELSE q <= p

Quotes == [price : Prices, size : Nat]

LEMMA BestIsBest ==
  ASSUME NEW ord, NEW lv, Book(ord, lv), NEW s \in Sides
  PROVE  LET b == Top(lv)[s]
         IN  /\ DOMAIN lv[s] = {} => b = None
             /\ DOMAIN lv[s] # {} => /\ b \in Quotes /\ b # None /\ b.price \in DOMAIN lv[s]
                                     /\ \A p \in DOMAIN lv[s] : Worse(s, p, b.price)
<1> DEFINE D == DOMAIN lv[s]
           b == Best(s, lv[s])
<1>1. Top(lv)[s] = b
  BY DEF Top
<1>2. D \subseteq Prices /\ IsFiniteSet(D) /\ \A p \in D : lv[s][p] \in Nat
  <2>1. Level(lv[s]) /\ Live(ord) /\ \A p \in Prices : AddsUp(ord, lv[s], s, p)
    BY DEF Book
  <2>2. \A p \in Prices : Cardinality(ContractsIn(ord, s, p)) \in Nat
    BY <2>1, ContractsCount
  <2> QED
    BY <2>1, <2>2 DEF Level, AddsUp
<1>3. CASE D = {}
  BY <1>1, <1>3 DEF Best
<1>4. CASE D # {}
  <2>1. PICK hi \in D, lo \in D : \A p \in D : p <= hi /\ lo <= p
    <3>1. D \in SUBSET Int
      BY <1>2, BookAssumption
    <3>2. HasEnds(D)
      BY <1>2, <1>4, <3>1, Ends
    <3> QED
      BY <3>2 DEF HasEnds
  <2> DEFINE IsBest(q) == \A r \in D : IF s = "B" THEN r <= q ELSE q <= r
             p == CHOOSE q \in D : IsBest(q)
  <2>2. \E q \in D : IsBest(q)
    <3>1. CASE s = "B"
      BY <2>1, <3>1
    <3>2. CASE s # "B"
      BY <2>1, <3>2
    <3> QED
      BY <3>1, <3>2
  <2>3. p \in D /\ IsBest(p)
    <3> HIDE DEF IsBest
    <3> QED
      BY <2>2
  <2>4. b = [price |-> p, size |-> lv[s][p]]
    BY <1>4 DEF Best
  <2> HIDE DEF p
  <2>5. b \in Quotes /\ b.price = p
    BY <1>2, <2>3, <2>4 DEF Quotes
  <2>6. b # None
    BY <2>5, BookAssumption DEF Quotes
  <2> QED
    BY <1>1, <1>4, <2>3, <2>5, <2>6 DEF Worse
<1> QED
  BY <1>3, <1>4

(* More levels never make the best price worse, and the same levels have    *)
(* the same.                                                                *)
TopType(top) == \A s \in Sides : top[s] \in Quotes \cup {None}

LEMMA TopTyped ==
  ASSUME NEW ord, NEW lv, Book(ord, lv)
  PROVE  TopType(Top(lv))
<1> SUFFICES ASSUME NEW s \in Sides PROVE Top(lv)[s] \in Quotes \cup {None}
  BY DEF TopType
<1> QED
  BY BestIsBest

AllNoWorse(old, new) == \A s \in Sides : NoWorse(s, old[s], new[s])

LEMMA WiderIsNoWorse ==
  ASSUME NEW ord, NEW lv, Book(ord, lv), NEW ordnew, NEW lvnew, Book(ordnew, lvnew),
         Wider(lv, lvnew)
  PROVE  AllNoWorse(Top(lv), Top(lvnew))
<1> SUFFICES ASSUME NEW s \in Sides, Top(lv)[s] # None
             PROVE  /\ Top(lvnew)[s] # None
                    /\ Worse(s, Top(lv)[s].price, Top(lvnew)[s].price)
  BY DEF AllNoWorse, NoWorse, Worse
<1>1. Top(lv)[s].price \in DOMAIN lv[s]
  BY BestIsBest
<1>2. Top(lv)[s].price \in DOMAIN lvnew[s]
  BY <1>1 DEF Wider
<1>3. /\ Top(lvnew)[s] # None
      /\ \A p \in DOMAIN lvnew[s] : Worse(s, p, Top(lvnew)[s].price)
  BY <1>2, BestIsBest
<1> QED
  BY <1>2, <1>3

LEMMA NoWorseOrders ==
  ASSUME NEW a, NEW b, NEW c, TopType(a), TopType(b), TopType(c)
  PROVE  /\ AllNoWorse(a, b) /\ AllNoWorse(b, c) => AllNoWorse(a, c)
         /\ AllNoWorse(a, b) /\ AllNoWorse(b, a) => SamePrices(a, b)
         /\ SamePrices(a, b) => AllNoWorse(a, b)
         /\ SamePrices(a, b) => AllNoWorse(b, a)
<1> SUFFICES ASSUME NEW s \in Sides
             PROVE  /\ NoWorse(s, a[s], b[s]) /\ NoWorse(s, b[s], c[s]) => NoWorse(s, a[s], c[s])
                    /\ NoWorse(s, a[s], b[s]) /\ NoWorse(s, b[s], a[s])
                         => PriceOf(a[s]) = PriceOf(b[s])
                    /\ PriceOf(a[s]) = PriceOf(b[s])
                         => NoWorse(s, a[s], b[s]) /\ NoWorse(s, b[s], a[s])
  BY DEF AllNoWorse, SamePrices
<1>1. \A x \in {a, b, c} : x[s] # None => x[s].price \in Int /\ x[s].price # None
  BY BookAssumption DEF TopType, Quotes
<1> QED
  BY <1>1 DEF NoWorse, PriceOf

-----------------------------------------------------------------------------
(* Inside a batch: if only adds moved the top since the last commit, the    *)
(* top is no worse than then, and if only cancels, trades and fills did, no *)
(* better. A clear moves it without leaving a mark.                         *)
Names == {"AggressiveTrade", "Cancel", "NewLevel", "Modify"}

Marks ==
  /\ mask \subseteq Names /\ TopType(prev)
  /\ batch.closed => mask = {} /\ prev = Top(levels)
  /\ batch.closed \/ ~batch.clear =>
       /\ mask \subseteq {"NewLevel"} => AllNoWorse(prev, Top(levels))
       /\ mask \subseteq {"Cancel", "AggressiveTrade"} => AllNoWorse(Top(levels), prev)

BookInv == Book(orders, levels) /\ Marks

LEMMA CauseIsOne ==
  ASSUME NEW kinds \in SUBSET Names
  PROVE  /\ kinds # {} => Cause(kinds) # "None"
         /\ \A k \in Names : Cause(kinds) = k => kinds = {k}
<1>1. IsFiniteSet(Names)
  <2>1. IsFiniteSet({"AggressiveTrade"}) /\ IsFiniteSet({"Cancel"})
        /\ IsFiniteSet({"NewLevel"}) /\ IsFiniteSet({"Modify"})
    BY FS_Singleton
  <2>2. IsFiniteSet({"AggressiveTrade"} \cup {"Cancel"})
        /\ IsFiniteSet({"NewLevel"} \cup {"Modify"})
    BY <2>1, FS_Union
  <2>3. IsFiniteSet(({"AggressiveTrade"} \cup {"Cancel"}) \cup ({"NewLevel"} \cup {"Modify"}))
    BY <2>2, FS_Union
  <2>4. Names = ({"AggressiveTrade"} \cup {"Cancel"}) \cup ({"NewLevel"} \cup {"Modify"})
    BY DEF Names
  <2> QED
    BY <2>3, <2>4
<1>2. IsFiniteSet(kinds) /\ Cardinality(kinds) \in Nat
  BY <1>1, FS_Subset, FS_CardinalityType
<1>3. CASE kinds = {}
  BY <1>3 DEF Cause, Names
<1>4. CASE Cardinality(kinds) > 1
  <2>1. kinds # {}
    BY <1>2, <1>4, FS_EmptySet
  <2> QED
    BY <1>4, <2>1 DEF Cause, Names
<1>5. CASE kinds # {} /\ ~(Cardinality(kinds) > 1)
  <2>1. Cardinality(kinds) # 0
    BY <1>2, <1>5, FS_EmptySet
  <2>2. Cardinality(kinds) = 1
    BY <1>2, <1>5, <2>1
  <2>3. PICK k : kinds = {k}
    BY <1>2, <2>2, FS_Singleton
  <2>4. Cause(kinds) = k /\ k \in Names
    BY <1>5, <2>3 DEF Cause
  <2> QED
    BY <2>3, <2>4 DEF Names
<1> QED
  BY <1>3, <1>4, <1>5

(* What a record does to the top, and which mark it leaves.                 *)
LEMMA RecordMoves ==
  ASSUME BookInv, NEW e \in Feed,
         NEW kinds, kinds = mask \cup Moved(e, Top(levels), Top(Apply([orders |-> orders, levels |-> levels], e).levels)),
         NEW lv, lv = Apply([orders |-> orders, levels |-> levels], e).levels,
         NEW ord, ord = Apply([orders |-> orders, levels |-> levels], e).orders
  PROVE  /\ Book(ord, lv) /\ kinds \subseteq Names
         /\ e.action # "R" /\ (batch.closed \/ ~batch.clear) =>
              /\ kinds \subseteq {"NewLevel"} => AllNoWorse(prev, Top(lv))
              /\ kinds \subseteq {"Cancel", "AggressiveTrade"} => AllNoWorse(Top(lv), prev)
<1>1. /\ Book(ord, lv)
      /\ e.action = "A" => Wider(levels, lv)
      /\ e.action \in {"C", "F"} => Wider(lv, levels)
      /\ e.action \in {"T", "N"} => SameLevels(levels, lv)
  BY FeedFits, ApplyAddsUp DEF BookInv
<1>2. e.action \in {"A", "C", "M", "F", "T", "N", "R"}
  BY FeedFits DEF FitsOrders
<1>3. Kind(e.action) \subseteq Names /\ mask \subseteq Names /\ kinds = mask \cup Moved(e, Top(levels), Top(lv))
  BY <1>2 DEF Kind, Names, BookInv, Marks
<1>4. kinds \subseteq Names
  BY <1>3 DEF Moved
<1>5. TopType(prev) /\ TopType(Top(levels)) /\ TopType(Top(lv))
  BY <1>1, TopTyped DEF BookInv, Marks
<1>6. /\ e.action \in {"A", "T", "N"} => AllNoWorse(Top(levels), Top(lv))
      /\ e.action \in {"C", "F", "T", "N"} => AllNoWorse(Top(lv), Top(levels))
      /\ SamePrices(Top(levels), Top(lv)) => /\ AllNoWorse(Top(levels), Top(lv))
                                             /\ AllNoWorse(Top(lv), Top(levels))
  <2>1. Wider(levels, lv) => AllNoWorse(Top(levels), Top(lv))
    BY <1>1, WiderIsNoWorse DEF BookInv
  <2>2. Wider(lv, levels) => AllNoWorse(Top(lv), Top(levels))
    BY <1>1, WiderIsNoWorse DEF BookInv
  <2>3. SameLevels(levels, lv) => Wider(levels, lv) /\ Wider(lv, levels)
    BY DEF SameLevels, Wider
  <2>4. SamePrices(Top(levels), Top(lv)) => /\ AllNoWorse(Top(levels), Top(lv))
                                            /\ AllNoWorse(Top(lv), Top(levels))
    BY <1>5, NoWorseOrders
  <2> QED
    BY <1>1, <2>1, <2>2, <2>3, <2>4
<1>7. ASSUME e.action # "R", batch.closed \/ ~batch.clear, kinds \subseteq {"NewLevel"}
      PROVE  AllNoWorse(prev, Top(lv))
  <2>1. AllNoWorse(prev, Top(levels))
    BY <1>3, <1>7 DEF BookInv, Marks
  <2>2. AllNoWorse(Top(levels), Top(lv))
    <3>1. CASE SamePrices(Top(levels), Top(lv))
      BY <1>6, <3>1
    <3>2. CASE ~SamePrices(Top(levels), Top(lv))
      <4>1. Kind(e.action) \subseteq {"NewLevel"}
        BY <1>3, <1>7, <3>2 DEF Moved
      <4>2. e.action \in {"A", "N"}
        BY <1>2, <1>7, <4>1 DEF Kind
      <4> QED
        BY <1>6, <4>2
    <3> QED
      BY <3>1, <3>2
  <2> QED
    BY <1>5, <2>1, <2>2, NoWorseOrders
<1>8. ASSUME e.action # "R", batch.closed \/ ~batch.clear,
             kinds \subseteq {"Cancel", "AggressiveTrade"}
      PROVE  AllNoWorse(Top(lv), prev)
  <2>1. AllNoWorse(Top(levels), prev)
    BY <1>3, <1>8 DEF BookInv, Marks
  <2>2. AllNoWorse(Top(lv), Top(levels))
    <3>1. CASE SamePrices(Top(levels), Top(lv))
      BY <1>6, <3>1
    <3>2. CASE ~SamePrices(Top(levels), Top(lv))
      <4>1. Kind(e.action) \subseteq {"Cancel", "AggressiveTrade"}
        BY <1>3, <1>8, <3>2 DEF Moved
      <4>2. e.action \in {"C", "F", "T", "N"}
        BY <1>2, <1>8, <4>1 DEF Kind
      <4> QED
        BY <1>6, <4>2
    <3> QED
      BY <3>1, <3>2
  <2> QED
    BY <1>5, <2>1, <2>2, NoWorseOrders
<1> QED
  BY <1>1, <1>4, <1>7, <1>8

(* Every record keeps the book adding up and the marks telling what they    *)
(* say; BookInv is inductive.                                               *)
LEMMA BookIsInvariant == Spec => []BookInv
<1>1. Init => BookInv
  <2> SUFFICES ASSUME Init PROVE BookInv
    OBVIOUS
  <2>1. Book(NoOrders, NoLevels)
    <3>1. DOMAIN NoOrders = {} /\ NoOrders \in [{} -> LiveOrder]
      BY DEF NoOrders
    <3>2. DOMAIN NoLevels = Sides /\ \A s \in Sides : DOMAIN NoLevels[s] = {}
      BY DEF NoLevels
    <3>3. \A s \in Sides : Level(NoLevels[s])
      BY <3>2, FS_EmptySet DEF Level
    <3> QED
      BY <3>1, <3>2, <3>3 DEF Book, Live, AddsUp, AtIn
  <2>2. Top(NoLevels) = NoTop
    BY DEF Top, Best, NoLevels, NoTop
  <2>3. TopType(NoTop)
    BY DEF TopType, NoTop
  <2>4. AllNoWorse(NoTop, NoTop)
    BY DEF AllNoWorse, NoWorse, NoTop
  <2> QED
    BY <2>1, <2>2, <2>3, <2>4 DEF Init, BookInv, Marks
<1>2. BookInv /\ [Next]_vars => BookInv'
  <2> SUFFICES ASSUME BookInv, [Next]_vars PROVE BookInv'
    OBVIOUS
  <2>1. CASE UNCHANGED vars
    <3>1. UNCHANGED <<orders, levels, mask, prev, batch>>
      BY <2>1 DEF vars
    <3>2. Book(orders, levels)'
      BY <3>1 DEF BookInv, Book, Live, AddsUp, AtIn, ContractsIn, Level
    <3>3. Top(levels)' = Top(levels)
      BY <3>1 DEF Top, Best
    <3>4. Marks'
      BY <3>1, <3>3 DEF BookInv, Marks, TopType, AllNoWorse
    <3> QED
      BY <3>2, <3>4 DEF BookInv
  <2>2. ASSUME NEW e \in Feed, ProcessEvent(e)
        PROVE  BookInv'
    <3> DEFINE bk == Apply([orders |-> orders, levels |-> levels], e)
    <3>1. PICK lv : lv = bk.levels
      OBVIOUS
    <3>2. PICK ord : ord = bk.orders
      OBVIOUS
    <3>3. PICK kinds : kinds = mask \cup Moved(e, Top(levels), Top(bk.levels))
      OBVIOUS
    <3>4. /\ Book(ord, lv) /\ kinds \subseteq Names
          /\ e.action # "R" /\ (batch.closed \/ ~batch.clear) =>
               /\ kinds \subseteq {"NewLevel"} => AllNoWorse(prev, Top(lv))
               /\ kinds \subseteq {"Cancel", "AggressiveTrade"} => AllNoWorse(Top(lv), prev)
      BY <3>1, <3>2, <3>3, RecordMoves
    <3>5. /\ orders' = ord /\ levels' = lv
          /\ batch' = [clear |-> e.action = "R" \/ (~batch.closed /\ batch.clear), closed |-> e.last]
          /\ e.last => prev' = Top(lv) /\ mask' = {}
          /\ ~e.last => prev' = prev /\ mask' = kinds
      BY <2>2, <3>1, <3>2, <3>3 DEF ProcessEvent, Commit
    <3>6. TopType(Top(lv)) /\ AllNoWorse(Top(lv), Top(lv))
      BY <3>4, TopTyped, NoWorseOrders DEF SamePrices
    <3>7. Book(orders, levels)'
      BY <3>4, <3>5 DEF Book, Live, AddsUp, AtIn, ContractsIn, Level
    <3>8. Top(levels)' = Top(lv)
      BY <3>5 DEF Top, Best
    <3>9. CASE e.last
      <4>1. prev' = Top(lv) /\ mask' = {} /\ batch'.closed = e.last
        BY <3>5, <3>9
      <4> QED
        BY <3>6, <3>7, <3>8, <3>9, <4>1 DEF BookInv, Marks, TopType, AllNoWorse
    <3>10. CASE ~e.last
      <4>1. /\ prev' = prev /\ mask' = kinds /\ batch'.closed = e.last
            /\ batch'.clear = (e.action = "R" \/ (~batch.closed /\ batch.clear))
        BY <3>5, <3>10
      <4>2. TopType(prev)
        BY DEF BookInv, Marks
      <4> QED
        BY <3>4, <3>7, <3>8, <3>10, <4>1, <4>2 DEF BookInv, Marks, TopType, AllNoWorse
    <3> QED
      BY <3>9, <3>10
  <2> QED
    BY <2>1, <2>2 DEF Next
<1> QED
  BY <1>1, <1>2, PTL DEF Spec

-----------------------------------------------------------------------------
(* The tokenizer feeds its book one record at a time and never touches it   *)
(* otherwise, so what holds of any feed holds of the books it keeps.        *)
LEMMA TokenizerFeeds == TokenizerSpec => Spec
<1>1. TokenizerInit => Init
  BY DEF TokenizerInit
<1>2. [TokenizerNext]_all => [Next]_vars
  BY DEF TokenizerNext, FeedEvent, SkipInstrument, OpenFile, CloseFile, DecodeError, Write,
         Next, all
<1> QED
  BY <1>1, <1>2, PTL DEF TokenizerSpec, Spec

(* The levels are always what the live orders add up to (lib.rs:281-330),   *)
(* in the book alone and through all the files of a run of the tokenizer.   *)
THEOREM LevelsAreTheOrders ==
  /\ Spec => []LevelsAggregateOrders
  /\ TokenizerSpec => []LevelsAggregateOrders
<1>1. BookInv => LevelsAggregateOrders
  <2> SUFFICES ASSUME BookInv, NEW s \in Sides, NEW p \in Prices
               PROVE  IF At(s, p) = {} THEN p \notin DOMAIN levels[s]
                      ELSE /\ p \in DOMAIN levels[s]
                           /\ levels[s][p] = Cardinality(Contracts(s, p))
    BY DEF LevelsAggregateOrders
  <2>1. AddsUp(orders, levels[s], s, p)
    BY DEF BookInv, Book
  <2>2. At(s, p) = AtIn(orders, s, p) /\ Contracts(s, p) = ContractsIn(orders, s, p)
    BY DEF At, AtIn, Contracts, ContractsIn
  <2> QED
    BY <2>1, <2>2 DEF AddsUp
<1> QED
  BY <1>1, BookIsInvariant, TokenizerFeeds, PTL

(* The cause that a commit reports explains how the best prices moved since *)
(* the last one (lib.rs:166-185, flow.rs:226-303), whatever came and went   *)
(* behind them in between.                                                  *)
THEOREM CausesExplainMoves ==
  /\ Spec => CauseExplainsMove
  /\ TokenizerSpec => CauseExplainsMove
<1> DEFINE Explained ==
      batch'.closed /\ ~batch'.clear =>
        /\ flow'.cause = "NewLevel" => \A s \in Sides : NoWorse(s, prev[s], prev'[s])
        /\ flow'.cause \in {"Cancel", "AggressiveTrade"} =>
             \A s \in Sides : NoWorse(s, prev'[s], prev[s])
        /\ flow'.cause = "None" <=> SamePrices(prev, prev')
<1>1. BookInv /\ [Next]_vars => [Explained]_vars
  <2> SUFFICES ASSUME BookInv, NEW e \in Feed, ProcessEvent(e), batch'.closed, ~batch'.clear
               PROVE  /\ flow'.cause = "NewLevel" => \A s \in Sides : NoWorse(s, prev[s], prev'[s])
                      /\ flow'.cause \in {"Cancel", "AggressiveTrade"} =>
                           \A s \in Sides : NoWorse(s, prev'[s], prev[s])
                      /\ flow'.cause = "None" <=> SamePrices(prev, prev')
    BY DEF Next
  <2> DEFINE bk == Apply([orders |-> orders, levels |-> levels], e)
  <2>1. PICK lv : lv = bk.levels
    OBVIOUS
  <2>2. PICK ord : ord = bk.orders
    OBVIOUS
  <2>3. PICK kinds : kinds = mask \cup Moved(e, Top(levels), Top(bk.levels))
    OBVIOUS
  <2>4. PICK new : new = Top(lv)
    OBVIOUS
  <2>5. batch' = [clear |-> e.action = "R" \/ (~batch.closed /\ batch.clear), closed |-> e.last]
    BY DEF ProcessEvent
  <2>6. e.last /\ e.action # "R" /\ (batch.closed \/ ~batch.clear)
    BY <2>5
  <2>7. /\ prev' = new
        /\ flow'.cause = IF SamePrices(prev, new) THEN "None" ELSE Cause(kinds)
    BY <2>1, <2>3, <2>4, <2>6 DEF ProcessEvent, Commit
  <2>8. /\ Book(ord, lv) /\ kinds \subseteq Names
        /\ kinds \subseteq {"NewLevel"} => AllNoWorse(prev, new)
        /\ kinds \subseteq {"Cancel", "AggressiveTrade"} => AllNoWorse(new, prev)
    BY <2>1, <2>2, <2>3, <2>4, <2>6, RecordMoves
  <2>9. TopType(prev) /\ TopType(new)
    BY <2>4, <2>8, TopTyped DEF BookInv, Marks
  <2>10. SamePrices(prev, new) => AllNoWorse(prev, new) /\ AllNoWorse(new, prev)
    BY <2>9, NoWorseOrders
  <2>11. AllNoWorse(prev, new) /\ AllNoWorse(new, prev) => SamePrices(prev, new)
    BY <2>9, NoWorseOrders
  <2>12. /\ kinds # {} => Cause(kinds) # "None"
         /\ Cause(kinds) = "NewLevel" => kinds = {"NewLevel"}
         /\ Cause(kinds) = "Cancel" => kinds = {"Cancel"}
         /\ Cause(kinds) = "AggressiveTrade" => kinds = {"AggressiveTrade"}
    BY <2>8, CauseIsOne DEF Names
  <2>13. /\ flow'.cause = "NewLevel" => AllNoWorse(prev, new)
         /\ flow'.cause \in {"Cancel", "AggressiveTrade"} => AllNoWorse(new, prev)
         /\ flow'.cause = "None" <=> SamePrices(prev, new)
    BY <2>7, <2>8, <2>10, <2>11, <2>12
  <2> QED
    BY <2>7, <2>13 DEF AllNoWorse
<1> QED
  BY <1>1, BookIsInvariant, TokenizerFeeds, PTL DEF Spec, CauseExplainsMove

-----------------------------------------------------------------------------
(* What the tokens say of a record.                                         *)
LEMMA BucketsRise ==
  /\ \A k \in 1 .. 9 : Buckets[k] \in Nat
  /\ \A j, k \in 1 .. 9 : Buckets[j] <= Buckets[k] <=> j <= k
BY DEF Buckets

(* A size is in the last bucket that begins no later.                       *)
LEMMA SizesRead ==
  ASSUME NEW n \in Nat
  PROVE  \E b \in 1 .. 9 : /\ EncodeSize(n) = Size0 + b - 1
                           /\ \A k \in 1 .. 9 : Buckets[k] <= n <=> k <= b
<1>1. \E b \in 1 .. 9 : \A k \in 1 .. 9 : Buckets[k] <= n <=> k <= b
  BY DEF Buckets
<1>2. PICK b \in 1 .. 9 : \A k \in 1 .. 9 : Buckets[k] <= n <=> k <= b
  BY <1>1
<1>3. {i \in 2 .. 9 : Buckets[i] <= n} = 2 .. b
  BY <1>2
<1>4. Cardinality(2 .. b) = b - 1
  BY FS_Interval
<1>5. Size0 \in Int
  BY TokenizerAssumption DEF Size0, NoRef, FarPos, PriceZero
<1>6. EncodeSize(n) = Size0 + b - 1
  <2>1. EncodeSize(n) = Size0 + Cardinality(2 .. b)
    BY <1>3 DEF EncodeSize
  <2> QED
    BY <1>4, <1>5, <2>1
<1> QED
  BY <1>2, <1>6

LEMMA SizesDecode ==
  ASSUME NEW n \in Nat, NEW k \in 1 .. 9
  PROVE  Buckets[k] <= n <=> Buckets[k] <= DecodeSize(EncodeSize(n))
<1>1. PICK b \in 1 .. 9 : /\ EncodeSize(n) = Size0 + b - 1
                          /\ \A j \in 1 .. 9 : Buckets[j] <= n <=> j <= b
  BY SizesRead
<1>2. Size0 \in Int
  BY TokenizerAssumption DEF Size0, NoRef, FarPos, PriceZero
<1>3. EncodeSize(n) - Size0 + 1 = b
  BY <1>1, <1>2
<1>4. DecodeSize(EncodeSize(n)) = Buckets[b]
  BY <1>3 DEF DecodeSize
<1> QED
  BY <1>1, <1>4, BucketsRise

LEMMA ActionsDecode ==
  /\ DOMAIN EncodeAction = {"A", "C", "M", "T", "F", "R"}
  /\ \A a \in DOMAIN EncodeAction :
       EncodeAction[a] \in 4 .. 9 /\ DecodeAction(EncodeAction[a]) = a
<1>1. DOMAIN EncodeAction = {"A", "C", "M", "T", "F", "R"}
  BY DEF EncodeAction
<1>2. /\ EncodeAction["A"] = 4 /\ EncodeAction["C"] = 5 /\ EncodeAction["M"] = 6
      /\ EncodeAction["T"] = 7 /\ EncodeAction["F"] = 8 /\ EncodeAction["R"] = 9
  BY DEF EncodeAction
<1>3. \A a, b \in DOMAIN EncodeAction : EncodeAction[a] = EncodeAction[b] => a = b
  BY <1>1, <1>2
<1>4. ASSUME NEW a \in DOMAIN EncodeAction PROVE DecodeAction(EncodeAction[a]) = a
  BY <1>3 DEF DecodeAction
<1> QED
  BY <1>1, <1>2, <1>4

LEMMA SidesDecode ==
  \A s \in {"B", "A", "N"} : EncodeSide(s) \in 10 .. 12 /\ DecodeSide(EncodeSide(s)) = s
<1>1. EncodeSide("B") = 10 /\ EncodeSide("A") = 11 /\ EncodeSide("N") = 12
  BY DEF EncodeSide
<1> QED
  BY <1>1 DEF DecodeSide
-----------------------------------------------------------------------------
(* Prices. *)
LEMMA Quotient ==
  ASSUME NEW a \in Nat, NEW b \in Nat \ {0}
  PROVE  a \div b \in Nat /\ b * (a \div b) <= a /\ a < b * (a \div b) + b
OBVIOUS

LEMMA Product ==
  ASSUME NEW b \in Nat \ {0}, NEW q \in Int, NEW r \in Int, q < r
  PROVE  b * q + b <= b * r
<1>1. b * (r - q - 1) >= 0
  OBVIOUS
<1>2. b * (r - q - 1) = b * r - b * q - b
  OBVIOUS
<1> QED
  BY <1>1, <1>2

LEMMA RoundedIsNear ==
  ASSUME NEW n \in Int, NEW d \in Nat \ {0}
  PROVE  /\ Rounded(n, d) \in Int /\ d * Rounded(n, d) \in Int
         /\ n >= 0 => 2 * n - d < 2 * (d * Rounded(n, d)) /\ 2 * (d * Rounded(n, d)) <= 2 * n + d
         /\ n < 0 => 2 * n - d <= 2 * (d * Rounded(n, d)) /\ 2 * (d * Rounded(n, d)) < 2 * n + d
<1>1. CASE n >= 0
  <2> DEFINE q == (2 * n + d) \div (2 * d)
  <2>1. 2 * n + d \in Nat /\ 2 * d \in Nat \ {0}
    BY <1>1
  <2>2. q \in Nat /\ (2 * d) * q <= 2 * n + d /\ 2 * n + d < (2 * d) * q + 2 * d
    BY <2>1, Quotient
  <2>3. Rounded(n, d) = q
    BY <1>1 DEF Rounded
  <2> HIDE DEF q
  <2>4. (2 * d) * q = 2 * (d * q) /\ d * q \in Int
    BY <2>2
  <2> QED
    BY <1>1, <2>2, <2>3, <2>4
<1>2. CASE n < 0
  <2> DEFINE q == (d - 2 * n) \div (2 * d)
  <2>1. d - 2 * n \in Nat /\ 2 * d \in Nat \ {0}
    BY <1>2
  <2>2. q \in Nat /\ (2 * d) * q <= d - 2 * n /\ d - 2 * n < (2 * d) * q + 2 * d
    BY <2>1, Quotient
  <2>3. Rounded(n, d) = -q
    BY <1>2 DEF Rounded
  <2> HIDE DEF q
  <2>4. (2 * d) * q = 2 * (d * q) /\ d * q \in Int /\ d * (-q) = -(d * q)
    BY <2>2
  <2> QED
    BY <1>2, <2>2, <2>3, <2>4
<1> QED
  BY <1>1, <1>2

(* Numbers a tick apart are not rounded to the same number of ticks.        *)
LEMMA RoundedApart ==
  ASSUME NEW m \in Int, NEW n \in Int, NEW d \in Nat \ {0}, m + d <= n
  PROVE  Rounded(m, d) # Rounded(n, d)
<1> SUFFICES ASSUME Rounded(m, d) = Rounded(n, d) PROVE FALSE
  OBVIOUS
<1> PICK x : x = d * Rounded(m, d)
  OBVIOUS
<1>1. x \in Int /\ (m >= 0 => 2 * x <= 2 * m + d) /\ (m < 0 => 2 * x < 2 * m + d)
  BY RoundedIsNear
<1>2. (n >= 0 => 2 * n - d < 2 * x) /\ (n < 0 => 2 * n - d <= 2 * x)
  BY RoundedIsNear
<1> QED
  BY <1>1, <1>2

LEMMA TicksApart ==
  ASSUME NEW p \in Prices, NEW q \in Prices, p < q
  PROVE  p + TickSize <= q
<1>1. TickSize \in Nat \ {0} /\ p \in Int /\ q \in Int /\ p % TickSize = 0 /\ q % TickSize = 0
  BY TokenizerAssumption, BookAssumption
<1> PICK a : a = p \div TickSize
  OBVIOUS
<1> PICK b : b = q \div TickSize
  OBVIOUS
<1>2. a \in Int /\ p = TickSize * a
  BY <1>1
<1>3. b \in Int /\ q = TickSize * b
  BY <1>1
<1>4. a < b
  <2>1. b < a => TickSize * b + TickSize <= TickSize * a
    BY <1>1, <1>2, <1>3, Product
  <2> QED
    BY <1>1, <1>2, <1>3, <2>1
<1>5. TickSize * a + TickSize <= TickSize * b
  BY <1>1, <1>2, <1>3, <1>4, Product
<1> QED
  BY <1>2, <1>3, <1>5

(* A price is read back from its ticks, or its side of the range is.        *)
LEMMA PricesDecode ==
  ASSUME NEW p \in Prices, NEW mid \in Int, NEW t, t = EncodePrice(TickDelta(p, mid))
  PROVE  /\ t \in FarNeg .. FarPos
         /\ t = FarNeg => p < mid - PriceRange * TickSize
         /\ t = FarPos => p > mid + PriceRange * TickSize
         /\ t \notin {FarNeg, FarPos} => {q \in Prices : TickDelta(q, mid) = t - PriceZero} = {p}
<1> PICK r : r = TickDelta(p, mid)
  OBVIOUS
<1> PICK x : x = TickSize * r
  OBVIOUS
<1> PICK w : w = PriceRange * TickSize
  OBVIOUS
<1>1. PriceRange \in Nat \ {0} /\ TickSize \in Nat \ {0} /\ Prices \subseteq Int /\ p \in Int
  BY TokenizerAssumption, BookAssumption
<1>2. FarNeg = 13 /\ PriceZero = 14 + PriceRange /\ FarPos = 15 + 2 * PriceRange
  BY <1>1 DEF FarNeg, PriceZero, FarPos
<1>3. r \in Int /\ x \in Int /\ 2 * (p - mid) - TickSize <= 2 * x /\ 2 * x <= 2 * (p - mid) + TickSize
  <2>1. p - mid \in Int /\ r = Rounded(p - mid, TickSize)
    BY <1>1 DEF TickDelta
  <2>2. /\ Rounded(p - mid, TickSize) \in Int /\ TickSize * Rounded(p - mid, TickSize) \in Int
        /\ p - mid >= 0 =>
             /\ 2 * (p - mid) - TickSize < 2 * (TickSize * Rounded(p - mid, TickSize))
             /\ 2 * (TickSize * Rounded(p - mid, TickSize)) <= 2 * (p - mid) + TickSize
        /\ p - mid < 0 =>
             /\ 2 * (p - mid) - TickSize <= 2 * (TickSize * Rounded(p - mid, TickSize))
             /\ 2 * (TickSize * Rounded(p - mid, TickSize)) < 2 * (p - mid) + TickSize
    BY <1>1, <2>1, RoundedIsNear, Zenon
  <2>3. x = TickSize * Rounded(p - mid, TickSize)
    BY <2>1
  <2> QED
    BY <1>1, <2>1, <2>2, <2>3
<1>4. w \in Int /\ TickSize * PriceRange = w /\ TickSize * (-PriceRange) = -w
  BY <1>1
<1>5. t = IF r < -PriceRange THEN 13 ELSE IF r > PriceRange THEN 15 + 2 * PriceRange
          ELSE 14 + PriceRange + r
  BY <1>2 DEF EncodePrice
<1>6. CASE r < -PriceRange
  <2>1. x + TickSize <= -w
    BY <1>1, <1>3, <1>4, <1>6, Product
  <2> QED
    BY <1>1, <1>2, <1>3, <1>4, <1>5, <1>6, <2>1
<1>7. CASE r > PriceRange
  <2>1. w + TickSize <= x
    BY <1>1, <1>3, <1>4, <1>7, Product
  <2> QED
    BY <1>1, <1>2, <1>3, <1>4, <1>5, <1>7, <2>1
<1>8. CASE -PriceRange <= r /\ r <= PriceRange
  <2>1. t - PriceZero = r /\ t \in FarNeg .. FarPos /\ t # FarNeg /\ t # FarPos
    BY <1>1, <1>2, <1>3, <1>5, <1>8
  <2>2. ASSUME NEW q \in Prices, q # p PROVE TickDelta(q, mid) # r
    <3>1. q \in Int /\ (q + TickSize <= p \/ p + TickSize <= q)
      <4>1. q < p \/ p < q
        BY <1>1, <2>2
      <4> QED
        BY <1>1, <4>1, TicksApart
    <3>2. (q - mid) + TickSize <= p - mid \/ (p - mid) + TickSize <= q - mid
      BY <1>1, <3>1
    <3>3. q - mid \in Int /\ p - mid \in Int
      BY <1>1
    <3> QED
      BY <1>1, <3>2, <3>3, RoundedApart DEF TickDelta
  <2>3. TickDelta(p, mid) = r
    OBVIOUS
  <2> QED
    BY <2>1, <2>2, <2>3
<1> QED
  BY <1>1, <1>3, <1>6, <1>7, <1>8
-----------------------------------------------------------------------------
(* One record. *)
LEMMA MidTyped ==
  ASSUME NEW top, TopType(top)
  PROVE  Mid(top) = None \/ Mid(top) \in Int
<1> SUFFICES ASSUME Mid(top) # None PROVE Mid(top) \in Int
  OBVIOUS
<1>1. \A s \in Sides : top[s] # None
  BY DEF Mid
<1>2. top["B"] \in Quotes /\ top["A"] \in Quotes
  BY <1>1 DEF TopType, Sides
<1>3. top["B"].price \in Int /\ top["A"].price \in Int
  BY <1>2, BookAssumption DEF Quotes
<1>4. \A n \in Int : Half(n) \in Int
  BY DEF Half
<1>5. Mid(top) = Half(top["B"].price + top["A"].price)
  BY <1>1 DEF Mid
<1> QED
  BY <1>3, <1>4, <1>5

(* What the tokenizer is fed. *)
LEMMA FeedTypes ==
  ASSUME Live(orders), NEW e \in Feed
  PROVE  /\ e.size \in Nat /\ e.last \in BOOLEAN /\ e.side \in {"B", "A", "N"}
         /\ Known(e) /\ e.action # "R" => e.price \in Prices
<1>1. \A o \in DOMAIN orders : orders[o].price \in Prices /\ orders[o].side \in Sides
  BY DEF Live, LiveOrder
<1>2. "N" \notin DOMAIN EncodeAction
  BY ActionsDecode
<1> QED
  BY <1>1, <1>2, BookAssumption DEF Feed, Record, Known, Sides

LEMMA FourAndOne ==
  ASSUME NEW a, NEW b, NEW c, NEW d, NEW e, NEW r, r = <<a, b, c, d>> \o <<e>>
  PROVE  Len(r) = 5 /\ r[1] = a /\ r[2] = b /\ r[3] = c /\ r[4] = d /\ r[5] = e
<1> PICK s : s = <<a, b, c, d>>
  OBVIOUS
<1>1. s \in Seq({a, b, c, d}) /\ Len(s) = 4
  OBVIOUS
<1>2. s \in Seq({a, b, c, d, e}) /\ <<e>> \in Seq({a, b, c, d, e}) /\ Len(<<e>>) = 1
  OBVIOUS
<1>3. r \in Seq({a, b, c, d, e}) /\ Len(r) = 5
  BY <1>1, <1>2
<1>4. r[1] = a /\ r[2] = b /\ r[3] = c /\ r[4] = d /\ r[5] = e
  BY <1>1, <1>2
<1> QED
  BY <1>3, <1>4

(* The tokens of a record, one by one.                                      *)
LEMMA Emitted ==
  ASSUME NEW e, NEW mid, Known(e), e.last \in BOOLEAN
  PROVE  /\ Len(Emit(e, mid)) = (IF e.action = "R" THEN 1 ELSE 4) + One(e.last)
         /\ Emit(e, mid)[1] = EncodeAction[e.action]
         /\ e.action # "R" => /\ Emit(e, mid)[2] = EncodeSide(e.side)
                              /\ Emit(e, mid)[3] = PriceToken(e, mid)
                              /\ Emit(e, mid)[4] = EncodeSize(e.size)
         /\ e.last => Emit(e, mid)[Len(Emit(e, mid))] = COMMIT
         /\ ~e.last => Emit(e, mid)[Len(Emit(e, mid))] =
                         IF e.action = "R" THEN EncodeAction["R"] ELSE EncodeSize(e.size)
<1> PICK a : a = EncodeAction[e.action]
  OBVIOUS
<1> PICK s : s = EncodeSide(e.side)
  OBVIOUS
<1> PICK p : p = PriceToken(e, mid)
  OBVIOUS
<1> PICK z : z = EncodeSize(e.size)
  OBVIOUS
<1>1. Emit(e, mid) = Body(e, mid) \o IF e.last THEN <<COMMIT>> ELSE <<>>
  BY DEF Emit
<1>2. CASE e.action = "R"
  <2>1. Body(e, mid) = <<a>>
    BY <1>2 DEF Body
  <2>2. Emit(e, mid) = <<a>> \o IF e.last THEN <<COMMIT>> ELSE <<>>
    BY <1>1, <2>1
  <2>3. Emit(e, mid) = IF e.last THEN <<a, COMMIT>> ELSE <<a>>
    BY <2>2
  <2> QED
    BY <1>2, <2>3 DEF One
<1>3. CASE e.action # "R"
  <2>1. Body(e, mid) = <<a, s, p, z>>
    BY <1>3 DEF Body
  <2>2. Emit(e, mid) = <<a, s, p, z>> \o IF e.last THEN <<COMMIT>> ELSE <<>>
    BY <1>1, <2>1
  <2>3. CASE e.last
    <3>1. Emit(e, mid) = <<a, s, p, z>> \o <<COMMIT>>
      BY <2>2, <2>3
    <3> PICK out : out = Emit(e, mid)
      OBVIOUS
    <3>2. /\ Len(out) = 5
          /\ out[1] = a /\ out[2] = s /\ out[3] = p /\ out[4] = z /\ out[5] = COMMIT
      BY <3>1, FourAndOne
    <3> QED
      BY <1>3, <2>3, <3>2 DEF One
  <2>4. CASE ~e.last
    <3>1. Emit(e, mid) = <<a, s, p, z>>
      BY <2>2, <2>4
    <3> QED
      BY <1>3, <2>4, <3>1 DEF One
  <2> QED
    BY <2>3, <2>4
<1> QED
  BY <1>2, <1>3

LEMMA RecordReads ==
  ASSUME BookInv, NEW e \in Feed, Known(e)
  PROVE  Reads(Emit(e, Mid(Top(levels))), e, Mid(Top(levels)))
<1> PICK mid : mid = Mid(Top(levels))
  OBVIOUS
<1> PICK out : out = Emit(e, mid)
  OBVIOUS
<1>1. mid = None \/ mid \in Int
  <2>1. TopType(Top(levels))
    BY TopTyped DEF BookInv
  <2> QED
    BY <2>1, MidTyped
<1>2. /\ e.size \in Nat /\ e.last \in BOOLEAN /\ e.side \in {"B", "A", "N"}
      /\ e.action # "R" => e.price \in Prices
  BY FeedTypes DEF BookInv, Book
<1>3. /\ Len(out) = (IF e.action = "R" THEN 1 ELSE 4) + One(e.last)
      /\ out[1] = EncodeAction[e.action]
      /\ e.action # "R" => /\ out[2] = EncodeSide(e.side)
                           /\ out[3] = PriceToken(e, mid)
                           /\ out[4] = EncodeSize(e.size)
      /\ e.last => out[Len(out)] = COMMIT
  BY <1>2, Emitted
<1>4. DecodeAction(out[1]) = e.action
  BY <1>3, ActionsDecode DEF Known
<1>5. ASSUME e.action # "R"
      PROVE  /\ DecodeSide(out[2]) = e.side
             /\ \A k \in 1 .. 9 : Buckets[k] <= e.size <=> Buckets[k] <= DecodeSize(out[4])
  BY <1>2, <1>3, <1>5, SidesDecode, SizesDecode
<1>6. ASSUME e.action # "R"
      PROVE  LET d == DecodePrice(out[3])
             IN  /\ d.delta = "NoRef" <=> mid = None
                 /\ d.delta = "FarNeg" => e.price < mid - PriceRange * TickSize
                 /\ d.delta = "FarPos" => e.price > mid + PriceRange * TickSize
                 /\ d.delta = "Ticks" => {p \in Prices : TickDelta(p, mid) = d.ticks} = {e.price}
  <2> PICK t : t = out[3]
    OBVIOUS
  <2>1. /\ FarNeg = 13 /\ FarPos = 15 + 2 * PriceRange /\ NoRef = 16 + 2 * PriceRange
        /\ PriceRange \in Nat \ {0}
    BY TokenizerAssumption DEF FarNeg, FarPos, PriceZero, NoRef
  <2>2. DecodePrice(t).ticks = t - PriceZero
    BY DEF DecodePrice
  <2>3. DecodePrice(t).delta = IF t = FarNeg THEN "FarNeg" ELSE IF t = FarPos THEN "FarPos"
                               ELSE IF t = NoRef THEN "NoRef" ELSE "Ticks"
    BY <2>1 DEF DecodePrice
  <2>4. CASE mid = None
    <3>1. t = NoRef
      BY <1>3, <1>6, <2>4 DEF PriceToken
    <3>2. DecodePrice(t).delta = "NoRef"
      BY <2>1, <2>3, <3>1
    <3> QED
      BY <2>4, <3>2
  <2>5. CASE mid # None
    <3>1. t = EncodePrice(TickDelta(e.price, mid))
      BY <1>3, <1>6, <2>5 DEF PriceToken
    <3>2. e.price \in Prices /\ mid \in Int
      BY <1>1, <1>2, <1>6, <2>5
    <3>3. /\ t \in FarNeg .. FarPos
          /\ t = FarNeg => e.price < mid - PriceRange * TickSize
          /\ t = FarPos => e.price > mid + PriceRange * TickSize
          /\ t \notin {FarNeg, FarPos} =>
               {q \in Prices : TickDelta(q, mid) = t - PriceZero} = {e.price}
      BY <3>1, <3>2, PricesDecode
    <3>4. t # NoRef
      BY <2>1, <3>3
    <3>5. /\ DecodePrice(t).delta = "FarNeg" <=> t = FarNeg
          /\ DecodePrice(t).delta = "FarPos" <=> t = FarPos
          /\ DecodePrice(t).delta # "NoRef"
          /\ DecodePrice(t).delta = "Ticks" => t \notin {FarNeg, FarPos}
      BY <2>1, <2>3, <3>4
    <3> QED
      BY <2>2, <2>5, <3>3, <3>5
  <2> QED
    BY <2>4, <2>5
<1> QED
  BY <1>3, <1>4, <1>5, <1>6 DEF Reads

(* Whatever the book, a reader who knows it before a record gets the record *)
(* back from its tokens: action, side, bucket of the size, and the price to *)
(* the tick or the side of the range it is on (lib.rs:83-208, 368-472).     *)
THEOREM RecordsAreRecovered == TokenizerSpec => EventRecovered
<1>1. BookInv /\ [TokenizerNext]_all
        => [record' # None /\ Known(record') => Reads(tokens', record', Mid(Top(levels)))]_all
  <2> SUFFICES ASSUME BookInv, TokenizerNext, record' # None, Known(record')
               PROVE  Reads(tokens', record', Mid(Top(levels)))
    OBVIOUS
  <2>1. PICK e \in Feed : FeedEvent(e)
    BY DEF TokenizerNext, SkipInstrument, OpenFile, CloseFile, DecodeError, Write
  <2>2. record' = e /\ tokens' = Emit(e, Mid(Top(levels)))
    BY <2>1 DEF FeedEvent, Encode
  <2>3. Known(e)
    BY <2>2 DEF Known
  <2> QED
    BY <2>2, <2>3, RecordReads
<1>2. TokenizerSpec => []BookInv
  BY BookIsInvariant, TokenizerFeeds, PTL
<1> QED
  BY <1>1, <1>2, PTL DEF TokenizerSpec, EventRecovered

-----------------------------------------------------------------------------
(* The numbers that are reported. *)
Numbers ==
  [processed : Nat, skipped : Nat, emitted : Nat, commits : Nat,
   actions : [DOMAIN EncodeAction -> Nat], farNeg : Nat, farPos : Nat, noRef : Nat,
   prices : Nat, sizes : [1 .. 9 -> Nat]]

StatsInv == stats \in Numbers /\ Describes(stats)

Priced(e) == Known(e) /\ e.action # "R"

LEMMA Counts ==
  ASSUME NEW P \in BOOLEAN
  PROVE  One(P) \in {0, 1} /\ (One(P) = 1 <=> P)
BY DEF One

(* Adding one to one of nine, or of six, adds one to their sum.             *)
LEMMA SizedAdds ==
  ASSUME NEW n \in [1 .. 9 -> Nat], NEW m \in [1 .. 9 -> Nat], NEW b \in 1 .. 9,
         \A k \in 1 .. 9 : m[k] = n[k] + One(k = b)
  PROVE  m[1] + m[2] + m[3] + m[4] + m[5] + m[6] + m[7] + m[8] + m[9]
           = n[1] + n[2] + n[3] + n[4] + n[5] + n[6] + n[7] + n[8] + n[9] + 1
<1>1. \A k \in 1 .. 9 : n[k] \in Nat /\ m[k] = IF k = b THEN n[k] + 1 ELSE n[k]
  BY DEF One
<1>2. b = 1 \/ b = 2 \/ b = 3 \/ b = 4 \/ b = 5 \/ b = 6 \/ b = 7 \/ b = 8 \/ b = 9
  OBVIOUS
<1> QED
  BY <1>1, <1>2

LEMMA SizedTyped ==
  ASSUME NEW n \in [1 .. 9 -> Nat]
  PROVE  n[1] + n[2] + n[3] + n[4] + n[5] + n[6] + n[7] + n[8] + n[9] \in Int
OBVIOUS

LEMMA ActedAdds ==
  ASSUME NEW n \in [DOMAIN EncodeAction -> Nat], NEW m \in [DOMAIN EncodeAction -> Nat],
         NEW x \in DOMAIN EncodeAction, \A a \in DOMAIN EncodeAction : m[a] = n[a] + One(a = x)
  PROVE  m["A"] + m["C"] + m["M"] + m["T"] + m["F"] + m["R"]
           = n["A"] + n["C"] + n["M"] + n["T"] + n["F"] + n["R"] + 1
<1>1. DOMAIN EncodeAction = {"A", "C", "M", "T", "F", "R"}
  BY ActionsDecode
<1>2. \A a \in DOMAIN EncodeAction : n[a] \in Nat /\ m[a] = IF a = x THEN n[a] + 1 ELSE n[a]
  BY DEF One
<1>3. x = "A" \/ x = "C" \/ x = "M" \/ x = "T" \/ x = "F" \/ x = "R"
  BY <1>1
<1> QED
  BY <1>1, <1>2, <1>3

LEMMA AreNumbers ==
  ASSUME NEW a \in Nat, NEW b \in Nat, NEW c \in Nat, NEW d \in Nat,
         NEW acts \in [DOMAIN EncodeAction -> Nat], NEW f \in Nat, NEW g \in Nat,
         NEW h \in Nat, NEW i \in Nat, NEW sizes \in [1 .. 9 -> Nat]
  PROVE  [processed |-> a, skipped |-> b, emitted |-> c, commits |-> d, actions |-> acts,
          farNeg |-> f, farPos |-> g, noRef |-> h, prices |-> i, sizes |-> sizes] \in Numbers
BY DEF Numbers

LEMMA OneOrNone == ASSUME NEW P PROVE One(P) \in {0, 1}
BY DEF One

(* What a record is counted as. *)
LEMMA CountedAs ==
  ASSUME Live(orders), stats \in Numbers, NEW e \in Feed, NEW mid, NEW new,
         new = Counted(e, mid, Emit(e, mid)), NEW more \in Nat, more = Len(Emit(e, mid))
  PROVE  /\ new \in Numbers
         /\ new.processed = stats.processed + 1 /\ new.emitted = stats.emitted + more
         /\ new.commits = stats.commits + One(Known(e) /\ e.last)
         /\ new.prices + new.noRef = stats.prices + stats.noRef + One(Priced(e))
         /\ new.prices - new.farNeg - new.farPos >= stats.prices - stats.farNeg - stats.farPos
         /\ new.actions["R"] = stats.actions["R"] + One(e.action = "R")
         /\ Acted(new) = Acted(stats) + One(Known(e))
         /\ Sized(new) = Sized(stats) + One(Priced(e))
<1>1. /\ stats.noRef \in Nat /\ stats.prices \in Nat
      /\ stats.actions \in [DOMAIN EncodeAction -> Nat] /\ stats.sizes \in [1 .. 9 -> Nat]
  BY DEF Numbers
<1>a. PICK c : c = One(Known(e) /\ e.last)
  OBVIOUS
<1>b. PICK fn : fn = One(Priced(e) /\ PriceToken(e, mid) = FarNeg)
  OBVIOUS
<1>c. PICK fp : fp = One(Priced(e) /\ PriceToken(e, mid) = FarPos)
  OBVIOUS
<1>d. PICK nr : nr = One(Priced(e) /\ PriceToken(e, mid) = NoRef)
  OBVIOUS
<1>e. PICK pr : pr = One(Priced(e) /\ PriceToken(e, mid) # NoRef)
  OBVIOUS
<1>f. PICK acts : acts = [a \in DOMAIN stats.actions |-> stats.actions[a] + One(a = e.action)]
  OBVIOUS
<1>g. PICK sizes : sizes = [b \in 1 .. 9 |-> stats.sizes[b]
                              + One(Priced(e) /\ EncodeSize(e.size) = Size0 + b - 1)]
  OBVIOUS
<1>2. c \in {0, 1} /\ fn \in {0, 1} /\ fp \in {0, 1} /\ nr \in {0, 1} /\ pr \in {0, 1}
  BY <1>a, <1>b, <1>c, <1>d, <1>e, OneOrNone, Zenon
<1>3. /\ acts \in [DOMAIN EncodeAction -> Nat]
      /\ \A a \in DOMAIN EncodeAction : acts[a] = stats.actions[a] + One(a = e.action)
  <2>1. \A a : One(a = e.action) \in {0, 1}
    BY OneOrNone, Zenon
  <2>2. DOMAIN stats.actions = DOMAIN EncodeAction
    BY <1>1
  <2>3. \A a \in DOMAIN EncodeAction : acts[a] = stats.actions[a] + One(a = e.action)
    BY <1>f, <2>2, Zenon
  <2>4. \A a \in DOMAIN EncodeAction : stats.actions[a] + One(a = e.action) \in Nat
    <3> SUFFICES ASSUME NEW a \in DOMAIN EncodeAction
                 PROVE  stats.actions[a] + One(a = e.action) \in Nat
      OBVIOUS
    <3>1. PICK o : o = One(a = e.action)
      OBVIOUS
    <3>2. o \in {0, 1}
      BY <2>1, <3>1, Zenon
    <3>3. stats.actions[a] \in Nat
      BY <1>1, Zenon
    <3>4. stats.actions[a] + o \in Nat
      BY <3>2, <3>3
    <3> QED
      BY <3>1, <3>4, Zenon
  <2>5. acts \in [DOMAIN EncodeAction -> Nat]
    BY <1>f, <2>2, <2>4, Zenon
  <2> QED
    BY <2>3, <2>5, Zenon
<1>4. /\ sizes \in [1 .. 9 -> Nat]
      /\ \A b \in 1 .. 9 : sizes[b] = stats.sizes[b]
                             + One(Priced(e) /\ EncodeSize(e.size) = Size0 + b - 1)
  <2>3. \A b \in 1 .. 9 : sizes[b] = stats.sizes[b]
                             + One(Priced(e) /\ EncodeSize(e.size) = Size0 + b - 1)
    BY <1>g, Zenon
  <2>4. \A b \in 1 .. 9 : stats.sizes[b] + One(Priced(e) /\ EncodeSize(e.size) = Size0 + b - 1)
                            \in Nat
    <3> SUFFICES ASSUME NEW b \in 1 .. 9
                 PROVE  stats.sizes[b] + One(Priced(e) /\ EncodeSize(e.size) = Size0 + b - 1) \in Nat
      BY Zenon
    <3>1. PICK o : o = One(Priced(e) /\ EncodeSize(e.size) = Size0 + b - 1)
      OBVIOUS
    <3>2. o \in {0, 1}
      BY <3>1, OneOrNone, Zenon
    <3>3. stats.sizes[b] \in Nat
      BY <1>1, Zenon
    <3>4. stats.sizes[b] + o \in Nat
      BY <3>2, <3>3
    <3> QED
      BY <3>1, <3>4, Zenon
  <2>5. sizes \in [1 .. 9 -> Nat]
    BY <1>g, <2>4, Zenon
  <2> QED
    BY <2>3, <2>5, Zenon
<1>5. new = [stats EXCEPT !.processed = @ + 1, !.emitted = @ + more, !.commits = @ + c,
                          !.actions = acts, !.farNeg = @ + fn, !.farPos = @ + fp,
                          !.noRef = @ + nr, !.prices = @ + pr, !.sizes = sizes]
  BY <1>a, <1>b, <1>c, <1>d, <1>e, <1>f, <1>g, Zenon DEF Counted, Priced
<1>6. /\ new \in Numbers
      /\ new.processed = stats.processed + 1 /\ new.emitted = stats.emitted + more
      /\ new.commits = stats.commits + c /\ new.actions = acts /\ new.noRef = stats.noRef + nr
      /\ new.prices = stats.prices + pr /\ new.sizes = sizes
      /\ new.farNeg = stats.farNeg + fn /\ new.farPos = stats.farPos + fp
  <2>1. c \in Nat /\ fn \in Nat /\ fp \in Nat /\ nr \in Nat /\ pr \in Nat
    BY <1>2
  <2>2. acts \in [DOMAIN EncodeAction -> Nat] /\ sizes \in [1 .. 9 -> Nat]
    BY <1>3, <1>4, Zenon
  <2>3. /\ stats = [processed |-> stats.processed, skipped |-> stats.skipped, emitted |-> stats.emitted,
                 commits |-> stats.commits, actions |-> stats.actions, farNeg |-> stats.farNeg,
                 farPos |-> stats.farPos, noRef |-> stats.noRef, prices |-> stats.prices,
                 sizes |-> stats.sizes]
    BY DEF Numbers
  <2>4. /\ stats.processed \in Nat /\ stats.skipped \in Nat /\ stats.emitted \in Nat
        /\ stats.commits \in Nat /\ stats.farNeg \in Nat /\ stats.farPos \in Nat /\ stats.noRef \in Nat
        /\ stats.prices \in Nat
    BY DEF Numbers
  <2>a. PICK n1 \in Nat : n1 = stats.processed + 1
    BY <2>4
  <2>b. PICK n2 \in Nat : n2 = stats.emitted + more
    BY <2>4
  <2>c. PICK n3 \in Nat : n3 = stats.commits + c
    BY <2>1, <2>4
  <2>d. PICK n4 \in Nat : n4 = stats.farNeg + fn
    BY <2>1, <2>4
  <2>e. PICK n5 \in Nat : n5 = stats.farPos + fp
    BY <2>1, <2>4
  <2>f. PICK n6 \in Nat : n6 = stats.noRef + nr
    BY <2>1, <2>4
  <2>g. PICK n7 \in Nat : n7 = stats.prices + pr
    BY <2>1, <2>4
  <2>h. PICK k \in Nat : k = stats.skipped
    BY <2>4
  <2>5. new = [stats EXCEPT !.processed = n1, !.emitted = n2, !.commits = n3, !.actions = acts,
                            !.farNeg = n4, !.farPos = n5, !.noRef = n6, !.prices = n7,
                            !.sizes = sizes]
    BY <1>5, <2>a, <2>b, <2>c, <2>d, <2>e, <2>f, <2>g, Zenon
  <2>6. new = [processed |-> n1, skipped |-> k, emitted |-> n2, commits |-> n3, actions |-> acts,
               farNeg |-> n4, farPos |-> n5, noRef |-> n6, prices |-> n7, sizes |-> sizes]
    BY <2>3, <2>5, <2>h
  <2>7. [processed |-> n1, skipped |-> k, emitted |-> n2, commits |-> n3, actions |-> acts,
         farNeg |-> n4, farPos |-> n5, noRef |-> n6, prices |-> n7, sizes |-> sizes] \in Numbers
    <3>1. /\ n1 \in Nat /\ n2 \in Nat /\ n3 \in Nat /\ n4 \in Nat /\ n5 \in Nat /\ n6 \in Nat
          /\ n7 \in Nat /\ k \in Nat
      BY <2>a, <2>b, <2>c, <2>d, <2>e, <2>f, <2>g, <2>h, Zenon
    <3> QED
      BY <2>2, <3>1, AreNumbers
  <2>8. /\ new.processed = n1 /\ new.emitted = n2 /\ new.commits = n3 /\ new.actions = acts
        /\ new.farNeg = n4 /\ new.farPos = n5 /\ new.noRef = n6 /\ new.prices = n7
        /\ new.sizes = sizes
    BY <2>6
  <2> QED
    BY <2>6, <2>7, <2>8, <2>a, <2>b, <2>c, <2>d, <2>e, <2>f, <2>g, Zenon
<1>7. new.prices + new.noRef = stats.prices + stats.noRef + One(Priced(e))
  <2> PICK p : p = One(Priced(e))
    OBVIOUS
  <2>1. pr + nr = p
    <3>1. CASE Priced(e) /\ PriceToken(e, mid) = NoRef
      <4>1. nr = 1 /\ pr = 0 /\ p = 1
        BY <1>d, <1>e, <3>1, Zenon DEF One
      <4> QED
        BY <4>1
    <3>2. CASE Priced(e) /\ PriceToken(e, mid) # NoRef
      <4>1. nr = 0 /\ pr = 1 /\ p = 1
        BY <1>d, <1>e, <3>2, Zenon DEF One
      <4> QED
        BY <4>1
    <3>3. CASE ~Priced(e)
      <4>1. nr = 0 /\ pr = 0 /\ p = 0
        BY <1>d, <1>e, <3>3, Zenon DEF One
      <4> QED
        BY <4>1
    <3> QED
      BY <3>1, <3>2, <3>3, Zenon
  <2>2. p \in Nat
    BY <1>2, <2>1
  <2>3. new.prices = stats.prices + pr /\ new.noRef = stats.noRef + nr
    BY <1>6, Zenon
  <2> QED
    BY <1>1, <1>2, <2>1, <2>2, <2>3
<1>8. new.prices - new.farNeg - new.farPos >= stats.prices - stats.farNeg - stats.farPos
  <2>1. FarNeg # FarPos /\ FarNeg # NoRef /\ FarPos # NoRef
    BY TokenizerAssumption DEF FarNeg, FarPos, PriceZero, NoRef
  <2>2. pr >= fn + fp
    <3>1. CASE Priced(e) /\ PriceToken(e, mid) = FarNeg
      <4>1. fn = 1 /\ fp = 0 /\ pr = 1
        BY <1>b, <1>c, <1>e, <2>1, <3>1, Zenon DEF One
      <4> QED
        BY <4>1
    <3>2. CASE Priced(e) /\ PriceToken(e, mid) = FarPos
      <4>1. fn = 0 /\ fp = 1 /\ pr = 1
        BY <1>b, <1>c, <1>e, <2>1, <3>2, Zenon DEF One
      <4> QED
        BY <4>1
    <3>3. CASE ~(Priced(e) /\ PriceToken(e, mid) \in {FarNeg, FarPos})
      <4>1. fn = 0 /\ fp = 0
        BY <1>b, <1>c, <3>3, Zenon DEF One
      <4> QED
        BY <1>2, <4>1
    <3> QED
      BY <3>1, <3>2, <3>3, Zenon
  <2>3. stats.farNeg \in Nat /\ stats.farPos \in Nat
    BY DEF Numbers
  <2>4. /\ new.prices = stats.prices + pr /\ new.farNeg = stats.farNeg + fn
        /\ new.farPos = stats.farPos + fp
    BY <1>6, Zenon
  <2> QED
    BY <1>1, <1>2, <2>2, <2>3, <2>4, SMTT(20)
<1>9. "R" \in DOMAIN EncodeAction /\ new.actions["R"] = stats.actions["R"] + One(e.action = "R")
  <2>1. "R" \in DOMAIN EncodeAction
    BY ActionsDecode
  <2>2. new.actions = acts
    BY <1>6
  <2>3. One("R" = e.action) = One(e.action = "R")
    BY DEF One
  <2> QED
    BY <1>3, <2>1, <2>2, <2>3
<1>10. Acted(new) = Acted(stats) + One(Known(e))
  <2>1. new.actions = acts
    BY <1>6
  <2>2. CASE Known(e)
    <3>1. e.action \in DOMAIN EncodeAction
      BY <2>2 DEF Known
    <3>2. acts["A"] + acts["C"] + acts["M"] + acts["T"] + acts["F"] + acts["R"]
           = stats.actions["A"] + stats.actions["C"] + stats.actions["M"] + stats.actions["T"]
               + stats.actions["F"] + stats.actions["R"] + 1
      BY <1>1, <1>3, <3>1, ActedAdds
    <3>3. One(Known(e)) = 1
      BY <2>2 DEF One
    <3> QED
      BY <2>1, <3>2, <3>3 DEF Acted
  <2>3. CASE ~Known(e)
    <3>1. One(Known(e)) = 0 /\ \A a \in DOMAIN EncodeAction : acts[a] = stats.actions[a]
      <4>1. \A a \in DOMAIN EncodeAction : acts[a] = stats.actions[a] + 0
        BY <1>3, <2>3, Zenon DEF One, Known
      <4>2. One(Known(e)) = 0
        BY <2>3, Zenon DEF One
      <4> QED
        BY <1>1, <4>1, <4>2
    <3>2. DOMAIN EncodeAction = {"A", "C", "M", "T", "F", "R"}
      BY ActionsDecode
    <3> QED
      BY <1>1, <2>1, <3>1, <3>2 DEF Acted
  <2> QED
    BY <2>2, <2>3
<1>11. Sized(new) = Sized(stats) + One(Priced(e))
  <2>1. new.sizes = sizes
    BY <1>6
  <2>2. CASE Priced(e)
    <3>1. e.size \in Nat
      BY FeedTypes
    <3>2. PICK b \in 1 .. 9 : EncodeSize(e.size) = Size0 + b - 1
      BY <3>1, SizesRead
    <3>3. Size0 \in Int
      BY TokenizerAssumption DEF Size0, NoRef, FarPos, PriceZero
    <3>4. \A k \in 1 .. 9 : sizes[k] = stats.sizes[k] + One(k = b)
      <4> SUFFICES ASSUME NEW k \in 1 .. 9 PROVE sizes[k] = stats.sizes[k] + One(k = b)
        OBVIOUS
      <4>1. EncodeSize(e.size) = Size0 + k - 1 <=> k = b
        BY <3>2, <3>3
      <4> QED
        BY <1>4, <2>2, <4>1 DEF One
    <3>5. One(Priced(e)) = 1
      BY <2>2 DEF One
    <3>6. sizes[1] + sizes[2] + sizes[3] + sizes[4] + sizes[5] + sizes[6] + sizes[7] + sizes[8]
            + sizes[9]
          = stats.sizes[1] + stats.sizes[2] + stats.sizes[3] + stats.sizes[4] + stats.sizes[5]
              + stats.sizes[6] + stats.sizes[7] + stats.sizes[8] + stats.sizes[9] + 1
      BY <1>1, <1>4, <3>4, SizedAdds
    <3> QED
      BY <2>1, <3>5, <3>6 DEF Sized
  <2>3. CASE ~Priced(e)
    <3>1. One(Priced(e)) = 0 /\ \A k \in 1 .. 9 : sizes[k] = stats.sizes[k] /\ sizes[k] \in Nat
      <4>1. \A k \in 1 .. 9 : sizes[k] = stats.sizes[k] + 0
        BY <1>4, <2>3, Zenon DEF One
      <4>2. One(Priced(e)) = 0
        BY <2>3, Zenon DEF One
      <4>3. \A k \in 1 .. 9 : stats.sizes[k] \in Nat
        BY <1>1, Zenon
      <4>4. ASSUME NEW k \in 1 .. 9 PROVE sizes[k] = stats.sizes[k] /\ sizes[k] \in Nat
        <5> PICK x : x = stats.sizes[k]
          OBVIOUS
        <5>1. sizes[k] = x + 0 /\ x \in Nat
          BY <4>1, <4>3, Zenon
        <5> QED
          BY <5>1
      <4> QED
        BY <4>2, <4>4, Zenon
    <3>2. Sized(new) = Sized(stats) /\ Sized(stats) \in Int
      <4>1. /\ 1 \in 1 .. 9 /\ 2 \in 1 .. 9 /\ 3 \in 1 .. 9 /\ 4 \in 1 .. 9 /\ 5 \in 1 .. 9
            /\ 6 \in 1 .. 9 /\ 7 \in 1 .. 9 /\ 8 \in 1 .. 9 /\ 9 \in 1 .. 9
        OBVIOUS
      <4>2. Sized(new) = Sized(stats)
        BY <2>1, <3>1, <4>1, Zenon DEF Sized
      <4>3. \A k \in 1 .. 9 : stats.sizes[k] \in Nat
        BY <1>1, Zenon
      <4>4. Sized(stats) \in Int
        BY <1>1, SizedTyped, Zenon DEF Sized
      <4> QED
        BY <4>2, <4>4
    <3> QED
      BY <3>1, <3>2
  <2> QED
    BY <2>2, <2>3
<1> QED
  BY <1>a, <1>6, <1>7, <1>9, <1>10, <1>11, <1>8, Zenon

(* Four tokens for an order, one for a clear and one for a commit.          *)
LEMMA EmittedLength ==
  ASSUME Live(orders), NEW e \in Feed, NEW mid
  PROVE  /\ Len(Emit(e, mid))
              = 4 * One(Priced(e)) + One(e.action = "R") + One(Known(e) /\ e.last)
         /\ One(Known(e)) = One(Priced(e)) + One(e.action = "R")
<1>1. e.last \in BOOLEAN
  BY FeedTypes
<1>2. "R" \in DOMAIN EncodeAction
  BY ActionsDecode
<1>a. PICK p : p = One(Priced(e))
  OBVIOUS
<1>b. PICK r : r = One(e.action = "R")
  OBVIOUS
<1>c. PICK c : c = One(Known(e) /\ e.last)
  OBVIOUS
<1>d. PICK k : k = One(Known(e))
  OBVIOUS
<1>e. PICK n : n = Len(Emit(e, mid))
  OBVIOUS
<1>3. CASE ~Known(e)
  <2>1. p = 0 /\ c = 0 /\ k = 0 /\ e.action # "R"
    BY <1>2, <1>3, <1>a, <1>c, <1>d, Zenon DEF One, Priced, Known
  <2>2. r = 0
    BY <1>b, <2>1, Zenon DEF One
  <2>3. n = 0
    BY <1>3, <1>e DEF Emit
  <2>4. n = 4 * p + r + c /\ k = p + r
    BY <2>1, <2>2, <2>3
  <2> QED
    BY <1>a, <1>b, <1>c, <1>d, <1>e, <2>4, Zenon
<1>4. CASE Known(e)
  <2>1. k = 1 /\ c = One(e.last)
    BY <1>4, <1>c, <1>d, Zenon DEF One
  <2>2. n = (IF e.action = "R" THEN 1 ELSE 4) + c
    BY <1>1, <1>4, <1>e, <2>1, Emitted, Zenon
  <2>3. c \in {0, 1}
    BY <1>c, OneOrNone, Zenon
  <2>4. CASE e.action = "R"
    <3>1. p = 0 /\ r = 1
      BY <1>a, <1>b, <2>4, Zenon DEF One, Priced
    <3>2. n = 4 * p + r + c /\ k = p + r
      BY <2>1, <2>2, <2>3, <2>4, <3>1
    <3> QED
      BY <1>a, <1>b, <1>c, <1>d, <1>e, <3>2, Zenon
  <2>5. CASE e.action # "R"
    <3>1. p = 1 /\ r = 0
      BY <1>4, <1>a, <1>b, <2>5, Zenon DEF One, Priced
    <3>2. n = 4 * p + r + c /\ k = p + r
      BY <2>1, <2>2, <2>3, <2>5, <3>1
    <3> QED
      BY <1>a, <1>b, <1>c, <1>d, <1>e, <3>2, Zenon
  <2> QED
    BY <2>4, <2>5
<1> QED
  BY <1>3, <1>4

(* The numbers still describe the stream after a record.                    *)
LEMMA StillDescribed ==
  ASSUME Live(orders), StatsInv, NEW e \in Feed, NEW mid, NEW new,
         new = Counted(e, mid, Emit(e, mid))
  PROVE  /\ new \in Numbers /\ Describes(new)
         /\ new.emitted = stats.emitted + Len(Emit(e, mid))
         /\ new.commits > stats.commits <=> Known(e) /\ e.last
<1>0. stats \in Numbers /\ Describes(stats)
  BY DEF StatsInv
<1>a. PICK p : p = One(Priced(e))
  OBVIOUS
<1>b. PICK r : r = One(e.action = "R")
  OBVIOUS
<1>c. PICK c : c = One(Known(e) /\ e.last)
  OBVIOUS
<1>d. PICK k : k = One(Known(e))
  OBVIOUS
<1>e. PICK n : n = Len(Emit(e, mid))
  OBVIOUS
<1>1. p \in {0, 1} /\ r \in {0, 1} /\ c \in {0, 1}
  BY <1>a, <1>b, <1>c, OneOrNone, Zenon
<1>2. n = 4 * p + r + c /\ k = p + r
  BY <1>a, <1>b, <1>c, <1>d, <1>e, EmittedLength, Zenon
<1>3. n \in Nat
  BY <1>1, <1>2
<1>4. /\ new \in Numbers
      /\ new.processed = stats.processed + 1 /\ new.emitted = stats.emitted + n
      /\ new.commits = stats.commits + c
      /\ new.prices + new.noRef = stats.prices + stats.noRef + p
      /\ new.prices - new.farNeg - new.farPos >= stats.prices - stats.farNeg - stats.farPos
      /\ new.actions["R"] = stats.actions["R"] + r
      /\ Acted(new) = Acted(stats) + k
      /\ Sized(new) = Sized(stats) + p
  <2>1. /\ new \in Numbers
        /\ new.processed = stats.processed + 1 /\ new.emitted = stats.emitted + n
        /\ new.commits = stats.commits + One(Known(e) /\ e.last)
        /\ new.prices + new.noRef = stats.prices + stats.noRef + One(Priced(e))
        /\ new.prices - new.farNeg - new.farPos >= stats.prices - stats.farNeg - stats.farPos
        /\ new.actions["R"] = stats.actions["R"] + One(e.action = "R")
        /\ Acted(new) = Acted(stats) + One(Known(e))
        /\ Sized(new) = Sized(stats) + One(Priced(e))
    BY <1>0, <1>3, <1>e, CountedAs
  <2> QED
    BY <2>1, <1>a, <1>b, <1>c, <1>d, Zenon
<1>5. PICK sized : sized = Sized(stats)
  OBVIOUS
<1>6. PICK clears : clears = stats.actions["R"]
  OBVIOUS
<1>7. /\ sized = stats.prices + stats.noRef
      /\ Acted(stats) = sized + clears
      /\ stats.emitted = 4 * sized + clears + stats.commits
      /\ stats.processed - stats.farNeg - stats.farPos - stats.noRef
           >= stats.prices - stats.farNeg - stats.farPos
      /\ stats.prices - stats.farNeg - stats.farPos >= 0
  BY <1>0, <1>5, <1>6, Zenon DEF Describes, InRange
<1>8. \A st \in Numbers : /\ st.processed \in Nat /\ st.emitted \in Nat /\ st.commits \in Nat
                         /\ st.farNeg \in Nat /\ st.farPos \in Nat /\ st.noRef \in Nat
                         /\ st.prices \in Nat /\ st.actions["R"] \in Nat
  BY ActionsDecode DEF Numbers
<1>9. /\ new.processed \in Nat /\ new.emitted \in Nat /\ new.commits \in Nat
      /\ new.farNeg \in Nat /\ new.farPos \in Nat /\ new.noRef \in Nat
      /\ new.prices \in Nat
      /\ stats.processed \in Nat /\ stats.emitted \in Nat /\ stats.commits \in Nat
      /\ stats.farNeg \in Nat /\ stats.farPos \in Nat /\ stats.noRef \in Nat
      /\ stats.prices \in Nat /\ clears \in Nat
  BY <1>0, <1>4, <1>6, <1>8, Zenon
<1>10. /\ sized + p = new.prices + new.noRef
       /\ Acted(new) = (sized + p) + (clears + r)
       /\ new.emitted = 4 * (sized + p) + (clears + r) + new.commits
       /\ new.processed - new.farNeg - new.farPos - new.noRef
            >= new.prices - new.farNeg - new.farPos
       /\ new.prices - new.farNeg - new.farPos >= 0
  <2>1. sized \in Nat /\ sized + p = new.prices + new.noRef
    BY <1>1, <1>4, <1>7, <1>9
  <2>2. Acted(new) = (sized + p) + (clears + r)
    <3>1. Acted(new) = (sized + clears) + (p + r)
      BY <1>2, <1>4, <1>7, Zenon
    <3>2. (sized + clears) + (p + r) = (sized + p) + (clears + r)
      BY <1>1, <1>9, <2>1
    <3> QED
      BY <3>1, <3>2
  <2>3. new.emitted = 4 * (sized + p) + (clears + r) + new.commits
    <3>1. new.emitted = (4 * sized + clears + stats.commits) + (4 * p + r + c)
      BY <1>2, <1>4, <1>7, Zenon
    <3>2. new.commits = stats.commits + c
      BY <1>4
    <3> QED
      BY <1>1, <1>9, <2>1, <3>1, <3>2
  <2>4. new.processed >= new.prices + new.noRef
    <3>1. stats.processed >= stats.prices + stats.noRef
      BY <1>7, <1>9
    <3>2. new.processed = stats.processed + 1 /\ sized = stats.prices + stats.noRef
      BY <1>4, <1>7
    <3> QED
      BY <1>1, <1>9, <2>1, <3>1, <3>2
  <2>5. new.prices - new.farNeg - new.farPos >= 0
    BY <1>4, <1>7, <1>9
  <2> QED
    BY <1>9, <2>1, <2>2, <2>3, <2>4, <2>5
<1>11. Describes(new)
  BY <1>4, <1>5, <1>6, <1>10, Zenon DEF Describes, InRange
<1>12. new.commits > stats.commits <=> Known(e) /\ e.last
  <2>1. new.commits > stats.commits <=> c = 1
    BY <1>0, <1>1, <1>4, <1>8
  <2>2. c = 1 <=> Known(e) /\ e.last
    <3>1. Known(e) /\ e.last => c = 1
      BY <1>c, Zenon DEF One
    <3>2. ~(Known(e) /\ e.last) => c = 0
      BY <1>c, Zenon DEF One
    <3> QED
      BY <3>1, <3>2
  <2> QED
    BY <2>1, <2>2, Zenon
<1> QED
  BY <1>4, <1>11, <1>12, <1>e, Zenon

(* The last token of a record is a commit exactly when it closes a batch.   *)
LEMMA EmittedCommit ==
  ASSUME Live(orders), NEW e \in Feed, NEW mid, NEW out, out = Emit(e, mid)
  PROVE  Known(e) /\ e.last <=> out # <<>> /\ out[Len(out)] = COMMIT
<1>1. e.last \in BOOLEAN /\ e.size \in Nat
  BY FeedTypes
<1>2. CASE ~Known(e)
  BY <1>2 DEF Emit
<1>3. CASE Known(e)
  <2>1. /\ Len(out) = (IF e.action = "R" THEN 1 ELSE 4) + One(e.last)
        /\ e.last => out[Len(out)] = COMMIT
        /\ ~e.last => out[Len(out)] = IF e.action = "R" THEN EncodeAction["R"]
                                      ELSE EncodeSize(e.size)
    BY <1>1, <1>3, Emitted
  <2>2. out # <<>>
    <3>1. PICK o : o = One(e.last)
      OBVIOUS
    <3>2. o \in {0, 1}
      BY <3>1, OneOrNone, Zenon
    <3>3. Len(out) = (IF e.action = "R" THEN 1 ELSE 4) + o
      BY <2>1, <3>1, Zenon
    <3>4. Len(out) # 0
      BY <3>2, <3>3
    <3> QED
      BY <3>4
  <2>3. EncodeAction["R"] # COMMIT
    BY DEF EncodeAction, COMMIT
  <2>4. EncodeSize(e.size) # COMMIT
    <3>1. PICK b \in 1 .. 9 : EncodeSize(e.size) = Size0 + b - 1
      BY <1>1, SizesRead
    <3>2. Size0 \in Nat /\ Size0 > 3
      BY TokenizerAssumption DEF Size0, NoRef, FarPos, PriceZero
    <3> QED
      BY <3>1, <3>2 DEF COMMIT
  <2>5. CASE e.last
    BY <1>3, <2>1, <2>2, <2>5, Zenon
  <2>6. CASE ~e.last
    BY <1>3, <2>1, <2>3, <2>4, <2>6, Zenon
  <2> QED
    BY <2>5, <2>6
<1> QED
  BY <1>2, <1>3

LEMMA StatsStart == TokenizerInit => StatsInv
<1> SUFFICES ASSUME stats = NoStats PROVE StatsInv
  BY DEF TokenizerInit
<1>1. stats \in Numbers
  BY DEF NoStats, Numbers
<1>2. Sized(stats) = 0
  BY DEF Sized, NoStats
<1>3. Acted(stats) = 0 /\ stats.actions["R"] = 0
  BY ActionsDecode DEF Acted, NoStats
<1>4. /\ stats.prices = 0 /\ stats.noRef = 0 /\ stats.emitted = 0 /\ stats.commits = 0
      /\ stats.farNeg = 0 /\ stats.farPos = 0 /\ stats.processed = 0
  BY DEF NoStats
<1> QED
  BY <1>1, <1>2, <1>3, <1>4 DEF StatsInv, Describes, InRange

(* What a step does to the numbers, whatever it is.                         *)
LEMMA StatsStep ==
  ASSUME BookInv, StatsInv, TokenizerNext
  PROVE  /\ stats' \in Numbers /\ Describes(stats')
         /\ record' # None => stats'.emitted = stats.emitted + Len(tokens')
         /\ stats'.commits > stats.commits <=> tokens' # <<>> /\ tokens'[Len(tokens')] = COMMIT
         /\ stats'.commits > stats.commits => batch'.closed
<1>0. stats \in Numbers /\ Describes(stats)
  BY DEF StatsInv
<1>1. CASE \E e \in Feed : FeedEvent(e)
  <2>1. PICK e \in Feed : FeedEvent(e)
    BY <1>1
  <2>2. PICK mid : mid = Mid(Top(levels))
    OBVIOUS
  <2>3. PICK new : new = stats'
    OBVIOUS
  <2>4. PICK out : out = tokens'
    OBVIOUS
  <2>5. new = Counted(e, mid, Emit(e, mid)) /\ out = Emit(e, mid)
    BY <2>1, <2>2, <2>3, <2>4 DEF FeedEvent, Encode
  <2>6. Live(orders)
    BY DEF BookInv, Book
  <2>7. /\ new \in Numbers /\ Describes(new)
        /\ new.emitted = stats.emitted + Len(Emit(e, mid))
        /\ new.commits > stats.commits <=> Known(e) /\ e.last
    BY <2>5, <2>6, StillDescribed
  <2>8. Known(e) /\ e.last <=> out # <<>> /\ out[Len(out)] = COMMIT
    BY <2>5, <2>6, EmittedCommit
  <2>9. batch'.closed = e.last
    BY <2>1 DEF FeedEvent, ProcessEvent
  <2> QED
    BY <2>3, <2>4, <2>5, <2>7, <2>8, <2>9, Zenon
<1>2. CASE SkipInstrument
  <2>1. PICK new : new = stats'
    OBVIOUS
  <2>2. new = [stats EXCEPT !.skipped = @ + 1] /\ record' = None /\ tokens' = <<>>
    BY <1>2, <2>1 DEF SkipInstrument
  <2>3. new \in Numbers
    <3>a. PICK k \in Nat : k = stats.skipped + 1
      BY <1>0 DEF Numbers
    <3>1. stats = [processed |-> stats.processed, skipped |-> stats.skipped,
                   emitted |-> stats.emitted, commits |-> stats.commits,
                   actions |-> stats.actions, farNeg |-> stats.farNeg, farPos |-> stats.farPos,
                   noRef |-> stats.noRef, prices |-> stats.prices, sizes |-> stats.sizes]
      BY <1>0 DEF Numbers
    <3>2. new = [processed |-> stats.processed, skipped |-> k,
                 emitted |-> stats.emitted, commits |-> stats.commits,
                 actions |-> stats.actions, farNeg |-> stats.farNeg, farPos |-> stats.farPos,
                 noRef |-> stats.noRef, prices |-> stats.prices, sizes |-> stats.sizes]
      BY <2>2, <3>a, <3>1
    <3>3. /\ stats.processed \in Nat /\ stats.emitted \in Nat /\ stats.commits \in Nat
          /\ stats.actions \in [DOMAIN EncodeAction -> Nat]
          /\ stats.farNeg \in Nat /\ stats.farPos \in Nat /\ stats.noRef \in Nat
          /\ stats.prices \in Nat /\ stats.sizes \in [1 .. 9 -> Nat]
      BY <1>0 DEF Numbers
    <3> QED
      BY <3>2, <3>3, AreNumbers
  <2>4. /\ new.processed = stats.processed /\ new.emitted = stats.emitted
        /\ new.commits = stats.commits /\ new.actions = stats.actions
        /\ new.farNeg = stats.farNeg /\ new.farPos = stats.farPos /\ new.noRef = stats.noRef
        /\ new.prices = stats.prices /\ new.sizes = stats.sizes
    BY <1>0, <2>2 DEF Numbers
  <2>5. Describes(new)
    BY <1>0, <2>4, Zenon DEF Describes, InRange, Sized, Acted
  <2>6. ~(new.commits > stats.commits)
    BY <1>0, <2>4 DEF Numbers
  <2> QED
    BY <2>1, <2>2, <2>3, <2>5, <2>6, Zenon
<1>3. ASSUME stats' = stats, record' = None,
             tokens' = <<>> \/ tokens' = <<BOS>> \/ tokens' = <<EOS>>
      PROVE  /\ stats' \in Numbers /\ Describes(stats')
             /\ record' # None => stats'.emitted = stats.emitted + Len(tokens')
             /\ stats'.commits > stats.commits
                  <=> tokens' # <<>> /\ tokens'[Len(tokens')] = COMMIT
             /\ stats'.commits > stats.commits => batch'.closed
  <2>1. PICK out : out = tokens'
    OBVIOUS
  <2>2. ~(out # <<>> /\ out[Len(out)] = COMMIT)
    BY <1>3, <2>1 DEF BOS, EOS, COMMIT
  <2>3. ~(stats.commits > stats.commits)
    BY <1>0 DEF Numbers
  <2> QED
    BY <1>0, <1>3, <2>1, <2>2, <2>3, Zenon
<1> QED
  BY <1>1, <1>2, <1>3 DEF TokenizerNext, OpenFile, CloseFile, DecodeError, Write

(* The numbers that are reported at the end describe the stream that was    *)
(* written, through all the files and whatever the records were             *)
(* (mbo-tokenizer lib.rs:262-304, 368-472).                                 *)
THEOREM NumbersDescribeStream == TokenizerSpec => StatsDescribeStream
<1>1. TokenizerInit => StatsInv
  BY StatsStart
<1>2. BookInv /\ StatsInv /\ [TokenizerNext]_all => StatsInv'
  <2> SUFFICES ASSUME BookInv, StatsInv, [TokenizerNext]_all PROVE StatsInv'
    OBVIOUS
  <2>1. CASE TokenizerNext
    BY <2>1, StatsStep DEF StatsInv
  <2>2. CASE UNCHANGED all
    BY <2>2 DEF all, tool, StatsInv
  <2> QED
    BY <2>1, <2>2
<1>3. BookInv /\ StatsInv /\ [TokenizerNext]_all
        => [/\ Describes(stats')
            /\ record' # None => stats'.emitted = stats.emitted + Len(tokens')
            /\ stats'.commits > stats.commits <=> tokens' # <<>> /\ tokens'[Len(tokens')] = COMMIT
            /\ stats'.commits > stats.commits => batch'.closed]_all
  BY StatsStep
<1>4. TokenizerSpec => []BookInv
  BY BookIsInvariant, TokenizerFeeds, PTL
<1> QED
  BY <1>1, <1>2, <1>3, <1>4, PTL DEF TokenizerSpec, StatsDescribeStream
=============================================================================
