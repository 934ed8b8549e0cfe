----------------------------- MODULE FoldProofs -----------------------------
(***************************************************************************)
(* Proofs about FoldRun: labels that agree with each other, splits that do *)
(* not leak, the model that is used, and trades that are serial, for any   *)
(* data sorted by time, any geometries, purge, embargo and losses. Then    *)
(* about Shards, which runs those folds on several machines or threads:    *)
(* reports of all the folds, in the order of the splits and without part   *)
(* of a machine's results, for any number of folds, machines and threads.  *)
(***************************************************************************)
EXTENDS FoldRun, Shards, FiniteSetTheorems, SequenceTheorems, WellFoundedInduction, TLAPS

(* A set of numbers has a least one, by well-foundedness.                   *)
LEMMA Least ==
  ASSUME NEW S \in SUBSET Nat, S # {}
  PROVE  \E m \in S : \A k \in S : m <= k
<1>1. PICK m \in S : \A k \in S : <<k, m>> \notin OpToRel(<, Nat)
  BY WFMin, NatLessThanWellFounded, Zenon
<1>2. \A k \in S : ~(k < m)
  BY <1>1, Zenon DEF OpToRel
<1> QED
  BY <1>2

LEMMA MinIs ==
  ASSUME NEW S \in SUBSET Nat, NEW m \in S, \A k \in S : m <= k
  PROVE  Min(S) = m
<1>1. \A x \in S : (\A k \in S : x <= k) => x = m
  OBVIOUS
<1> QED
  BY <1>1, Zenon DEF Min

-----------------------------------------------------------------------------
(* Labels.                                                                  *)

(* The moves of simulate_barrier, and the ticks at which it would end.      *)
MoveTo(day, i, k)   == (Mid(day[k]) - EntryPrice(day[i])) * day[i].side
TooLate(day, i, k)  == day[k].ts > day[i].ts + Horizon
Hits(day, i, g, k)  == MoveTo(day, i, k) >= 2 * g.target
StopsOut(day, i, g, k) == MoveTo(day, i, k) <= -2 * g.stop

Exits(day, i, g) ==
  {k \in DOMAIN day : day[k].ts > day[i].ts
                        /\ (TooLate(day, i, k) \/ Hits(day, i, g, k) \/ StopsOut(day, i, g, k))}

LEMMA Barrier ==
  ASSUME NEW day, NEW i, NEW g
  PROVE  SimulateBarrier(day, i, g) =
           IF Exits(day, i, g) = {} THEN [outcome |-> -1, exit |-> day[Len(day)].ts]
           ELSE [outcome |-> IF TooLate(day, i, Min(Exits(day, i, g))) THEN -1
                             ELSE IF Hits(day, i, g, Min(Exits(day, i, g))) THEN 1 ELSE 0,
                 exit |-> day[Min(Exits(day, i, g))].ts]
BY DEF SimulateBarrier, Exits, TooLate, Hits, StopsOut, MoveTo

LEMMA DayTypes ==
  ASSUME NEW day \in Days
  PROVE  /\ Len(day) \in Nat /\ DOMAIN day = 1 .. Len(day)
         /\ \A k \in DOMAIN day : day[k].ts \in Nat /\ day[k].strong \in BOOLEAN
         /\ \A i, k \in DOMAIN day : MoveTo(day, i, k) \in Int
         /\ \A i, k \in DOMAIN day : i <= k => day[i].ts <= day[k].ts
<1>1. day \in Seq(States) /\ \A i, k \in DOMAIN day : i <= k => day[i].ts <= day[k].ts
  BY DEF Days
<1>2. \A k \in DOMAIN day : day[k] \in States
  BY <1>1
<1>3. ASSUME NEW i \in DOMAIN day, NEW k \in DOMAIN day PROVE MoveTo(day, i, k) \in Int
  <2>1. Mid(day[k]) \in Int /\ EntryPrice(day[i]) \in Int /\ day[i].side \in {1, -1}
    BY <1>2 DEF States, Mid, EntryPrice
  <2> QED
    BY <2>1 DEF MoveTo
<1> QED
  BY <1>1, <1>2, <1>3 DEF States

LEMMA GeometryTypes ==
  /\ Len(Geometries) \in Nat \ {0} /\ DOMAIN Geometries = 1 .. Len(Geometries)
  /\ \A g \in Range(Geometries) : g.target \in Nat \ {0} /\ g.stop \in Nat \ {0}
<1> DEFINE G == [target : Nat \ {0}, stop : Nat \ {0}]
<1>1. Geometries \in Seq(G) /\ Geometries # <<>>
  BY LabelAssumption
<1>2. /\ Len(Geometries) \in Nat \ {0} /\ DOMAIN Geometries = 1 .. Len(Geometries)
      /\ \A j \in DOMAIN Geometries : Geometries[j] \in G
  <2> HIDE DEF G
  <2> QED
    BY <1>1
<1>3. \A g \in Range(Geometries) : g \in G
  <2> HIDE DEF G
  <2> QED
    BY <1>2, Zenon DEF Range
<1> QED
  BY <1>2, <1>3

(* The ticks at which a trade could end.                                    *)
LEMMA ExitsAreTicks ==
  ASSUME NEW day \in Days, NEW i, NEW g
  PROVE  Exits(day, i, g) \in SUBSET Nat
<1>1. Exits(day, i, g) \in SUBSET DOMAIN day
  BY DEF Exits
<1>2. DOMAIN day \in SUBSET Nat
  BY DayTypes
<1> QED
  BY <1>1, <1>2, Zenon

(* What an outcome other than the horizon says of the first exit.           *)
LEMMA Touched ==
  ASSUME NEW day \in Days, NEW i \in DOMAIN day, NEW g,
         SimulateBarrier(day, i, g).outcome # -1
  PROVE  \E f \in Exits(day, i, g) :
           /\ \A k \in Exits(day, i, g) : f <= k
           /\ ~TooLate(day, i, f)
           /\ SimulateBarrier(day, i, g) =
                [outcome |-> IF Hits(day, i, g, f) THEN 1 ELSE 0, exit |-> day[f].ts]
<1>1. Exits(day, i, g) # {}
  BY Barrier
<1>2. Exits(day, i, g) \in SUBSET Nat
  BY ExitsAreTicks
<1>3. PICK f \in Exits(day, i, g) : \A k \in Exits(day, i, g) : f <= k
  BY <1>1, <1>2, Least
<1>4. Min(Exits(day, i, g)) = f
  BY <1>2, <1>3, MinIs
<1> QED
  BY <1>1, <1>3, <1>4, Barrier

(* The same from a tick that is known to be the first exit.                 *)
LEMMA Decided ==
  ASSUME NEW day \in Days, NEW i \in DOMAIN day, NEW g,
         NEW f \in Exits(day, i, g), \A k \in Exits(day, i, g) : f <= k, ~TooLate(day, i, f)
  PROVE  SimulateBarrier(day, i, g) =
           [outcome |-> IF Hits(day, i, g, f) THEN 1 ELSE 0, exit |-> day[f].ts]
<1>1. Exits(day, i, g) \in SUBSET Nat
  BY ExitsAreTicks
<1>2. Min(Exits(day, i, g)) = f
  BY <1>1, MinIs
<1> QED
  BY <1>2, Barrier

(* An easier geometry is decided no later than a harder one, in its favour. *)
LEMMA BarriersNest ==
  ASSUME NEW day \in Days, NEW i \in DOMAIN day,
         NEW g \in Range(Geometries), NEW h \in Range(Geometries), Eases(g, h)
  PROVE  /\ SimulateBarrier(day, i, h).outcome = 1 =>
              /\ SimulateBarrier(day, i, g).outcome = 1
              /\ SimulateBarrier(day, i, g).exit <= SimulateBarrier(day, i, h).exit
         /\ SimulateBarrier(day, i, g).outcome = 0 =>
              /\ SimulateBarrier(day, i, h).outcome = 0
              /\ SimulateBarrier(day, i, h).exit <= SimulateBarrier(day, i, g).exit
<1>1. \A k \in DOMAIN day : /\ Hits(day, i, h, k) => Hits(day, i, g, k)
                            /\ StopsOut(day, i, g, k) => StopsOut(day, i, h, k)
  <2>1. g.target \in Nat /\ h.target \in Nat /\ g.stop \in Nat /\ h.stop \in Nat
    BY GeometryTypes
  <2>2. \A k \in DOMAIN day : MoveTo(day, i, k) \in Int
    BY DayTypes
  <2> QED
    BY <2>1, <2>2 DEF Eases, Hits, StopsOut
<1>2. \A j, k \in DOMAIN day : j <= k /\ ~TooLate(day, i, k) => ~TooLate(day, i, j) /\ day[j].ts <= day[k].ts
  <2>1. \A k \in DOMAIN day : day[k].ts \in Nat
    BY DayTypes
  <2>2. \A j, k \in DOMAIN day : j <= k => day[j].ts <= day[k].ts
    BY DayTypes
  <2>3. Horizon \in Nat
    BY LabelAssumption
  <2> QED
    BY <2>1, <2>2, <2>3 DEF TooLate
<1>3. Exits(day, i, g) \subseteq DOMAIN day /\ Exits(day, i, h) \subseteq DOMAIN day
  BY DEF Exits
<1>4. ASSUME SimulateBarrier(day, i, h).outcome = 1
      PROVE  /\ SimulateBarrier(day, i, g).outcome = 1
             /\ SimulateBarrier(day, i, g).exit <= SimulateBarrier(day, i, h).exit
  <2>1. PICK fh \in Exits(day, i, h) :
          /\ \A k \in Exits(day, i, h) : fh <= k
          /\ ~TooLate(day, i, fh)
          /\ SimulateBarrier(day, i, h) =
               [outcome |-> IF Hits(day, i, h, fh) THEN 1 ELSE 0, exit |-> day[fh].ts]
    BY <1>4, Touched
  <2>2. Hits(day, i, h, fh)
    BY <1>4, <2>1
  <2>3. fh \in Exits(day, i, g)
    BY <1>1, <1>3, <2>2 DEF Exits
  <2>4. PICK fg \in Exits(day, i, g) : \A k \in Exits(day, i, g) : fg <= k
    <3>1. Exits(day, i, g) \in SUBSET Nat
      BY <1>3, DayTypes
    <3> QED
      BY <2>3, <3>1, Least
  <2>5. fg <= fh /\ ~TooLate(day, i, fg) /\ day[fg].ts <= day[fh].ts
    BY <1>2, <1>3, <2>1, <2>3, <2>4
  <2>6. Hits(day, i, g, fg)
    <3> SUFFICES ASSUME ~Hits(day, i, g, fg) PROVE FALSE
      OBVIOUS
    <3>1. fg \in Exits(day, i, h)
      BY <1>1, <1>3, <2>5 DEF Exits
    <3>2. fg = fh
      BY <1>3, <2>1, <2>5, <3>1, DayTypes
    <3> QED
      BY <1>1, <1>3, <2>2, <3>2
  <2> QED
    BY <2>1, <2>4, <2>5, <2>6, Decided
<1>5. ASSUME SimulateBarrier(day, i, g).outcome = 0
      PROVE  /\ SimulateBarrier(day, i, h).outcome = 0
             /\ SimulateBarrier(day, i, h).exit <= SimulateBarrier(day, i, g).exit
  <2>1. PICK fg \in Exits(day, i, g) :
          /\ \A k \in Exits(day, i, g) : fg <= k
          /\ ~TooLate(day, i, fg)
          /\ SimulateBarrier(day, i, g) =
               [outcome |-> IF Hits(day, i, g, fg) THEN 1 ELSE 0, exit |-> day[fg].ts]
    BY <1>5, Touched
  <2>2. ~Hits(day, i, g, fg) /\ StopsOut(day, i, g, fg)
    BY <1>5, <2>1 DEF Exits
  <2>3. fg \in Exits(day, i, h)
    BY <1>1, <1>3, <2>2 DEF Exits
  <2>4. PICK fh \in Exits(day, i, h) : \A k \in Exits(day, i, h) : fh <= k
    <3>1. Exits(day, i, h) \in SUBSET Nat
      BY <1>3, DayTypes
    <3> QED
      BY <2>3, <3>1, Least
  <2>5. fh <= fg /\ ~TooLate(day, i, fh) /\ day[fh].ts <= day[fg].ts
    BY <1>2, <1>3, <2>1, <2>3, <2>4
  <2>6. ~Hits(day, i, h, fh)
    <3> SUFFICES ASSUME Hits(day, i, h, fh) PROVE FALSE
      OBVIOUS
    <3>1. fh \in Exits(day, i, g)
      BY <1>1, <1>3 DEF Exits
    <3>2. fh = fg
      BY <1>3, <2>1, <2>5, <3>1, DayTypes
    <3> QED
      BY <1>1, <1>3, <2>2, <3>2
  <2> QED
    BY <2>1, <2>4, <2>5, <2>6, Decided
<1> QED
  BY <1>4, <1>5

-----------------------------------------------------------------------------
(* The rows of a file: whose state and geometry each is.                    *)

LEMMA Division ==
  ASSUME NEW a \in Nat, NEW b \in Nat \ {0}
  PROVE  /\ a \div b \in Nat /\ a % b \in 0 .. b - 1
         /\ b * (a \div b) <= a /\ a < b * (a \div b) + b
OBVIOUS

LEMMA Product ==
  ASSUME NEW b \in Nat \ {0}, NEW q \in Int, NEW r \in Int, q < r
  PROVE  b * q + b <= b * r
<1>1. b * (r - q - 1) >= 0
  OBVIOUS
<1>2. b * (r - q - 1) = b * r - b * q - b
  OBVIOUS
<1> QED
  BY <1>1, <1>2

LEMMA DivisionGrows ==
  ASSUME NEW a \in Nat, NEW c \in Nat, NEW b \in Nat \ {0}, a <= c
  PROVE  a \div b <= c \div b
<1> DEFINE q == a \div b
           r == c \div b
<1>1. q \in Nat /\ r \in Nat /\ b * q <= a /\ c < b * r + b
  BY Division
<1>2. r < q => b * r + b <= b * q
  BY <1>1, Product
<1> HIDE DEF q, r
<1>3. b * q \in Int /\ b * r \in Int
  BY <1>1
<1>4. q <= r
  BY <1>1, <1>2, <1>3
<1> QED
  BY <1>4 DEF q, r

LEMMA GroupPlaces ==
  ASSUME NEW n \in Nat, NEW k \in 1 .. n * Len(Geometries)
  PROVE  /\ StateOf(k) \in 1 .. n /\ GeometryOf(k) \in Range(Geometries)
         /\ \A j \in 1 .. n * Len(Geometries) : j <= k => StateOf(j) <= StateOf(k)
<1> DEFINE L == Len(Geometries)
<1>1. L \in Nat \ {0} /\ DOMAIN Geometries = 1 .. L
  BY GeometryTypes
<1>2. n * L \in Nat /\ k \in Nat /\ 1 <= k /\ k <= n * L
  <2> HIDE DEF L
  <2>1. n * L \in Nat
    BY <1>1
  <2>2. k \in 1 .. n * L
    BY DEF L
  <2> QED
    BY <2>1, <2>2
<1>3. StateOf(k) = ((k - 1) \div L) + 1 /\ GeometryOf(k) = Geometries[((k - 1) % L) + 1]
  BY DEF StateOf, GeometryOf
<1>4. (k - 1) \div L \in Nat /\ (k - 1) % L \in 0 .. L - 1 /\ L * ((k - 1) \div L) <= k - 1
  <2> HIDE DEF L
  <2>1. k - 1 \in Nat
    BY <1>2
  <2> QED
    BY <1>1, <2>1, Division
<1>5. (k - 1) \div L < n
  <2> HIDE DEF L
  <2> DEFINE q == (k - 1) \div L
  <2>1. q \in Nat /\ L * q <= k - 1
    BY <1>4
  <2> HIDE DEF q
  <2>2. L * q < n * L /\ n * L = L * n
    BY <1>1, <1>2, <2>1
  <2>3. n <= q => L * n <= L * q
    <3>1. n < q => L * n + L <= L * q
      BY <1>1, <2>1, Product
    <3> QED
      BY <1>1, <2>1, <3>1
  <2>4. q < n
    BY <1>1, <2>1, <2>2, <2>3
  <2> QED
    BY <2>4 DEF q
<1>6. ((k - 1) % L) + 1 \in DOMAIN Geometries
  <2> HIDE DEF L
  <2> QED
    BY <1>1, <1>4
<1>7. GeometryOf(k) \in Range(Geometries)
  BY <1>3, <1>6, Zenon DEF Range
<1>8. ASSUME NEW j \in 1 .. n * L, j <= k PROVE StateOf(j) <= StateOf(k)
  <2>1. j - 1 \in Nat /\ k - 1 \in Nat /\ j - 1 <= k - 1
    <3> HIDE DEF L
    <3> QED
      BY <1>2, <1>8
  <2>2. (j - 1) \div L <= (k - 1) \div L /\ (j - 1) \div L \in Int /\ (k - 1) \div L \in Int
    <3> HIDE DEF L
    <3> PICK a, c : a = j - 1 /\ c = k - 1
      OBVIOUS
    <3>1. a \div L <= c \div L
      BY <1>1, <2>1, DivisionGrows
    <3>2. a \div L \in Nat /\ c \div L \in Nat
      BY <1>1, <2>1, Division
    <3> QED
      BY <3>1, <3>2
  <2>3. StateOf(j) = ((j - 1) \div L) + 1
    BY DEF StateOf
  <2> HIDE DEF L
  <2> QED
    BY <1>3, <2>2, <2>3
<1>9. StateOf(k) \in 1 .. n
  <2> HIDE DEF L
  <2> QED
    BY <1>3, <1>4, <1>5
<1> QED
  BY <1>7, <1>8, <1>9

RowTypes ==
  [ts : Nat, geometry : Range(Geometries), strong : BOOLEAN, outcome : {-1, 0, 1}, exit : Nat]

LEMMA RowIs ==
  ASSUME NEW day \in Days, NEW i \in DOMAIN day, NEW g \in Range(Geometries)
  PROVE  /\ Row(day, i, g) \in RowTypes
         /\ Row(day, i, g).outcome # -1 => day[i].ts < Row(day, i, g).exit
<1>1. SimulateBarrier(day, i, g).outcome \in {-1, 0, 1} /\ SimulateBarrier(day, i, g).exit \in Nat
  <2>1. CASE Exits(day, i, g) = {}
    <3>1. Len(day) \in DOMAIN day
      BY DayTypes
    <3> QED
      BY <2>1, <3>1, Barrier, DayTypes
  <2>2. CASE Exits(day, i, g) # {}
    <3>1. Exits(day, i, g) \subseteq DOMAIN day /\ DOMAIN day \in SUBSET Nat
      BY DayTypes DEF Exits
    <3>2. PICK m \in Exits(day, i, g) : \A k \in Exits(day, i, g) : m <= k
      BY <2>2, <3>1, Least
    <3>3. Min(Exits(day, i, g)) = m
      BY <3>1, <3>2, MinIs
    <3>4. day[m].ts \in Nat
      BY <3>1, <3>2, DayTypes
    <3> QED
      BY <2>2, <3>3, <3>4, Barrier
  <2> QED
    BY <2>1, <2>2
<1>2. SimulateBarrier(day, i, g).outcome # -1 => day[i].ts < SimulateBarrier(day, i, g).exit
  <2> SUFFICES ASSUME SimulateBarrier(day, i, g).outcome # -1
               PROVE  day[i].ts < SimulateBarrier(day, i, g).exit
    OBVIOUS
  <2>1. PICK f \in Exits(day, i, g) : SimulateBarrier(day, i, g).exit = day[f].ts
    BY Touched
  <2>2. day[f].ts > day[i].ts /\ f \in DOMAIN day
    BY DEF Exits
  <2> QED
    BY <2>1, <2>2, DayTypes
<1>3. day[i].ts \in Nat /\ day[i].strong \in BOOLEAN
  BY DayTypes
<1> QED
  BY <1>1, <1>2, <1>3 DEF Row, RowTypes

(* What is used of the rows of a day. *)
DayIsRight(day, rows) ==
  /\ Len(rows) \in Nat /\ DOMAIN rows = 1 .. Len(rows)
  /\ \A k \in DOMAIN rows :
       /\ rows[k] \in RowTypes /\ (rows[k].outcome # -1 => rows[k].ts < rows[k].exit)
       /\ \E i \in DOMAIN day : rows[k].ts = day[i].ts
  /\ \A j, k \in DOMAIN rows : j <= k => rows[j].ts <= rows[k].ts
  /\ \A j, k \in DOMAIN rows :
       StateOf(j) = StateOf(k) /\ Eases(rows[j].geometry, rows[k].geometry) =>
         /\ rows[k].outcome = 1 => rows[j].outcome = 1 /\ rows[j].exit <= rows[k].exit
         /\ rows[j].outcome = 0 => rows[k].outcome = 0 /\ rows[k].exit <= rows[j].exit

LEMMA ExportIsRight == ASSUME NEW day \in Days PROVE DayIsRight(day, ExportDay(day))
<1> PICK rows : rows = ExportDay(day)
  OBVIOUS
<1> DEFINE n == Len(day) * Len(Geometries)
<1>1. n \in Nat /\ Len(day) \in Nat
  BY DayTypes, GeometryTypes
<1>2. /\ rows = [k \in 1 .. n |-> Row(day, StateOf(k), GeometryOf(k))]
      /\ Len(rows) = n /\ DOMAIN rows = 1 .. n
  <2>1. rows = [k \in 1 .. n |-> Row(day, StateOf(k), GeometryOf(k))]
    BY DEF ExportDay
  <2> HIDE DEF n
  <2> QED
    BY <1>1, <2>1
<1>3. ASSUME NEW k \in 1 .. n
      PROVE  /\ StateOf(k) \in DOMAIN day /\ GeometryOf(k) \in Range(Geometries)
             /\ \A j \in 1 .. n : j <= k => StateOf(j) <= StateOf(k)
             /\ rows[k] = Row(day, StateOf(k), GeometryOf(k))
             /\ rows[k].ts = day[StateOf(k)].ts /\ rows[k].geometry = GeometryOf(k)
             /\ rows[k].outcome = SimulateBarrier(day, StateOf(k), GeometryOf(k)).outcome
             /\ rows[k].exit = SimulateBarrier(day, StateOf(k), GeometryOf(k)).exit
  <2>1. /\ StateOf(k) \in 1 .. Len(day) /\ GeometryOf(k) \in Range(Geometries)
        /\ \A j \in 1 .. n : j <= k => StateOf(j) <= StateOf(k)
    BY <1>1, <1>3, GroupPlaces
  <2>2. StateOf(k) \in DOMAIN day
    BY <2>1, DayTypes
  <2>3. rows[k] = Row(day, StateOf(k), GeometryOf(k))
    <3> HIDE DEF n
    <3> QED
      BY <1>2, <1>3
  <2>4. /\ rows[k].ts = day[StateOf(k)].ts /\ rows[k].geometry = GeometryOf(k)
        /\ rows[k].outcome = SimulateBarrier(day, StateOf(k), GeometryOf(k)).outcome
        /\ rows[k].exit = SimulateBarrier(day, StateOf(k), GeometryOf(k)).exit
    BY <2>3 DEF Row
  <2> QED
    BY <2>1, <2>2, <2>3, <2>4
<1> HIDE DEF n
<1>4. ASSUME NEW k \in DOMAIN rows
      PROVE  /\ rows[k] \in RowTypes /\ (rows[k].outcome # -1 => rows[k].ts < rows[k].exit)
             /\ \E i \in DOMAIN day : rows[k].ts = day[i].ts
  BY <1>2, <1>3, RowIs
<1>5. ASSUME NEW j \in DOMAIN rows, NEW k \in DOMAIN rows, j <= k PROVE rows[j].ts <= rows[k].ts
  <2>1. /\ StateOf(j) <= StateOf(k) /\ StateOf(j) \in DOMAIN day /\ StateOf(k) \in DOMAIN day
        /\ rows[j].ts = day[StateOf(j)].ts /\ rows[k].ts = day[StateOf(k)].ts
    BY <1>2, <1>3, <1>5
  <2> QED
    BY <2>1, DayTypes
<1>6. ASSUME NEW j \in DOMAIN rows, NEW k \in DOMAIN rows,
             StateOf(j) = StateOf(k), Eases(rows[j].geometry, rows[k].geometry)
      PROVE  /\ rows[k].outcome = 1 => rows[j].outcome = 1 /\ rows[j].exit <= rows[k].exit
             /\ rows[j].outcome = 0 => rows[k].outcome = 0 /\ rows[k].exit <= rows[j].exit
  <2> PICK i \in DOMAIN day : i = StateOf(j) /\ i = StateOf(k)
    BY <1>2, <1>3, <1>6
  <2> PICK g \in Range(Geometries), h \in Range(Geometries) : g = GeometryOf(j) /\ h = GeometryOf(k)
    BY <1>2, <1>3
  <2>1. Eases(g, h)
    BY <1>2, <1>3, <1>6
  <2>2. /\ SimulateBarrier(day, i, h).outcome = 1 =>
             /\ SimulateBarrier(day, i, g).outcome = 1
             /\ SimulateBarrier(day, i, g).exit <= SimulateBarrier(day, i, h).exit
        /\ SimulateBarrier(day, i, g).outcome = 0 =>
             /\ SimulateBarrier(day, i, h).outcome = 0
             /\ SimulateBarrier(day, i, h).exit <= SimulateBarrier(day, i, g).exit
    BY <2>1, BarriersNest, Zenon
  <2>3. /\ rows[j].outcome = SimulateBarrier(day, i, g).outcome
        /\ rows[j].exit = SimulateBarrier(day, i, g).exit
        /\ rows[k].outcome = SimulateBarrier(day, i, h).outcome
        /\ rows[k].exit = SimulateBarrier(day, i, h).exit
    BY <1>2, <1>3, Zenon
  <2> QED
    BY <2>2, <2>3, Zenon
<1> QED
  BY <1>1, <1>2, <1>4, <1>5, <1>6 DEF DayIsRight

-----------------------------------------------------------------------------
(* The input of a fold never changes: what is true of it at first is true   *)
(* for ever.                                                                *)
Exported(dir) == [d \in DOMAIN dir |-> ExportDay(dir[d])]

InputInv ==
  /\ \E dir \in DataDirs : data = Exported(dir)
  /\ config \in Configs
  /\ filter # None => mode = "imbalance"
  /\ filter \in Range(Geometries) \cup {None}
  /\ split \in Splits(DayMetas(Counts(data), config.groups), config)

LEMMA InputStart == Init => InputInv
BY DEF Init, InputInv, Exported

LEMMA InputStays == [Next]_vars => UNCHANGED input
BY DEF Next, LoadTrain, LoadImbalanceTrain, LoadFails, Evaluate, TrainingEnds, TrainingFails,
       Predict, PredictImbalance, PredictDays, WalkEvent, WalkEnds, Finished, vars

LEMMA InputKeeps == InputInv /\ [Next]_vars => InputInv'
<1> SUFFICES ASSUME InputInv, [Next]_vars PROVE InputInv'
  OBVIOUS
<1>1. data' = data /\ mode' = mode /\ filter' = filter /\ config' = config /\ split' = split
  BY InputStays DEF input
<1>2. Counts(data') = Counts(data)
  BY <1>1
<1> QED
  BY <1>1, <1>2 DEF InputInv

LEMMA InputIsInvariant == Spec => []InputInv
BY InputStart, InputKeeps, PTL DEF Spec

(* The days of the data, one by one and in order.                           *)
DataIsRight ==
  /\ Len(data) \in Nat /\ DOMAIN data = 1 .. Len(data)
  /\ \A d \in DOMAIN data : \E day \in Days : DayIsRight(day, data[d])
  /\ \A d, e \in DOMAIN data : d < e =>
       \A i \in DOMAIN data[d], j \in DOMAIN data[e] : data[d][i].ts <= data[e][j].ts

LEMMA DataOfInput == InputInv => DataIsRight
<1> SUFFICES ASSUME InputInv PROVE DataIsRight
  OBVIOUS
<1> PICK dir \in DataDirs : data = Exported(dir)
  BY DEF InputInv
<1>1. /\ dir \in Seq(Days)
      /\ \A d, e \in DOMAIN dir : d < e =>
           \A i \in DOMAIN dir[d], j \in DOMAIN dir[e] : dir[d][i].ts <= dir[e][j].ts
  BY FoldAssumption
<1>2. Len(dir) \in Nat /\ DOMAIN dir = 1 .. Len(dir) /\ \A d \in DOMAIN dir : dir[d] \in Days
  BY <1>1
<1>3. /\ Len(data) \in Nat /\ DOMAIN data = 1 .. Len(data) /\ DOMAIN data = DOMAIN dir
      /\ \A d \in DOMAIN data : data[d] = ExportDay(dir[d])
  BY <1>2 DEF Exported
<1>4. \A d \in DOMAIN data : DayIsRight(dir[d], data[d])
  BY <1>2, <1>3, ExportIsRight
<1>5. ASSUME NEW d \in DOMAIN data, NEW e \in DOMAIN data, d < e,
             NEW i \in DOMAIN data[d], NEW j \in DOMAIN data[e]
      PROVE  data[d][i].ts <= data[e][j].ts
  <2> PICK k \in DOMAIN dir[d] : data[d][i].ts = dir[d][k].ts
    BY <1>4 DEF DayIsRight
  <2> PICK l \in DOMAIN dir[e] : data[e][j].ts = dir[e][l].ts
    BY <1>4 DEF DayIsRight
  <2> QED
    BY <1>1, <1>3, <1>5
<1> QED
  BY <1>2, <1>3, <1>4, <1>5 DEF DataIsRight

-----------------------------------------------------------------------------
(* Whatever the prices of a day, the labels of one state agree: an easier   *)
(* geometry is won whenever a harder one is, and lost only when it is, no   *)
(* later and no sooner (event-labels lib.rs:81-140).                        *)
THEOREM LabelsAgree == Spec => []LabelsNest
<1>1. InputInv => LabelsNest
  <2> SUFFICES ASSUME InputInv, NEW d \in DOMAIN data,
                      NEW i \in DOMAIN data[d], NEW j \in DOMAIN data[d],
                      StateOf(i) = StateOf(j), Eases(data[d][i].geometry, data[d][j].geometry)
               PROVE  /\ data[d][j].outcome = 1 =>
                           data[d][i].outcome = 1 /\ data[d][i].exit <= data[d][j].exit
                      /\ data[d][i].outcome = 0 =>
                           data[d][j].outcome = 0 /\ data[d][j].exit <= data[d][i].exit
    BY DEF LabelsNest
  <2> PICK day \in Days : DayIsRight(day, data[d])
    BY DataOfInput DEF DataIsRight
  <2> QED
    BY Zenon DEF DayIsRight
<1> QED
  BY <1>1, InputIsInvariant, PTL

-----------------------------------------------------------------------------
(* Early stopping.                                                          *)

(* The best loss so far, the evaluation that had it, and the rounds since.  *)
Best(b) ==
  /\ bestIter + 1 = EvalEvery * b /\ bestLoss = losses[b]
  /\ stale = EvalEvery * (Len(losses) - b)
  /\ \A e \in DOMAIN losses : losses[b] <= losses[e] /\ (e < b => losses[b] < losses[e])

BestInv ==
  /\ losses \in Seq(Losses)
  /\ losses # <<>> => hasVal /\ pc # "load"
  /\ losses = <<>> /\ pc \in {"load", "train"} => bestLoss = None
  /\ losses # <<>> /\ pc \in {"train", "predict"} => \E b \in DOMAIN losses : Best(b)
  /\ losses # <<>> /\ pc = "predict" /\ Len(losses) < Evaluations => stale >= EarlyStopping

LEMMA Quotient ==
  ASSUME NEW b \in Nat \ {0}, NEW q \in Nat
  PROVE  (b * q) \div b = q
<1> DEFINE r == (b * q) \div b
<1>1. b * q \in Nat
  OBVIOUS
<1>2. r \in Nat /\ b * r <= b * q /\ b * q < b * r + b
  BY <1>1, Division
<1> HIDE DEF r
<1>3. q < r => b * q + b <= b * r
  BY <1>2, Product
<1>4. r < q => b * r + b <= b * q
  BY <1>2, Product
<1>5. b * r \in Int
  BY <1>2
<1>6. r = q
  BY <1>1, <1>2, <1>3, <1>4, <1>5
<1> QED
  BY <1>6 DEF r

LEMMA EvaluateKeeps == ASSUME BestInv, Evaluate PROVE BestInv'
<1> PICK loss \in Losses :
      /\ losses' = Append(losses, loss) /\ stale' = NoImprove(loss)
      /\ \/ /\ Better(loss)
            /\ bestLoss' = loss /\ bestIter' = EvalEvery * (Len(losses) + 1) - 1
         \/ ~Better(loss) /\ UNCHANGED <<bestLoss, bestIter>>
      /\ pc' = IF NoImprove(loss) >= EarlyStopping THEN "predict" ELSE "train"
  BY DEF Evaluate
<1> PICK n : n = Len(losses)
  OBVIOUS
<1>1. /\ n \in Nat /\ DOMAIN losses = 1 .. n /\ losses' \in Seq(Losses)
      /\ Len(losses') = n + 1 /\ DOMAIN losses' = 1 .. n + 1
      /\ losses'[n + 1] = loss /\ \A e \in 1 .. n : losses'[e] = losses[e] /\ losses[e] \in Losses
      /\ losses' # <<>> /\ (n # 0 <=> losses # <<>>)
  BY DEF BestInv
<1>2. Losses \subseteq Nat /\ None \notin Losses /\ EvalEvery \in Nat \ {0} /\ EarlyStopping \in Nat
  BY FoldAssumption
<1>3. pc = "train" /\ hasVal /\ hasVal' /\ pc' \in {"train", "predict"}
  BY DEF Evaluate
<1>4. \E b \in DOMAIN losses' : Best(b)'
  <2>1. CASE Better(loss)
    <3>1. bestIter' = EvalEvery * (n + 1) - 1 /\ bestLoss' = loss /\ stale' = 0
      BY <2>1 DEF NoImprove
    <3>2. bestIter' + 1 = EvalEvery * (n + 1) /\ stale' = EvalEvery * (Len(losses') - (n + 1))
      <4>1. EvalEvery * (n + 1) \in Int
        BY <1>1, <1>2
      <4>2. EvalEvery * (n + 1 - (n + 1)) = 0
        BY <1>1, <1>2
      <4> PICK x \in Int : x = bestIter'
        BY <3>1, <4>1
      <4> QED
        BY <1>1, <3>1, <4>1, <4>2
    <3>3. ASSUME NEW e \in 1 .. n PROVE loss < losses[e]
      <4>1. PICK b \in 1 .. n : Best(b)
        BY <1>1, <1>3 DEF BestInv
      <4>2. bestLoss # None /\ bestLoss = losses[b] /\ losses[b] <= losses[e]
        BY <1>1, <1>2, <4>1 DEF Best
      <4>3. loss < losses[b] /\ loss \in Nat /\ losses[b] \in Nat /\ losses[e] \in Nat
        BY <1>1, <1>2, <2>1, <4>1, <4>2 DEF Better
      <4> QED
        BY <4>2, <4>3
    <3>4. loss \in Nat
      BY <1>2
    <3>5. \A e \in DOMAIN losses' :
            losses'[n + 1] <= losses'[e] /\ (e < n + 1 => losses'[n + 1] < losses'[e])
      <4> SUFFICES ASSUME NEW e \in 1 .. n + 1
                   PROVE  loss <= losses'[e] /\ (e < n + 1 => loss < losses'[e])
        BY <1>1
      <4>1. CASE e = n + 1
        BY <1>1, <3>4, <4>1
      <4>2. CASE e \in 1 .. n
        <5>1. loss < losses[e] /\ losses'[e] = losses[e] /\ losses[e] \in Nat
          BY <1>1, <1>2, <3>3, <4>2
        <5> QED
          BY <3>4, <5>1
      <4> QED
        BY <1>1, <4>1, <4>2
    <3>6. Best(n + 1)'
      BY <1>1, <3>1, <3>2, <3>5, Zenon DEF Best
    <3> QED
      BY <1>1, <3>6
  <2>2. CASE ~Better(loss)
    <3>1. bestLoss # None /\ ~(loss < bestLoss) /\ bestLoss' = bestLoss /\ bestIter' = bestIter
      BY <2>2 DEF Better
    <3>2. stale' = stale + EvalEvery
      BY <2>2 DEF NoImprove
    <3>3. PICK b \in 1 .. n : Best(b)
      BY <1>1, <1>3, <3>1 DEF BestInv
    <3>4. stale' = EvalEvery * (n + 1 - b)
      <4>1. stale = EvalEvery * (n - b)
        BY <3>3 DEF Best
      <4>2. EvalEvery * (n - b) + EvalEvery = EvalEvery * (n + 1 - b)
        BY <1>1, <1>2
      <4> QED
        BY <3>2, <4>1, <4>2
    <3>5. losses[b] <= loss /\ losses[b] \in Nat /\ loss \in Nat
      <4>1. bestLoss = losses[b] /\ losses[b] \in Nat /\ loss \in Nat
        BY <1>1, <1>2, <3>3 DEF Best
      <4> QED
        BY <3>1, <4>1
    <3>6. \A e \in 1 .. n + 1 : losses'[b] <= losses'[e] /\ (e < b => losses'[b] < losses'[e])
      <4> SUFFICES ASSUME NEW e \in 1 .. n + 1
                   PROVE  losses'[b] <= losses'[e] /\ (e < b => losses'[b] < losses'[e])
        OBVIOUS
      <4>1. CASE e = n + 1
        BY <1>1, <3>5, <4>1
      <4>2. CASE e \in 1 .. n
        BY <1>1, <3>3, <4>2 DEF Best
      <4> QED
        BY <1>1, <4>1, <4>2
    <3>7. bestIter' + 1 = EvalEvery * b
      BY <3>1, <3>3, Zenon DEF Best
    <3>8. bestLoss' = losses'[b]
      BY <1>1, <3>1, <3>3 DEF Best
    <3>9. stale' = EvalEvery * (Len(losses') - b)
      <4>1. Len(losses') = n + 1
        BY <1>1
      <4> QED
        BY <3>4, <4>1
    <3>10. DOMAIN losses' = 1 .. n + 1 /\ b \in 1 .. n + 1
      BY <1>1, <3>3
    <3>11. Best(b)'
      BY <3>6, <3>7, <3>8, <3>9, <3>10, Zenon DEF Best
    <3> QED
      BY <3>10, <3>11
  <2> QED
    BY <2>1, <2>2
<1>5. pc' = "predict" => stale' >= EarlyStopping
  OBVIOUS
<1> QED
  BY <1>1, <1>3, <1>4, <1>5 DEF BestInv

LEMMA BestKeeps == BestInv /\ [Next]_vars => BestInv'
<1> SUFFICES ASSUME BestInv, [Next]_vars PROVE BestInv'
  OBVIOUS
<1>1. CASE Evaluate
  BY <1>1, EvaluateKeeps
<1>2. CASE LoadTrain \/ LoadImbalanceTrain
  <2>1. /\ pc = "load" /\ pc' \in {"train", "failed"}
        /\ UNCHANGED <<losses, bestLoss, bestIter, stale>>
    BY <1>2 DEF LoadTrain, LoadImbalanceTrain, StartTraining, Fail
  <2> QED
    BY <2>1 DEF BestInv
<1>3. CASE LoadFails \/ TrainingFails
  BY <1>3 DEF LoadFails, TrainingFails, Fail, BestInv, training
<1>4. CASE TrainingEnds
  <2>1. pc = "train" /\ pc' = "predict" /\ UNCHANGED <<hasVal, losses, bestLoss, stale>>
    BY <1>4 DEF TrainingEnds
  <2>2. losses # <<>> => Len(losses) = Evaluations /\ bestIter' = bestIter
    BY <1>4 DEF TrainingEnds, BestInv
  <2>3. \A b : losses # <<>> /\ Best(b) => Best(b)'
    BY <2>1, <2>2 DEF Best
  <2>4. losses # <<>> => ~(Len(losses) < Evaluations)
    <3>1. Len(losses) \in Nat
      BY DEF BestInv
    <3> QED
      BY <2>2, <3>1
  <2> QED
    BY <2>1, <2>3, <2>4 DEF BestInv
<1>5. CASE Predict \/ PredictImbalance
  <2>1. losses' = <<>> /\ pc' \in {"failed", "walk"}
    BY <1>5 DEF Predict, PredictImbalance, PredictDays
  <2> QED
    BY <2>1 DEF BestInv
<1>6. CASE WalkEvent \/ WalkEnds \/ Finished \/ UNCHANGED vars
  BY <1>6 DEF WalkEvent, WalkEnds, Finished, training, vars, BestInv, Best
<1> QED
  BY <1>1, <1>2, <1>3, <1>4, <1>5, <1>6 DEF Next

LEMMA BestIsInvariant == Spec => []BestInv
<1>1. Init => BestInv
  BY DEF Init, BestInv
<1> QED
  BY <1>1, BestKeeps, PTL DEF Spec

(* The model that predicts is the best one the training evaluated, the      *)
(* first of equals, and training that stopped early looked EarlyStopping    *)
(* rounds further (fold_runner.rs:466-514).                                 *)
THEOREM BestModelPredicts == Spec => []StopsAtTheBest
<1>1. BestInv => StopsAtTheBest
  <2> SUFFICES ASSUME BestInv, pc = "predict", losses # <<>>
               PROVE  LET best == (bestIter + 1) \div EvalEvery
                      IN  /\ \A e \in DOMAIN losses :
                               losses[best] <= losses[e] /\ (e < best => losses[best] < losses[e])
                          /\ Len(losses) < Evaluations =>
                               (Len(losses) - best) * EvalEvery >= EarlyStopping
    BY DEF StopsAtTheBest
  <2>1. EvalEvery \in Nat \ {0} /\ Len(losses) \in Nat /\ DOMAIN losses = 1 .. Len(losses)
    BY FoldAssumption DEF BestInv
  <2>2. PICK b \in DOMAIN losses : Best(b)
    BY DEF BestInv
  <2>3. (bestIter + 1) \div EvalEvery = b
    <3>1. (EvalEvery * b) \div EvalEvery = b
      BY <2>1, Quotient
    <3> QED
      BY <2>2, <3>1 DEF Best
  <2>4. (Len(losses) - b) * EvalEvery = stale
    <3>1. EvalEvery * (Len(losses) - b) = (Len(losses) - b) * EvalEvery
      BY <2>1
    <3> QED
      BY <2>2, <3>1 DEF Best
  <2> QED
    BY <2>2, <2>3, <2>4 DEF Best, BestInv
<1> QED
  BY <1>1, BestIsInvariant, PTL

-----------------------------------------------------------------------------
(* The walk.                                                                *)

(* The rows the walk goes through, and their order.                         *)
LEMMA TestedRows ==
  ASSUME InputInv, NEW e \in Load(split.test)
  PROVE  /\ e[1] \in DOMAIN data /\ e[2] \in DOMAIN data[e[1]] /\ e = <<e[1], e[2]>>
         /\ e[1] \in Nat /\ e[2] \in Nat
         /\ RowAt(e) \in RowTypes /\ RowAt(e).ts < RowAt(e).exit
         /\ filter # None => RowAt(e).geometry = filter
<1>1. PICK d \in split.test : e \in LoadDay(d)
  BY DEF Load
<1>2. d \in DOMAIN data
  <2>1. split.test \subseteq DOMAIN DayMetas(Counts(data), config.groups)
    BY DEF InputInv, Splits, Split, TestDays
  <2>2. DOMAIN DayMetas(Counts(data), config.groups) = DOMAIN data
    BY DEF DayMetas, Counts
  <2> QED
    BY <2>1, <2>2
<1>3. e = <<d, e[2]>> /\ e[1] = d /\ e[2] \in DOMAIN data[d] /\ Passes(data[d][e[2]])
  BY <1>1 DEF LoadDay
<1>4. PICK day \in Days : DayIsRight(day, data[d])
  BY <1>2, DataOfInput DEF DataIsRight
<1>5. /\ RowAt(e) \in RowTypes /\ (RowAt(e).outcome # -1 => RowAt(e).ts < RowAt(e).exit)
      /\ e[2] \in Nat
  BY <1>3, <1>4 DEF DayIsRight, RowAt
<1>6. RowAt(e).outcome # -1 /\ (filter # None => RowAt(e).geometry = filter)
  BY <1>3 DEF Passes, RowAt, InputInv
<1>7. d \in Nat
  BY <1>2, DataOfInput DEF DataIsRight
<1> QED
  BY <1>2, <1>3, <1>5, <1>6, <1>7

LEMMA Older ==
  ASSUME InputInv, NEW e \in Load(split.test), NEW f \in Load(split.test), Earlier(e, f)
  PROVE  RowAt(e).ts <= RowAt(f).ts
<1>1. /\ e[1] \in DOMAIN data /\ e[2] \in DOMAIN data[e[1]]
      /\ f[1] \in DOMAIN data /\ f[2] \in DOMAIN data[f[1]]
      /\ e[2] \in Nat /\ f[2] \in Nat
  BY TestedRows
<1>2. CASE e[1] < f[1]
  BY <1>1, <1>2, DataOfInput DEF DataIsRight, RowAt
<1>3. CASE e[1] = f[1] /\ e[2] < f[2]
  <2>1. PICK day \in Days : DayIsRight(day, data[e[1]])
    BY <1>1, DataOfInput DEF DataIsRight
  <2>2. \A j, k \in DOMAIN data[e[1]] : j <= k => data[e[1]][j].ts <= data[e[1]][k].ts
    BY <2>1 DEF DayIsRight
  <2>3. e[2] <= f[2]
    BY <1>1, <1>3
  <2> QED
    BY <1>1, <1>3, <2>2, <2>3 DEF RowAt
<1> QED
  BY <1>2, <1>3 DEF Earlier

LEMMA OneWay ==
  ASSUME InputInv, NEW e \in Load(split.test), NEW f \in Load(split.test), Earlier(e, f)
  PROVE  ~Earlier(f, e) /\ e # f
<1>1. e[1] \in Nat /\ e[2] \in Nat /\ f[1] \in Nat /\ f[2] \in Nat
  BY TestedRows
<1> QED
  BY <1>1 DEF Earlier

(* What was walked lies before what is left.                                *)
WalkTypes ==
  /\ events \cup trades \cup skipped \subseteq Load(split.test)
  /\ nextTs \in Nat
  /\ own \in [Range(Geometries) -> [next : Nat, trades : SUBSET (trades \cup skipped)]]
  /\ \A e \in events, k \in trades \cup skipped : Earlier(k, e)
  /\ pc \in {"load", "train", "predict"} => trades = {} /\ skipped = {}

(* A lock is the last exit of the trades that it comes from.                *)
Lock(until, made) ==
  /\ \A t \in made : RowAt(t).exit <= until
  /\ until # 0 => \E t \in made : RowAt(t).exit = until

Locks ==
  /\ Lock(nextTs, trades)
  /\ \A g \in Range(Geometries) : Lock(own[g].next, own[g].trades)
  /\ filter # None => own[filter].next = nextTs

WalkInv == WalkTypes /\ Locks /\ Serial /\ BreakdownExplained

(* The step takes the event e.                                              *)
Takes(e, edge) ==
  /\ e \in events /\ events' = events \ {e}
  /\ \A f \in events \ {e} : Earlier(e, f)
  /\ SerialStep(e, edge) /\ GeometryStep(e, edge)
  /\ UNCHANGED <<input, pc, training>>

LEMMA TakenEvent ==
  ASSUME InputInv, WalkInv, NEW e, NEW edge \in BOOLEAN, Takes(e, edge)
  PROVE  /\ e \in Load(split.test) /\ RowAt(e).ts \in Nat /\ RowAt(e).exit \in Nat
         /\ RowAt(e).geometry \in Range(Geometries) /\ RowAt(e).ts < RowAt(e).exit
         /\ \A k \in trades \cup skipped :
              /\ k \in Load(split.test) /\ Earlier(k, e) /\ ~Earlier(e, k) /\ k # e
              /\ RowAt(k).ts \in Nat /\ RowAt(k).exit \in Nat
              /\ RowAt(k).ts < RowAt(k).exit /\ RowAt(k).ts <= RowAt(e).ts
         /\ ~Earlier(e, e)
         /\ data' = data /\ filter' = filter /\ split' = split /\ Load(split.test)' = Load(split.test)
         /\ \A x : RowAt(x)' = RowAt(x)
<1>1. e \in Load(split.test) /\ \A k \in trades \cup skipped : k \in Load(split.test) /\ Earlier(k, e)
  BY DEF WalkInv, WalkTypes, Takes
<1>2. /\ RowAt(e) \in RowTypes /\ RowAt(e).ts < RowAt(e).exit
      /\ e[1] \in Nat /\ e[2] \in Nat
  BY <1>1, TestedRows
<1>3. ASSUME NEW k \in trades \cup skipped
      PROVE  /\ RowAt(k) \in RowTypes /\ RowAt(k).ts < RowAt(k).exit
             /\ RowAt(k).ts <= RowAt(e).ts /\ ~Earlier(e, k) /\ k # e
  BY <1>1, <1>3, TestedRows, Older, OneWay
<1>4. data' = data /\ filter' = filter /\ split' = split /\ mode' = mode
  BY DEF Takes, input
<1>5. Load(split.test)' = Load(split.test)
  BY <1>4 DEF Load, LoadDay, Passes
<1>6. \A x : RowAt(x)' = RowAt(x)
  BY <1>4 DEF RowAt
<1>7. ~Earlier(e, e)
  BY <1>2 DEF Earlier
<1> QED
  BY <1>1, <1>2, <1>3, <1>4, <1>5, <1>6, <1>7 DEF RowTypes

(* What a step does to the locks and the trades of each geometry, and to    *)
(* those of the walk.                                                       *)
LEMMA OwnStep ==
  ASSUME InputInv, WalkInv, NEW e, NEW edge \in BOOLEAN, Takes(e, edge), NEW g \in Range(Geometries)
  PROVE  /\ own[g].next \in Nat /\ own[g].trades \subseteq trades \cup skipped
         /\ \/ /\ g = RowAt(e).geometry /\ edge /\ own[g].next <= RowAt(e).ts
               /\ own'[g] = [next |-> RowAt(e).exit, trades |-> own[g].trades \cup {e}]
            \/ /\ own'[g] = own[g]
               /\ g = RowAt(e).geometry => ~edge \/ RowAt(e).ts < own[g].next
<1>1. /\ own \in [Range(Geometries) -> [next : Nat, trades : SUBSET (trades \cup skipped)]]
      /\ own[g].next \in Nat /\ own[g].trades \subseteq trades \cup skipped
  BY DEF WalkInv, WalkTypes
<1>2. RowAt(e).geometry \in Range(Geometries) /\ RowAt(e).ts \in Nat
  BY TakenEvent
<1>3. own' = IF edge /\ ~(RowAt(e).ts < own[RowAt(e).geometry].next)
             THEN [own EXCEPT ![RowAt(e).geometry] = [next |-> RowAt(e).exit, trades |-> @.trades \cup {e}]]
             ELSE own
  BY DEF Takes, GeometryStep, InOwnPosition
<1>4. CASE edge /\ ~(RowAt(e).ts < own[RowAt(e).geometry].next)
  <2>1. own' = [own EXCEPT ![RowAt(e).geometry] =
                  [next |-> RowAt(e).exit, trades |-> own[RowAt(e).geometry].trades \cup {e}]]
    BY <1>3, <1>4
  <2>2. CASE g = RowAt(e).geometry
    <3>1. own'[g] = [next |-> RowAt(e).exit, trades |-> own[g].trades \cup {e}]
      BY <1>1, <2>1, <2>2, Zenon
    <3>2. own[g].next <= RowAt(e).ts
      BY <1>1, <1>2, <1>4, <2>2
    <3> QED
      BY <1>1, <1>4, <2>2, <3>1, <3>2
  <2>3. CASE g # RowAt(e).geometry
    BY <1>1, <2>1, <2>3
  <2> QED
    BY <2>2, <2>3
<1>5. CASE ~(edge /\ ~(RowAt(e).ts < own[RowAt(e).geometry].next))
  BY <1>1, <1>3, <1>5
<1> QED
  BY <1>4, <1>5

LEMMA TotalStep ==
  ASSUME InputInv, WalkInv, NEW e, NEW edge \in BOOLEAN, Takes(e, edge)
  PROVE  \/ /\ RowAt(e).ts < nextTs /\ skipped' = skipped \cup {e}
            /\ trades' = trades /\ nextTs' = nextTs
         \/ /\ nextTs <= RowAt(e).ts /\ edge /\ skipped' = skipped
            /\ trades' = trades \cup {e} /\ nextTs' = RowAt(e).exit
         \/ /\ nextTs <= RowAt(e).ts /\ ~edge /\ skipped' = skipped
            /\ trades' = trades /\ nextTs' = nextTs
<1>1. nextTs \in Nat
  BY DEF WalkInv, WalkTypes
<1>2. RowAt(e).ts \in Nat
  BY TakenEvent
<1>3. SerialStep(e, edge)
  BY DEF Takes
<1> QED
  BY <1>1, <1>2, <1>3 DEF SerialStep, InPosition

LEMMA TypesKeep ==
  ASSUME InputInv, WalkInv, NEW e, NEW edge \in BOOLEAN, Takes(e, edge), pc = "walk"
  PROVE  WalkTypes'
<1>1. /\ e \in Load(split.test) /\ RowAt(e).ts \in Nat /\ RowAt(e).exit \in Nat
      /\ Load(split.test)' = Load(split.test)
      /\ RowAt(e).geometry \in Range(Geometries)
  BY TakenEvent
<1>2. trades \cup skipped \subseteq trades' \cup skipped'
  BY TotalStep
<1>3. trades' \cup skipped' \subseteq trades \cup skipped \cup {e} /\ nextTs' \in Nat
  BY <1>1, TotalStep DEF WalkInv, WalkTypes
<1>4. events' = events \ {e} /\ e \in events /\ \A f \in events \ {e} : Earlier(e, f)
  BY DEF Takes
<1>5. events' \cup trades' \cup skipped' \subseteq Load(split.test)'
  BY <1>1, <1>3, <1>4 DEF WalkInv, WalkTypes
<1>6. \A f \in events', k \in trades' \cup skipped' : Earlier(k, f)
  BY <1>3, <1>4 DEF WalkInv, WalkTypes
<1>7. own' \in [Range(Geometries) -> [next : Nat, trades : SUBSET (trades' \cup skipped')]]
  <2>1. /\ own \in [Range(Geometries) -> [next : Nat, trades : SUBSET (trades' \cup skipped')]]
    BY <1>2 DEF WalkInv, WalkTypes
  <2>2. own' = IF edge /\ ~InOwnPosition(RowAt(e))
               THEN [own EXCEPT ![RowAt(e).geometry] = [next |-> RowAt(e).exit, trades |-> @.trades \cup {e}]]
               ELSE own
    BY DEF Takes, GeometryStep
  <2>3. edge => e \in trades' \cup skipped'
    BY TotalStep
  <2>4. CASE edge /\ ~InOwnPosition(RowAt(e))
    <3> DEFINE T == [next : Nat, trades : SUBSET (trades' \cup skipped')]
               r == [next |-> RowAt(e).exit, trades |-> own[RowAt(e).geometry].trades \cup {e}]
    <3>1. r \in T
      BY <1>1, <2>1, <2>3, <2>4
    <3>2. own' = [own EXCEPT ![RowAt(e).geometry] = r]
      BY <2>2, <2>4
    <3>3. own \in [Range(Geometries) -> T]
      BY <2>1
    <3> HIDE DEF T, r
    <3>4. own' \in [Range(Geometries) -> T]
      BY <1>1, <3>1, <3>2, <3>3
    <3> QED
      BY <3>4 DEF T
  <2> QED
    BY <2>1, <2>2, <2>4
<1>8. pc' = "walk"
  BY DEF Takes
<1> QED
  BY <1>3, <1>5, <1>6, <1>7, <1>8 DEF WalkTypes

(* A lock that is taken over by a later trade.                              *)
LEMMA LockMoves ==
  ASSUME InputInv, WalkInv, NEW e, NEW edge \in BOOLEAN, Takes(e, edge),
         NEW until \in Nat, NEW made \in SUBSET (trades \cup skipped), Lock(until, made),
         until <= RowAt(e).ts
  PROVE  Lock(RowAt(e).exit, made \cup {e})
<1>1. RowAt(e).ts \in Nat /\ RowAt(e).exit \in Nat /\ RowAt(e).ts < RowAt(e).exit
  BY TakenEvent
<1>2. ASSUME NEW t \in made PROVE RowAt(t).exit <= RowAt(e).exit
  <2>1. RowAt(t).exit \in Nat /\ RowAt(t).exit <= until
    BY TakenEvent DEF Lock
  <2> QED
    BY <1>1, <2>1
<1> QED
  BY <1>1, <1>2 DEF Lock

LEMMA LocksKeep ==
  ASSUME InputInv, WalkInv, NEW e, NEW edge \in BOOLEAN, Takes(e, edge)
  PROVE  Locks'
<1>1. \A x : RowAt(x)' = RowAt(x)
  BY TakenEvent
<1>2. nextTs \in Nat /\ Lock(nextTs, trades)
  BY DEF WalkInv, WalkTypes, Locks
<1>3. Lock(nextTs', trades')
  <2>1. CASE nextTs <= RowAt(e).ts /\ edge
    <3>1. Lock(RowAt(e).exit, trades \cup {e})
      BY <1>2, <2>1, LockMoves
    <3>2. nextTs' = RowAt(e).exit /\ trades' = trades \cup {e}
      <4>1. RowAt(e).ts \in Nat
        BY TakenEvent
      <4>2. ~(RowAt(e).ts < nextTs)
        BY <1>2, <2>1, <4>1
      <4> QED
        BY <2>1, <4>2, TotalStep, Zenon
    <3> QED
      BY <3>1, <3>2
  <2>2. CASE ~(nextTs <= RowAt(e).ts /\ edge)
    <3>1. nextTs' = nextTs /\ trades' = trades
      BY <2>2, TotalStep
    <3> QED
      BY <1>2, <3>1
  <2> QED
    BY <2>1, <2>2
<1>4. ASSUME NEW g \in Range(Geometries) PROVE Lock(own'[g].next, own'[g].trades)
  <2>1. Lock(own[g].next, own[g].trades)
    BY DEF WalkInv, Locks
  <2>2. own[g].next \in Nat /\ own[g].trades \in SUBSET (trades \cup skipped)
    BY OwnStep
  <2>3. CASE own'[g] = own[g]
    BY <2>1, <2>3
  <2>4. CASE /\ own[g].next <= RowAt(e).ts
             /\ own'[g] = [next |-> RowAt(e).exit, trades |-> own[g].trades \cup {e}]
    <3>1. Lock(RowAt(e).exit, own[g].trades \cup {e})
      BY <2>1, <2>2, <2>4, LockMoves
    <3> QED
      BY <2>4, <3>1
  <2> QED
    BY <2>3, <2>4, OwnStep
<1>5. ASSUME filter # None PROVE own'[filter].next = nextTs'
  <2>1. filter \in Range(Geometries) /\ own[filter].next = nextTs /\ filter = RowAt(e).geometry
    <3>1. e \in Load(split.test)
      BY TakenEvent
    <3>2. filter = RowAt(e).geometry
      BY <1>5, <3>1, TestedRows
    <3> QED
      BY <1>5, <3>2 DEF WalkInv, Locks, InputInv
  <2>2. RowAt(e).ts \in Nat
    BY TakenEvent
  <2>3. \/ edge /\ nextTs <= RowAt(e).ts /\ own'[filter].next = RowAt(e).exit
        \/ (~edge \/ RowAt(e).ts < nextTs) /\ own'[filter].next = nextTs
    <3>1. \/ /\ edge /\ own[filter].next <= RowAt(e).ts
             /\ own'[filter] = [next |-> RowAt(e).exit, trades |-> own[filter].trades \cup {e}]
          \/ /\ own'[filter] = own[filter]
             /\ ~edge \/ RowAt(e).ts < own[filter].next
      BY <2>1, OwnStep, Zenon
    <3> QED
      BY <2>1, <3>1
  <2> QED
    BY <1>2, <2>2, <2>3, TotalStep
<1>6. filter' = filter
  BY TakenEvent
<1> QED
  BY <1>1, <1>3, <1>4, <1>5, <1>6 DEF Locks, Lock

LEMMA SerialKeeps ==
  ASSUME InputInv, WalkInv, NEW e, NEW edge \in BOOLEAN, Takes(e, edge)
  PROVE  Serial'
<1>1. /\ \A x : RowAt(x)' = RowAt(x)
      /\ RowAt(e).ts \in Nat /\ RowAt(e).exit \in Nat /\ RowAt(e).ts < RowAt(e).exit /\ ~Earlier(e, e)
      /\ \A k \in trades \cup skipped :
           /\ Earlier(k, e) /\ ~Earlier(e, k) /\ RowAt(k).exit \in Nat
           /\ RowAt(k).ts \in Nat /\ RowAt(k).ts <= RowAt(e).ts
  BY TakenEvent
<1>2. nextTs \in Nat /\ Lock(nextTs, trades)
  BY DEF WalkInv, WalkTypes, Locks
<1>3. /\ \A i \in trades :
           /\ RowAt(i).ts < RowAt(i).exit
           /\ \A j \in trades : Earlier(i, j) => RowAt(i).exit <= RowAt(j).ts
      /\ \A k \in skipped : \E i \in trades : Inside(k, i)
  BY DEF WalkInv, Serial
<1>4. CASE RowAt(e).ts < nextTs /\ skipped' = skipped \cup {e} /\ trades' = trades
  <2>1. PICK t \in trades : RowAt(t).exit = nextTs
    BY <1>1, <1>2, <1>4 DEF Lock
  <2>2. Inside(e, t)
    BY <1>1, <1>4, <2>1 DEF Inside
  <2>3. \A k \in skipped' : \E i \in trades' : Inside(k, i)
    BY <1>3, <1>4, <2>2
  <2> QED
    BY <1>1, <1>3, <1>4, <2>3 DEF Serial, Inside
<1>5. CASE nextTs <= RowAt(e).ts /\ skipped' = skipped /\ trades' = trades \cup {e}
  <2>1. ASSUME NEW i \in trades PROVE RowAt(i).exit <= RowAt(e).ts
    <3>1. RowAt(i).exit <= nextTs /\ RowAt(i).exit \in Nat
      BY <1>1, <1>2 DEF Lock
    <3> QED
      BY <1>1, <1>2, <1>5, <3>1
  <2>2. ASSUME NEW i \in trades', NEW j \in trades', Earlier(i, j)
        PROVE  RowAt(i).exit <= RowAt(j).ts
    <3>1. i \in trades
      BY <1>1, <1>5, <2>2
    <3>2. CASE j \in trades
      BY <1>3, <2>2, <3>1, <3>2
    <3>3. CASE j = e
      BY <2>1, <3>1, <3>3
    <3> QED
      BY <1>5, <3>2, <3>3
  <2>3. \A i \in trades' : RowAt(i).ts < RowAt(i).exit
    BY <1>1, <1>3, <1>5
  <2>4. \A k \in skipped' : \E i \in trades' : Inside(k, i)
    BY <1>3, <1>5
  <2> QED
    BY <1>1, <2>2, <2>3, <2>4 DEF Serial, Inside
<1>6. CASE skipped' = skipped /\ trades' = trades
  BY <1>1, <1>3, <1>6 DEF Serial, Inside
<1> QED
  BY <1>4, <1>5, <1>6, TotalStep

LEMMA BreakdownKeeps ==
  ASSUME InputInv, WalkInv, NEW e, NEW edge \in BOOLEAN, Takes(e, edge)
  PROVE  BreakdownExplained'
<1>1. /\ \A x : RowAt(x)' = RowAt(x)
      /\ e \in Load(split.test) /\ filter' = filter
      /\ RowAt(e).ts \in Nat /\ RowAt(e).geometry \in Range(Geometries) /\ ~Earlier(e, e)
      /\ \A k \in trades \cup skipped :
           /\ k \in Load(split.test) /\ Earlier(k, e) /\ ~Earlier(e, k) /\ RowAt(k).exit \in Nat
           /\ RowAt(k).ts \in Nat /\ RowAt(k).ts <= RowAt(e).ts
  BY TakenEvent
<1>2. nextTs \in Nat
  BY DEF WalkInv, WalkTypes
<1>3. /\ trades \subseteq trades' /\ skipped \subseteq skipped' /\ trades' \subseteq trades \cup {e}
      /\ edge => e \in trades' \cup skipped'
      /\ e \in trades' => edge \/ e \in trades
  BY TotalStep
<1>4. ASSUME NEW g \in Range(Geometries)
      PROVE  /\ own[g].trades \subseteq trades \cup skipped
             /\ \/ own'[g].trades = own[g].trades
                \/ edge /\ own'[g].trades = own[g].trades \cup {e} /\ own[g].next <= RowAt(e).ts
  <2>1. /\ own[g].trades \subseteq trades \cup skipped
        /\ \/ own'[g] = own[g]
           \/ /\ edge /\ own[g].next <= RowAt(e).ts
              /\ own'[g] = [next |-> RowAt(e).exit, trades |-> own[g].trades \cup {e}]
    BY OwnStep, Zenon
  <2> QED
    BY <2>1
<1>5. ASSUME NEW g \in Range(Geometries) PROVE own'[g].trades \subseteq trades' \cup skipped'
  BY <1>3, <1>4
<1>6. ASSUME NEW k \in trades'
      PROVE  k \in own'[RowAt(k).geometry].trades
               \/ \E i \in own'[RowAt(k).geometry].trades : Earlier(i, k) /\ Inside(k, i)
  <2>1. CASE k \in trades
    <3>1. RowAt(k).geometry \in Range(Geometries)
      BY <1>1, <2>1, TestedRows DEF RowTypes
    <3>2. k \in own[RowAt(k).geometry].trades
            \/ \E i \in own[RowAt(k).geometry].trades : Earlier(i, k) /\ Inside(k, i)
      BY <2>1, Zenon DEF WalkInv, BreakdownExplained
    <3> QED
      BY <1>4, <3>1, <3>2
  <2>2. CASE k = e /\ e \notin trades
    <3> PICK g \in Range(Geometries) : g = RowAt(e).geometry
      BY <1>1
    <3>1. edge
      BY <1>3, <2>2
    <3>2. CASE own'[g] = [next |-> RowAt(e).exit, trades |-> own[g].trades \cup {e}]
      BY <2>2, <3>2
    <3>3. CASE own'[g] = own[g] /\ RowAt(e).ts < own[g].next
      <4>1. own[g].next \in Nat /\ own[g].trades \subseteq trades \cup skipped
        BY OwnStep
      <4>2. PICK t \in own[g].trades : RowAt(t).exit = own[g].next
        BY <1>1, <3>3, <4>1 DEF WalkInv, Locks, Lock
      <4>3. Inside(e, t) /\ Earlier(t, e)
        BY <1>1, <3>3, <4>1, <4>2 DEF Inside
      <4> QED
        BY <2>2, <3>3, <4>2, <4>3
    <3> QED
      BY <3>1, <3>2, <3>3, OwnStep
  <2> QED
    BY <1>3, <2>1, <2>2
<1>7. ASSUME NEW g \in Range(Geometries),
             NEW i \in own'[g].trades, NEW k \in own'[g].trades, Earlier(i, k)
      PROVE  ~Inside(k, i)
  <2>1. own[g].next \in Nat /\ own[g].trades \subseteq trades \cup skipped
    BY OwnStep
  <2>2. i \in own[g].trades \cup {e} /\ k \in own[g].trades \cup {e}
    BY <1>4, <1>7
  <2>3. i \in own[g].trades
    BY <1>1, <1>7, <2>1, <2>2
  <2>4. CASE k \in own[g].trades
    BY <1>7, <2>3, <2>4, Zenon DEF WalkInv, BreakdownExplained
  <2>5. CASE k = e /\ e \notin own[g].trades
    <3>1. own[g].next <= RowAt(e).ts
      BY <1>4, <1>7, <2>5
    <3>2. RowAt(i).exit <= own[g].next /\ RowAt(i).exit \in Nat
      BY <1>1, <2>1, <2>3 DEF WalkInv, Locks, Lock
    <3>3. RowAt(i).exit <= RowAt(e).ts
      BY <1>1, <2>1, <3>1, <3>2
    <3> QED
      BY <1>1, <2>5, <3>2, <3>3 DEF Inside
  <2> QED
    BY <2>2, <2>4, <2>5
<1>8. ASSUME filter # None PROVE own'[filter].trades = trades'
  <2>1. /\ filter \in Range(Geometries) /\ filter = RowAt(e).geometry
        /\ own[filter].next = nextTs /\ own[filter].trades = trades
    <3>1. filter = RowAt(e).geometry
      BY <1>1, <1>8, TestedRows
    <3>2. own[filter].next = nextTs /\ own[filter].trades = trades
      BY <1>8 DEF WalkInv, Locks, BreakdownExplained
    <3> QED
      BY <1>1, <3>1, <3>2
  <2>2. \/ /\ edge /\ nextTs <= RowAt(e).ts
           /\ own'[filter] = [next |-> RowAt(e).exit, trades |-> trades \cup {e}]
        \/ /\ own'[filter] = own[filter]
           /\ ~edge \/ RowAt(e).ts < nextTs
    <3>1. \/ /\ edge /\ own[filter].next <= RowAt(e).ts
             /\ own'[filter] = [next |-> RowAt(e).exit, trades |-> own[filter].trades \cup {e}]
          \/ /\ own'[filter] = own[filter]
             /\ filter = RowAt(e).geometry => ~edge \/ RowAt(e).ts < own[filter].next
      BY <2>1, OwnStep, Zenon
    <3> QED
      BY <2>1, <3>1
  <2>3. \/ RowAt(e).ts < nextTs /\ trades' = trades
        \/ nextTs <= RowAt(e).ts /\ edge /\ trades' = trades \cup {e}
        \/ nextTs <= RowAt(e).ts /\ ~edge /\ trades' = trades
    BY TotalStep, Zenon
  <2>4. CASE edge /\ nextTs <= RowAt(e).ts
    <3>1. ~(RowAt(e).ts < nextTs)
      BY <1>1, <1>2, <2>4
    <3>2. trades' = trades \cup {e} /\ own'[filter].trades = trades \cup {e}
      BY <2>2, <2>3, <2>4, <3>1
    <3> QED
      BY <3>2
  <2>5. CASE ~(edge /\ nextTs <= RowAt(e).ts)
    <3>1. trades' = trades /\ own'[filter] = own[filter]
      BY <2>2, <2>3, <2>5
    <3> QED
      BY <2>1, <3>1
  <2> QED
    BY <2>4, <2>5
<1>9. \A i, k : Inside(k, i)' <=> Inside(k, i)
  BY <1>1 DEF Inside
<1> QED
  BY <1>1, <1>5, <1>6, <1>7, <1>8, <1>9 DEF BreakdownExplained

(* What the walk has done depends only on these.                            *)
LEMMA NothingWalked ==
  ASSUME WalkInv, UNCHANGED <<data, filter, nextTs, trades, skipped, own>>
  PROVE  Locks' /\ Serial' /\ BreakdownExplained'
<1>1. \A x : RowAt(x)' = RowAt(x)
  BY DEF RowAt
<1>2. \A k, i : Inside(k, i)' <=> Inside(k, i)
  BY <1>1 DEF Inside
<1>3. \A n, m : Lock(n, m)' <=> Lock(n, m)
  BY <1>1 DEF Lock
<1>4. Locks'
  BY <1>3 DEF WalkInv, Locks
<1>5. Serial'
  BY <1>1, <1>2 DEF WalkInv, Serial
<1>6. BreakdownExplained'
  BY <1>1, <1>2 DEF WalkInv, BreakdownExplained
<1> QED
  BY <1>4, <1>5, <1>6

LEMMA WalkStart == Init => WalkInv
<1> SUFFICES ASSUME Init PROVE WalkInv
  OBVIOUS
<1>1. events = {} /\ nextTs = 0 /\ trades = {} /\ skipped = {}
  BY DEF Init
<1>2. /\ own = [g \in Range(Geometries) |-> [next |-> 0, trades |-> {}]]
      /\ \A g \in Range(Geometries) : own[g].next = 0 /\ own[g].trades = {}
  BY DEF Init
<1>3. own \in [Range(Geometries) -> [next : Nat, trades : SUBSET (trades \cup skipped)]]
  BY <1>2
<1>4. filter # None => filter \in Range(Geometries)
  BY InputStart DEF InputInv
<1>5. WalkTypes
  BY <1>1, <1>3 DEF WalkTypes
<1>6. Locks
  BY <1>1, <1>2, <1>4 DEF Locks, Lock
<1>7. Serial
  BY <1>1 DEF Serial
<1>8. BreakdownExplained
  BY <1>1, <1>2, <1>4 DEF BreakdownExplained
<1> QED
  BY <1>5, <1>6, <1>7, <1>8 DEF WalkInv

LEMMA WalkKeeps == InputInv /\ WalkInv /\ [Next]_vars => WalkInv'
<1> SUFFICES ASSUME InputInv, WalkInv, [Next]_vars PROVE WalkInv'
  OBVIOUS
<1>1. data' = data /\ mode' = mode /\ filter' = filter /\ split' = split
  BY InputStays DEF input
<1>2. Load(split.test)' = Load(split.test)
  BY <1>1 DEF Load, LoadDay, Passes
<1>3. CASE WalkEvent
  <2>1. PICK e \in events :
          /\ \A f \in events \ {e} : Earlier(e, f)
          /\ \E edge \in BOOLEAN : SerialStep(e, edge) /\ GeometryStep(e, edge)
          /\ events' = events \ {e}
    BY <1>3, Zenon DEF WalkEvent
  <2>2. PICK edge \in BOOLEAN : SerialStep(e, edge) /\ GeometryStep(e, edge)
    BY <2>1, Zenon
  <2>3. pc = "walk" /\ UNCHANGED <<input, pc, training>>
    BY <1>3, Zenon DEF WalkEvent
  <2>4. Takes(e, edge)
    BY <2>1, <2>2, <2>3, Zenon DEF Takes
  <2> QED
    BY <2>3, <2>4, TypesKeep, LocksKeep, SerialKeeps, BreakdownKeeps DEF WalkInv
<1>4. CASE Predict \/ PredictImbalance
  <2>1. /\ pc = "predict" /\ events' = Load(split.test) /\ pc' \in {"failed", "walk"}
        /\ UNCHANGED <<nextTs, trades, skipped, own>>
    BY <1>4 DEF Predict, PredictImbalance, PredictDays
  <2>2. trades = {} /\ skipped = {}
    BY <2>1 DEF WalkInv, WalkTypes
  <2>3. WalkTypes'
    BY <1>2, <2>1, <2>2 DEF WalkInv, WalkTypes
  <2> QED
    BY <1>1, <2>1, <2>3, NothingWalked DEF WalkInv
<1>5. CASE \/ LoadTrain \/ LoadImbalanceTrain \/ LoadFails \/ Evaluate \/ TrainingEnds
           \/ TrainingFails \/ WalkEnds \/ Finished \/ UNCHANGED vars
  <2>1. /\ UNCHANGED <<events, nextTs, trades, skipped, own>>
        /\ pc' \in {"load", "train", "predict"} => pc \in {"load", "train", "predict"}
    BY <1>5 DEF LoadTrain, LoadImbalanceTrain, StartTraining, Fail, LoadFails, Evaluate,
                TrainingEnds, TrainingFails, WalkEnds, Finished, walk, vars
  <2>2. WalkTypes'
    BY <1>2, <2>1 DEF WalkInv, WalkTypes
  <2> QED
    BY <1>1, <2>1, <2>2, NothingWalked DEF WalkInv
<1> QED
  BY <1>3, <1>4, <1>5 DEF Next

LEMMA WalkIsInvariant == Spec => []WalkInv
BY InputIsInvariant, WalkStart, WalkKeeps, PTL DEF Spec

(* No two trades of a fold overlap, whatever the model predicts and however *)
(* geometries and days follow each other, and only an open position keeps   *)
(* an event from being looked at (fold_runner.rs:516-553).                  *)
THEOREM TradesAreSerial == Spec => []Serial
<1>1. WalkInv => Serial
  BY DEF WalkInv
<1> QED
  BY <1>1, WalkIsInvariant, PTL

(* The breakdown by geometry differs from the total only by the positions   *)
(* of the other geometries, event by event (fold_runner.rs:516-553,         *)
(* 594-656).                                                                *)
THEOREM BreakdownIsExplained == Spec => []BreakdownExplained
<1>1. WalkInv => BreakdownExplained
  BY DEF WalkInv
<1> QED
  BY <1>1, WalkIsInvariant, PTL

-----------------------------------------------------------------------------
(* The days' bars.                                                          *)
LEMMA RowsAreFinite ==
  ASSUME NEW n \in Nat, NEW counts \in [1 .. n -> Nat], NEW i \in 0 .. n
  PROVE  IsFiniteSet(RowsOf(counts, 1 .. i))
<1> DEFINE Bad == {k \in 0 .. n : ~IsFiniteSet(RowsOf(counts, 1 .. k))}
<1>1. CASE Bad # {}
  <2>1. PICK m \in Bad : \A k \in Bad : m <= k
    <3>1. Bad \in SUBSET Nat
      OBVIOUS
    <3> HIDE DEF Bad
    <3> QED
      BY <1>1, <3>1, Least
  <2>2. m # 0
    <3>1. RowsOf(counts, 1 .. 0) = {}
      BY DEF RowsOf
    <3>2. IsFiniteSet(RowsOf(counts, 1 .. 0))
      BY <3>1, FS_EmptySet
    <3> QED
      BY <3>2
  <2>3. m \in 1 .. n /\ m - 1 \in 0 .. n
    BY <2>2
  <2>4. IsFiniteSet(RowsOf(counts, 1 .. m - 1))
    <3>1. m - 1 \notin Bad
      <4> HIDE DEF Bad
      <4> QED
        BY <2>1, <2>3
    <3> QED
      BY <2>3, <3>1
  <2>5. IsFiniteSet({m} \X (1 .. counts[m]))
    <3>1. counts[m] \in Nat
      BY <2>3
    <3>2. IsFiniteSet({m})
      BY FS_Singleton, Zenon
    <3>3. IsFiniteSet(1 .. counts[m])
      BY <3>1, FS_Interval
    <3> QED
      BY <3>2, <3>3, FS_Product, Zenon
  <2>6. RowsOf(counts, 1 .. m) = RowsOf(counts, 1 .. m - 1) \cup ({m} \X (1 .. counts[m]))
    <3>1. 1 .. m = (1 .. m - 1) \cup {m}
      BY <2>3
    <3> QED
      BY <3>1, Zenon DEF RowsOf
  <2>7. IsFiniteSet(RowsOf(counts, 1 .. m))
    <3>1. IsFiniteSet(RowsOf(counts, 1 .. m - 1) \cup ({m} \X (1 .. counts[m])))
      BY <2>4, <2>5, FS_Union, Zenon
    <3> QED
      BY <2>6, <3>1, Zenon
  <2> QED
    BY <2>1, <2>7
<1>2. CASE Bad = {}
  BY <1>2
<1> QED
  BY <1>1, <1>2

LEMMA BarsAdd ==
  ASSUME NEW n \in Nat, NEW counts \in [1 .. n -> Nat], NEW i \in 1 .. n
  PROVE  /\ Before(counts, i) \in Nat /\ Before(counts, i + 1) \in Nat
         /\ Before(counts, i + 1) = Before(counts, i) + counts[i]
         /\ \A j \in 1 .. n : i < j => Before(counts, i + 1) <= Before(counts, j)
<1> DEFINE A == RowsOf(counts, 1 .. i - 1)
           B == {i} \X (1 .. counts[i])
<1>1. IsFiniteSet(A) /\ IsFiniteSet(RowsOf(counts, 1 .. i))
  BY RowsAreFinite
<1>2. IsFiniteSet(B) /\ Cardinality(B) = counts[i]
  <2>1. IsFiniteSet({i}) /\ Cardinality({i}) = 1
    BY FS_Singleton
  <2>2. IsFiniteSet(1 .. counts[i]) /\ Cardinality(1 .. counts[i]) = counts[i] /\ counts[i] \in Nat
    BY FS_Interval
  <2>3. IsFiniteSet(B) /\ Cardinality(B) = Cardinality({i}) * Cardinality(1 .. counts[i])
    BY <2>1, <2>2, FS_Product, Zenon
  <2> HIDE DEF B
  <2> QED
    BY <2>1, <2>2, <2>3
<1>3. RowsOf(counts, 1 .. i) = A \cup B
  <2>1. 1 .. i = (1 .. i - 1) \cup {i}
    OBVIOUS
  <2> QED
    BY <2>1, Zenon DEF RowsOf
<1>4. A \cap B = {}
  <2> SUFFICES ASSUME NEW x \in A, x \in B PROVE FALSE
    OBVIOUS
  <2>1. x[1] = i
    OBVIOUS
  <2>2. PICK d \in 1 .. i - 1 : x \in {d} \X (1 .. counts[d])
    BY DEF RowsOf
  <2>3. x[1] = d
    BY <2>2
  <2> QED
    BY <2>1, <2>2, <2>3
<1>5. Cardinality(A) \in Nat /\ Cardinality(A \cup B) = Cardinality(A) + counts[i] /\ counts[i] \in Nat
  <2>1. Cardinality(A \cup B) = Cardinality(A) + Cardinality(B) - Cardinality(A \cap B)
    BY <1>1, <1>2, FS_Union
  <2>2. Cardinality(A) \in Nat /\ Cardinality(A \cap B) = 0
    BY <1>1, <1>4, FS_CardinalityType, FS_EmptySet
  <2>3. counts[i] \in Nat
    OBVIOUS
  <2> HIDE DEF A, B
  <2> QED
    BY <1>2, <2>1, <2>2, <2>3
<1>6. Before(counts, i) = Cardinality(A) /\ Before(counts, i + 1) = Cardinality(A \cup B)
  <2>1. (i + 1) - 1 = i
    OBVIOUS
  <2> QED
    BY <1>3, <2>1 DEF Before
<1>7. ASSUME NEW j \in 1 .. n, i < j PROVE Before(counts, i + 1) <= Before(counts, j)
  <2>1. 1 .. i \subseteq 1 .. j - 1
    BY <1>7
  <2>2. RowsOf(counts, 1 .. i) \subseteq RowsOf(counts, 1 .. j - 1)
    BY <2>1, Zenon DEF RowsOf
  <2>3. IsFiniteSet(RowsOf(counts, 1 .. j - 1))
    <3>1. j - 1 \in 0 .. n
      OBVIOUS
    <3> QED
      BY <3>1, RowsAreFinite
  <2>4. Cardinality(RowsOf(counts, 1 .. i)) <= Cardinality(RowsOf(counts, 1 .. j - 1))
    BY <2>2, <2>3, FS_Subset
  <2> QED
    BY <1>3, <1>6, <2>4 DEF Before
<1> QED
  BY <1>5, <1>6, <1>7

(* The days' bars follow each other.                                        *)
DaysInOrder(metas, n) ==
  /\ n \in Nat /\ DOMAIN metas = 1 .. n
  /\ \A i \in 1 .. n : metas[i].start \in Nat /\ metas[i].end \in Nat /\ metas[i].start <= metas[i].end
  /\ \A i, j \in 1 .. n : i < j => metas[i].end <= metas[j].start

LEMMA MetasInOrder ==
  ASSUME NEW n \in Nat, NEW counts \in [1 .. n -> Nat], NEW groups
  PROVE  DaysInOrder(DayMetas(counts, groups), n)
<1> PICK metas : metas = DayMetas(counts, groups)
  OBVIOUS
<1>1. /\ DOMAIN metas = 1 .. n
      /\ \A i \in 1 .. n : /\ metas[i].start = Before(counts, i)
                           /\ metas[i].end = Before(counts, i) + counts[i]
  BY DEF DayMetas
<1>2. ASSUME NEW i \in 1 .. n
      PROVE  /\ metas[i].start \in Nat /\ metas[i].end \in Nat /\ metas[i].start <= metas[i].end
             /\ \A j \in 1 .. n : i < j => metas[i].end <= metas[j].start
  <2>1. /\ Before(counts, i) \in Nat /\ counts[i] \in Nat
        /\ Before(counts, i + 1) = Before(counts, i) + counts[i]
        /\ \A j \in 1 .. n : i < j => Before(counts, i + 1) <= Before(counts, j)
    BY BarsAdd
  <2> QED
    BY <1>1, <2>1
<1> QED
  BY <1>1, <1>2 DEF DaysInOrder

-----------------------------------------------------------------------------
(* Splits. Every test day is in one of the blocks: the one from the first   *)
(* to the last test day joined with it.                                     *)
LEMMA Extents ==
  ASSUME NEW metas, NEW n, DaysInOrder(metas, n), NEW i \in 1 .. n, NEW j \in 1 .. n, i <= j
  PROVE  /\ metas[i].start \in Nat /\ metas[j].end \in Nat
         /\ metas[i].start <= metas[j].start /\ metas[i].end <= metas[j].end
<1>1. CASE i = j
  BY <1>1 DEF DaysInOrder
<1>2. CASE i < j
  BY <1>2 DEF DaysInOrder
<1> QED
  BY <1>1, <1>2

(* Days between two that touch have no rows.                                *)
LEMMA NothingBetween ==
  ASSUME NEW metas, NEW n, DaysInOrder(metas, n), NEW i \in 1 .. n, NEW j \in 1 .. n, NEW k \in 1 .. n,
         i < k, k < j, metas[i].end = metas[j].start
  PROVE  metas[k].start = metas[k].end
<1>1. metas[i].end <= metas[k].start /\ metas[k].start <= metas[k].end /\ metas[k].end <= metas[j].start
  BY DEF DaysInOrder
<1>2. metas[i].end \in Nat /\ metas[k].start \in Nat /\ metas[k].end \in Nat
  BY DEF DaysInOrder
<1> QED
  BY <1>1, <1>2

LEMMA InABlock ==
  ASSUME NEW metas, NEW n, DaysInOrder(metas, n), NEW test, NEW e \in TestDays(metas, test)
  PROVE  \E i, j \in TestDays(metas, test) : IsBlock(metas, test, i, j) /\ i <= e /\ e <= j
<1> PICK T : T = TestDays(metas, test)
  OBVIOUS
<1> DEFINE Empty(k) == metas[k].start = metas[k].end
           L == {k \in T : k <= e /\ Joined(metas, test, k, e)}
           R == {k \in T : e <= k /\ Joined(metas, test, e, k)}
           D == {n - k : k \in R}
<1>1. n \in Nat /\ T \subseteq 1 .. n /\ e \in T
  BY DEF DaysInOrder, TestDays
<1>2. \A a, b \in 1 .. n : Joined(metas, test, a, b) <=> \A k \in a .. b : k \in T \/ Empty(k)
  BY DEF Joined
<1>3. e \in L /\ e \in R
  <2>1. \A k \in e .. e : k \in T
    BY <1>1
  <2> QED
    BY <1>1, <1>2, <2>1
<1>4. PICK i \in L : \A k \in L : i <= k
  <2>1. L \in SUBSET Nat /\ L # {}
    BY <1>1, <1>3
  <2> HIDE DEF L
  <2> QED
    BY <2>1, Least
<1>5. PICK j \in R : \A k \in R : k <= j
  <2>a. R \in SUBSET (1 .. n) /\ e \in R
    BY <1>1, <1>3
  <2>1. D \in SUBSET Nat /\ D # {}
    <3> HIDE DEF R
    <3>1. \A k \in R : n - k \in Nat
      BY <1>1, <2>a
    <3>2. D \in SUBSET Nat
      BY <3>1
    <3>3. n - e \in D
      BY <2>a
    <3> QED
      BY <3>2, <3>3, Zenon
  <2>2. PICK m \in D : \A k \in D : m <= k
    <3> HIDE DEF D
    <3> QED
      BY <2>1, Least
  <2>3. PICK j \in R : m = n - j
    BY <2>2
  <2>4. ASSUME NEW k \in R PROVE k <= j
    <3>1. n - j <= n - k
      BY <2>2, <2>3
    <3> QED
      BY <1>1, <2>3, <3>1
  <2> QED
    BY <2>4
<1>6. /\ i \in T /\ j \in T /\ i <= e /\ e <= j
      /\ i \in 1 .. n /\ j \in 1 .. n /\ e \in 1 .. n
      /\ \A k \in i .. e : k \in T \/ Empty(k)
      /\ \A k \in e .. j : k \in T \/ Empty(k)
  BY <1>1, <1>2, <1>4, <1>5
<1>7. Joined(metas, test, i, j)
  <2>1. ASSUME NEW k \in i .. j PROVE k \in T \/ Empty(k)
    <3>1. k \in i .. e \/ k \in e .. j
      BY <1>6
    <3> HIDE DEF Empty
    <3> QED
      BY <1>6, <3>1
  <2> QED
    BY <1>2, <1>6, <2>1
<1>8. ASSUME NEW k \in T, k < i PROVE metas[k].end # metas[i].start
  <2> SUFFICES ASSUME metas[k].end = metas[i].start PROVE FALSE
    OBVIOUS
  <2>1. k \in 1 .. n
    BY <1>1
  <2>2. ASSUME NEW m \in k .. e PROVE m \in T \/ Empty(m)
    <3>1. CASE m = k
      BY <3>1
    <3>2. CASE k < m /\ m < i
      <4>1. m \in 1 .. n
        BY <1>1, <1>6, <2>1, <3>2
      <4>2. metas[m].start = metas[m].end
        BY <1>6, <2>1, <3>2, <4>1, NothingBetween
      <4> QED
        BY <4>2
    <3>3. CASE i <= m
      <4>1. m \in i .. e
        BY <1>6, <3>3
      <4> QED
        BY <1>6, <4>1
    <3> QED
      BY <1>6, <2>1, <3>1, <3>2, <3>3
  <2>3. k <= e
    BY <1>6, <1>8, <2>1
  <2>4. k \in L
    BY <1>2, <1>6, <2>1, <2>2, <2>3
  <2>5. i <= k
    BY <1>4, <2>4
  <2> QED
    BY <1>6, <1>8, <2>1, <2>5
<1>9. ASSUME NEW k \in T, k > j PROVE metas[k].start # metas[j].end
  <2> SUFFICES ASSUME metas[k].start = metas[j].end PROVE FALSE
    OBVIOUS
  <2>1. k \in 1 .. n
    BY <1>1
  <2>2. ASSUME NEW m \in e .. k PROVE m \in T \/ Empty(m)
    <3>1. CASE m = k
      BY <3>1
    <3>2. CASE j < m /\ m < k
      <4>1. m \in 1 .. n
        BY <1>1, <1>6, <2>1, <3>2
      <4>2. metas[m].start = metas[m].end
        BY <1>6, <2>1, <3>2, <4>1, NothingBetween
      <4> QED
        BY <4>2
    <3>3. CASE m <= j
      <4>1. m \in e .. j
        BY <1>6, <3>3
      <4> QED
        BY <1>6, <4>1
    <3> QED
      BY <1>6, <2>1, <3>1, <3>2, <3>3
  <2>3. e <= k
    BY <1>6, <1>9, <2>1
  <2>4. k \in R
    BY <1>2, <1>6, <2>1, <2>2, <2>3
  <2>5. k <= j
    BY <1>5, <2>4
  <2> QED
    BY <1>6, <1>9, <2>1, <2>5
<1>10. IsBlock(metas, test, i, j)
  <2>1. i <= j
    BY <1>6
  <2> QED
    BY <1>7, <1>8, <1>9, <2>1 DEF IsBlock
<1> QED
  BY <1>6, <1>10

(* A day left in the training set is far enough from every tested bar.      *)
LEMMA Apart ==
  ASSUME NEW metas, NEW n, DaysInOrder(metas, n), NEW test,
         config.purge \in Nat, config.embargo \in Nat,
         NEW d \in 1 .. n, IsTrain(metas, test, config, d),
         NEW e \in TestDays(metas, test), NEW b \in Bars(metas, d), NEW t \in Bars(metas, e)
  PROVE  ~Near(b, t)
<1>1. n \in Nat /\ TestDays(metas, test) \subseteq 1 .. n /\ d \notin TestDays(metas, test)
  BY DEF DaysInOrder, TestDays, IsTrain
<1>2. PICK i \in TestDays(metas, test), j \in TestDays(metas, test) :
        IsBlock(metas, test, i, j) /\ i <= e /\ e <= j
  BY InABlock
<1>3. i \in 1 .. n /\ j \in 1 .. n /\ e \in 1 .. n /\ i <= e /\ e <= j
  BY <1>1, <1>2
<1> PICK block : block = [start |-> metas[i].start, end |-> metas[j].end]
  OBVIOUS
<1>4. ~Purged(metas[d], block, config) /\ ~Embargoed(metas[d], block, config)
  <2>1. <<i, j>>[1] = i /\ <<i, j>>[2] = j
    OBVIOUS
  <2>2. block \in TestBlocks(metas, test)
    BY <1>2, <2>1 DEF TestBlocks
  <2> QED
    BY <2>2 DEF IsTrain
<1> PICK from : from = metas[i].start
  OBVIOUS
<1> PICK to : to = metas[j].end
  OBVIOUS
<1> PICK s : s = metas[d].start
  OBVIOUS
<1> PICK f : f = metas[d].end
  OBVIOUS
<1>5. from \in Nat /\ to \in Nat /\ from <= metas[e].start /\ metas[e].end <= to
  BY <1>3, Extents
<1>6. s \in Nat /\ f \in Nat /\ metas[e].start \in Nat /\ metas[e].end \in Nat
  BY <1>3 DEF DaysInOrder
<1>7. t \in Int /\ from <= t /\ t < to
  BY <1>5, <1>6 DEF Bars
<1>8. b \in Int /\ s <= b /\ b < f
  BY <1>6 DEF Bars
<1>9. f <= from \/ to <= s
  <2>1. CASE d < i
    BY <1>3, <2>1 DEF DaysInOrder
  <2>2. CASE j < d
    BY <1>3, <2>2 DEF DaysInOrder
  <2>3. CASE i <= d /\ d <= j
    <3>1. d \in TestDays(metas, test) \/ s = f
      BY <1>2, <1>3, <2>3 DEF IsBlock, Joined
    <3>2. s # f
      BY <1>6, <1>8
    <3> QED
      BY <1>1, <3>1, <3>2
  <2> QED
    BY <1>3, <2>1, <2>2, <2>3
<1>10. CASE f <= from
  <2>1. ~(f > (IF from < config.purge THEN 0 ELSE from - config.purge) /\ s < from)
    BY <1>4 DEF Purged
  <2>2. s < from
    BY <1>5, <1>6, <1>8, <1>10
  <2>3. ~(f > 0)  \/ ~(f > from - config.purge)
    BY <2>1, <2>2
  <2>4. f > 0
    BY <1>6, <1>8
  <2>5. f <= from - config.purge
    BY <1>5, <1>6, <2>3, <2>4
  <2> QED
    BY <1>5, <1>6, <1>7, <1>8, <1>10, <2>5 DEF Near
<1>11. CASE to <= s
  <2>1. ~(s < to + config.embargo /\ f > to)
    BY <1>4 DEF Embargoed
  <2>2. s >= to + config.embargo
    BY <1>5, <1>6, <1>8, <1>11, <2>1
  <2> QED
    BY <1>5, <1>6, <1>7, <1>8, <1>11, <2>2 DEF Near
<1> QED
  BY <1>9, <1>10, <1>11

(* And a day with rows that is far enough is left in it, if the test days   *)
(* have rows.                                                               *)
LEMMA Exact ==
  ASSUME NEW metas, NEW n, DaysInOrder(metas, n), NEW test,
         config.purge \in Nat, config.embargo \in Nat,
         \A e \in TestDays(metas, test) : metas[e].start # metas[e].end,
         NEW d \in 1 .. n, metas[d].start # metas[d].end, d \notin TestDays(metas, test),
         \A e \in TestDays(metas, test) :
           \A b \in Bars(metas, d), t \in Bars(metas, e) : ~Near(b, t)
  PROVE  IsTrain(metas, test, config, d)
<1>1. n \in Nat /\ TestDays(metas, test) \subseteq 1 .. n
  BY DEF DaysInOrder, TestDays
<1>2. ASSUME NEW block \in TestBlocks(metas, test)
      PROVE  ~Purged(metas[d], block, config) /\ ~Embargoed(metas[d], block, config)
  <2>1. PICK i \in TestDays(metas, test), j \in TestDays(metas, test) :
          block = [start |-> metas[i].start, end |-> metas[j].end]
    BY DEF TestBlocks
  <2>2. i \in 1 .. n /\ j \in 1 .. n
    BY <1>1
  <2> PICK from : from = metas[i].start
    OBVIOUS
  <2> PICK to : to = metas[j].end
    OBVIOUS
  <2> PICK s : s = metas[d].start
    OBVIOUS
  <2> PICK f : f = metas[d].end
    OBVIOUS
  <2>3. /\ from \in Nat /\ to \in Nat /\ s \in Nat /\ f \in Nat /\ s < f
        /\ metas[i].end \in Nat /\ metas[j].start \in Nat
        /\ from < metas[i].end /\ metas[j].start < to
    <3>1. \A k \in 1 .. n : metas[k].start # metas[k].end =>
            metas[k].start \in Nat /\ metas[k].end \in Nat /\ metas[k].start < metas[k].end
      BY DEF DaysInOrder
    <3>2. metas[i].start # metas[i].end /\ metas[j].start # metas[j].end
      OBVIOUS
    <3> QED
      BY <2>2, <3>1, <3>2
  <2>4. d # i /\ d # j
    OBVIOUS
  <2>5. ~Purged(metas[d], block, config)
    <3> SUFFICES ASSUME s < from, f > (IF from < config.purge THEN 0 ELSE from - config.purge)
                 PROVE  FALSE
      BY <2>1 DEF Purged
    <3>1. d < i
      <4> SUFFICES ASSUME i < d PROVE FALSE
        BY <2>2, <2>4
      <4> QED
        BY <2>2, <2>3 DEF DaysInOrder
    <3>2. f <= from
      BY <2>2, <3>1 DEF DaysInOrder
    <3>3. f - 1 \in Bars(metas, d) /\ from \in Bars(metas, i)
      BY <2>3 DEF Bars
    <3>4. ~Near(f - 1, from)
      BY <3>3
    <3>5. from - (f - 1) > config.purge
      BY <2>3, <3>2, <3>4 DEF Near
    <3> QED
      BY <2>3, <3>2, <3>5
  <2>6. ~Embargoed(metas[d], block, config)
    <3> SUFFICES ASSUME s < to + config.embargo, f > to PROVE FALSE
      BY <2>1 DEF Embargoed
    <3>1. j < d
      <4> SUFFICES ASSUME d < j PROVE FALSE
        BY <2>2, <2>4
      <4>1. f <= metas[j].start
        BY <2>2 DEF DaysInOrder
      <4> QED
        BY <2>3, <4>1
    <3>2. to <= s
      BY <2>2, <3>1 DEF DaysInOrder
    <3>3. s \in Bars(metas, d) /\ to - 1 \in Bars(metas, j)
      BY <2>3 DEF Bars
    <3>4. ~Near(s, to - 1)
      BY <3>3
    <3>5. s - (to - 1) > config.embargo
      BY <2>3, <3>2, <3>4 DEF Near
    <3> QED
      BY <2>3, <3>2, <3>5
  <2> QED
    BY <2>5, <2>6
<1> QED
  BY <1>2 DEF IsTrain

LEMMA CountsAreNumbers ==
  ASSUME DataIsRight
  PROVE  Counts(data) \in [1 .. Len(data) -> Nat] /\ DOMAIN data = 1 .. Len(data)
<1>1. DOMAIN data = 1 .. Len(data) /\ \A d \in DOMAIN data : Len(data[d]) \in Nat
  BY DEF DataIsRight, DayIsRight
<1> QED
  BY <1>1 DEF Counts

LEMMA InputApart == InputInv => NoLeak
<1> SUFFICES ASSUME InputInv, pc = "load" PROVE NoLeak
  BY DEF NoLeak
<1> PICK n : n = Len(data)
  OBVIOUS
<1> PICK counts : counts = Counts(data)
  OBVIOUS
<1> PICK metas : metas = DayMetas(counts, config.groups)
  OBVIOUS
<1>1. DataIsRight
  BY DataOfInput
<1>2. n \in Nat /\ counts \in [1 .. n -> Nat] /\ DOMAIN data = 1 .. n
  BY <1>1, CountsAreNumbers DEF DataIsRight
<1>3. DaysInOrder(metas, n)
  BY <1>2, MetasInOrder
<1>4. config.purge \in Nat /\ config.embargo \in Nat
  BY FoldAssumption DEF InputInv
<1>5. PICK test : split = Split(metas, test, config)
  BY DEF InputInv, Splits
<1>6. /\ split.test = TestDays(metas, test) /\ split.test \subseteq 1 .. n
      /\ split.train = {i \in 1 .. n : IsTrain(metas, test, config, i)}
  BY <1>3, <1>5 DEF Split, DaysInOrder, TestDays
<1> DEFINE Tested  == UNION {Bars(metas, d) : d \in split.test}
           Clear(d) == d \notin split.test /\ \A b \in Bars(metas, d), t \in Tested : ~Near(b, t)
           HasRows == {d \in DOMAIN data : Bars(metas, d) # {}}
<1>7. ASSUME NEW d \in split.train PROVE Clear(d)
  <2>1. d \in 1 .. n /\ IsTrain(metas, test, config, d)
    BY <1>6
  <2>2. d \notin split.test
    BY <1>6, <2>1 DEF IsTrain
  <2>3. ASSUME NEW b \in Bars(metas, d), NEW t \in Tested PROVE ~Near(b, t)
    <3>1. PICK e \in split.test : t \in Bars(metas, e)
      OBVIOUS
    <3> HIDE DEF Tested
    <3> QED
      BY <1>3, <1>4, <1>6, <2>1, <3>1, Apart
  <2> QED
    BY <2>2, <2>3
<1>8. ASSUME split.test \subseteq HasRows, NEW d \in HasRows, Clear(d) PROVE d \in split.train
  <2>1. \A e \in HasRows : e \in 1 .. n /\ metas[e].start # metas[e].end
    <3> SUFFICES ASSUME NEW e \in HasRows PROVE e \in 1 .. n /\ metas[e].start # metas[e].end
      OBVIOUS
    <3>1. e \in 1 .. n /\ Bars(metas, e) # {}
      BY <1>2
    <3>2. metas[e].start \in Nat /\ metas[e].end \in Nat
      BY <1>3, <3>1 DEF DaysInOrder
    <3> QED
      BY <3>1, <3>2 DEF Bars
  <2>2. \A e \in TestDays(metas, test) : metas[e].start # metas[e].end
    BY <1>6, <1>8, <2>1
  <2>3. d \in 1 .. n /\ metas[d].start # metas[d].end /\ d \notin TestDays(metas, test)
    BY <1>6, <1>8, <2>1
  <2>4. \A e \in TestDays(metas, test) : \A b \in Bars(metas, d), t \in Bars(metas, e) : ~Near(b, t)
    <3> SUFFICES ASSUME NEW e \in TestDays(metas, test), NEW b \in Bars(metas, d), NEW t \in Bars(metas, e)
                 PROVE  ~Near(b, t)
      OBVIOUS
    <3>1. t \in Tested
      BY <1>6
    <3> QED
      BY <1>8, <3>1
  <2>5. IsTrain(metas, test, config, d)
    BY <1>3, <1>4, <2>2, <2>3, <2>4, Exact
  <2> QED
    BY <1>6, <2>3, <2>5
<1>9. /\ \A d \in split.train : Clear(d)
      /\ split.test \subseteq HasRows => \A d \in HasRows : Clear(d) => d \in split.train
  BY <1>7, <1>8
<1> QED
  BY <1>9 DEF NoLeak

(* No day of a split is trained on that is tested or has a bar within the   *)
(* purge before a tested bar or the embargo after one, and, if the test     *)
(* days have rows, no other day with rows is left out (cpcv.rs:112-194).    *)
THEOREM SplitsDoNotLeak == Spec => []NoLeak
BY InputIsInvariant, InputApart, PTL

-----------------------------------------------------------------------------
(* Sorting.                                                                 *)

(* No element is less than one before it; each is more than those before.   *)
Steady(s) == \A i, j \in DOMAIN s : i <= j => s[i] <= s[j]
Rises(s)  == \A i, j \in DOMAIN s : i < j => s[i] < s[j]

(* What comes before a place in the stable order, itself included.          *)
UpTo(seq, i) == {j \in DOMAIN seq : seq[j] < seq[i] \/ (seq[j] = seq[i] /\ j <= i)}

(* A rank grows along the stable order.                                     *)
LEMMA RankGrows ==
  ASSUME NEW n \in Nat, NEW seq \in [1 .. n -> Nat], NEW i \in 1 .. n, NEW j \in 1 .. n
  PROVE  /\ Rank(seq, i) \in 1 .. n
         /\ seq[i] < seq[j] \/ (seq[i] = seq[j] /\ i < j) => Rank(seq, i) < Rank(seq, j)
<1>1. IsFiniteSet(1 .. n) /\ Cardinality(1 .. n) = n
  BY FS_Interval
<1>2. ASSUME NEW k \in 1 .. n
      PROVE  /\ Rank(seq, k) = Cardinality(UpTo(seq, k)) /\ IsFiniteSet(UpTo(seq, k))
             /\ Rank(seq, k) \in 1 .. n
  <2>1. UpTo(seq, k) \in SUBSET (1 .. n) /\ k \in UpTo(seq, k)
    BY DEF UpTo
  <2>2. IsFiniteSet(UpTo(seq, k)) /\ Cardinality(UpTo(seq, k)) <= n
    BY <1>1, <2>1, FS_Subset
  <2>3. Cardinality(UpTo(seq, k)) \in Nat /\ Cardinality(UpTo(seq, k)) # 0
    BY <2>1, <2>2, FS_CardinalityType, FS_EmptySet
  <2>4. Rank(seq, k) = Cardinality(UpTo(seq, k))
    BY DEF Rank, UpTo
  <2> QED
    BY <2>2, <2>3, <2>4
<1>3. ASSUME seq[i] < seq[j] \/ (seq[i] = seq[j] /\ i < j)
      PROVE  Rank(seq, i) < Rank(seq, j)
  <2>1. UpTo(seq, i) \in SUBSET UpTo(seq, j)
    BY <1>3 DEF UpTo
  <2>2. j \in UpTo(seq, j) /\ j \notin UpTo(seq, i)
    BY <1>3 DEF UpTo
  <2>3. /\ Cardinality(UpTo(seq, i)) <= Cardinality(UpTo(seq, j))
        /\ Cardinality(UpTo(seq, j)) # Cardinality(UpTo(seq, i))
    BY <1>2, <2>1, <2>2, FS_Subset
  <2>4. Rank(seq, i) <= Rank(seq, j) /\ Rank(seq, i) # Rank(seq, j)
    BY <1>2, <2>3, Zenon
  <2> QED
    BY <1>2, <2>4
<1> QED
  BY <1>2, <1>3

(* The ranks are the places: no two are the same and none is left out.      *)
LEMMA Ranks ==
  ASSUME NEW n \in Nat, NEW seq \in [1 .. n -> Nat]
  PROVE  /\ \A i \in 1 .. n : Rank(seq, i) \in 1 .. n
         /\ \A i, j \in 1 .. n : Rank(seq, i) < Rank(seq, j)
                                   => seq[i] <= seq[j] /\ (seq[i] = seq[j] => i < j)
         /\ \A r \in 1 .. n : \E i \in 1 .. n : Rank(seq, i) = r
<1>1. IsFiniteSet(1 .. n) /\ Cardinality(1 .. n) = n
  BY FS_Interval
<1>2. \A i \in 1 .. n : Rank(seq, i) \in 1 .. n
  BY RankGrows
<1>3. \A i, j \in 1 .. n : seq[i] < seq[j] \/ (seq[i] = seq[j] /\ i < j)
                             => Rank(seq, i) < Rank(seq, j)
  BY RankGrows
<1>4. ASSUME NEW i \in 1 .. n, NEW j \in 1 .. n, Rank(seq, i) < Rank(seq, j)
      PROVE  seq[i] <= seq[j] /\ (seq[i] = seq[j] => i < j)
  <2>a. PICK a \in 1 .. n : a = Rank(seq, i)
    BY <1>2, Zenon
  <2>b. PICK b \in 1 .. n : b = Rank(seq, j)
    BY <1>2, Zenon
  <2>c. a < b
    BY <1>4, <2>a, <2>b, Zenon
  <2>d. ~(b < a) /\ a # b
    BY <2>c
  <2>1. ~(Rank(seq, j) < Rank(seq, i)) /\ i # j
    BY <2>a, <2>b, <2>d, Zenon
  <2>2. ~(seq[j] < seq[i] \/ (seq[j] = seq[i] /\ j < i))
    BY <1>3, <2>1, Zenon
  <2> QED
    BY <2>1, <2>2
<1>5. ASSUME NEW r \in 1 .. n PROVE \E i \in 1 .. n : Rank(seq, i) = r
  <2> DEFINE f == [i \in 1 .. n |-> Rank(seq, i)]
  <2>1. f \in [1 .. n -> 1 .. n]
    BY <1>2
  <2>2. ASSUME NEW i \in 1 .. n, NEW j \in 1 .. n, f[i] = f[j] PROVE i = j
    <3>1. Rank(seq, i) = Rank(seq, j)
      BY <2>2
    <3>2. ~(Rank(seq, i) < Rank(seq, j)) /\ ~(Rank(seq, j) < Rank(seq, i))
      BY <1>2, <3>1
    <3>3. /\ ~(seq[i] < seq[j] \/ (seq[i] = seq[j] /\ i < j))
          /\ ~(seq[j] < seq[i] \/ (seq[j] = seq[i] /\ j < i))
      BY <1>3, <3>2, Zenon
    <3> QED
      BY <3>3
  <2>3. f \in Injection(1 .. n, 1 .. n)
    BY <2>1, <2>2 DEF Injection, IsInjective
  <2>4. f \in Surjection(1 .. n, 1 .. n)
    BY <1>1, <2>3, FS_Injection
  <2> QED
    BY <2>4 DEF Surjection
<1> QED
  BY <1>2, <1>4, <1>5

(* The sorted sequence has the same elements, and rises if none was double.  *)
LEMMA SortedIs ==
  ASSUME NEW n \in Nat, NEW seq \in [1 .. n -> Nat]
  PROVE  /\ Sorted(seq) \in [1 .. n -> Nat] /\ Steady(Sorted(seq))
         /\ ToSet(Sorted(seq)) = ToSet(seq)
         /\ IsInjective(seq) => Rises(Sorted(seq))
<1>1. PICK pos : pos = [r \in 1 .. n |-> CHOOSE i \in 1 .. n : Rank(seq, i) = r]
  OBVIOUS
<1>2. \A r \in 1 .. n : pos[r] \in 1 .. n /\ Rank(seq, pos[r]) = r
  <2> SUFFICES ASSUME NEW r \in 1 .. n PROVE pos[r] \in 1 .. n /\ Rank(seq, pos[r]) = r
    OBVIOUS
  <2>1. \E i \in 1 .. n : Rank(seq, i) = r
    BY Ranks
  <2>2. pos[r] = CHOOSE i \in 1 .. n : Rank(seq, i) = r
    BY <1>1
  <2> QED
    BY <2>1, <2>2, Zenon
<1>3. Sorted(seq) = [r \in 1 .. n |-> seq[pos[r]]]
  BY <1>1 DEF Sorted
<1>4. PICK s : s = Sorted(seq)
  OBVIOUS
<1>5. s \in [1 .. n -> Nat] /\ \A r \in 1 .. n : s[r] = seq[pos[r]]
  BY <1>2, <1>3, <1>4
<1>6. \A r, q \in 1 .. n : r < q => s[r] <= s[q] /\ (s[r] = s[q] => pos[r] < pos[q])
  <2> SUFFICES ASSUME NEW r \in 1 .. n, NEW q \in 1 .. n, r < q
               PROVE  s[r] <= s[q] /\ (s[r] = s[q] => pos[r] < pos[q])
    OBVIOUS
  <2>1. PICK i \in 1 .. n : i = pos[r] /\ Rank(seq, i) = r /\ s[r] = seq[i]
    BY <1>2, <1>5
  <2>2. PICK j \in 1 .. n : j = pos[q] /\ Rank(seq, j) = q /\ s[q] = seq[j]
    BY <1>2, <1>5
  <2>3. Rank(seq, i) < Rank(seq, j)
    BY <2>1, <2>2
  <2>4. seq[i] <= seq[j] /\ (seq[i] = seq[j] => i < j)
    BY <2>3, Ranks
  <2> QED
    BY <2>1, <2>2, <2>4
<1>7. Steady(s)
  BY <1>5, <1>6 DEF Steady
<1>8. ToSet(s) = ToSet(seq)
  <2>1. ToSet(s) \subseteq ToSet(seq)
    BY <1>2, <1>5 DEF ToSet
  <2>2. ASSUME NEW i \in 1 .. n PROVE seq[i] \in ToSet(s)
    <3>1. PICK r \in 1 .. n : r = Rank(seq, i)
      BY Ranks
    <3>2. PICK k \in 1 .. n : k = pos[r] /\ Rank(seq, k) = r
      BY <1>2
    <3>3. k = i
      <4>1. ~(Rank(seq, k) < Rank(seq, i)) /\ ~(Rank(seq, i) < Rank(seq, k))
        BY <3>1, <3>2
      <4>2. ASSUME seq[i] < seq[k] \/ (seq[i] = seq[k] /\ i < k) PROVE FALSE
        BY <4>1, <4>2, RankGrows
      <4>3. ASSUME seq[k] < seq[i] \/ (seq[k] = seq[i] /\ k < i) PROVE FALSE
        BY <4>1, <4>3, RankGrows
      <4> QED
        BY <4>2, <4>3
    <3> QED
      BY <1>5, <3>2, <3>3 DEF ToSet
  <2> QED
    BY <2>1, <2>2 DEF ToSet
<1>9. IsInjective(seq) => Rises(s)
  <2> SUFFICES ASSUME IsInjective(seq), NEW r \in 1 .. n, NEW q \in 1 .. n, r < q
               PROVE  s[r] < s[q]
    BY <1>5 DEF Rises
  <2>1. s[r] = s[q] => pos[r] = pos[q]
    BY <1>2, <1>5 DEF IsInjective
  <2> QED
    BY <1>2, <1>5, <1>6, <2>1
<1> QED
  BY <1>4, <1>5, <1>7, <1>8, <1>9

(* Two rising sequences of the same elements are the same.                  *)
LEMMA RisesWithin ==
  ASSUME NEW n \in Nat, NEW s \in [1 .. n -> Nat], Rises(s),
         NEW m \in Nat, NEW t \in [1 .. m -> Nat], Rises(t),
         ToSet(s) = ToSet(t)
  PROVE  \A k \in 1 .. n : k \in 1 .. m /\ s[k] = t[k]
<1> DEFINE Wrong == {k \in 1 .. n : ~(k \in 1 .. m /\ s[k] = t[k])}
<1> SUFFICES ASSUME Wrong # {} PROVE FALSE
  OBVIOUS
<1>1. PICK k \in Wrong : \A j \in Wrong : k <= j
  <2>1. Wrong \in SUBSET Nat
    OBVIOUS
  <2> QED
    BY <2>1, Least
<1>a. k \in 1 .. n
  OBVIOUS
<1>2. \A j \in 1 .. k - 1 : j \in 1 .. m /\ s[j] = t[j]
  BY <1>1
<1> HIDE DEF Wrong
<1>3. PICK p \in 1 .. m : t[p] = s[k]
  BY <1>a DEF ToSet
<1>4. k <= p /\ k \in 1 .. m
  <2>1. ASSUME p < k PROVE FALSE
    <3>1. t[p] = s[p] /\ s[p] < s[k]
      BY <1>a, <1>2, <2>1 DEF Rises
    <3> QED
      BY <1>a, <1>3, <3>1
  <2> QED
    BY <1>a, <2>1
<1>5. t[k] <= s[k]
  <2>1. k = p \/ t[k] < t[p]
    BY <1>4 DEF Rises
  <2> QED
    BY <1>a, <1>3, <1>4, <2>1
<1>6. PICK q \in 1 .. n : s[q] = t[k]
  BY <1>4 DEF ToSet
<1>7. k <= q
  <2>1. ASSUME q < k PROVE FALSE
    <3>1. s[q] = t[q] /\ t[q] < t[k]
      BY <1>a, <1>2, <1>4, <2>1 DEF Rises
    <3> QED
      BY <1>4, <1>6, <3>1
  <2> QED
    BY <1>a, <2>1
<1>8. s[k] <= t[k]
  <2>1. k = q \/ s[k] < s[q]
    BY <1>a, <1>7 DEF Rises
  <2> QED
    BY <1>a, <1>4, <1>6, <2>1
<1>9. s[k] = t[k]
  BY <1>a, <1>4, <1>5, <1>8
<1> QED
  BY <1>a, <1>4, <1>9 DEF Wrong

(* ... and as long. *)
LEMMA SameSequence ==
  ASSUME NEW n \in Nat, NEW s \in [1 .. n -> Nat], Rises(s),
         NEW m \in Nat, NEW t \in [1 .. m -> Nat], Rises(t),
         ToSet(s) = ToSet(t)
  PROVE  s = t
<1>1. \A k \in 1 .. n : k \in 1 .. m /\ s[k] = t[k]
  BY RisesWithin
<1>2. \A k \in 1 .. m : k \in 1 .. n /\ t[k] = s[k]
  BY RisesWithin
<1>3. n = m
  BY <1>1, <1>2
<1> QED
  BY <1>1, <1>3

(* What is in a sequence of numbers. *)
LEMMA ToSetIsFinite ==
  ASSUME NEW n \in Nat, NEW s \in [1 .. n -> Nat]
  PROVE  ToSet(s) \in SUBSET Nat /\ IsFiniteSet(ToSet(s))
<1>1. IsFiniteSet(1 .. n)
  BY FS_Interval
<1>2. s \in Surjection(1 .. n, ToSet(s))
  BY DEF Surjection, ToSet
<1>3. IsFiniteSet(ToSet(s))
  BY <1>1, <1>2, FS_Surjection
<1> QED
  BY <1>3 DEF ToSet

(* The elements of a set of numbers in their order.                         *)
LEMMA InOrderIs ==
  ASSUME NEW S \in SUBSET Nat, IsFiniteSet(S)
  PROVE  /\ Cardinality(S) \in Nat
         /\ InOrder(S) \in [1 .. Cardinality(S) -> Nat]
         /\ Rises(InOrder(S)) /\ ToSet(InOrder(S)) = S
<1>1. Cardinality(S) \in Nat /\ ExistsBijection(1 .. Cardinality(S), S)
  BY FS_CardinalityType
<1>2. PICK n \in Nat : n = Cardinality(S)
  BY <1>1
<1>3. PICK q : q = SetToSeq(S)
  OBVIOUS
<1>4. \E f \in [1 .. n -> S] : IsInjective(f)
  BY <1>1, <1>2 DEF ExistsBijection, Bijection, Injection, IsInjective
<1>5. q = CHOOSE f \in [1 .. n -> S] : IsInjective(f)
  BY <1>2, <1>3, Zenon DEF SetToSeq
<1>6. q \in [1 .. n -> S] /\ IsInjective(q)
  BY <1>4, <1>5, Zenon
<1>7. q \in [1 .. n -> Nat]
  BY <1>6
<1>8. ToSet(q) = S
  <2>1. q \in Injection(1 .. n, S)
    BY <1>6 DEF Injection, IsInjective
  <2>2. IsFiniteSet(1 .. n) /\ Cardinality(1 .. n) = n
    BY FS_Interval
  <2>3. q \in Surjection(1 .. n, S)
    BY <1>2, <2>1, <2>2, FS_Injection
  <2> QED
    BY <1>6, <2>3 DEF Surjection, ToSet
<1>9. InOrder(S) = Sorted(q)
  BY <1>3 DEF InOrder
<1>10. Sorted(q) \in [1 .. n -> Nat] /\ ToSet(Sorted(q)) = S /\ Rises(Sorted(q))
  BY <1>6, <1>7, <1>8, SortedIs, Zenon
<1> QED
  BY <1>1, <1>2, <1>9, <1>10, Zenon

(* What rises is in order.                                                  *)
LEMMA RisesInOrder ==
  ASSUME NEW n \in Nat, NEW s \in [1 .. n -> Nat], Rises(s)
  PROVE  InOrder(ToSet(s)) = s /\ Sorted(s) = s
<1>1. PICK S : S = ToSet(s)
  OBVIOUS
<1>2. S \in SUBSET Nat /\ IsFiniteSet(S)
  BY <1>1, ToSetIsFinite, Zenon
<1>3. /\ Cardinality(S) \in Nat
      /\ InOrder(S) \in [1 .. Cardinality(S) -> Nat]
      /\ Rises(InOrder(S)) /\ ToSet(InOrder(S)) = S
  BY <1>2, InOrderIs, Zenon
<1>4. InOrder(S) = s
  BY <1>1, <1>3, SameSequence, Zenon
<1>5. IsInjective(s)
  BY DEF Rises, IsInjective
<1>6. Sorted(s) \in [1 .. n -> Nat] /\ Rises(Sorted(s)) /\ ToSet(Sorted(s)) = ToSet(s)
  BY <1>5, SortedIs, Zenon
<1>7. Sorted(s) = s
  BY <1>6, SameSequence, Zenon
<1> QED
  BY <1>1, <1>4, <1>7, Zenon

(* Leaving out the repetitions of what is sorted gives its elements in      *)
(* order.                                                                   *)
LEMMA OnceIs ==
  ASSUME NEW n \in Nat, NEW seq \in [1 .. n -> Nat], Steady(seq)
  PROVE  Once(seq) = InOrder(ToSet(seq))
<1>1. PICK keep : keep = {i \in DOMAIN seq : i = 1 \/ seq[i] # seq[i - 1]}
  OBVIOUS
<1>2. PICK K : K = InOrder(keep)
  OBVIOUS
<1>3. PICK c : c = Cardinality(keep)
  OBVIOUS
<1>4. PICK o : o = Once(seq)
  OBVIOUS
<1>5. o = [i \in 1 .. c |-> seq[K[i]]]
  BY <1>1, <1>2, <1>3, <1>4, Zenon DEF Once
<1>6. keep \in SUBSET (1 .. n) /\ keep \in SUBSET Nat
  BY <1>1
<1>7. IsFiniteSet(keep)
  <2>1. IsFiniteSet(1 .. n)
    BY FS_Interval
  <2> QED
    BY <1>6, <2>1, FS_Subset, Zenon
<1>8. c \in Nat /\ K \in [1 .. c -> Nat] /\ Rises(K) /\ ToSet(K) = keep
  BY <1>2, <1>3, <1>6, <1>7, InOrderIs, Zenon
<1>9. \A r \in 1 .. c : K[r] \in keep /\ K[r] \in 1 .. n
  BY <1>6, <1>8 DEF ToSet
<1>10. o \in [1 .. c -> Nat]
  BY <1>5, <1>9
<1>11. Rises(o)
  <2> SUFFICES ASSUME NEW r \in 1 .. c, NEW q \in 1 .. c, r < q PROVE o[r] < o[q]
    BY <1>10 DEF Rises
  <2>1. PICK i \in 1 .. n : i = K[r]
    BY <1>9
  <2>2. PICK j \in 1 .. n : j = K[q] /\ j \in keep
    BY <1>9
  <2>3. i < j
    BY <1>8, <2>1, <2>2 DEF Rises
  <2>4. seq[j] # seq[j - 1]
    BY <1>1, <2>2, <2>3
  <2>5. seq[i] <= seq[j - 1] /\ seq[j - 1] <= seq[j]
    BY <2>3 DEF Steady
  <2>6. seq[i] < seq[j]
    BY <2>3, <2>4, <2>5
  <2> QED
    BY <1>5, <2>1, <2>2, <2>6
<1>12. ToSet(o) = ToSet(seq)
  <2>1. ToSet(o) \subseteq ToSet(seq)
    BY <1>5, <1>9, <1>10 DEF ToSet
  <2>2. ASSUME NEW i \in 1 .. n PROVE seq[i] \in ToSet(o)
    <3> DEFINE Same == {j \in 1 .. n : seq[j] = seq[i]}
    <3>1. Same \in SUBSET Nat /\ Same # {}
      OBVIOUS
    <3>2. PICK j \in Same : \A k \in Same : j <= k
      BY <3>1, Least
    <3>3. j \in keep
      <4>1. CASE j = 1
        BY <1>1, <3>2, <4>1
      <4>2. CASE j # 1
        <5>1. j - 1 \in 1 .. n /\ j - 1 \notin Same
          BY <3>2, <4>2
        <5> QED
          BY <1>1, <3>2, <5>1
      <4> QED
        BY <4>1, <4>2
    <3>4. PICK r \in 1 .. c : K[r] = j
      BY <1>8, <3>3 DEF ToSet
    <3> QED
      BY <1>5, <3>2, <3>4 DEF ToSet
  <2> QED
    BY <2>1, <2>2 DEF ToSet
<1>13. PICK S : S = ToSet(seq)
  OBVIOUS
<1>14. S \in SUBSET Nat /\ IsFiniteSet(S)
  BY <1>13, ToSetIsFinite, Zenon
<1>15. /\ Cardinality(S) \in Nat
       /\ InOrder(S) \in [1 .. Cardinality(S) -> Nat]
       /\ Rises(InOrder(S)) /\ ToSet(InOrder(S)) = S
  BY <1>14, InOrderIs, Zenon
<1>16. o = InOrder(S)
  BY <1>8, <1>10, <1>11, <1>12, <1>13, <1>15, SameSequence, Zenon
<1> QED
  BY <1>4, <1>13, <1>16, Zenon

-----------------------------------------------------------------------------
(* Putting the files together. *)

(* A chain of the parts of a report, put together one after the other.     *)
ChainOf(n, part, f) ==
  f[0] = <<>> /\ \A i \in 1 .. n : f[i] = f[i - 1] \o part[i]

(* What is said of the parts and the whole. *)
JoinOf(n, part, whole) ==
  /\ \A v : v \in ToSet(whole) <=> \E i \in 1 .. n : v \in ToSet(part[i])
  /\ \A k \in 1 .. n : (\A i \in 1 .. n \ {k} : part[i] = <<>>) => whole = part[k]

(* There is a chain for any parts: the recursion is well-founded.           *)
LEMMA ChainExists ==
  ASSUME NEW N \in Nat, NEW part \in [1 .. N -> Seq(Nat)]
  PROVE  \E f \in [0 .. N -> Seq(Nat)] : ChainOf(N, part, f)
<1> DEFINE HasChain(n) == \E f \in [0 .. n -> Seq(Nat)] : ChainOf(n, part, f)
           Missing == {n \in 0 .. N : ~HasChain(n)}
<1>a. HasChain(0)
  <2>1. PICK f : f = [i \in 0 .. 0 |-> <<>>]
    OBVIOUS
  <2>2. f \in [0 .. 0 -> Seq(Nat)] /\ f[0] = <<>>
    BY <2>1
  <2>3. ChainOf(0, part, f)
    BY <2>2 DEF ChainOf
  <2> QED
    BY <2>2, <2>3
<1>1. Missing = {}
  <2> SUFFICES ASSUME Missing # {} PROVE FALSE
    OBVIOUS
  <2> HIDE DEF HasChain
  <2>1. Missing \in SUBSET Nat
    OBVIOUS
  <2>2. PICK n \in Missing : \A k \in Missing : n <= k
    BY <2>1, Least
  <2>3. n \in 0 .. N /\ ~HasChain(n)
    OBVIOUS
  <2>4. n # 0
    BY <1>a, <2>3
  <2>b. n - 1 \in 0 .. N /\ ~(n <= n - 1)
    BY <2>3, <2>4
  <2>5. HasChain(n - 1)
    BY <2>2, <2>b
  <2> USE DEF HasChain
  <2>6. PICK f \in [0 .. n - 1 -> Seq(Nat)] : ChainOf(n - 1, part, f)
    BY <2>5, Zenon
  <2>7. PICK s \in Seq(Nat) : s = f[n - 1] \o part[n]
    <3>1. f[n - 1] \in Seq(Nat) /\ part[n] \in Seq(Nat)
      BY <2>3, <2>4
    <3> QED
      BY <3>1, ConcatProperties
  <2>8. PICK g : g = [i \in 0 .. n |-> IF i = n THEN s ELSE f[i]]
    OBVIOUS
  <2>9. g \in [0 .. n -> Seq(Nat)]
    BY <2>3, <2>4, <2>8
  <2>10. g[n] = s /\ \A i \in 0 .. n - 1 : g[i] = f[i]
    BY <2>3, <2>8
  <2>11. g[0] = <<>>
    BY <2>3, <2>4, <2>6, <2>10 DEF ChainOf
  <2>12. ASSUME NEW i \in 1 .. n PROVE g[i] = g[i - 1] \o part[i]
    <3>1. g[i - 1] = f[i - 1]
      BY <2>3, <2>10
    <3>2. CASE i = n
      BY <2>7, <2>10, <3>1, <3>2
    <3>3. CASE i # n
      <4>1. i \in 1 .. n - 1 /\ g[i] = f[i]
        BY <2>3, <2>10, <3>3
      <4> QED
        BY <2>6, <3>1, <4>1 DEF ChainOf
    <3> QED
      BY <3>2, <3>3
  <2>13. ChainOf(n, part, g)
    BY <2>11, <2>12, Zenon DEF ChainOf
  <2>14. HasChain(n)
    BY <2>9, <2>13, Zenon
  <2> HIDE DEF HasChain
  <2> QED
    BY <2>3, <2>14
<1> HIDE DEF HasChain
<1>2. HasChain(N)
  BY <1>1
<1> QED
  BY <1>2, Zenon DEF HasChain

(* What is in two sequences put together. *)
LEMMA ConcatToSet ==
  ASSUME NEW s \in Seq(Nat), NEW t \in Seq(Nat)
  PROVE  s \o t \in Seq(Nat) /\ ToSet(s \o t) = ToSet(s) \cup ToSet(t)
<1>1. PICK u : u = s \o t
  OBVIOUS
<1>2. PICK a \in Nat : a = Len(s)
  OBVIOUS
<1>3. PICK b \in Nat : b = Len(t)
  OBVIOUS
<1>4. /\ u \in Seq(Nat) /\ Len(u) = a + b
      /\ \A i \in 1 .. a + b : u[i] = IF i <= a THEN s[i] ELSE t[i - a]
  BY <1>1, <1>2, <1>3, ConcatProperties
<1>5. DOMAIN s = 1 .. a /\ DOMAIN t = 1 .. b /\ DOMAIN u = 1 .. a + b
  BY <1>2, <1>3, <1>4
<1>6. ToSet(u) \subseteq ToSet(s) \cup ToSet(t)
  <2> SUFFICES ASSUME NEW i \in 1 .. a + b PROVE u[i] \in ToSet(s) \cup ToSet(t)
    BY <1>5 DEF ToSet
  <2>1. CASE i <= a
    <3>1. u[i] = s[i] /\ i \in DOMAIN s
      BY <1>4, <1>5, <2>1
    <3> QED
      BY <3>1 DEF ToSet
  <2>2. CASE ~(i <= a)
    <3>1. u[i] = t[i - a] /\ i - a \in DOMAIN t
      BY <1>4, <1>5, <2>2
    <3> QED
      BY <3>1 DEF ToSet
  <2> QED
    BY <2>1, <2>2
<1>7. \A i \in 1 .. a : s[i] \in ToSet(u)
  <2> SUFFICES ASSUME NEW i \in 1 .. a PROVE s[i] \in ToSet(u)
    OBVIOUS
  <2>1. u[i] = s[i] /\ i \in DOMAIN u
    BY <1>4, <1>5
  <2> QED
    BY <2>1 DEF ToSet
<1>8. \A i \in 1 .. b : t[i] \in ToSet(u)
  <2> SUFFICES ASSUME NEW i \in 1 .. b PROVE t[i] \in ToSet(u)
    OBVIOUS
  <2>1. u[a + i] = t[i] /\ a + i \in DOMAIN u
    BY <1>4, <1>5
  <2> QED
    BY <2>1 DEF ToSet
<1>9. ToSet(u) = ToSet(s) \cup ToSet(t)
  BY <1>5, <1>6, <1>7, <1>8 DEF ToSet
<1> QED
  BY <1>1, <1>4, <1>9

(* What is in a chain of parts is in one of them, and a chain whose parts   *)
(* are empty but for one is that one.                                       *)
LEMMA ChainIs ==
  ASSUME NEW N \in Nat, NEW part \in [1 .. N -> Seq(Nat)],
         NEW f \in [0 .. N -> Seq(Nat)], ChainOf(N, part, f)
  PROVE  JoinOf(N, part, f[N])
<1>1. f[0] = <<>> /\ \A i \in 1 .. N : f[i] = f[i - 1] \o part[i]
  BY DEF ChainOf
<1>2. \A n \in 1 .. N : f[n - 1] \in Seq(Nat) /\ part[n] \in Seq(Nat)
  OBVIOUS
<1>3. \A n \in 1 .. N : ToSet(f[n]) = ToSet(f[n - 1]) \cup ToSet(part[n])
  <2> SUFFICES ASSUME NEW n \in 1 .. N
               PROVE  ToSet(f[n]) = ToSet(f[n - 1]) \cup ToSet(part[n])
    OBVIOUS
  <2>1. PICK s \in Seq(Nat) : s = f[n - 1]
    BY <1>2
  <2>2. PICK t \in Seq(Nat) : t = part[n]
    BY <1>2
  <2>3. ToSet(s \o t) = ToSet(s) \cup ToSet(t)
    BY ConcatToSet
  <2>4. f[n] = s \o t
    BY <1>1, <2>1, <2>2
  <2> QED
    BY <2>1, <2>2, <2>3, <2>4, Zenon
<1>4. ToSet(f[0]) = {}
  BY <1>1 DEF ToSet
<1>5. ASSUME NEW v PROVE v \in ToSet(f[N]) <=> \E i \in 1 .. N : v \in ToSet(part[i])
  <2> DEFINE Wrong == {n \in 0 .. N : ~(v \in ToSet(f[n]) <=> \E i \in 1 .. n : v \in ToSet(part[i]))}
  <2>1. Wrong = {}
    <3> SUFFICES ASSUME Wrong # {} PROVE FALSE
      OBVIOUS
    <3>1. Wrong \in SUBSET Nat
      OBVIOUS
    <3>2. PICK n \in Wrong : \A k \in Wrong : n <= k
      BY <3>1, Least
    <3>3. n # 0
      BY <1>4
    <3>a. n \in 1 .. N /\ n - 1 \in 0 .. N /\ ~(n <= n - 1)
      BY <3>3
    <3>4. n - 1 \in 0 .. N /\ n - 1 \notin Wrong /\ n \in 1 .. N
      BY <3>2, <3>a, Zenon
    <3>5. v \in ToSet(f[n - 1]) <=> \E i \in 1 .. n - 1 : v \in ToSet(part[i])
      BY <3>4, Zenon
    <3>6. v \in ToSet(f[n]) <=> v \in ToSet(f[n - 1]) \/ v \in ToSet(part[n])
      BY <1>3, <3>4
    <3>7. 1 .. n = (1 .. n - 1) \cup {n}
      <4> HIDE DEF Wrong
      <4> QED
        BY <3>a
    <3>8. v \in ToSet(f[n]) <=> \E i \in 1 .. n : v \in ToSet(part[i])
      BY <3>5, <3>6, <3>7, Zenon
    <3> QED
      BY <3>8
  <2>2. N \notin Wrong
    BY <2>1
  <2> QED
    BY <2>2
<1>6. ASSUME NEW k \in 1 .. N, \A i \in 1 .. N \ {k} : part[i] = <<>>
      PROVE  f[N] = part[k]
  <2> DEFINE Wrong == {n \in 0 .. N : f[n] # IF n < k THEN <<>> ELSE part[k]}
  <2>1. Wrong = {}
    <3> SUFFICES ASSUME Wrong # {} PROVE FALSE
      OBVIOUS
    <3>1. Wrong \in SUBSET Nat
      OBVIOUS
    <3>2. PICK n \in Wrong : \A j \in Wrong : n <= j
      BY <3>1, Least
    <3>3. n # 0
      BY <1>1
    <3>4. n - 1 \in 0 .. N /\ n - 1 \notin Wrong /\ n \in 1 .. N
      BY <3>2, <3>3
    <3>5. f[n - 1] = IF n - 1 < k THEN <<>> ELSE part[k]
      BY <3>4
    <3>6. PICK s \in Seq(Nat) : s = f[n - 1]
      BY <1>2, <3>4
    <3>7. PICK t \in Seq(Nat) : t = part[n]
      BY <1>2, <3>4
    <3>8. f[n] = s \o t
      BY <1>1, <3>4, <3>6, <3>7
    <3>9. /\ s = <<>> => s \o t = t
          /\ t = <<>> => s \o t = s
      BY ConcatEmptySeq
    <3>10. CASE n < k
      <4>1. s = <<>> /\ t = <<>>
        BY <1>6, <3>4, <3>5, <3>6, <3>7, <3>10
      <4>2. f[n] = <<>>
        BY <3>8, <3>9, <4>1, Zenon
      <4> QED
        BY <3>10, <4>2
    <3>11. CASE n = k
      <4>1. s = <<>>
        BY <3>4, <3>5, <3>6, <3>11
      <4>2. f[n] = part[k]
        BY <3>7, <3>8, <3>9, <3>11, <4>1, Zenon
      <4> QED
        BY <3>4, <3>11, <4>2
    <3>12. CASE n > k
      <4>1. t = <<>> /\ ~(n - 1 < k)
        BY <1>6, <3>4, <3>7, <3>12
      <4>2. s = part[k]
        BY <3>5, <3>6, <4>1
      <4>3. f[n] = part[k]
        BY <3>8, <3>9, <4>1, <4>2, Zenon
      <4> QED
        BY <3>4, <3>12, <4>3
    <3> QED
      BY <3>4, <3>10, <3>11, <3>12
  <2>2. N \notin Wrong
    BY <2>1
  <2> QED
    BY <2>2
<1> QED
  BY <1>5, <1>6, Zenon DEF JoinOf

Folders == {"tool", "results"}

(* A place in the order of the paths for each file a machine can leave.     *)
LEMMA PathIs ==
  /\ \A i, j \in 1 .. 2 * MaxMachines : Path(i) = Path(j) => i = j
  /\ \A m \in Machines, p \in Folders : \E i \in 1 .. 2 * MaxMachines : Path(i) = <<m, p>>
<1>1. PICK N \in Nat \ {0} : N = MaxMachines
  BY ShardsAssumption DEF ShardsAssumption
<1>2. PathOrder \in [1 .. N -> 0 .. N - 1] /\ IsInjective(PathOrder)
  BY <1>1, ShardsAssumption DEF ShardsAssumption
<1>3. ASSUME NEW i \in 1 .. 2 * N
      PROVE  /\ (i + 1) \div 2 \in 1 .. N /\ i % 2 \in 0 .. 1
             /\ i = 2 * ((i + 1) \div 2) - (i % 2)
  OBVIOUS
<1>4. Places[1] = "tool" /\ Places[2] = "results"
  BY DEF Places
<1>5. ASSUME NEW i \in 1 .. 2 * N, NEW j \in 1 .. 2 * N, Path(i) = Path(j) PROVE i = j
  <2>1. PICK a \in 1 .. N : a = (i + 1) \div 2
    BY <1>3
  <2>2. PICK b \in 1 .. N : b = (j + 1) \div 2
    BY <1>3
  <2>3. PICK c \in 0 .. 1 : c = i % 2
    BY <1>3
  <2>4. PICK d \in 0 .. 1 : d = j % 2
    BY <1>3
  <2>5. <<PathOrder[a], Places[2 - c]>> = <<PathOrder[b], Places[2 - d]>>
    BY <1>5, <2>1, <2>2, <2>3, <2>4, Zenon DEF Path
  <2>6. PathOrder[a] = PathOrder[b] /\ Places[2 - c] = Places[2 - d]
    BY <2>5
  <2>7. a = b
    BY <1>2, <2>6 DEF IsInjective
  <2>8. c = d
    <3>1. ASSUME c # d PROVE FALSE
      <4>1. (c = 0 /\ d = 1) \/ (c = 1 /\ d = 0)
        BY <3>1
      <4> QED
        BY <1>4, <2>6, <4>1
    <3> QED
      BY <3>1
  <2>9. i = 2 * a - c /\ j = 2 * b - d
    BY <1>3, <2>1, <2>2, <2>3, <2>4
  <2> QED
    BY <2>7, <2>8, <2>9
<1>6. ASSUME NEW m \in Machines, NEW p \in Folders
      PROVE  \E i \in 1 .. 2 * N : Path(i) = <<m, p>>
  <2>1. m \in 0 .. N - 1
    BY <1>1 DEF Machines
  <2>2. PathOrder \in Surjection(1 .. N, 0 .. N - 1)
    <3>1. PathOrder \in Injection(1 .. N, 0 .. N - 1)
      BY <1>2 DEF Injection, IsInjective
    <3>2. /\ IsFiniteSet(0 .. N - 1) /\ Cardinality(0 .. N - 1) = N
          /\ Cardinality(1 .. N) = N
      BY FS_Interval
    <3> QED
      BY <3>1, <3>2, FS_Injection
  <2>3. PICK k \in 1 .. N : PathOrder[k] = m
    BY <2>1, <2>2 DEF Surjection
  <2>4. CASE p = "tool"
    <3>1. PICK i \in 1 .. 2 * N : i = 2 * k - 1
      OBVIOUS
    <3>2. (i + 1) \div 2 = k /\ 2 - (i % 2) = 1
      BY <3>1
    <3>3. Path(i) = <<PathOrder[k], Places[1]>>
      BY <3>2, Zenon DEF Path
    <3> QED
      BY <1>4, <2>3, <2>4, <3>3
  <2>5. CASE p = "results"
    <3>1. PICK i \in 1 .. 2 * N : i = 2 * k
      OBVIOUS
    <3>2. (i + 1) \div 2 = k /\ 2 - (i % 2) = 2
      BY <3>1
    <3>3. Path(i) = <<PathOrder[k], Places[2]>>
      BY <3>2, Zenon DEF Path
    <3> QED
      BY <1>4, <2>3, <2>5, <3>3
  <2> QED
    BY <2>4, <2>5 DEF Folders
<1> QED
  BY <1>1, <1>5, <1>6

(* The results in the files, whichever order their paths have.              *)
LEMMA ConcatenatedIs ==
  ASSUME NEW partials,
         \A f \in DOMAIN partials :
           f \in Machines \X Folders /\ partials[f] \in Seq(Nat)
  PROVE  /\ Concatenated(partials) \in Seq(Nat)
         /\ \A v : v \in ToSet(Concatenated(partials))
                     <=> \E f \in DOMAIN partials : v \in ToSet(partials[f])
         /\ \A f : DOMAIN partials = {f} => Concatenated(partials) = partials[f]
<1>1. PICK N \in Nat : N = 2 * MaxMachines
  BY ShardsAssumption DEF ShardsAssumption
<1>2. PICK part : part = [i \in 1 .. N |->
                            IF Path(i) \in DOMAIN partials THEN partials[Path(i)] ELSE <<>>]
  OBVIOUS
<1>3. \A i \in 1 .. N :
        part[i] = IF Path(i) \in DOMAIN partials THEN partials[Path(i)] ELSE <<>>
  BY <1>2
<1>4. part \in [1 .. N -> Seq(Nat)]
  <2>1. <<>> \in Seq(Nat)
    OBVIOUS
  <2>2. ASSUME NEW i \in 1 .. N PROVE part[i] \in Seq(Nat)
    <3>1. CASE Path(i) \in DOMAIN partials
      BY <1>3, <3>1, Zenon
    <3>2. CASE Path(i) \notin DOMAIN partials
      BY <1>3, <2>1, <3>2, Zenon
    <3> QED
      BY <3>1, <3>2
  <2> QED
    BY <1>2, <2>2
<1>5. PICK f \in [0 .. N -> Seq(Nat)] : ChainOf(N, part, f)
  BY <1>4, ChainExists
<1>6. f = [i \in 0 .. 2 * MaxMachines |->
             IF i = 0 THEN <<>>
             ELSE f[i - 1] \o IF Path(i) \in DOMAIN partials THEN partials[Path(i)] ELSE <<>>]
  <2>1. ASSUME NEW i \in 0 .. N
        PROVE  f[i] = IF i = 0 THEN <<>>
                      ELSE f[i - 1] \o IF Path(i) \in DOMAIN partials THEN partials[Path(i)] ELSE <<>>
    <3>1. CASE i = 0
      BY <1>5, <3>1 DEF ChainOf
    <3>2. CASE i # 0
      <4>1. i \in 1 .. N
        BY <3>2
      <4>2. f[i] = f[i - 1] \o part[i]
        BY <1>5, <4>1 DEF ChainOf
      <4> QED
        BY <1>3, <3>2, <4>1, <4>2, Zenon
    <3> QED
      BY <3>1, <3>2
  <2>2. f = [i \in 0 .. N |-> f[i]]
    OBVIOUS
  <2> QED
    BY <1>1, <2>1, <2>2, Zenon
<1>7. PICK g : /\ g = [i \in 0 .. 2 * MaxMachines |->
                        IF i = 0 THEN <<>>
                        ELSE g[i - 1] \o IF Path(i) \in DOMAIN partials THEN partials[Path(i)] ELSE <<>>]
               /\ Concatenated(partials) = g[2 * MaxMachines]
  BY <1>6, Zenon DEF Concatenated
<1>8. \A i \in 0 .. N :
        g[i] = IF i = 0 THEN <<>>
               ELSE g[i - 1] \o IF Path(i) \in DOMAIN partials THEN partials[Path(i)] ELSE <<>>
  BY <1>1, <1>7, Zenon
<1>9. g[0] = <<>> /\ \A i \in 1 .. N : g[i] = g[i - 1] \o part[i]
  <2>a. 0 \in 0 .. N
    OBVIOUS
  <2>1. g[0] = <<>>
    BY <1>8, <2>a, Zenon
  <2>2. ASSUME NEW i \in 1 .. N PROVE g[i] = g[i - 1] \o part[i]
    <3>1. i \in 0 .. N /\ i # 0
      OBVIOUS
    <3> QED
      BY <1>3, <1>8, <3>1, Zenon
  <2> QED
    BY <2>1, <2>2
<1>10. g \in [0 .. N -> Seq(Nat)]
  <2> DEFINE Wrong == {n \in 0 .. N : g[n] \notin Seq(Nat)}
  <2>1. Wrong = {}
    <3> SUFFICES ASSUME Wrong # {} PROVE FALSE
      OBVIOUS
    <3>1. Wrong \in SUBSET Nat
      OBVIOUS
    <3>2. PICK n \in Wrong : \A k \in Wrong : n <= k
      BY <3>1, Least
    <3>a. g[0] \in Seq(Nat)
      <4>1. <<>> \in Seq(Nat)
        OBVIOUS
      <4> QED
        BY <1>9, <4>1, Zenon
    <3>3. n # 0
      BY <3>a
    <3>4. n \in 1 .. N /\ n - 1 \in 0 .. N /\ ~(n <= n - 1)
      BY <3>3
    <3>5. g[n - 1] \in Seq(Nat) /\ part[n] \in Seq(Nat)
      BY <1>4, <3>2, <3>4
    <3>6. g[n - 1] \o part[n] \in Seq(Nat)
      BY <3>5, ConcatProperties
    <3>7. g[n] \in Seq(Nat)
      BY <1>9, <3>4, <3>6, Zenon
    <3> QED
      BY <3>7
  <2>2. \A n \in 0 .. N : g[n] \in Seq(Nat)
    BY <2>1
  <2>3. g = [i \in 0 .. N |-> g[i]]
    BY <1>1, <1>7, <1>8, Zenon
  <2> QED
    BY <2>2, <2>3
<1>11. ChainOf(N, part, g)
  BY <1>9 DEF ChainOf
<1>a. JoinOf(N, part, g[N])
  BY <1>4, <1>10, <1>11, ChainIs
<1>12. PICK whole : whole = Concatenated(partials)
  OBVIOUS
<1>13. whole = g[N] /\ whole \in Seq(Nat)
  BY <1>1, <1>7, <1>10, <1>12
<1>14. ASSUME NEW v
       PROVE  v \in ToSet(whole) <=> \E h \in DOMAIN partials : v \in ToSet(partials[h])
  <2>1. v \in ToSet(g[N]) <=> \E i \in 1 .. N : v \in ToSet(part[i])
    BY <1>a, Zenon DEF JoinOf
  <2>2. ASSUME NEW i \in 1 .. N, v \in ToSet(part[i])
        PROVE  \E h \in DOMAIN partials : v \in ToSet(partials[h])
    <3>1. v \notin ToSet(<<>>)
      BY DEF ToSet
    <3>2. Path(i) \in DOMAIN partials
      BY <1>3, <2>2, <3>1, Zenon
    <3> QED
      BY <1>3, <2>2, <3>2, Zenon
  <2>3. ASSUME NEW h \in DOMAIN partials, v \in ToSet(partials[h])
        PROVE  \E i \in 1 .. N : v \in ToSet(part[i])
    <3>1. PICK m \in Machines, p \in Folders : h = <<m, p>>
      OBVIOUS
    <3>2. PICK i \in 1 .. N : Path(i) = <<m, p>>
      BY <1>1, PathIs, Zenon
    <3>3. part[i] = partials[h]
      BY <1>3, <3>1, <3>2, Zenon
    <3> QED
      BY <2>3, <3>3, Zenon
  <2>4. v \in ToSet(g[N]) <=> \E h \in DOMAIN partials : v \in ToSet(partials[h])
    BY <2>1, <2>2, <2>3, Zenon
  <2> QED
    BY <1>13, <2>4, Zenon
<1>15. ASSUME NEW h, DOMAIN partials = {h} PROVE whole = partials[h]
  <2>1. h \in DOMAIN partials
    BY <1>15
  <2>2. PICK m \in Machines, p \in Folders : h = <<m, p>>
    BY <2>1
  <2>3. PICK k \in 1 .. N : Path(k) = h
    BY <1>1, <2>2, PathIs, Zenon
  <2>4. ASSUME NEW i \in 1 .. N \ {k} PROVE part[i] = <<>>
    <3>1. i \in 1 .. 2 * MaxMachines /\ k \in 1 .. 2 * MaxMachines /\ i # k
      BY <1>1
    <3>2. Path(i) # h
      BY <2>3, <3>1, PathIs, Zenon
    <3>3. Path(i) \notin DOMAIN partials
      BY <1>15, <3>2
    <3> QED
      BY <1>3, <3>3, Zenon
  <2>5. g[N] = part[k]
    BY <1>a, <2>4, Zenon DEF JoinOf
  <2> QED
    BY <1>3, <1>13, <2>1, <2>3, <2>5, Zenon
<1> QED
  BY <1>12, <1>13, <1>14, <1>15, Zenon

-----------------------------------------------------------------------------
(* The ranges of the machines follow each other and end with the folds.     *)

LEMMA StartIs ==
  ASSUME machines \in 0 .. MaxMachines
  PROVE  /\ Start \in [0 .. MaxMachines -> Nat] /\ Start[0] = 0
         /\ \A i \in 1 .. MaxMachines : Start[i - 1] <= Start[i]
         /\ machines > 0 => Start[machines] = TotalFolds
<1>1. PICK N \in Nat \ {0} : N = MaxMachines
  BY ShardsAssumption DEF ShardsAssumption
<1>2. PICK T \in Nat \ {0} : T = TotalFolds
  BY ShardsAssumption DEF ShardsAssumption
<1>3. PICK k \in 0 .. N : k = machines
  BY <1>1
<1>4. \E g \in [0 .. N -> Nat] :
        /\ g = [i \in 0 .. N |-> IF i = 0 \/ k = 0 THEN 0 ELSE g[i - 1] + Size(i - 1)]
        /\ \A i \in 1 .. N : g[i - 1] <= g[i]
        /\ k > 0 => g[k] = T
  <2>1. CASE k = 0
    <3>1. PICK g \in [0 .. N -> Nat] : g = [i \in 0 .. N |-> 0]
      OBVIOUS
    <3>2. \A i \in 0 .. N : g[i] = IF i = 0 \/ k = 0 THEN 0 ELSE g[i - 1] + Size(i - 1)
      BY <2>1, <3>1
    <3>3. g = [i \in 0 .. N |-> IF i = 0 \/ k = 0 THEN 0 ELSE g[i - 1] + Size(i - 1)]
      BY <3>2
    <3>4. \A i \in 1 .. N : g[i - 1] <= g[i]
      BY <3>1
    <3> QED
      BY <2>1, <3>3, <3>4
  <2>2. CASE k # 0
    <3>a. k \in Nat \ {0}
      BY <2>2
    <3>b. T \div k \in Nat /\ T % k \in 0 .. k - 1
      BY <3>a, Division, Zenon
    <3>1. PICK q \in Nat : q = T \div k
      BY <3>b
    <3>2. PICK r \in 0 .. k - 1 : r = T % k
      BY <3>b, Zenon
    <3>3. T = k * q + r
      BY <2>2, <3>1, <3>2
    <3>4. \A i \in 0 .. N : Size(i) = q + IF i < r THEN 1 ELSE 0
      BY <1>2, <1>3, <3>1, <3>2 DEF Size
    <3>5. PICK g : g = [i \in 0 .. N |-> i * q + IF i < r THEN i ELSE r]
      OBVIOUS
    <3>6. ASSUME NEW i \in 0 .. N PROVE i * q \in Nat
      OBVIOUS
    <3>7. g \in [0 .. N -> Nat]
      BY <3>5, <3>6
    <3>8. g[0] = 0
      BY <3>5
    <3>9. ASSUME NEW i \in 1 .. N
          PROVE  g[i] = g[i - 1] + Size(i - 1) /\ g[i - 1] <= g[i]
      <4>1. PICK a \in Nat : a = i * q
        OBVIOUS
      <4>2. (i - 1) * q = a - q
        BY <4>1
      <4>3. g[i] = a + IF i < r THEN i ELSE r
        BY <3>5, <4>1
      <4>4. g[i - 1] = (a - q) + IF i - 1 < r THEN i - 1 ELSE r
        BY <3>5, <4>2
      <4>5. Size(i - 1) = q + IF i - 1 < r THEN 1 ELSE 0
        BY <3>4
      <4> QED
        BY <4>3, <4>4, <4>5
    <3>10. ASSUME NEW i \in 0 .. N
           PROVE  g[i] = IF i = 0 \/ k = 0 THEN 0 ELSE g[i - 1] + Size(i - 1)
      <4>1. CASE i = 0
        BY <3>8, <4>1
      <4>2. CASE i # 0
        BY <2>2, <3>9, <4>2
      <4> QED
        BY <4>1, <4>2
    <3>11. g = [i \in 0 .. N |-> IF i = 0 \/ k = 0 THEN 0 ELSE g[i - 1] + Size(i - 1)]
      BY <3>5, <3>10
    <3>12. g[k] = T
      <4>1. g[k] = k * q + r
        BY <3>5
      <4> QED
        BY <3>3, <4>1
    <3> QED
      BY <3>7, <3>9, <3>11, <3>12
  <2> QED
    BY <2>1, <2>2
<1>5. PICK g \in [0 .. N -> Nat] :
        /\ g = [i \in 0 .. N |-> IF i = 0 \/ k = 0 THEN 0 ELSE g[i - 1] + Size(i - 1)]
        /\ \A i \in 1 .. N : g[i - 1] <= g[i]
        /\ k > 0 => g[k] = T
  BY <1>4
<1>6. Start = [i \in 0 .. N |-> IF i = 0 \/ k = 0 THEN 0 ELSE Start[i - 1] + Size(i - 1)]
  BY <1>1, <1>3, <1>5, Zenon DEF Start
<1>7. Start = g
  <2> DEFINE Wrong == {n \in 0 .. N : Start[n] # g[n]}
  <2>1. Wrong = {}
    <3> SUFFICES ASSUME Wrong # {} PROVE FALSE
      OBVIOUS
    <3>1. Wrong \in SUBSET Nat
      OBVIOUS
    <3>2. PICK n \in Wrong : \A j \in Wrong : n <= j
      BY <3>1, Least
    <3>3. \A i \in 0 .. N : Start[i] = IF i = 0 \/ k = 0 THEN 0 ELSE Start[i - 1] + Size(i - 1)
      BY <1>6, Zenon
    <3>4. \A i \in 0 .. N : g[i] = IF i = 0 \/ k = 0 THEN 0 ELSE g[i - 1] + Size(i - 1)
      BY <1>5, Zenon
    <3>5. n # 0 /\ n \in 0 .. N
      BY <3>3, <3>4
    <3>6. n - 1 \in 0 .. N /\ ~(n <= n - 1)
      BY <3>5
    <3>7. n - 1 \notin Wrong
      BY <3>2, <3>6, Zenon
    <3>8. Start[n - 1] = g[n - 1]
      BY <3>6, <3>7
    <3>9. Start[n] = g[n]
      BY <3>3, <3>4, <3>5, <3>8, Zenon
    <3> QED
      BY <3>9
  <2>2. \A n \in 0 .. N : Start[n] = g[n]
    BY <2>1
  <2>3. Start = [n \in 0 .. N |-> Start[n]]
    BY <1>6, Zenon
  <2> QED
    BY <2>2, <2>3
<1>8. g[0] = 0
  BY <1>5
<1> QED
  BY <1>1, <1>2, <1>3, <1>5, <1>7, <1>8, Zenon

(* The ranges are disjoint, and every fold is in the range of a machine.    *)
LEMMA RangesAre ==
  ASSUME machines \in 0 .. MaxMachines
  PROVE  /\ \A i, j \in 0 .. MaxMachines : i <= j => Start[i] <= Start[j]
         /\ machines > 0 =>
              \A f \in Folds : \E m \in 0 .. machines - 1 : f \in Start[m] .. End(m) - 1
<1>1. PICK N \in Nat \ {0} : N = MaxMachines
  BY ShardsAssumption DEF ShardsAssumption
<1>2. PICK s \in [0 .. N -> Nat] :
        /\ s = Start /\ s[0] = 0 /\ \A i \in 1 .. N : s[i - 1] <= s[i]
        /\ machines > 0 => s[machines] = TotalFolds
  BY <1>1, StartIs
<1>3. ASSUME NEW i \in 0 .. N, NEW j \in 0 .. N, i <= j PROVE s[i] <= s[j]
  <2> DEFINE Wrong == {n \in i .. N : ~(s[i] <= s[n])}
  <2>1. Wrong = {}
    <3> SUFFICES ASSUME Wrong # {} PROVE FALSE
      OBVIOUS
    <3>1. Wrong \in SUBSET Nat
      OBVIOUS
    <3>2. PICK n \in Wrong : \A l \in Wrong : n <= l
      BY <3>1, Least
    <3>3. n # i /\ n \in i .. N
      OBVIOUS
    <3>4. n - 1 \in i .. N /\ n - 1 \in 0 .. N /\ n \in 1 .. N
      BY <3>3
    <3>5. s[i] <= s[n - 1]
      BY <3>2, <3>4
    <3>6. s[n - 1] <= s[n]
      BY <1>2, <3>4
    <3>7. s[i] <= s[n]
      BY <3>4, <3>5, <3>6
    <3> QED
      BY <3>7
  <2> QED
    BY <1>3, <2>1
<1>4. ASSUME machines > 0, NEW f \in Folds
      PROVE  \E m \in 0 .. machines - 1 : f \in s[m] .. s[m + 1] - 1
  <2>1. PICK k \in 1 .. N : k = machines
    BY <1>1, <1>4
  <2>2. f \in Nat /\ f < s[k]
    BY <1>2, <1>4, <2>1, ShardsAssumption DEF Folds, ShardsAssumption
  <2> DEFINE Past == {n \in 0 .. k : f < s[n]}
  <2>a. Past \in SUBSET Nat
    BY <2>1
  <2>b. k \in Past
    BY <2>1, <2>2
  <2>3. Past \in SUBSET Nat /\ Past # {}
    BY <2>a, <2>b, Zenon
  <2>4. PICK n \in Past : \A l \in Past : n <= l
    BY <2>3, Least
  <2>5. n \in 0 .. k /\ f < s[n]
    BY <2>4
  <2>6. n # 0
    BY <1>2, <2>2, <2>5
  <2>7. n - 1 \in 0 .. k - 1 /\ n - 1 \in 0 .. k /\ n - 1 \in 0 .. N /\ ~(n <= n - 1)
    BY <2>5, <2>6
  <2>8. n - 1 \notin Past
    BY <2>4, <2>7, Zenon
  <2>9. ~(f < s[n - 1])
    BY <2>7, <2>8
  <2>10. s[n - 1] <= f /\ f <= s[(n - 1) + 1] - 1
    BY <2>2, <2>5, <2>7, <2>9
  <2>11. f \in s[n - 1] .. s[(n - 1) + 1] - 1
    BY <2>2, <2>5, <2>7, <2>10
  <2> QED
    BY <2>1, <2>7, <2>11, Zenon
<1>5. \A m : End(m) = s[m + 1]
  BY <1>2 DEF End
<1> QED
  BY <1>1, <1>2, <1>3, <1>4, <1>5, Zenon

-----------------------------------------------------------------------------
(* The machines. *)

ShardTypes ==
  /\ machines \in 0 .. MaxMachines
  /\ launch \in [started : 0 .. machines, going : BOOLEAN]
  /\ DOMAIN stage = Machines /\ DOMAIN disk = Machines
  /\ next \in [Machines -> Nat]
  /\ results \in [Machines -> Seq(Nat)]
  /\ \A f \in DOMAIN bucket : f \in Machines \X Folders /\ bucket[f] \in Seq(Nat)

(* What a machine has run lies in its range, in order. *)
InRange(m) ==
  /\ Start[m] <= next[m] /\ next[m] <= End(m)
  /\ ToSet(results[m]) \subseteq Start[m] .. next[m] - 1
  /\ m >= launch.started => stage[m] = "planned"
  /\ stage[m] = "planned" => next[m] = Start[m]

(* The file on the disk has all the results of the range, once it is there. *)
HasFile == {"written", "uploaded", "synced", "exited", "off"}

FileIsWhole(m) ==
  stage[m] \in HasFile =>
    next[m] = End(m) /\ disk[m] = results[m]

(* So has each copy of it, and the machine runs no more folds. *)
CopiesAreWhole(m) ==
  /\ \A p \in Folders : <<m, p>> \in DOMAIN bucket =>
       /\ bucket[<<m, p>>] = results[m] /\ next[m] = End(m)
       /\ stage[m] \notin {"planned", "boot", "folds", "written"}
  /\ stage[m] \in {"synced", "exited", "off"} => <<m, "results">> \in DOMAIN bucket

MachineInv(m) == InRange(m) /\ FileIsWhole(m) /\ CopiesAreWhole(m)

ShardInv ==
  /\ ShardTypes
  /\ \A m \in Machines : MachineInv(m)

(* The ranges depend on the number of machines only. *)
LEMMA StartStays ==
  ASSUME machines' = machines
  PROVE  Start' = Start
BY Zenon DEF Start, Size

(* The ends of a range. *)
LEMMA StartsAreNumbers ==
  ASSUME machines \in 0 .. MaxMachines
  PROVE  /\ MaxMachines \in Nat \ {0}
         /\ \A m \in Machines : /\ m \in Nat /\ End(m) = Start[m + 1]
                                /\ Start[m] \in Nat /\ End(m) \in Nat /\ Start[m] <= End(m)
<1>1. PICK N \in Nat \ {0} : N = MaxMachines
  BY ShardsAssumption DEF ShardsAssumption
<1>2. PICK s \in [0 .. N -> Nat] : s = Start /\ \A i \in 1 .. N : s[i - 1] <= s[i]
  BY <1>1, StartIs
<1>3. ASSUME NEW m \in 0 .. N - 1
      PROVE  m \in Nat /\ s[m] \in Nat /\ s[m + 1] \in Nat /\ s[m] <= s[m + 1]
  <2>1. m + 1 \in 1 .. N /\ (m + 1) - 1 = m /\ m \in 0 .. N
    OBVIOUS
  <2>2. s[(m + 1) - 1] <= s[m + 1]
    BY <1>2, <2>1, Zenon
  <2> QED
    BY <2>1, <2>2
<1> QED
  BY <1>1, <1>2, <1>3, Zenon DEF End, Machines

(* What is in a sequence with one more element. *)
LEMMA AppendToSet ==
  ASSUME NEW s \in Seq(Nat), NEW v \in Nat
  PROVE  Append(s, v) \in Seq(Nat) /\ ToSet(Append(s, v)) = ToSet(s) \cup {v}
<1>1. PICK a : a = Append(s, v)
  OBVIOUS
<1>2. PICK n \in Nat : n = Len(s)
  OBVIOUS
<1>3. /\ a \in Seq(Nat) /\ DOMAIN a = 1 .. n + 1 /\ DOMAIN s = 1 .. n
      /\ a[n + 1] = v /\ \A i \in 1 .. n : a[i] = s[i]
  BY <1>1, <1>2
<1>4. 1 .. n + 1 = (1 .. n) \cup {n + 1}
  OBVIOUS
<1>5. ToSet(a) = ToSet(s) \cup {v}
  BY <1>3, <1>4 DEF ToSet
<1> QED
  BY <1>1, <1>3, <1>5

(* A step of one machine leaves the others as they are.                     *)
LEMMA Elsewhere ==
  ASSUME ShardInv, NEW n \in Machines, machines' = machines, launch' = launch,
         stage'[n] = stage[n], next'[n] = next[n], results'[n] = results[n], disk'[n] = disk[n],
         \A p \in Folders : /\ <<n, p>> \in DOMAIN bucket' <=> <<n, p>> \in DOMAIN bucket
                            /\ <<n, p>> \in DOMAIN bucket => bucket'[<<n, p>>] = bucket[<<n, p>>]
  PROVE  MachineInv(n)'
<1>1. MachineInv(n) /\ Start' = Start
  BY StartStays DEF ShardInv
<1>2. InRange(n)'
  BY <1>1 DEF MachineInv, InRange, End
<1>3. FileIsWhole(n)'
  BY <1>1 DEF MachineInv, FileIsWhole, HasFile, End
<1>4. CopiesAreWhole(n)'
  <2>1. "results" \in Folders
    BY DEF Folders
  <2>2. CopiesAreWhole(n) /\ End(n)' = End(n)
    BY <1>1 DEF MachineInv, End
  <2>3. ASSUME NEW p \in Folders, <<n, p>> \in DOMAIN bucket'
        PROVE  /\ bucket'[<<n, p>>] = results'[n] /\ next'[n] = End(n)'
               /\ stage'[n] \notin {"planned", "boot", "folds", "written"}
    <3>1. <<n, p>> \in DOMAIN bucket /\ bucket'[<<n, p>>] = bucket[<<n, p>>]
      BY <2>3, Zenon
    <3>2. /\ bucket[<<n, p>>] = results[n] /\ next[n] = End(n)
          /\ stage[n] \notin {"planned", "boot", "folds", "written"}
      BY <2>2, <3>1, Zenon DEF CopiesAreWhole
    <3> QED
      BY <2>2, <3>1, <3>2, Zenon
  <2>4. stage'[n] \in {"synced", "exited", "off"} => <<n, "results">> \in DOMAIN bucket'
    BY <2>1, <2>2, Zenon DEF CopiesAreWhole
  <2> QED
    BY <2>3, <2>4, Zenon DEF CopiesAreWhole
<1> QED
  BY <1>2, <1>3, <1>4 DEF MachineInv

(* Steps of a machine that only move it on.                                 *)
LEMMA StageMoves ==
  ASSUME ShardInv, NEW m \in Machines, NEW to,
         stage[m] # "planned", to # "planned",
         to \in HasFile => stage[m] \in HasFile,
         to \in {"folds", "written"} => stage[m] \in {"boot", "folds"},
         to # "boot",
         to \in {"synced", "exited", "off"} => stage[m] \in {"synced", "exited", "off"},
         stage' = [stage EXCEPT ![m] = to],
         UNCHANGED <<machines, launch, next, results, disk, bucket>>
  PROVE  ShardInv'
<1>1. ShardTypes'
  BY DEF ShardInv, ShardTypes
<1>2. stage'[m] = to /\ \A n \in Machines \ {m} : stage'[n] = stage[n]
  BY DEF ShardInv, ShardTypes
<1>3. ASSUME NEW n \in Machines PROVE MachineInv(n)'
  <2>1. CASE n # m
    BY <1>2, <2>1, Elsewhere
  <2>2. CASE n = m
    <3>1. MachineInv(m) /\ Start' = Start
      BY StartStays DEF ShardInv
    <3>2. InRange(m)'
      BY <1>2, <3>1 DEF MachineInv, InRange, End
    <3>3. FileIsWhole(m)'
      BY <1>2, <3>1 DEF MachineInv, FileIsWhole, End, HasFile
    <3>4. CopiesAreWhole(m)'
      BY <1>2, <3>1 DEF MachineInv, CopiesAreWhole, End, HasFile
    <3> QED
      BY <2>2, <3>2, <3>3, <3>4 DEF MachineInv
  <2> QED
    BY <2>1, <2>2
<1> QED
  BY <1>1, <1>3, Zenon DEF ShardInv

(* The next machine leaves the plan. *)
LEMMA LaunchKeeps == ASSUME ShardInv, Launch PROVE ShardInv'
<1>1. PICK k \in 0 .. MaxMachines - 1 : k = launch.started /\ k < machines
  BY ShardsAssumption DEF Launch, ShardInv, ShardTypes, ShardsAssumption
<1>2. k \in Machines /\ machines \in 0 .. MaxMachines
  BY <1>1 DEF Machines, ShardInv, ShardTypes
<1>3. launch'.started = k + 1 /\ launch' \in [started : 0 .. machines, going : BOOLEAN]
  <2>1. PICK a \in 0 .. machines : a = k + 1
    BY <1>1, <1>2
  <2>2. launch' = [launch EXCEPT !.started = a]
    BY <1>1, <2>1, Zenon DEF Launch
  <2>3. launch \in [started : 0 .. machines, going : BOOLEAN]
    BY DEF ShardInv, ShardTypes
  <2> QED
    BY <2>1, <2>2, <2>3
<1>4. /\ stage'[k] = "boot" /\ DOMAIN stage' = Machines
      /\ \A n \in Machines \ {k} : stage'[n] = stage[n]
  BY <1>1, <1>2 DEF Launch, ShardInv, ShardTypes
<1>5. UNCHANGED <<machines, next, results, disk, bucket>> /\ Start' = Start
  BY StartStays DEF Launch
<1>6. ShardTypes'
  BY <1>3, <1>4, <1>5 DEF ShardInv, ShardTypes
<1>7. ASSUME NEW n \in Machines PROVE MachineInv(n)'
  <2>1. n \in Nat /\ MachineInv(n) /\ MachineInv(k)
    BY <1>2, StartsAreNumbers DEF ShardInv
  <2>2. stage[k] = "planned"
    BY <1>1, <1>2, <2>1 DEF MachineInv, InRange
  <2>3. CASE n = k
    <3>1. InRange(k)'
      BY <1>1, <1>3, <1>4, <1>5, <2>1 DEF MachineInv, InRange, End
    <3>2. FileIsWhole(k)' /\ CopiesAreWhole(k)'
      BY <1>4, <1>5, <2>1, <2>2 DEF MachineInv, FileIsWhole, HasFile, CopiesAreWhole, End
    <3> QED
      BY <2>3, <3>1, <3>2 DEF MachineInv
  <2>4. CASE n # k
    <3>1. InRange(n)'
      <4>1. n >= launch'.started => n >= launch.started
        BY <1>1, <1>3, <2>1
      <4> QED
        BY <1>4, <1>5, <2>1, <2>4, <4>1 DEF MachineInv, InRange, End
    <3>2. FileIsWhole(n)' /\ CopiesAreWhole(n)'
      BY <1>4, <1>5, <2>1, <2>4 DEF MachineInv, FileIsWhole, HasFile, CopiesAreWhole, End
    <3> QED
      BY <3>1, <3>2 DEF MachineInv
  <2> QED
    BY <2>3, <2>4
<1> QED
  BY <1>6, <1>7, Zenon DEF ShardInv

(* The launch ends. *)
LEMMA LaunchFailsKeeps == ASSUME ShardInv, LaunchFails PROVE ShardInv'
<1>1. /\ UNCHANGED <<machines, stage, next, results, disk, bucket>> /\ Start' = Start
      /\ launch'.started = launch.started
      /\ launch' \in [started : 0 .. machines, going : BOOLEAN]
  BY StartStays DEF LaunchFails, ShardInv, ShardTypes
<1>2. ShardTypes'
  BY <1>1 DEF ShardInv, ShardTypes
<1>3. ASSUME NEW n \in Machines PROVE MachineInv(n)'
  BY <1>1 DEF ShardInv, MachineInv, InRange, FileIsWhole, HasFile, CopiesAreWhole, End
<1> QED
  BY <1>2, <1>3, Zenon DEF ShardInv

(* The fold that is run is the next of the range. *)
LEMMA RunFoldKeeps == ASSUME ShardInv, NEW m \in Machines, RunFold(m) PROVE ShardInv'
<1>1. /\ UNCHANGED <<machines, launch, stage, disk, bucket>> /\ Start' = Start
      /\ machines \in 0 .. MaxMachines /\ stage[m] = "folds"
  BY StartStays DEF RunFold, ShardInv, ShardTypes
<1>2. PICK v \in Nat : v = next[m] /\ v < End(m)
  BY DEF RunFold, ShardInv, ShardTypes
<1>3. PICK s \in Seq(Nat) : s = results[m]
  BY DEF ShardInv, ShardTypes
<1>4. /\ next' \in [Machines -> Nat] /\ next'[m] = v + 1
      /\ \A n \in Machines \ {m} : next'[n] = next[n]
  BY <1>2 DEF RunFold, ShardInv, ShardTypes
<1>5. Append(s, v) \in Seq(Nat) /\ ToSet(Append(s, v)) = ToSet(s) \cup {v}
  BY AppendToSet
<1>6. PICK t \in Seq(Nat) :
        \/ t = s /\ results' = results
        \/ t = Append(s, v) /\ results' = [results EXCEPT ![m] = t]
  BY <1>2, <1>3, <1>5 DEF RunFold
<1>7. /\ results' \in [Machines -> Seq(Nat)] /\ results'[m] = t
      /\ \A n \in Machines \ {m} : results'[n] = results[n]
  <2>1. results \in [Machines -> Seq(Nat)]
    BY DEF ShardInv, ShardTypes
  <2>2. CASE t = s /\ results' = results
    BY <1>3, <2>1, <2>2
  <2>3. CASE results' = [results EXCEPT ![m] = t]
    BY <2>1, <2>3
  <2> QED
    BY <1>6, <2>2, <2>3
<1>8. ToSet(t) \subseteq ToSet(s) \cup {v}
  BY <1>5, <1>6, Zenon
<1>9. ShardTypes'
  BY <1>1, <1>4, <1>7 DEF ShardInv, ShardTypes
<1>10. ASSUME NEW n \in Machines PROVE MachineInv(n)'
  <2>1. CASE n # m
    BY <1>1, <1>4, <1>7, <2>1, Elsewhere
  <2>2. CASE n = m
    <3>1. MachineInv(m)
      BY DEF ShardInv
    <3>2. PICK a \in Nat, b \in Nat : a = Start[m] /\ b = End(m) /\ End(m)' = b
      BY <1>1, StartsAreNumbers DEF End
    <3>3. ToSet(s) \subseteq a .. v - 1 /\ a <= v /\ v < b
      BY <1>2, <1>3, <3>1, <3>2 DEF MachineInv, InRange
    <3>4. ToSet(t) \subseteq a .. (v + 1) - 1 /\ a <= v + 1 /\ v + 1 <= b
      BY <1>8, <3>3
    <3>5. m >= launch.started => stage[m] = "planned"
      BY <3>1 DEF MachineInv, InRange
    <3>6. InRange(m)'
      BY <1>1, <1>4, <1>7, <3>2, <3>4, <3>5 DEF InRange
    <3>7. FileIsWhole(m)'
      BY <1>1 DEF FileIsWhole, HasFile
    <3>8. CopiesAreWhole(m)'
      BY <1>1, <3>1 DEF MachineInv, CopiesAreWhole
    <3> QED
      BY <2>2, <3>6, <3>7, <3>8 DEF MachineInv
  <2> QED
    BY <2>1, <2>2
<1> QED
  BY <1>9, <1>10, Zenon DEF ShardInv

(* The file is written after the last fold of the range. *)
LEMMA WritePartialKeeps == ASSUME ShardInv, NEW m \in Machines, WritePartial(m) PROVE ShardInv'
<1>1. /\ UNCHANGED <<machines, launch, next, results, bucket>> /\ Start' = Start
      /\ stage[m] = "folds" /\ next[m] = End(m)
  BY StartStays DEF WritePartial, Goes, ShardInv, ShardTypes
<1>2. PICK to \in {"stuck", "written"} :
        /\ stage' = [stage EXCEPT ![m] = to]
        /\ to = "written" => results[m] # <<>>
  BY DEF WritePartial, Goes
<1>3. /\ stage'[m] = to /\ DOMAIN stage' = Machines
      /\ \A n \in Machines \ {m} : stage'[n] = stage[n]
  BY <1>2 DEF ShardInv, ShardTypes
<1>4. /\ DOMAIN disk' = Machines
      /\ to = "written" => disk'[m] = results[m]
      /\ \A n \in Machines \ {m} : disk'[n] = disk[n]
  BY <1>2 DEF WritePartial, ShardInv, ShardTypes
<1>5. ShardTypes'
  BY <1>1, <1>3, <1>4 DEF ShardInv, ShardTypes
<1>6. ASSUME NEW n \in Machines PROVE MachineInv(n)'
  <2>1. CASE n # m
    BY <1>1, <1>3, <1>4, <2>1, Elsewhere
  <2>2. CASE n = m
    <3>1. MachineInv(m)
      BY DEF ShardInv
    <3>2. InRange(m)'
      BY <1>1, <1>3, <3>1 DEF MachineInv, InRange, End
    <3>3. FileIsWhole(m)'
      BY <1>1, <1>3, <1>4 DEF FileIsWhole, HasFile, End
    <3>4. CopiesAreWhole(m)'
      BY <1>1, <1>3, <3>1 DEF MachineInv, CopiesAreWhole
    <3> QED
      BY <2>2, <3>2, <3>3, <3>4 DEF MachineInv
  <2> QED
    BY <2>1, <2>2
<1> QED
  BY <1>5, <1>6, Zenon DEF ShardInv

(* The two steps that leave a copy in the bucket. *)
LEMMA CopyKeeps ==
  ASSUME ShardInv, NEW m \in Machines, NEW place \in Folders, NEW to \in {"uploaded", "synced"},
         stage[m] \in {"written", "uploaded"},
         to = "synced" => Stored(m, place) /\ place = "results",
         Stored(m, place) \/ UNCHANGED bucket,
         stage' = [stage EXCEPT ![m] = to],
         UNCHANGED <<machines, launch, next, results, disk>>
  PROVE  ShardInv'
<1>1. Start' = Start /\ MachineInv(m)
  BY StartStays DEF ShardInv
<1>2. /\ stage'[m] = to /\ DOMAIN stage' = Machines
      /\ \A n \in Machines \ {m} : stage'[n] = stage[n]
  BY DEF ShardInv, ShardTypes
<1>3. next[m] = End(m) /\ disk[m] = results[m] /\ results[m] \in Seq(Nat)
  BY <1>1 DEF MachineInv, FileIsWhole, HasFile, ShardInv, ShardTypes
<1>4. ASSUME Stored(m, place)
      PROVE  /\ DOMAIN bucket' = DOMAIN bucket \cup {<<m, place>>}
             /\ bucket'[<<m, place>>] = results[m]
             /\ \A f \in DOMAIN bucket : f # <<m, place>> => bucket'[f] = bucket[f]
  BY <1>3, <1>4 DEF Stored
<1>5. \A f \in DOMAIN bucket' : f \in Machines \X Folders /\ bucket'[f] \in Seq(Nat)
  <2>1. \A f \in DOMAIN bucket : f \in Machines \X Folders /\ bucket[f] \in Seq(Nat)
    BY DEF ShardInv, ShardTypes
  <2>2. CASE Stored(m, place)
    <3>1. <<m, place>> \in Machines \X Folders
      OBVIOUS
    <3> QED
      BY <1>3, <1>4, <2>1, <2>2, <3>1, Zenon
  <2>3. CASE UNCHANGED bucket
    BY <2>1, <2>3
  <2> QED
    BY <2>2, <2>3
<1>6. ShardTypes'
  BY <1>2, <1>5 DEF ShardInv, ShardTypes
<1>7. ASSUME NEW n \in Machines PROVE MachineInv(n)'
  <2>1. CASE n # m
    <3>1. ASSUME NEW p \in Folders
          PROVE  /\ <<n, p>> \in DOMAIN bucket' <=> <<n, p>> \in DOMAIN bucket
                 /\ <<n, p>> \in DOMAIN bucket => bucket'[<<n, p>>] = bucket[<<n, p>>]
      <4>1. <<n, p>> # <<m, place>>
        BY <2>1
      <4>2. CASE Stored(m, place)
        BY <1>4, <4>1, <4>2
      <4> QED
        BY <4>2
    <3> QED
      BY <1>2, <2>1, <3>1, Elsewhere
  <2>2. CASE n = m
    <3>1. InRange(m)'
      BY <1>1, <1>2 DEF MachineInv, InRange, End
    <3>2. FileIsWhole(m)'
      BY <1>1, <1>2, <1>3 DEF FileIsWhole, HasFile, End
    <3>3. ASSUME NEW p \in Folders, <<m, p>> \in DOMAIN bucket'
          PROVE  bucket'[<<m, p>>] = results[m]
      <4>1. <<m, p>> \in DOMAIN bucket => bucket[<<m, p>>] = results[m]
        BY <1>1 DEF MachineInv, CopiesAreWhole
      <4>2. CASE Stored(m, place)
        BY <1>4, <3>3, <4>1, <4>2
      <4>3. CASE UNCHANGED bucket
        BY <3>3, <4>1, <4>3
      <4> QED
        BY <4>2, <4>3
    <3>4. to = "synced" => <<m, "results">> \in DOMAIN bucket'
      BY <1>4
    <3>5. CopiesAreWhole(m)'
      BY <1>1, <1>2, <1>3, <3>3, <3>4 DEF CopiesAreWhole, End
    <3> QED
      BY <2>2, <3>1, <3>2, <3>5 DEF MachineInv
  <2> QED
    BY <2>1, <2>2
<1> QED
  BY <1>6, <1>7, Zenon DEF ShardInv

(* Every step of a machine. *)
LEMMA MachineKeeps == ASSUME ShardInv, NEW m \in Machines, Machine(m) PROVE ShardInv'
<1>1. CASE Stops(m)
  <2>1. \E to \in {"stuck"} : stage' = [stage EXCEPT ![m] = to]
    BY <1>1 DEF Stops
  <2> QED
    BY <1>1, <2>1, StageMoves DEF Stops, HasFile
<1>2. CASE Reclaimed(m)
  <2>1. \E to \in {"gone"} : stage' = [stage EXCEPT ![m] = to]
    BY <1>2 DEF Reclaimed
  <2> QED
    BY <1>2, <2>1, StageMoves DEF Reclaimed, HasFile
<1>3. CASE StartTool(m)
  <2>1. PICK to \in {"folds", "stuck"} : stage' = [stage EXCEPT ![m] = to]
    BY <1>3 DEF StartTool, Goes
  <2> QED
    BY <1>3, <2>1, StageMoves DEF StartTool, Goes, HasFile
<1>4. CASE RunFold(m)
  BY <1>4, RunFoldKeeps
<1>5. CASE WritePartial(m)
  BY <1>5, WritePartialKeeps
<1>6. CASE UploadPartial(m)
  <2>1. PICK to \in {"uploaded"}, place \in {"tool"} : to = "uploaded" /\ place = "tool"
    OBVIOUS
  <2>2. place \in Folders /\ to \in {"uploaded", "synced"} /\ to # "synced"
    BY <2>1 DEF Folders
  <2>3. /\ stage[m] = "written" /\ stage' = [stage EXCEPT ![m] = to]
        /\ Stored(m, place) \/ UNCHANGED bucket
        /\ UNCHANGED <<machines, launch, next, results, disk>>
    BY <1>6, <2>1, Zenon DEF UploadPartial, Goes
  <2> QED
    BY <2>2, <2>3, CopyKeeps
<1>7. CASE SyncResults(m)
  <2>1. PICK to \in {"synced"}, place \in {"results"} : TRUE
    OBVIOUS
  <2>2. place \in Folders /\ to \in {"uploaded", "synced"}
    BY <2>1, Zenon DEF Folders
  <2>3. /\ stage[m] = "uploaded" /\ stage' = [stage EXCEPT ![m] = to]
        /\ Stored(m, place)
        /\ UNCHANGED <<machines, launch, next, results, disk>>
    BY <1>7, <2>1, Zenon DEF SyncResults, Goes
  <2> QED
    BY <2>1, <2>2, <2>3, CopyKeeps
<1>8. CASE WriteExitCode(m)
  <2>1. \E to \in {"exited"} : stage' = [stage EXCEPT ![m] = to]
    BY <1>8 DEF WriteExitCode, Goes
  <2> QED
    BY <1>8, <2>1, StageMoves DEF WriteExitCode, Goes, HasFile
<1>9. CASE Shutdown(m)
  <2>1. \E to \in {"off"} : stage' = [stage EXCEPT ![m] = to]
    BY <1>9 DEF Shutdown, Goes
  <2> QED
    BY <1>9, <2>1, StageMoves DEF Shutdown, Goes, HasFile
<1> QED
  BY <1>1, <1>2, <1>3, <1>4, <1>5, <1>6, <1>7, <1>8, <1>9, Zenon DEF Machine

(* Each machine is at the start of its range. *)
LEMMA ShardStart == ShardsInit => ShardInv
<1> SUFFICES ASSUME ShardsInit PROVE ShardInv
  OBVIOUS
<1>1. /\ machines \in 0 .. MaxMachines /\ launch = [started |-> 0, going |-> machines > 0]
      /\ stage = [m \in Machines |-> "planned"] /\ next = [m \in Machines |-> Start[m]]
      /\ results = [m \in Machines |-> <<>>] /\ disk = [m \in Machines |-> Absent]
      /\ DOMAIN bucket = {}
  BY DEF ShardsInit
<1>2. \A m \in Machines : Start[m] \in Nat /\ End(m) \in Nat /\ Start[m] <= End(m)
  BY <1>1, StartsAreNumbers
<1>3. <<>> \in Seq(Nat) /\ ToSet(<<>>) = {}
  BY DEF ToSet
<1>4. launch \in [started : 0 .. machines, going : BOOLEAN]
  <2>a. (machines > 0) \in BOOLEAN
    BY <1>1, SMT
  <2>1. PICK b \in BOOLEAN : b = (machines > 0)
    BY <2>a, Zenon
  <2>2. launch = [started |-> 0, going |-> b]
    BY <1>1, <2>1, Zenon
  <2> QED
    BY <1>1, <2>2
<1>5. ShardTypes
  BY <1>1, <1>2, <1>3, <1>4 DEF ShardTypes
<1>6. ASSUME NEW m \in Machines PROVE MachineInv(m)
  <2>1. InRange(m)
    BY <1>1, <1>2, <1>3 DEF InRange
  <2>2. FileIsWhole(m) /\ CopiesAreWhole(m)
    BY <1>1 DEF FileIsWhole, HasFile, CopiesAreWhole
  <2> QED
    BY <2>1, <2>2 DEF MachineInv
<1> QED
  BY <1>5, <1>6 DEF ShardInv

LEMMA ShardStays ==
  ShardInv /\ UNCHANGED <<machines, launch, stage, next, results, disk, bucket>> => ShardInv'
<1> SUFFICES ASSUME ShardInv, UNCHANGED <<machines, launch, stage, next, results, disk, bucket>>
             PROVE  ShardInv'
  OBVIOUS
<1>1. ShardTypes'
  BY DEF ShardInv, ShardTypes
<1>2. ASSUME NEW n \in Machines PROVE MachineInv(n)'
  BY Elsewhere
<1> QED
  BY <1>1, <1>2, Zenon DEF ShardInv

(* Every step of the run. *)
LEMMA ShardKeeps == ShardInv /\ [ShardsNext]_run => ShardInv'
<1> SUFFICES ASSUME ShardInv, [ShardsNext]_run PROVE ShardInv'
  OBVIOUS
<1>1. CASE Launch
  BY <1>1, LaunchKeeps
<1>2. CASE LaunchFails
  BY <1>2, LaunchFailsKeeps
<1>3. CASE \E m \in Machines : Machine(m)
  BY <1>3, MachineKeeps
<1>4. CASE Aggregate
  BY <1>4, ShardStays DEF Aggregate
<1>5. CASE Local
  BY <1>5, ShardStays DEF Local, BeginFold, EndFold, FoldsOver, WriteReport, UploadReport, shards
<1>6. CASE UNCHANGED run
  BY <1>6, ShardStays DEF run, shards
<1> QED
  BY <1>1, <1>2, <1>3, <1>4, <1>5, <1>6, Zenon DEF ShardsNext

LEMMA ShardInvariant == ShardsSpec => []ShardInv
BY ShardStart, ShardKeeps, PTL DEF ShardsSpec

(* What a report is made of: the results of the machines that have a copy   *)
(* in the bucket, in the order of the splits.                               *)
LEMMA GotIs ==
  ASSUME ShardInv
  PROVE  /\ Concatenated(bucket) \in Seq(Nat)
         /\ \A v : v \in ToSet(Concatenated(bucket)) <=>
                     \E m \in Machines, p \in Folders :
                       <<m, p>> \in DOMAIN bucket /\ v \in ToSet(results[m])
<1>1. \A f \in DOMAIN bucket : f \in Machines \X Folders /\ bucket[f] \in Seq(Nat)
  BY DEF ShardInv, ShardTypes
<1>2. /\ Concatenated(bucket) \in Seq(Nat)
      /\ \A v : v \in ToSet(Concatenated(bucket))
                  <=> \E f \in DOMAIN bucket : v \in ToSet(bucket[f])
  BY <1>1, ConcatenatedIs
<1>3. ASSUME NEW m \in Machines, NEW p \in Folders, <<m, p>> \in DOMAIN bucket
      PROVE  bucket[<<m, p>>] = results[m]
  BY <1>3 DEF ShardInv, MachineInv, CopiesAreWhole
<1>4. ASSUME NEW v
      PROVE  (\E f \in DOMAIN bucket : v \in ToSet(bucket[f])) <=>
               \E m \in Machines, p \in Folders :
                 <<m, p>> \in DOMAIN bucket /\ v \in ToSet(results[m])
  <2>1. ASSUME NEW f \in DOMAIN bucket, v \in ToSet(bucket[f])
        PROVE  \E m \in Machines, p \in Folders :
                 <<m, p>> \in DOMAIN bucket /\ v \in ToSet(results[m])
    <3>1. PICK m \in Machines, p \in Folders : f = <<m, p>>
      BY <1>1
    <3>2. bucket[f] = results[m]
      BY <1>3, <3>1, Zenon
    <3> QED
      BY <2>1, <3>1, <3>2, Zenon
  <2>2. ASSUME NEW m \in Machines, NEW p \in Folders, <<m, p>> \in DOMAIN bucket,
               v \in ToSet(results[m])
        PROVE  \E f \in DOMAIN bucket : v \in ToSet(bucket[f])
    <3>1. bucket[<<m, p>>] = results[m]
      BY <1>3, <2>2, Zenon
    <3> QED
      BY <2>2, <3>1, Zenon
  <2> QED
    BY <2>1, <2>2, Zenon
<1> QED
  BY <1>2, <1>4, Zenon

(* A sequence as a function. *)
LEMMA SeqIsFunction ==
  ASSUME NEW s \in Seq(Nat)
  PROVE  \E n \in Nat : s \in [1 .. n -> Nat]
<1>1. Len(s) \in Nat /\ s \in [1 .. Len(s) -> Nat]
  OBVIOUS
<1> QED
  BY <1>1

(* run_aggregate: what comes into a report, and how. *)
LEMMA RunAggregateIs ==
  ASSUME NEW partials, NEW s \in Seq(Nat), s = Concatenated(partials)
  PROVE  /\ RunAggregate(partials) = AggregateResults(Sorted(s))
         /\ RunAggregate(partials).fold_summaries = Sorted(s)
         /\ ToSet(Sorted(s)) = ToSet(s) /\ Steady(Sorted(s))
         /\ \E n \in Nat : Sorted(s) \in [1 .. n -> Nat]
<1>1. RunAggregate(partials) = AggregateResults(Sorted(s))
  BY Zenon DEF RunAggregate
<1>2. \A t : AggregateResults(t).fold_summaries = t
  BY DEF AggregateResults
<1>3. RunAggregate(partials).fold_summaries = Sorted(s)
  BY <1>1, <1>2, Zenon
<1>4. PICK n \in Nat : s \in [1 .. n -> Nat]
  BY SeqIsFunction
<1>5. Sorted(s) \in [1 .. n -> Nat] /\ Steady(Sorted(s)) /\ ToSet(Sorted(s)) = ToSet(s)
  BY <1>4, SortedIs, Zenon
<1> QED
  BY <1>1, <1>3, <1>5, Zenon

(* Two machines have no result in common.                                   *)
LEMMA ResultsApart ==
  ASSUME ShardInv, NEW m \in Machines, NEW n \in Machines, NEW v,
         v \in ToSet(results[m]), v \in ToSet(results[n])
  PROVE  m = n
<1>1. machines \in 0 .. MaxMachines
  BY DEF ShardInv, ShardTypes
<1>2. PICK N \in Nat \ {0} : N = MaxMachines
  BY ShardsAssumption DEF ShardsAssumption
<1>3. PICK s \in [0 .. N -> Nat] :
        s = Start /\ \A i, j \in 0 .. N : i <= j => s[i] <= s[j]
  BY <1>1, <1>2, RangesAre, StartIs
<1>4. ASSUME NEW k \in Machines, v \in ToSet(results[k])
      PROVE  k \in 0 .. N - 1 /\ v \in Nat /\ s[k] <= v /\ v < s[k + 1]
  <2>1. k \in 0 .. N - 1
    BY <1>2 DEF Machines
  <2>2. v \in Start[k] .. next[k] - 1 /\ next[k] <= End(k) /\ next[k] \in Nat
    BY <1>4 DEF ShardInv, ShardTypes, MachineInv, InRange
  <2>3. v \in s[k] .. next[k] - 1 /\ next[k] <= s[k + 1] /\ next[k] \in Nat
    BY <1>3, <2>2, Zenon DEF End
  <2>4. s[k] \in Nat /\ s[k + 1] \in Nat
    BY <2>1
  <2> QED
    BY <2>1, <2>3, <2>4
<1>5. m \in 0 .. N - 1 /\ v \in Nat /\ s[m] <= v /\ v < s[m + 1]
  BY <1>4
<1>6. n \in 0 .. N - 1 /\ s[n] <= v /\ v < s[n + 1]
  BY <1>4
<1>7. m < n => s[m + 1] <= s[n]
  BY <1>3, <1>5, <1>6
<1>8. n < m => s[n + 1] <= s[m]
  BY <1>3, <1>5, <1>6
<1>9. s[m] \in Nat /\ s[n] \in Nat /\ s[m + 1] \in Nat /\ s[n + 1] \in Nat
  BY <1>5, <1>6
<1> QED
  BY <1>5, <1>6, <1>7, <1>8, <1>9

(* A file of a machine in the bucket has all its results. *)
LEMMA ShardsAreWhole == ShardInv => WholeShards
<1> SUFFICES ASSUME ShardInv PROVE WholeShards
  OBVIOUS
<1>1. PICK s \in Seq(Nat) : s = Concatenated(bucket)
  BY GotIs
<1>2. PICK got : got = ToSet(RunAggregate(bucket).fold_summaries)
  OBVIOUS
<1>3. \A v : v \in got <=> \E m \in Machines, p \in Folders :
                             <<m, p>> \in DOMAIN bucket /\ v \in ToSet(results[m])
  <2>1. RunAggregate(bucket).fold_summaries = Sorted(s) /\ ToSet(Sorted(s)) = ToSet(s)
    BY <1>1, RunAggregateIs, Zenon
  <2>2. got = ToSet(s)
    BY <1>2, <2>1, Zenon
  <2> QED
    BY <1>1, <2>2, GotIs, Zenon
<1>4. got \subseteq Succeeded
  BY <1>3 DEF Succeeded
<1>5. ASSUME NEW m \in Machines, ToSet(results[m]) \cap got # {}
      PROVE  ToSet(results[m]) \subseteq got /\ next[m] = End(m)
  <2>1. PICK v : v \in ToSet(results[m]) /\ v \in got
    BY <1>5
  <2>2. PICK n \in Machines, p \in Folders : <<n, p>> \in DOMAIN bucket /\ v \in ToSet(results[n])
    BY <1>3, <2>1, Zenon
  <2>3. n = m
    BY <2>1, <2>2, ResultsApart
  <2>4. <<m, p>> \in DOMAIN bucket
    BY <2>2, <2>3, Zenon
  <2>5. next[m] = End(m)
    BY <2>4 DEF ShardInv, MachineInv, CopiesAreWhole
  <2>6. ToSet(results[m]) \subseteq got
    BY <1>3, <2>4
  <2> QED
    BY <2>5, <2>6
<1> QED
  BY <1>2, <1>4, <1>5, Zenon DEF WholeShards

(* With every machine done, the bucket has the results of all of them.      *)
LEMMA LocalReportIs == ShardInv => ReportIsLocal
<1> SUFFICES ASSUME ShardInv, machines > 0, \A m \in 0 .. machines - 1 : HasExitCode(m)
             PROVE  /\ UNION {Start[m] .. next[m] - 1 : m \in 0 .. machines - 1} = Folds
                    /\ AggregateResults(Once(RunAggregate(bucket).fold_summaries)) = LocalReport
  BY DEF ReportIsLocal
<1>1. PICK N \in Nat \ {0} : N = MaxMachines
  BY ShardsAssumption DEF ShardsAssumption
<1>2. PICK k \in 1 .. N : k = machines
  BY <1>1 DEF ShardInv, ShardTypes
<1>3. machines \in 0 .. MaxMachines
  BY DEF ShardInv, ShardTypes
<1>4. PICK s \in [0 .. N -> Nat] :
        /\ s = Start /\ s[k] = TotalFolds
        /\ \A i, j \in 0 .. N : i <= j => s[i] <= s[j]
        /\ \A f \in Folds : \E m \in 0 .. k - 1 : f \in s[m] .. s[m + 1] - 1
  BY <1>1, <1>2, <1>3, RangesAre, StartIs DEF End
<1>5. ASSUME NEW m \in 0 .. k - 1
      PROVE  m \in Machines /\ next[m] = s[m + 1] /\ <<m, "results">> \in DOMAIN bucket
  <2>1. m \in Machines
    BY <1>1, <1>2 DEF Machines
  <2>2. stage[m] \in {"exited", "off"}
    BY <1>2 DEF HasExitCode
  <2>3. next[m] = End(m)
    BY <2>1, <2>2 DEF ShardInv, MachineInv, FileIsWhole, HasFile
  <2>4. <<m, "results">> \in DOMAIN bucket
    BY <2>1, <2>2 DEF ShardInv, MachineInv, CopiesAreWhole
  <2> QED
    BY <1>4, <2>1, <2>3, <2>4, Zenon DEF End
<1>6. UNION {Start[m] .. next[m] - 1 : m \in 0 .. machines - 1} = Folds
  <2>1. ASSUME NEW m \in 0 .. k - 1, NEW f \in s[m] .. s[m + 1] - 1 PROVE f \in Folds
    <3>1. m + 1 \in 0 .. N /\ k \in 0 .. N /\ m + 1 <= k /\ m \in 0 .. N
      BY <1>2
    <3>2. s[m] \in Nat /\ s[m + 1] \in Nat /\ s[k] \in Nat /\ s[m + 1] <= s[k]
      BY <1>4, <3>1
    <3>3. f \in 0 .. s[k] - 1
      BY <3>2
    <3> QED
      BY <1>4, <3>3 DEF Folds
  <2>2. ASSUME NEW m \in 0 .. k - 1 PROVE Start[m] .. next[m] - 1 = s[m] .. s[m + 1] - 1
    BY <1>4, <1>5, Zenon
  <2>3. UNION {Start[m] .. next[m] - 1 : m \in 0 .. k - 1}
          = UNION {s[m] .. s[m + 1] - 1 : m \in 0 .. k - 1}
    BY <2>2, Zenon
  <2>4. UNION {s[m] .. s[m + 1] - 1 : m \in 0 .. k - 1} \subseteq Folds
    BY <2>1
  <2>5. Folds \subseteq UNION {s[m] .. s[m + 1] - 1 : m \in 0 .. k - 1}
    BY <1>4
  <2> QED
    BY <1>2, <2>3, <2>4, <2>5, Zenon
<1>7. PICK c \in Seq(Nat) : c = Concatenated(bucket)
  BY GotIs
<1>8. ToSet(c) = Succeeded
  <2>1. \A v : v \in ToSet(c) <=> \E m \in Machines, p \in Folders :
                                    <<m, p>> \in DOMAIN bucket /\ v \in ToSet(results[m])
    BY <1>7, GotIs, Zenon
  <2>2. ASSUME NEW m \in Machines, NEW v \in ToSet(results[m]) PROVE v \in ToSet(c)
    <3>1. CASE m < k
      <4>1. m \in 0 .. k - 1 /\ "results" \in Folders
        BY <1>1, <3>1 DEF Machines, Folders
      <4>2. <<m, "results">> \in DOMAIN bucket
        BY <1>5, <4>1
      <4> QED
        BY <2>1, <4>1, <4>2, Zenon
    <3>2. CASE ~(m < k)
      <4>1. m >= launch.started /\ m \in Nat
        <5>1. launch.started \in 0 .. k /\ m \in Nat
          BY <1>1, <1>2 DEF Machines, ShardInv, ShardTypes
        <5> QED
          BY <3>2, <5>1
      <4>2. next[m] = Start[m] /\ ToSet(results[m]) \subseteq Start[m] .. next[m] - 1 /\ next[m] \in Nat
        BY <4>1 DEF ShardInv, ShardTypes, MachineInv, InRange
      <4>3. PICK x \in Nat : x = next[m]
        BY <4>2
      <4>4. v \in x .. x - 1
        BY <4>2, <4>3, Zenon
      <4> QED
        BY <4>4
    <3> QED
      BY <3>1, <3>2
  <2>3. ToSet(c) \subseteq Succeeded
    BY <2>1 DEF Succeeded
  <2>4. Succeeded \subseteq ToSet(c)
    BY <2>2 DEF Succeeded
  <2> QED
    BY <2>3, <2>4
<1>9. PICK t : t = Sorted(c)
  OBVIOUS
<1>10. /\ RunAggregate(bucket).fold_summaries = t
       /\ ToSet(t) = ToSet(c) /\ Steady(t) /\ \E n \in Nat : t \in [1 .. n -> Nat]
  BY <1>7, <1>9, RunAggregateIs, Zenon
<1>11. PICK n \in Nat : t \in [1 .. n -> Nat]
  BY <1>10
<1>12. Once(t) = InOrder(ToSet(t))
  BY <1>10, <1>11, OnceIs
<1>13. AggregateResults(Once(RunAggregate(bucket).fold_summaries)) = LocalReport
  BY <1>8, <1>10, <1>12, Zenon DEF LocalReport
<1> QED
  BY <1>6, <1>13

-----------------------------------------------------------------------------
(* The run without a range. *)

LocalTypes ==
  /\ DOMAIN local = {"pc", "threads", "mode", "begun", "ended", "kept", "partial",
                     "report", "uploaded"}
  /\ local.threads \in Nat \ {0}
  /\ local.begun \in SUBSET Folds /\ local.ended \in SUBSET local.begun
  /\ local.kept \in Seq(Nat) /\ ToSet(local.kept) \subseteq local.ended

(* One thread takes the folds in the order of the splits, one at a time. *)
OneByOne ==
  local.threads = 1 =>
    /\ \A f \in local.begun, g \in Folds \ local.begun : f < g
    /\ \A f \in local.ended, g \in local.begun \ local.ended : f < g
    /\ \A f, g \in local.begun \ local.ended : f = g
    /\ Rises(local.kept)

Gathered ==
  /\ local.pc \in {"report", "upload", "done"} => local.ended = Folds
  /\ local.partial # Absent =>
       local.partial = Collected /\ local.pc \in {"report", "upload", "done"}
  /\ local.report # Absent =>
       local.report = AggregateResults(Collected) /\ local.pc \in {"upload", "done"}

LocalInv == LocalTypes /\ OneByOne /\ Gathered

(* A result that is larger than the others is added at the end.            *)
LEMMA AppendRises ==
  ASSUME NEW s \in Seq(Nat), Rises(s), NEW v \in Nat, \A w \in ToSet(s) : w < v
  PROVE  Rises(Append(s, v))
<1>1. PICK a : a = Append(s, v)
  OBVIOUS
<1>2. PICK n \in Nat : n = Len(s)
  OBVIOUS
<1>3. /\ DOMAIN a = 1 .. n + 1 /\ DOMAIN s = 1 .. n
      /\ a[n + 1] = v /\ \A i \in 1 .. n : a[i] = s[i] /\ s[i] \in Nat
  BY <1>1, <1>2
<1>4. ASSUME NEW i \in 1 .. n + 1, NEW j \in 1 .. n + 1, i < j PROVE a[i] < a[j]
  <2>1. i \in 1 .. n /\ s[i] \in ToSet(s) /\ a[i] = s[i]
    BY <1>3, <1>4 DEF ToSet
  <2>2. CASE j = n + 1
    BY <1>3, <2>1, <2>2
  <2>3. CASE j # n + 1
    <3>1. j \in 1 .. n
      BY <2>3
    <3>2. s[i] < s[j]
      BY <1>3, <1>4, <2>1, <3>1 DEF Rises
    <3> QED
      BY <1>3, <2>1, <3>1, <3>2
  <2> QED
    BY <2>2, <2>3
<1>5. Rises(a)
  BY <1>3, <1>4 DEF Rises
<1> QED
  BY <1>1, <1>5, Zenon

(* The folds are finitely many numbers. *)
LEMMA FoldsAreFinite == Folds \in SUBSET Nat /\ IsFiniteSet(Folds)
<1>1. TotalFolds \in Nat \ {0}
  BY ShardsAssumption DEF ShardsAssumption
<1>2. IsFiniteSet(0 .. TotalFolds - 1)
  BY <1>1, FS_Interval
<1> QED
  BY <1>1, <1>2 DEF Folds

(* Nothing has begun. *)
LEMMA LocalStart == ShardsInit => LocalInv
<1> SUFFICES ASSUME ShardsInit PROVE LocalInv
  OBVIOUS
<1>1. PICK threads \in Threads, kind \in {"cpcv", "imbalance"} :
        local = [pc |-> IF machines = 0 THEN "folds" ELSE "none",
                 threads |-> IF machines = 0 THEN threads ELSE 1,
                 mode |-> IF machines = 0 THEN kind ELSE "imbalance",
                 begun |-> {}, ended |-> {}, kept |-> <<>>,
                 partial |-> Absent, report |-> Absent, uploaded |-> FALSE]
  BY DEF ShardsInit
<1>2. PICK n \in Nat \ {0} : n = IF machines = 0 THEN threads ELSE 1
  BY ShardsAssumption DEF ShardsAssumption
<1>3. PICK p \in {"folds", "none"} : p = IF machines = 0 THEN "folds" ELSE "none"
  OBVIOUS
<1>4. /\ local.pc = p /\ local.threads = n /\ local.begun = {} /\ local.ended = {}
      /\ local.kept = <<>> /\ local.partial = Absent /\ local.report = Absent
  BY <1>1, <1>2, <1>3
<1>5. <<>> \in Seq(Nat) /\ ToSet(<<>>) = {} /\ Rises(<<>>)
  BY DEF ToSet, Rises
<1>a. DOMAIN local = {"pc", "threads", "mode", "begun", "ended", "kept", "partial",
                     "report", "uploaded"}
  BY <1>1
<1>6. LocalTypes
  BY <1>4, <1>5, <1>a DEF LocalTypes
<1>7. OneByOne
  BY <1>4, <1>5 DEF OneByOne
<1>8. Gathered
  BY <1>4 DEF Gathered
<1> QED
  BY <1>6, <1>7, <1>8 DEF LocalInv

(* A fold begins when no other is running, with one thread. *)
LEMMA BeginFoldKeeps == ASSUME LocalInv, NEW f \in Folds, BeginFold(f) PROVE LocalInv'
<1>1. PICK B : B = local.begun \cup {f}
  OBVIOUS
<1>2. PICK E : E = local.ended
  OBVIOUS
<1>3. PICK K : K = local.kept
  OBVIOUS
<1>a. LocalTypes /\ OneByOne /\ Gathered
  BY DEF LocalInv
<1>b. local.pc = "folds" /\ f \notin local.begun
  BY DEF BeginFold
<1>4. /\ DOMAIN local' = DOMAIN local
      /\ local'.begun = B /\ local'.ended = E /\ local'.kept = K
      /\ local'.threads = local.threads /\ local'.pc = local.pc
      /\ local'.partial = local.partial /\ local'.report = local.report
  <2>1. local' = [local EXCEPT !.begun = B]
    BY <1>1, Zenon DEF BeginFold
  <2> QED
    BY <1>2, <1>3, <1>a, <2>1 DEF LocalTypes
<1>5. LocalTypes'
  BY <1>1, <1>2, <1>3, <1>4, <1>a DEF LocalTypes
<1>6. OneByOne'
  <2> SUFFICES ASSUME local.threads = 1
               PROVE  /\ \A g \in B, h \in Folds \ B : g < h
                      /\ \A g \in E, h \in B \ E : g < h
                      /\ \A g, h \in B \ E : g = h
                      /\ Rises(K)
    BY <1>4, Zenon DEF OneByOne
  <2>1. Running = {}
    <3>1. Running \in SUBSET Folds
      BY <1>a DEF Running, LocalTypes
    <3>2. IsFiniteSet(Running)
      BY <3>1, FoldsAreFinite, FS_Subset
    <3>3. PICK c \in Nat : c = Cardinality(Running)
      BY <3>2, FS_CardinalityType
    <3>4. c < 1
      BY <3>3 DEF BeginFold
    <3>5. Cardinality(Running) = 0
      BY <3>3, <3>4
    <3> QED
      BY <3>2, <3>5, FS_EmptySet
  <2>2. B \ E \subseteq {f}
    BY <1>1, <1>2, <2>1 DEF Running
  <2>3. /\ \A g \in local.begun, h \in Folds \ local.begun : g < h
        /\ Rises(K)
    BY <1>3, <1>a DEF OneByOne
  <2>4. \A h \in Folds \ local.begun : f <= h
    BY DEF BeginFold
  <2>5. B \subseteq Folds /\ Folds \subseteq Nat
    BY <1>1, <1>a, FoldsAreFinite DEF LocalTypes
  <2>6. \A g \in B, h \in Folds \ B : g < h
    <3> SUFFICES ASSUME NEW g \in B, NEW h \in Folds \ B PROVE g < h
      OBVIOUS
    <3>1. CASE g = f
      <4>1. f <= h /\ f # h /\ f \in Nat /\ h \in Nat
        BY <1>1, <2>4, <2>5
      <4> QED
        BY <3>1, <4>1
    <3>2. CASE g # f
      BY <1>1, <2>3, <3>2
    <3> QED
      BY <3>1, <3>2
  <2>7. E \subseteq local.begun
    BY <1>2, <1>a DEF LocalTypes
  <2>8. \A g \in E, h \in B \ E : g < h
    BY <1>b, <2>2, <2>3, <2>7
  <2> QED
    BY <2>2, <2>3, <2>6, <2>8
<1>7. Gathered'
  BY <1>4, <1>a, <1>b DEF Gathered
<1> QED
  BY <1>5, <1>6, <1>7 DEF LocalInv

(* With one thread the fold that ends is the last one taken. *)
LEMMA EndFoldKeeps == ASSUME LocalInv, NEW f \in Folds, EndFold(f) PROVE LocalInv'
<1>1. PICK B : B = local.begun
  OBVIOUS
<1>2. PICK E : E = local.ended \cup {f}
  OBVIOUS
<1>3. PICK K : /\ K \in {local.kept, Append(local.kept, f)}
               /\ local' = [local EXCEPT !.ended = E, !.kept = K]
  <2>1. PICK ok \in BOOLEAN :
          local' = [local EXCEPT !.ended = @ \cup {f}, !.kept = IF ok THEN Append(@, f) ELSE @]
    BY Zenon DEF EndFold
  <2>2. PICK K : K = IF ok THEN Append(local.kept, f) ELSE local.kept
    OBVIOUS
  <2>3. local' = [local EXCEPT !.ended = E, !.kept = K]
    BY <1>2, <2>1, <2>2, Zenon
  <2> QED
    BY <2>2, <2>3
<1>a. LocalTypes /\ OneByOne /\ Gathered
  BY DEF LocalInv
<1>b. f \in local.begun /\ f \notin local.ended /\ f \in Nat
  BY FoldsAreFinite DEF EndFold, Running
<1>4. /\ DOMAIN local' = DOMAIN local
      /\ local'.begun = B /\ local'.ended = E /\ local'.kept = K
      /\ local'.threads = local.threads /\ local'.pc = local.pc
      /\ local'.partial = local.partial /\ local'.report = local.report
  BY <1>1, <1>3, <1>a DEF LocalTypes
<1>5. PICK s \in Seq(Nat) : s = local.kept
  BY <1>a DEF LocalTypes
<1>6. K \in Seq(Nat) /\ ToSet(K) \subseteq ToSet(s) \cup {f}
  <2>1. Append(s, f) \in Seq(Nat) /\ ToSet(Append(s, f)) = ToSet(s) \cup {f}
    BY <1>b, AppendToSet
  <2>2. K = s \/ K = Append(s, f)
    BY <1>3, <1>5
  <2> QED
    BY <2>1, <2>2, Zenon
<1>7. LocalTypes'
  BY <1>1, <1>2, <1>4, <1>5, <1>6, <1>a, <1>b DEF LocalTypes
<1>8. OneByOne'
  <2> SUFFICES ASSUME local.threads = 1
               PROVE  /\ \A g \in B, h \in Folds \ B : g < h
                      /\ \A g \in E, h \in B \ E : g < h
                      /\ \A g, h \in B \ E : g = h
                      /\ Rises(K)
    BY <1>4, Zenon DEF OneByOne
  <2>1. /\ \A g \in local.begun, h \in Folds \ local.begun : g < h
        /\ \A g \in local.ended, h \in local.begun \ local.ended : g < h
        /\ \A g, h \in local.begun \ local.ended : g = h
        /\ Rises(s)
    BY <1>5, <1>a DEF OneByOne
  <2>2. B \ E = {}
    BY <1>1, <1>2, <1>b, <2>1
  <2>3. \A w \in ToSet(s) : w < f
    BY <1>5, <1>a, <1>b, <2>1 DEF LocalTypes
  <2>4. Rises(K)
    <3>1. Rises(Append(s, f))
      BY <1>b, <2>1, <2>3, AppendRises
    <3>2. K = s \/ K = Append(s, f)
      BY <1>3, <1>5
    <3> QED
      BY <2>1, <3>1, <3>2, Zenon
  <2> QED
    BY <1>1, <2>1, <2>2, <2>4
<1>9. Gathered'
  <2>1. local.pc \notin {"report", "upload", "done"}
    BY <1>a, <1>b DEF Gathered
  <2> QED
    BY <1>4, <1>a, <2>1 DEF Gathered
<1> QED
  BY <1>7, <1>8, <1>9 DEF LocalInv

(* Steps after the last fold: what was collected stays as it is.            *)
LEMMA AfterTheFolds ==
  ASSUME LocalInv, DOMAIN local' = DOMAIN local,
         local'.begun = local.begun, local'.ended = local.ended, local'.kept = local.kept,
         local'.threads = local.threads
  PROVE  LocalTypes' /\ OneByOne' /\ Collected' = Collected
<1>1. LocalTypes /\ OneByOne
  BY DEF LocalInv
<1>2. LocalTypes'
  BY <1>1 DEF LocalTypes
<1>3. OneByOne'
  BY <1>1, Zenon DEF OneByOne
<1>4. Collected' = Collected
  BY Zenon DEF Collected
<1> QED
  BY <1>2, <1>3, <1>4

LEMMA FoldsOverKeeps == ASSUME LocalInv, FoldsOver PROVE LocalInv'
<1>1. LocalTypes /\ Gathered /\ local.pc = "folds" /\ local.ended = Folds
  BY DEF LocalInv, FoldsOver
<1>2. PICK Q : Q = IF local.mode = "imbalance" THEN Collected ELSE Absent
  OBVIOUS
<1>3. \/ local' = [local EXCEPT !.pc = "failed"]
      \/ local' = [local EXCEPT !.pc = "report", !.partial = Q]
  BY <1>2, Zenon DEF FoldsOver
<1>4. /\ DOMAIN local' = DOMAIN local
      /\ local'.begun = local.begun /\ local'.ended = local.ended /\ local'.kept = local.kept
      /\ local'.threads = local.threads /\ local'.report = local.report
      /\ \/ local'.pc = "failed" /\ local'.partial = local.partial
         \/ local'.pc = "report" /\ local'.partial = Q
  BY <1>1, <1>3 DEF LocalTypes
<1>5. LocalTypes' /\ OneByOne' /\ Collected' = Collected
  BY <1>4, AfterTheFolds
<1>6. local.partial = Absent /\ local.report = Absent
  BY <1>1 DEF Gathered
<1>7. Q = Absent \/ Q = Collected
  BY <1>2
<1>8. Gathered'
  BY <1>1, <1>4, <1>5, <1>6, <1>7 DEF Gathered
<1> QED
  BY <1>5, <1>8 DEF LocalInv

LEMMA WriteReportKeeps == ASSUME LocalInv, WriteReport PROVE LocalInv'
<1>1. LocalTypes /\ Gathered /\ local.pc = "report"
  BY DEF LocalInv, WriteReport
<1>2. PICK R : R = AggregateResults(Collected)
  OBVIOUS
<1>3. local' = [local EXCEPT !.pc = "upload", !.report = R]
  BY <1>2, Zenon DEF WriteReport
<1>4. /\ DOMAIN local' = DOMAIN local
      /\ local'.begun = local.begun /\ local'.ended = local.ended /\ local'.kept = local.kept
      /\ local'.threads = local.threads /\ local'.report = R /\ local'.pc = "upload"
      /\ local'.partial = local.partial
  BY <1>1, <1>3 DEF LocalTypes
<1>5. LocalTypes' /\ OneByOne' /\ Collected' = Collected
  BY <1>4, AfterTheFolds
<1>6. R = AggregateResults(Collected')
  BY <1>2, <1>5, Zenon
<1>7. Gathered'
  BY <1>1, <1>4, <1>5, <1>6 DEF Gathered
<1> QED
  BY <1>5, <1>7 DEF LocalInv

LEMMA UploadReportKeeps == ASSUME LocalInv, UploadReport PROVE LocalInv'
<1>1. LocalTypes /\ Gathered /\ local.pc = "upload"
  BY DEF LocalInv, UploadReport
<1>2. PICK ok : local' = [local EXCEPT !.pc = "done", !.uploaded = ok]
  BY DEF UploadReport
<1>3. /\ DOMAIN local' = DOMAIN local
      /\ local'.begun = local.begun /\ local'.ended = local.ended /\ local'.kept = local.kept
      /\ local'.threads = local.threads /\ local'.report = local.report /\ local'.pc = "done"
      /\ local'.partial = local.partial
  BY <1>1, <1>2 DEF LocalTypes
<1>4. LocalTypes' /\ OneByOne' /\ Collected' = Collected
  BY <1>3, AfterTheFolds
<1>5. AggregateResults(Collected') = AggregateResults(Collected)
  BY <1>4, Zenon
<1>6. Gathered'
  BY <1>1, <1>3, <1>4, <1>5 DEF Gathered
<1> QED
  BY <1>4, <1>6 DEF LocalInv

LEMMA LocalStays == ASSUME LocalInv, UNCHANGED local PROVE LocalInv'
<1>1. LocalTypes' /\ OneByOne' /\ Collected' = Collected
  BY AfterTheFolds
<1>2. AggregateResults(Collected') = AggregateResults(Collected)
  BY <1>1, Zenon
<1>3. Gathered'
  BY <1>1, <1>2 DEF LocalInv, Gathered
<1> QED
  BY <1>1, <1>3 DEF LocalInv

LEMMA LocalKeeps == LocalInv /\ [ShardsNext]_run => LocalInv'
<1> SUFFICES ASSUME LocalInv, [ShardsNext]_run PROVE LocalInv'
  OBVIOUS
<1>1. CASE Launch
  BY <1>1, LocalStays DEF Launch
<1>2. CASE LaunchFails
  BY <1>2, LocalStays DEF LaunchFails
<1>3. CASE \E m \in Machines : Machine(m)
  BY <1>3, LocalStays DEF Machine, Stops, Reclaimed, StartTool, RunFold, WritePartial,
     UploadPartial, SyncResults, WriteExitCode, Shutdown
<1>4. CASE Aggregate
  BY <1>4, LocalStays DEF Aggregate
<1>5. CASE Local
  BY <1>5, BeginFoldKeeps, EndFoldKeeps, FoldsOverKeeps, WriteReportKeeps, UploadReportKeeps
     DEF Local
<1>6. CASE UNCHANGED run
  BY <1>6, LocalStays DEF run
<1> QED
  BY <1>1, <1>2, <1>3, <1>4, <1>5, <1>6, Zenon DEF ShardsNext

(* The report and the file of partial results are of the folds in order.    *)
LEMMA CollectedIs ==
  ASSUME LocalInv
  PROVE  /\ Collected = InOrder(ToSet(local.kept))
         /\ \E n \in Nat : Collected \in [1 .. n -> Nat] /\ Rises(Collected)
<1>1. PICK s \in Seq(Nat) : s = local.kept
  BY DEF LocalInv, LocalTypes
<1>2. PICK n \in Nat : s \in [1 .. n -> Nat]
  BY SeqIsFunction
<1>3. CASE local.threads = 1
  <2>1. Collected = s
    BY <1>1, <1>3, Zenon DEF Collected
  <2>2. Rises(s)
    BY <1>1, <1>3 DEF LocalInv, OneByOne
  <2>3. InOrder(ToSet(s)) = s
    BY <1>2, <2>2, RisesInOrder
  <2> QED
    BY <1>1, <1>2, <2>1, <2>2, <2>3, Zenon
<1>4. CASE local.threads # 1
  <2>1. PICK S : S = ToSet(s)
    OBVIOUS
  <2>2. S \in SUBSET Nat /\ IsFiniteSet(S)
    BY <1>2, <2>1, ToSetIsFinite, Zenon
  <2>3. /\ Cardinality(S) \in Nat
        /\ InOrder(S) \in [1 .. Cardinality(S) -> Nat] /\ Rises(InOrder(S))
    BY <2>2, InOrderIs, Zenon
  <2>4. Collected = InOrder(S)
    BY <1>1, <1>4, <2>1, Zenon DEF Collected
  <2> QED
    BY <1>1, <2>1, <2>3, <2>4, Zenon
<1> QED
  BY <1>3, <1>4

LEMMA OrderIs == LocalInv => OrderIsOfSplits
<1> SUFFICES ASSUME LocalInv, local.report # Absent
             PROVE  /\ local.report = AggregateResults(InOrder(ToSet(local.kept)))
                    /\ local.partial # Absent =>
                         RunAggregate([f \in {<<0, "tool">>} |-> local.partial]) = local.report
                    /\ local.ended = Folds
  BY DEF OrderIsOfSplits
<1>1. local.report = AggregateResults(Collected) /\ local.ended = Folds
  BY DEF LocalInv, Gathered
<1>2. local.report = AggregateResults(InOrder(ToSet(local.kept)))
  BY <1>1, CollectedIs, Zenon
<1>3. ASSUME local.partial # Absent
      PROVE  RunAggregate([f \in {<<0, "tool">>} |-> local.partial]) = local.report
  <2>1. PICK c : c = local.partial
    OBVIOUS
  <2>2. c = Collected
    BY <1>3, <2>1 DEF LocalInv, Gathered
  <2>3. PICK n \in Nat : c \in [1 .. n -> Nat] /\ Rises(c)
    BY <2>2, CollectedIs, Zenon
  <2>4. PICK h : h = <<0, "tool">>
    OBVIOUS
  <2>5. h \in Machines \X Folders
    <3>1. 0 \in Machines /\ "tool" \in Folders
      BY ShardsAssumption DEF ShardsAssumption, Machines, Folders
    <3> QED
      BY <2>4, <3>1
  <2>6. PICK partials : partials = [f \in {h} |-> c]
    OBVIOUS
  <2>7. DOMAIN partials = {h} /\ partials[h] = c /\ c \in Seq(Nat)
    BY <2>3, <2>6
  <2>8. Concatenated(partials) = partials[h]
    BY <2>5, <2>7, ConcatenatedIs
  <2>9. Sorted(c) = c
    BY <2>3, RisesInOrder
  <2>10. RunAggregate(partials) = AggregateResults(c)
    BY <2>7, <2>8, <2>9, Zenon DEF RunAggregate
  <2>11. RunAggregate([f \in {<<0, "tool">>} |-> local.partial]) = RunAggregate(partials)
    BY <2>1, <2>4, <2>6, Zenon
  <2> QED
    BY <1>1, <2>2, <2>10, <2>11, Zenon
<1> QED
  BY <1>1, <1>2, <1>3

LEMMA LocalInvariant == ShardsSpec => []LocalInv
BY LocalStart, LocalKeeps, PTL DEF ShardsSpec

(* Reports of machines: once each has written its exit code, all folds were *)
(* run and the report is that of one machine, but for the copies (the       *)
(* ranges of ec2-launch-imbalance-cpcv-distributed.sh:65-78 and the         *)
(* aggregation of main.rs:687-741). For any number of folds and machines,   *)
(* any order of the paths and whichever folds and steps fail.               *)
THEOREM ReportsMatch == ShardsSpec => []ReportIsLocal
BY ShardInvariant, LocalReportIs, PTL

(* A report made at any time has all the results of a machine or none       *)
(* (run_imbalance writes its file after the last fold, main.rs:554-610).    *)
THEOREM NoPartOfAMachine == ShardsSpec => []WholeShards
BY ShardInvariant, ShardsAreWhole, PTL

(* The report of a run without a range does not depend on the number of its *)
(* threads nor on the order in which the folds end (main.rs:471-525).       *)
THEOREM FoldsInOrder == ShardsSpec => []OrderIsOfSplits
BY LocalInvariant, OrderIs, PTL
=============================================================================
