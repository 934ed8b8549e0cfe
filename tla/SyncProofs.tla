----------------------------- MODULE SyncProofs -----------------------------
(***************************************************************************)
(* The book of a completed load is the exchange's book: for any number of  *)
(* instruments, any feed, any size of a snapshot and any capacity of the   *)
(* channels, as long as no buffer overflows.                               *)
(***************************************************************************)
EXTENDS SnapshotSync, FiniteSetTheorems, TLAPS

(* What the server does is what SnapshotSync assumes of it.                 *)
Regular == ~ColdLag /\ ~EndAnyTime /\ ~LoseAnyTime

(* No instrument's buffer has overflowed (BufferLimit is 100000 messages).  *)
Fits == \A i \in Instruments : ~overflowed[i]

Jobs  == [at : OptSeq, left : 0 .. Pieces]
Books == [pieces : SUBSET Bodies, updates : Seq(OptSeq), done : BOOLEAN]

(* The state of the dispatcher, the channels, the server and the books.     *)
Types ==
  /\ lastSeq \in OptSeq /\ streak \in 0 .. MinStreak
  /\ mode \in [Instruments -> {"Streaming", "Loading"}]
  /\ buffer \in [Instruments -> Seq(Message)]
  /\ overflowed \in [Instruments -> BOOLEAN]
  /\ pc \in {"recv", "clear", "request", "events", "complete", "replay", "replaying"}
  /\ cur \in Instruments \cup {None} /\ msg \in Message \cup {None}
  /\ part \in {0, 1} /\ todo \in SUBSET Instruments /\ endSeq \in Seqs
  /\ cmdq \in [Instruments -> Seq(Command)] /\ wsq \in Seq(Instruments)
  /\ rxOpen = [i \in Instruments |-> TRUE] /\ wsOpen = TRUE
  /\ owner \in Seq(Instruments) /\ Latest \in Seqs
  /\ seen \in Seqs /\ seen <= Latest
  /\ asked \in SUBSET Instruments
  /\ job \in [Instruments -> Jobs]
  /\ book \in [Instruments -> Books]

(* The handler under way: what it works on. *)
Handling ==
  /\ pc = "recv" => todo = {}
  /\ pc \in {"clear", "request"} =>
       /\ \E i \in Instruments : seen # 0 /\ owner[seen] = i /\ msg = Update(i, seen)
       /\ pc = "request" => cur \in Instruments \ todo
  /\ pc = "events" =>
       /\ cur \in Instruments /\ todo = {}
       /\ \/ /\ mode[cur] = "Streaming"
             /\ seen # 0 /\ owner[seen] = cur /\ msg = Update(cur, seen)
          \/ /\ mode[cur] = "Loading"
             /\ job[cur].at # None /\ job[cur].left + 1 \in 1 .. Pieces
             /\ msg = Entry(cur, job[cur].at, job[cur].left + 1)
  /\ pc = "complete" =>
       endSeq <= seen /\ \E i \in Instruments : todo = {i} /\ mode[i] = "Loading"
  /\ pc \in {"replay", "replaying"} =>
       /\ cur \in Instruments /\ todo = {} /\ mode[cur] = "Streaming"
       /\ endSeq <= seen
       /\ pc = "replaying" =>
            \E s \in endSeq + 1 .. seen : owner[s] = cur /\ msg = Update(cur, s)

(* Where an instrument's snapshot request is. *)
Queued(i)    == \E k \in 1 .. Len(wsq) : wsq[k] = i
Sending(i)   == pc = "request" /\ cur = i
Recovering(i) == pc \in {"clear", "request"} /\ i \in todo
Completing(i) == pc = "complete" /\ i \in todo
Replaying(i) == pc \in {"replay", "replaying"} /\ cur = i
Pending(i)   == pc = "events" /\ cur = i /\ part = 0

(* It is in one place at a time, and only of an instrument that loads or    *)
(* that has not loaded yet.                                                 *)
Requests ==
  /\ \A j, k \in 1 .. Len(wsq) : wsq[j] = wsq[k] => j = k
  /\ \A i \in Instruments :
       /\ Queued(i) => i \notin asked /\ job[i] = Idle /\ mode[i] = "Loading"
       /\ Sending(i) => ~Queued(i) /\ i \notin asked /\ job[i] = Idle /\ mode[i] = "Loading"
       /\ i \in asked => job[i] = Idle
       /\ job[i] # Idle => mode[i] = "Loading" /\ job[i].at # None /\ job[i].at <= seen
       /\ Recovering(i) \/ Completing(i) \/ Replaying(i) =>
            ~Queued(i) /\ i \notin asked /\ job[i] = Idle
       /\ Recovering(i) => mode[i] = "Streaming"

(* The detector sees a loss: while one is undetected nothing else goes on,  *)
(* and outside a completion an armed tracker holds the last number seen.    *)
Tracking ==
  /\ seen < Latest => Detectable
  /\ streak > 0 /\ pc \notin {"complete", "replay", "replaying"} => lastSeq = seen

(* What instrument i buffers: its updates from number g on.                 *)
BuffersFrom(i, g) ==
  /\ \A k \in 1 .. Len(buffer[i]) : buffer[i][k] = Update(i, buffer[i][k].seq)
  /\ Lists([k \in 1 .. Len(buffer[i]) |-> buffer[i][k].seq], Own(i, g, seen))

(* The entries of i's snapshot that were sent to its pipeline.              *)
Delivered(i) ==
  IF job[i] = Idle THEN {}
  ELSE {[at |-> job[i].at, piece |-> p] :
          p \in job[i].left + (IF Pending(i) THEN 2 ELSE 1) .. Pieces}

(* A full snapshot and the later updates of i up to number h.               *)
Holds(i, b, S, h) ==
  S <= h /\ b.pieces = FullSnapshot(S) /\ Lists(b.updates, Own(i, S + 1, h))

(* What the commands sent to i's pipeline amount to, at each stage of a     *)
(* load and while the instrument streams.                                   *)
WhileLoading(i, b) ==
  mode[i] = "Loading" /\ ~Completing(i) =>
    /\ ~b.done /\ b.updates = <<>> /\ b.pieces = Delivered(i)
    /\ \E g \in 1 .. seen + 1 : /\ BuffersFrom(i, g)
                                /\ job[i] # Idle => g <= job[i].at + 1

WhileCompleting(i, b) ==
  Completing(i) =>
    /\ ~b.done /\ b.updates = <<>> /\ b.pieces = FullSnapshot(endSeq)
    /\ \E g \in 1 .. endSeq + 1 : BuffersFrom(i, g)

WhileReplaying(i, b) ==
  Replaying(i) =>
    /\ ~b.done /\ b.pieces = FullSnapshot(endSeq)
    /\ IF pc = "replay"
       THEN \E g \in 1 .. seen + 1 : /\ BuffersFrom(i, g)
                                     /\ Lists(b.updates, Own(i, endSeq + 1, g - 1))
       ELSE /\ BuffersFrom(i, msg.seq + 1)
            /\ Lists(b.updates, Own(i, endSeq + 1, msg.seq - 1 + part))

WhileStreaming(i, b) ==
  mode[i] = "Streaming" /\ ~Recovering(i) /\ ~Replaying(i) =>
    IF b.done THEN \E S \in Seqs : Holds(i, b, S, IF Pending(i) THEN seen - 1 ELSE seen)
    ELSE i \in asked

Phase(i, b) ==
  WhileLoading(i, b) /\ WhileCompleting(i, b) /\ WhileReplaying(i, b) /\ WhileStreaming(i, b)

(* A completed book is a full snapshot and a prefix of the later updates.   *)
Sound(i, b) == b.done => \E S, h \in Seqs : h <= seen /\ Holds(i, b, S, h)

(* t is the books i's pipeline goes through as it takes what is queued.     *)
Trail(i, t) ==
  /\ Len(t) = Len(cmdq[i]) + 1
  /\ t[1] = book[i]
  /\ \A k \in 1 .. Len(cmdq[i]) : t[k + 1] = Applied(t[k], cmdq[i][k])

Follows(i, t) ==
  /\ Trail(i, t)
  /\ \A k \in 1 .. Len(t) : Sound(i, t[k])
  /\ Phase(i, t[Len(t)])

View(i) == \E t \in Seq(Books) : Follows(i, t)

Control == Types /\ Handling /\ Requests /\ Tracking

IInv == Control /\ \A i \in Instruments : View(i)

-----------------------------------------------------------------------------
(* Facts about lists of numbers and the owners of updates. *)

LEMMA ListsEmpty ==
  ASSUME NEW q, Len(q) = 0
  PROVE  Lists(q, {})
BY DEF Lists, InOrder

LEMMA ListsNothing ==
  ASSUME NEW X, NEW q \in Seq(X), Lists(q, {})
  PROVE  q = <<>>
<1>1. Len(q) = 0
  BY DEF Lists
<1> QED
  BY <1>1

LEMMA ListsAppend ==
  ASSUME NEW X, NEW q \in Seq(X), NEW U \in SUBSET Nat, Lists(q, U),
         NEW s \in Nat, s \in X, \A u \in U : u < s
  PROVE  Lists(Append(q, s), U \cup {s})
<1> DEFINE r == Append(q, s)
<1>1. /\ Len(r) = Len(q) + 1 /\ Len(q) \in Nat /\ r[Len(q) + 1] = s
      /\ \A k \in 1 .. Len(q) : r[k] = q[k]
  OBVIOUS
<1>2. \A k \in 1 .. Len(q) : q[k] \in U
  BY DEF Lists
<1> HIDE DEF r
<1>3. InOrder(r)
  <2>1. \A j, k \in 1 .. Len(q) : j < k => q[j] < q[k]
    BY DEF Lists, InOrder
  <2> SUFFICES ASSUME NEW j \in 1 .. Len(r), NEW k \in 1 .. Len(r), j < k
               PROVE  r[j] < r[k]
    BY DEF InOrder
  <2>0. j \in 1 .. Len(q)
    BY <1>1
  <2>2. r[j] = q[j] /\ q[j] < s
    BY <1>1, <1>2, <2>0
  <2>3. CASE k \in 1 .. Len(q)
    BY <1>1, <2>0, <2>1, <2>2, <2>3
  <2>4. CASE k = Len(q) + 1
    BY <1>1, <2>2, <2>4
  <2> QED
    BY <1>1, <2>3, <2>4
<1>4. {r[k] : k \in 1 .. Len(r)} = U \cup {s}
  <2>1. \A k \in 1 .. Len(r) : r[k] \in U \cup {s}
    BY <1>1, <1>2
  <2>2. \A u \in U : \E k \in 1 .. Len(q) : u = q[k]
    BY DEF Lists
  <2>3. \A u \in U \cup {s} : \E k \in 1 .. Len(r) : u = r[k]
    BY <1>1, <2>2
  <2> QED
    BY <2>1, <2>3
<1> QED
  BY <1>3, <1>4 DEF Lists, r

LEMMA ListsTail ==
  ASSUME NEW X, NEW q \in Seq(X), NEW U \in SUBSET Nat, Lists(q, U), q # <<>>
  PROVE  /\ q[1] \in U /\ \A u \in U : q[1] <= u
         /\ Lists(Tail(q), U \ {q[1]})
<1> DEFINE r == Tail(q)
<1>1. /\ Len(r) = Len(q) - 1 /\ Len(q) \in Nat \ {0}
      /\ \A k \in 1 .. Len(r) : r[k] = q[k + 1]
  OBVIOUS
<1>2. \A k \in 1 .. Len(q) : q[k] \in U
  BY DEF Lists
<1>3. \A u \in U : \E k \in 1 .. Len(q) : u = q[k]
  BY DEF Lists
<1> HIDE DEF r
<1>4. \A j, k \in 1 .. Len(q) : j < k => q[j] < q[k]
  BY DEF Lists, InOrder
<1>5. q[1] \in U /\ \A u \in U : q[1] <= u
  <2>1. \A k \in 1 .. Len(q) : k = 1 \/ q[1] < q[k]
    BY <1>1, <1>4
  <2>2. \A k \in 1 .. Len(q) : q[1] <= q[k]
    <3> TAKE k \in 1 .. Len(q)
    <3>1. 1 \in 1 .. Len(q)
      BY <1>1
    <3>2. q[1] \in Nat /\ q[k] \in Nat
      BY <1>2, <3>1
    <3> QED
      BY <2>1, <3>2
  <2>3. ASSUME NEW u \in U PROVE q[1] <= u
    <3>1. PICK k \in 1 .. Len(q) : u = q[k]
      BY <1>3
    <3> QED
      BY <2>2, <3>1
  <2> QED
    BY <1>1, <1>2, <2>3
<1>6. InOrder(r)
  BY <1>1, <1>4 DEF InOrder
<1>7. {r[k] : k \in 1 .. Len(r)} = U \ {q[1]}
  <2> DEFINE V == U \ {q[1]}
  <2>1. \A k \in 1 .. Len(r) : r[k] \in U \ {q[1]}
    <3> TAKE k \in 1 .. Len(r)
    <3>1. r[k] = q[k + 1] /\ q[1] < q[k + 1] /\ q[k + 1] \in U
      BY <1>1, <1>2, <1>4
    <3>2. q[1] \in Nat /\ q[k + 1] \in Nat
      BY <1>5, <3>1
    <3> QED
      BY <3>1, <3>2
  <2>2. \A u \in U \ {q[1]} : \E k \in 1 .. Len(r) : u = r[k]
    <3> TAKE u \in U \ {q[1]}
    <3>1. PICK k \in 1 .. Len(q) : u = q[k]
      BY <1>3
    <3>2. k # 1
      BY <3>1
    <3>3. k - 1 \in 1 .. Len(r) /\ (k - 1) + 1 = k
      BY <1>1, <3>2
    <3>4. r[k - 1] = u
      BY <1>1, <3>1, <3>3
    <3> QED
      BY <3>3, <3>4
  <2>3. (\A k \in 1 .. Len(r) : r[k] \in V) /\ \A u \in V : \E k \in 1 .. Len(r) : u = r[k]
    BY <2>1, <2>2
  <2> HIDE DEF V
  <2>4. {r[k] : k \in 1 .. Len(r)} = V
    BY <2>3
  <2> QED
    BY <2>4 DEF V
<1> QED
  BY <1>5, <1>6, <1>7 DEF Lists, r

LEMMA OwnType == \A i, lo, hi : lo \in Nat /\ hi \in Nat => Own(i, lo, hi) \in SUBSET Nat
BY DEF Own

(* The owners of the updates so far stay when one is published.             *)
LEMMA OwnGrows ==
  ASSUME owner \in Seq(Instruments), NEW j \in Instruments, owner' = Append(owner, j),
         NEW i, NEW lo \in Nat \ {0}, NEW n \in Nat, Latest = n
  PROVE  /\ \A hi \in Nat : hi <= n => Own(i, lo, hi)' = Own(i, lo, hi)
         /\ i # j => Own(i, lo, n + 1)' = Own(i, lo, n)
         /\ i = j /\ lo <= n + 1 => Own(i, lo, n + 1)' = Own(i, lo, n) \cup {n + 1}
<1>1. /\ owner'[n + 1] = j
      /\ \A k \in 1 .. n : owner'[k] = owner[k]
  BY DEF Latest
<1>2. \A hi \in Nat : /\ Own(i, lo, hi) = {s \in lo .. hi : owner[s] = i}
                       /\ Own(i, lo, hi)' = {s \in lo .. hi : owner'[s] = i}
  BY DEF Own
<1>3. ASSUME NEW hi \in Nat, hi <= n PROVE Own(i, lo, hi)' = Own(i, lo, hi)
  <2>1. \A s \in lo .. hi : s \in 1 .. n
    BY <1>1, <1>3
  <2>2. \A s \in lo .. hi : owner'[s] = owner[s]
    BY <1>1, <2>1
  <2> QED
    BY <1>2, <1>3, <2>2
<1>4. /\ Own(i, lo, n + 1)' = {s \in lo .. n + 1 : owner'[s] = i}
      /\ Own(i, lo, n) = {s \in lo .. n : owner[s] = i}
      /\ lo .. n + 1 = (lo .. n) \cup (IF lo <= n + 1 THEN {n + 1} ELSE {})
      /\ \A s \in lo .. n : owner'[s] = owner[s]
  <2>1. n + 1 \in Nat
    BY <1>1
  <2>2. lo .. n + 1 = (lo .. n) \cup (IF lo <= n + 1 THEN {n + 1} ELSE {})
    BY <1>1
  <2>3. \A s \in lo .. n : s \in 1 .. n
    BY <1>1
  <2>4. /\ Own(i, lo, n + 1)' = {s \in lo .. n + 1 : owner'[s] = i}
        /\ Own(i, lo, n) = {s \in lo .. n : owner[s] = i}
    BY <1>1, <1>2, <2>1, Zenon
  <2>5. \A s \in lo .. n : owner'[s] = owner[s]
    BY <1>1, <2>3
  <2> QED
    BY <2>2, <2>4, <2>5
<1>5. i # j => Own(i, lo, n + 1)' = Own(i, lo, n)
  BY <1>1, <1>4
<1>6. i = j /\ lo <= n + 1 => Own(i, lo, n + 1)' = Own(i, lo, n) \cup {n + 1}
  BY <1>1, <1>4
<1> QED
  BY <1>3, <1>5, <1>6

-----------------------------------------------------------------------------
(* The messages of the server and the commands made of them.                *)

LEMMA MessageTypes ==
  /\ \A i \in Instruments, s \in Seqs : /\ Update(i, s) \in Message
                                        /\ EventOf(Update(i, s), 1) \in Command
  /\ \A i \in Instruments, S \in Seqs, p \in 1 .. Pieces :
       Entry(i, S, p) \in Message /\ EventOf(Entry(i, S, p), 1) \in Command
  /\ \A i \in Instruments, S \in Seqs : Closing(i, S) \in Message
  /\ \A S \in Seqs : EndMark(S) \in Message
  /\ ClearBook \in Command /\ SnapshotComplete \in Command
  /\ None \notin Seqs
<1> USE DispatcherAssumption, SyncAssumption
<1>1. 1 \in 0 .. MaxEvents /\ 0 \in 0 .. MaxEvents /\ 1 \in 1 .. MaxEvents
  OBVIOUS
<1>2. None \in Bodies /\ \A S \in Seqs, p \in 1 .. Pieces : [at |-> S, piece |-> p] \in Bodies
  OBVIOUS
<1>3. \A i \in Instruments, s \in Seqs : Update(i, s) \in Message
  BY <1>1, <1>2 DEF Update, Message, Tids, Symbols, OptSeq
<1>4. \A i \in Instruments, S \in Seqs, p \in 1 .. Pieces : Entry(i, S, p) \in Message
  BY <1>1, <1>2 DEF Entry, Message, Tids, Symbols, OptSeq
<1>5. \A i \in Instruments, S \in Seqs : Closing(i, S) \in Message /\ EndMark(S) \in Message
  BY <1>1, <1>2 DEF Closing, EndMark, Message, Tids, Symbols, OptSeq
<1>6. \A S \in Seqs : EndMark(S) \in Message
  BY <1>1, <1>2 DEF EndMark, Message, Tids, Symbols, OptSeq
<1>7. \A m \in Message : EventOf(m, 1) \in Command
  BY <1>1 DEF EventOf, Command
<1>8. ClearBook \in Command /\ SnapshotComplete \in Command
  BY DEF ClearBook, SnapshotComplete, Command
<1>9. None \notin Seqs
  BY DEF Seqs
<1> QED
  BY <1>3, <1>4, <1>5, <1>6, <1>7, <1>8, <1>9

(* What a command does to a book. *)
LEMMA AppliedTypes ==
  ASSUME NEW b \in Books, NEW c \in Command
  PROVE  Applied(b, c) \in Books
<1>1. EmptyBook \in Books
  BY DEF EmptyBook, Books
<1>2. [b EXCEPT !.done = TRUE] \in Books
  BY DEF Books
<1>3. CASE c.type = "Event"
  <2>1. c.of \in Message /\ c.of.body \in Bodies /\ c.of.seq \in OptSeq
    BY <1>3 DEF Command, Message
  <2>2. [b EXCEPT !.pieces = @ \cup {c.of.body}] \in Books
    BY <2>1 DEF Books
  <2>3. [b EXCEPT !.updates = Append(@, c.of.seq)] \in Books
    <3>1. Append(b.updates, c.of.seq) \in Seq(OptSeq)
      BY <2>1 DEF Books
    <3> QED
      BY <3>1 DEF Books
  <2> QED
    BY <1>3, <2>2, <2>3 DEF Applied
<1>4. c.type \in {"Event", "ClearBook", "SnapshotComplete"}
  BY DEF Command
<1> QED
  BY <1>1, <1>2, <1>3, <1>4 DEF Applied

-----------------------------------------------------------------------------
(* Books and the commands on their way to them. *)

(* Updates are published and handed over, none is taken back.               *)
Grows ==
  /\ seen' \in Seqs /\ seen <= seen'
  /\ owner' = owner \/ \E j \in Instruments : owner' = Append(owner, j)

LEMMA SeqsFacts ==
  /\ MaxSeq \in Nat /\ Seqs = 0 .. MaxSeq
  /\ \A s \in Seqs : s \in Nat /\ s # None
BY DispatcherAssumption DEF Seqs

LEMMA OwnKept ==
  ASSUME Types, Grows, NEW i, NEW lo \in Nat \ {0}, NEW hi \in Nat, hi <= seen
  PROVE  Own(i, lo, hi)' = Own(i, lo, hi)
<1>1. CASE owner' = owner
  BY <1>1 DEF Own
<1>2. CASE \E j \in Instruments : owner' = Append(owner, j)
  <2>1. PICK j \in Instruments : owner' = Append(owner, j)
    BY <1>2
  <2>2. Latest \in Nat /\ seen \in Nat /\ seen <= Latest
    BY SeqsFacts DEF Types
  <2>3. PICK n \in Nat : Latest = n
    BY <2>2
  <2>4. hi <= n
    BY <2>2, <2>3
  <2>5. owner \in Seq(Instruments)
    BY DEF Types
  <2>6. \A h \in Nat : h <= n => Own(i, lo, h)' = Own(i, lo, h)
    BY <2>1, <2>3, <2>5, OwnGrows
  <2> QED
    BY <2>4, <2>6
<1> QED
  BY <1>1, <1>2 DEF Grows

LEMMA SoundKept ==
  ASSUME Types, Grows, NEW i, NEW b, Sound(i, b)
  PROVE  Sound(i, b)'
<1> SUFFICES ASSUME b.done
             PROVE  \E S, h \in Seqs : h <= seen' /\ Holds(i, b, S, h)'
  BY DEF Sound
<1>1. PICK S \in Seqs, h \in Seqs : h <= seen /\ Holds(i, b, S, h)
  BY DEF Sound
<1>2. S + 1 \in Nat \ {0} /\ h \in Nat
  BY SeqsFacts
<1>3. Own(i, S + 1, h)' = Own(i, S + 1, h)
  BY <1>1, <1>2, OwnKept
<1>4. Holds(i, b, S, h)'
  BY <1>1, <1>3 DEF Holds, Lists, InOrder, FullSnapshot
<1>5. h <= seen'
  BY <1>1, <1>2, SeqsFacts DEF Grows, Types
<1> QED
  BY <1>4, <1>5

(* Nothing is sent or taken: the trail stays. *)
LEMMA ViewKept ==
  ASSUME Types, Grows, NEW i \in Instruments, View(i),
         cmdq'[i] = cmdq[i], book'[i] = book[i],
         \A b \in Books : Phase(i, b) /\ Sound(i, b) => Phase(i, b)'
  PROVE  View(i)'
<1>1. PICK t \in Seq(Books) : Follows(i, t)
  BY DEF View
<1>2. Trail(i, t)'
  BY <1>1 DEF Follows, Trail
<1>3. \A k \in 1 .. Len(t) : Sound(i, t[k])'
  BY <1>1, SoundKept DEF Follows
<1>4. Len(t) \in 1 .. Len(t)
  BY <1>1 DEF Follows, Trail, Types
<1>5. Phase(i, t[Len(t)])'
  <2>1. t[Len(t)] \in Books /\ Phase(i, t[Len(t)]) /\ Sound(i, t[Len(t)])
    BY <1>1, <1>4 DEF Follows
  <2> QED
    BY <2>1
<1> QED
  BY <1>2, <1>3, <1>5 DEF View, Follows

(* A command is sent: the trail is longer by one book. *)
LEMMA ViewSent ==
  ASSUME Types, Grows, NEW i \in Instruments, View(i), NEW c \in Command,
         cmdq'[i] = Append(cmdq[i], c), book'[i] = book[i],
         \A b \in Books : Phase(i, b) /\ Sound(i, b) =>
                            Phase(i, Applied(b, c))' /\ Sound(i, Applied(b, c))'
  PROVE  View(i)'
<1>1. PICK t \in Seq(Books) : Follows(i, t)
  BY DEF View
<1> DEFINE q == cmdq[i]
           d == Applied(t[Len(t)], c)
           r == Append(t, d)
<1>2. q \in Seq(Command) /\ Len(t) = Len(q) + 1 /\ Len(q) \in Nat
  BY <1>1 DEF Types, Follows, Trail
<1>3. /\ t[Len(t)] \in Books /\ Phase(i, t[Len(t)]) /\ Sound(i, t[Len(t)])
      /\ d \in Books
  BY <1>1, <1>2, AppliedTypes DEF Follows
<1>4. Phase(i, d)' /\ Sound(i, d)'
  BY <1>3
<1>5. /\ r \in Seq(Books) /\ Len(r) = Len(t) + 1 /\ r[Len(t) + 1] = d
      /\ \A k \in 1 .. Len(t) : r[k] = t[k]
  BY <1>2, <1>3
<1>6. /\ Len(cmdq'[i]) = Len(q) + 1 /\ cmdq'[i][Len(q) + 1] = c
      /\ \A k \in 1 .. Len(q) : cmdq'[i][k] = q[k]
  BY <1>2
<1>7. /\ t[1] = book[i] /\ \A k \in 1 .. Len(q) : t[k + 1] = Applied(t[k], q[k])
      /\ \A k \in 1 .. Len(t) : Sound(i, t[k])'
  BY <1>1, SoundKept DEF Follows, Trail
<1> HIDE DEF q, d, r
<1>8. Trail(i, r)'
  <2>1. Len(r) = Len(cmdq'[i]) + 1 /\ r[1] = book'[i]
    BY <1>2, <1>5, <1>6, <1>7
  <2>2. ASSUME NEW k \in 1 .. Len(cmdq'[i])
        PROVE  r[k + 1] = Applied(r[k], cmdq'[i][k])
    <3>1. CASE k \in 1 .. Len(q)
      <4>1. k \in 1 .. Len(t) /\ k + 1 \in 1 .. Len(t)
        BY <1>2, <3>1
      <4> QED
        BY <1>5, <1>6, <1>7, <3>1, <4>1
    <3>2. CASE k = Len(q) + 1
      <4>1. k \in 1 .. Len(t) /\ k = Len(t) /\ k + 1 = Len(t) + 1
        BY <1>2, <3>2
      <4>2. r[k] = t[Len(t)] /\ cmdq'[i][k] = c /\ r[k + 1] = d
        BY <1>5, <1>6, <3>2, <4>1
      <4> QED
        BY <4>2 DEF d
    <3> QED
      BY <1>2, <1>6, <2>2, <3>1, <3>2
  <2> QED
    BY <2>1, <2>2 DEF Trail
<1>9. \A k \in 1 .. Len(r) : Sound(i, r[k])'
  <2> SUFFICES ASSUME NEW k \in 1 .. Len(r) PROVE Sound(i, r[k])'
    OBVIOUS
  <2>1. k \in 1 .. Len(t) \/ k = Len(t) + 1
    BY <1>2, <1>5
  <2> QED
    BY <1>4, <1>5, <1>7, <2>1
<1>10. Phase(i, r[Len(r)])'
  BY <1>4, <1>5
<1> QED
  BY <1>5, <1>8, <1>9, <1>10 DEF View, Follows

(* The pipeline takes a command: it is at the next book of the trail.       *)
LEMMA ViewTaken ==
  ASSUME Types, Grows, NEW i \in Instruments, View(i), cmdq[i] # <<>>,
         cmdq'[i] = Tail(cmdq[i]), book'[i] = Applied(book[i], Head(cmdq[i])),
         \A b \in Books : Phase(i, b) => Phase(i, b)'
  PROVE  View(i)'
<1>1. PICK t \in Seq(Books) : Follows(i, t)
  BY DEF View
<1> DEFINE q == cmdq[i]
           r == Tail(t)
<1>2. /\ q \in Seq(Command) /\ Len(t) = Len(q) + 1 /\ Len(q) \in Nat \ {0}
      /\ t[1] = book[i] /\ \A k \in 1 .. Len(q) : t[k + 1] = Applied(t[k], q[k])
  BY <1>1 DEF Types, Follows, Trail
<1>3. /\ Len(cmdq'[i]) = Len(q) - 1 /\ Head(q) = q[1]
      /\ \A k \in 1 .. Len(q) - 1 : cmdq'[i][k] = q[k + 1]
  BY <1>2
<1>4. /\ r \in Seq(Books) /\ Len(r) = Len(t) - 1
      /\ \A k \in 1 .. Len(t) - 1 : r[k] = t[k + 1]
  BY <1>2
<1>5. \A k \in 1 .. Len(t) : Sound(i, t[k])'
  BY <1>1, SoundKept DEF Follows
<1>6. Phase(i, t[Len(t)])'
  <2>1. t[Len(t)] \in Books /\ Phase(i, t[Len(t)])
    BY <1>1, <1>2 DEF Follows
  <2> QED
    BY <2>1
<1>7. book'[i] = Applied(book[i], q[1])
  BY <1>3
<1> HIDE DEF q, r
<1>8. Trail(i, r)'
  <2>1. r[1] = book'[i]
    BY <1>2, <1>4, <1>7
  <2>2. ASSUME NEW k \in 1 .. Len(cmdq'[i])
        PROVE  r[k + 1] = Applied(r[k], cmdq'[i][k])
    <3>1. k \in 1 .. Len(q) - 1 /\ k + 1 \in 1 .. Len(q) /\ k \in 1 .. Len(t) - 1
      BY <1>2, <1>3
    <3>2. k + 1 \in 1 .. Len(t) - 1
      BY <1>2, <3>1
    <3>3. r[k] = t[k + 1] /\ r[k + 1] = t[(k + 1) + 1] /\ cmdq'[i][k] = q[k + 1]
      BY <1>3, <1>4, <3>1, <3>2
    <3> QED
      BY <1>2, <3>1, <3>3
  <2>3. Len(r) = Len(cmdq'[i]) + 1
    BY <1>2, <1>3, <1>4
  <2> QED
    BY <2>1, <2>2, <2>3 DEF Trail
<1>9. \A k \in 1 .. Len(r) : Sound(i, r[k])'
  BY <1>2, <1>4, <1>5
<1>10. Phase(i, r[Len(r)])'
  <2>1. r[Len(r)] = t[Len(t)]
    BY <1>2, <1>4
  <2> QED
    BY <1>6, <2>1
<1> QED
  BY <1>4, <1>8, <1>9, <1>10 DEF View, Follows

(* What an instrument buffers does not change with the others.              *)
LEMMA BuffersKept ==
  ASSUME NEW i, NEW g, Own(i, g, seen)' = Own(i, g, seen), buffer'[i] = buffer[i],
         BuffersFrom(i, g)
  PROVE  BuffersFrom(i, g)'
<1>1. \A k : buffer'[i][k] = Update(i, buffer'[i][k].seq) <=> buffer[i][k] = Update(i, buffer[i][k].seq)
  OBVIOUS
<1>2. Lists([k \in 1 .. Len(buffer[i]) |-> buffer[i][k].seq], Own(i, g, seen))'
        <=> Lists([k \in 1 .. Len(buffer[i]) |-> buffer[i][k].seq], Own(i, g, seen))
  BY DEF Lists, InOrder
<1>3. Len(buffer'[i]) = Len(buffer[i])
  OBVIOUS
<1> QED
  BY <1>1, <1>2, <1>3 DEF BuffersFrom

(* What a step does to one instrument does not disturb another one whose    *)
(* updates stay the same.                                                   *)
LEMMA PhaseKept ==
  ASSUME Types, Grows, NEW i \in Instruments, NEW b \in Books, Phase(i, b),
         \A lo \in Nat \ {0} : Own(i, lo, seen)' = Own(i, lo, seen),
         mode'[i] = mode[i], buffer'[i] = buffer[i], job'[i] = job[i],
         mode[i] = "Streaming" => (i \in asked' <=> i \in asked),
         Pending(i)' <=> Pending(i), Recovering(i)' <=> Recovering(i),
         Completing(i)' <=> Completing(i), Replaying(i)' <=> Replaying(i),
         Pending(i) => seen' = seen /\ owner' = owner,
         Completing(i) \/ Replaying(i) => endSeq' = endSeq /\ seen' = seen /\ owner' = owner,
         Replaying(i) => pc' = pc /\ msg' = msg /\ part' = part
  PROVE  Phase(i, b)'
<1>0. seen \in Nat /\ seen' \in Nat /\ seen <= seen' /\ endSeq \in Nat
  BY SeqsFacts DEF Types, Grows
<1>1. ASSUME NEW g \in Nat \ {0}, BuffersFrom(i, g) PROVE BuffersFrom(i, g)'
  <2>1. Own(i, g, seen)' = Own(i, g, seen)
    BY <1>1
  <2> QED
    BY <1>1, <2>1, BuffersKept
<1>2. WhileLoading(i, b)'
  <2> SUFFICES ASSUME mode[i] = "Loading", ~Completing(i)
               PROVE  /\ ~b.done /\ b.updates = <<>> /\ b.pieces = Delivered(i)'
                      /\ \E g \in 1 .. seen' + 1 :
                           BuffersFrom(i, g)' /\ (job'[i] # Idle => g <= job'[i].at + 1)
    BY DEF WhileLoading
  <2>1. /\ ~b.done /\ b.updates = <<>> /\ b.pieces = Delivered(i)
        /\ \E g \in 1 .. seen + 1 : BuffersFrom(i, g) /\ (job[i] # Idle => g <= job[i].at + 1)
    BY DEF Phase, WhileLoading
  <2>2. Delivered(i)' = Delivered(i)
    BY DEF Delivered, Idle
  <2>3. PICK g \in 1 .. seen + 1 : BuffersFrom(i, g) /\ (job[i] # Idle => g <= job[i].at + 1)
    BY <2>1
  <2>4. g \in Nat \ {0} /\ g \in 1 .. seen' + 1
    <3>1. PICK n \in Nat : seen' = n
      BY <1>0
    <3>2. g \in Nat \ {0} /\ g \in 1 .. n + 1
      BY <1>0, <3>1
    <3> QED
      BY <3>1, <3>2
  <2>5. BuffersFrom(i, g)'
    BY <1>1, <2>3, <2>4
  <2> QED
    BY <2>1, <2>2, <2>3, <2>4, <2>5
<1>3. WhileCompleting(i, b)'
  <2> SUFFICES ASSUME Completing(i) PROVE WhileCompleting(i, b)'
    BY DEF WhileCompleting
  <2>1. /\ ~b.done /\ b.updates = <<>> /\ b.pieces = FullSnapshot(endSeq)
        /\ \E g \in 1 .. endSeq + 1 : BuffersFrom(i, g)
    BY DEF Phase, WhileCompleting
  <2>2. PICK g \in 1 .. endSeq + 1 : BuffersFrom(i, g)
    BY <2>1
  <2>3. g \in Nat \ {0}
    BY <1>0
  <2>4. BuffersFrom(i, g)'
    BY <1>1, <2>2, <2>3
  <2> QED
    BY <2>1, <2>4 DEF WhileCompleting, FullSnapshot
<1>4. WhileReplaying(i, b)'
  <2> SUFFICES ASSUME Replaying(i) PROVE WhileReplaying(i, b)'
    BY DEF WhileReplaying
  <2>1. /\ pc' = pc /\ msg' = msg /\ part' = part /\ endSeq' = endSeq
        /\ seen' = seen /\ owner' = owner /\ buffer'[i] = buffer[i]
    OBVIOUS
  <2>2. WhileReplaying(i, b)
    BY DEF Phase
  <2>3. \A g : BuffersFrom(i, g)' <=> BuffersFrom(i, g)
    BY <2>1 DEF BuffersFrom, Lists, InOrder, Own, Update
  <2>4. /\ BuffersFrom(i, msg.seq + 1)' <=> BuffersFrom(i, msg.seq + 1)
        /\ Own(i, endSeq + 1, msg.seq - 1 + part)' = Own(i, endSeq + 1, msg.seq - 1 + part)
        /\ \A g : Own(i, endSeq + 1, g - 1)' = Own(i, endSeq + 1, g - 1)
    BY <2>1 DEF BuffersFrom, Lists, InOrder, Own, Update
  <2> QED
    BY <2>1, <2>2, <2>3, <2>4 DEF WhileReplaying, Lists, InOrder, FullSnapshot
<1>5. WhileStreaming(i, b)'
  <2> SUFFICES ASSUME mode[i] = "Streaming", ~Recovering(i), ~Replaying(i)
               PROVE  IF b.done
                      THEN \E S \in Seqs : Holds(i, b, S, IF Pending(i) THEN seen - 1 ELSE seen)'
                      ELSE i \in asked'
    BY DEF WhileStreaming
  <2>1. IF b.done THEN \E S \in Seqs : Holds(i, b, S, IF Pending(i) THEN seen - 1 ELSE seen)
        ELSE i \in asked
    BY DEF Phase, WhileStreaming
  <2>2. CASE ~b.done
    BY <2>1, <2>2
  <2>3. CASE b.done /\ Pending(i)
    <3>1. PICK S \in Seqs : Holds(i, b, S, seen - 1)
      BY <2>1, <2>3
    <3>2. Own(i, S + 1, seen - 1)' = Own(i, S + 1, seen - 1)
      BY <2>3 DEF Own
    <3>3. Holds(i, b, S, seen - 1)'
      BY <2>3, <3>1, <3>2 DEF Holds, Lists, InOrder, FullSnapshot
    <3> QED
      BY <2>3, <3>3
  <2>4. CASE b.done /\ ~Pending(i)
    <3>1. PICK S \in Seqs : Holds(i, b, S, seen)
      BY <2>1, <2>4
    <3>2. Own(i, S + 1, seen)' = Own(i, S + 1, seen)
      BY SeqsFacts
    <3>3. S <= seen'
      BY <1>0, <3>1, SeqsFacts DEF Holds
    <3>4. Holds(i, b, S, seen)'
      BY <3>1, <3>2, <3>3 DEF Holds, Lists, InOrder, FullSnapshot
    <3> QED
      BY <2>4, <3>4
  <2> QED
    BY <2>2, <2>3, <2>4
<1> QED
  BY <1>2, <1>3, <1>4, <1>5 DEF Phase

-----------------------------------------------------------------------------
(* What the dispatcher does with the messages of the server. *)

LEMMA ReceiveUpdate ==
  ASSUME Types, NEW i \in Instruments, NEW s \in Seqs, Receive(Update(i, s))
  PROVE  DboGap(Update(i, s)) \/ DboStream(Update(i, s)) \/ DboBuffer(Update(i, s))
<1> DEFINE m == Update(i, s)
<1>1. m.tid = 160 /\ m.sym = i /\ i # Foreign
  BY DispatcherAssumption DEF Update
<1> HIDE DEF m
<1>2. ~DboForeign(m) /\ ~SnapForeign(m) /\ ~SnapColdStart(m) /\ ~SnapColdStartFails(m) /\ ~SnapEntry(m)
  BY <1>1 DEF DboForeign, SnapForeign, SnapColdStart, SnapColdStartFails, SnapEntry
<1>3. ~Sentinel(m) /\ ~SentinelStray(m) /\ ~EndEvent(m) /\ ~EndEventStray(m)
      /\ ~SubscriptionAck(m) /\ ~Other(m) /\ ~Logout(m)
  BY <1>1 DEF Sentinel, SentinelStray, EndEvent, EndEventStray, SubscriptionAck, Other, Logout
<1>4. Receive(m)
  BY DEF m
<1>5. DboGap(m) \/ DboStream(m) \/ DboBuffer(m)
  BY <1>2, <1>3, <1>4 DEF Receive
<1> QED
  BY <1>5 DEF m

LEMMA ReceiveEntry ==
  ASSUME Types, NEW i \in Instruments, NEW S \in Seqs, NEW p \in 1 .. Pieces, Receive(Entry(i, S, p))
  PROVE  SnapColdStart(Entry(i, S, p)) \/ SnapEntry(Entry(i, S, p))
<1> DEFINE m == Entry(i, S, p)
<1>1. m.tid = 116 /\ m.sym = i /\ i # Foreign /\ ~m.sentinel /\ rxOpen[i]
  BY DispatcherAssumption DEF Entry, Types
<1> HIDE DEF m
<1>2. ~DboForeign(m) /\ ~DboGap(m) /\ ~DboStream(m) /\ ~DboBuffer(m) /\ ~SnapForeign(m) /\ ~SnapColdStartFails(m)
  BY <1>1 DEF DboForeign, DboGap, DboStream, DboBuffer, SnapForeign, SnapColdStartFails
<1>3. ~Sentinel(m) /\ ~SentinelStray(m) /\ ~EndEvent(m) /\ ~EndEventStray(m)
      /\ ~SubscriptionAck(m) /\ ~Other(m) /\ ~Logout(m)
  BY <1>1 DEF Sentinel, SentinelStray, EndEvent, EndEventStray, SubscriptionAck, Other, Logout
<1>4. Receive(m)
  BY DEF m
<1>5. SnapColdStart(m) \/ SnapEntry(m)
  BY <1>2, <1>3, <1>4 DEF Receive
<1> QED
  BY <1>5 DEF m

(* Either end of a snapshot completes the instrument it is of. *)
LEMMA ReceiveEnd ==
  ASSUME Types, NEW i \in Instruments, NEW S \in Seqs, mode[i] = "Loading",
         \/ Receive(Closing(i, S))
         \/ LoadingSet = {i} /\ Receive(EndMark(S))
  PROVE  /\ pc = "recv" /\ pc' = "complete" /\ todo' = {i} /\ lastSeq' = S /\ endSeq' = S
         /\ UNCHANGED <<streak, loading, cur, msg, part, channels, sent>>
<1>0. S # None /\ i \in LoadingSet /\ i # Foreign
  BY SeqsFacts, DispatcherAssumption DEF LoadingSet
<1>1. CASE Receive(Closing(i, S))
  <2> DEFINE m == Closing(i, S)
  <2>1. m.tid = 116 /\ m.sym = i /\ m.sentinel /\ m.seq = S
    BY DEF Closing
  <2> HIDE DEF m
  <2>2. ~DboForeign(m) /\ ~DboGap(m) /\ ~DboStream(m) /\ ~DboBuffer(m) /\ ~SnapForeign(m)
        /\ ~SnapColdStart(m) /\ ~SnapColdStartFails(m) /\ ~SnapEntry(m)
    BY <2>1 DEF DboForeign, DboGap, DboStream, DboBuffer, SnapForeign, SnapColdStart,
                SnapColdStartFails, SnapEntry
  <2>3. ~SentinelStray(m) /\ ~EndEvent(m) /\ ~EndEventStray(m)
        /\ ~SubscriptionAck(m) /\ ~Other(m) /\ ~Logout(m)
    BY <1>0, <2>1 DEF SentinelStray, EndEvent, EndEventStray, SubscriptionAck, Other, Logout
  <2>4. Receive(m)
    BY <1>1 DEF m
  <2>5. Sentinel(m)
    BY <2>2, <2>3, <2>4 DEF Receive
  <2> QED
    BY <1>0, <2>1, <2>5 DEF Sentinel, Overwrite, EndSequence
<1>2. CASE LoadingSet = {i} /\ Receive(EndMark(S))
  <2> DEFINE m == EndMark(S)
  <2>1. m.tid = 161 /\ m.seq = S
    BY DEF EndMark
  <2> HIDE DEF m
  <2>2. ~DboForeign(m) /\ ~DboGap(m) /\ ~DboStream(m) /\ ~DboBuffer(m) /\ ~SnapForeign(m)
        /\ ~SnapColdStart(m) /\ ~SnapColdStartFails(m) /\ ~SnapEntry(m)
    BY <2>1 DEF DboForeign, DboGap, DboStream, DboBuffer, SnapForeign, SnapColdStart,
                SnapColdStartFails, SnapEntry
  <2>3. ~Sentinel(m) /\ ~SentinelStray(m) /\ ~EndEventStray(m)
        /\ ~SubscriptionAck(m) /\ ~Other(m) /\ ~Logout(m)
    BY <1>0, <2>1 DEF Sentinel, SentinelStray, EndEventStray, SubscriptionAck, Other, Logout
  <2>4. Receive(m)
    BY <1>2 DEF m
  <2>5. EndEvent(m)
    BY <2>2, <2>3, <2>4 DEF Receive
  <2> QED
    BY <1>0, <1>2, <2>1, <2>5 DEF EndEvent, Overwrite, EndSequence
<1> QED
  BY <1>1, <1>2

(* An update that shows no gap follows the last one seen: an undetected     *)
(* loss arms the detector. One that shows a gap follows a loss.             *)
LEMMA GapIsLoss ==
  ASSUME Types, Tracking, pc = "recv"
  PROVE  GapBefore(Latest + 1) <=> seen < Latest
<1>1. /\ streak \in Nat /\ MinStreak \in Nat \ {0} /\ seen \in Nat /\ Latest \in Nat
      /\ seen # None /\ Latest + 1 # None /\ seen <= Latest
  BY DispatcherAssumption, SyncAssumption, SeqsFacts DEF Types
<1>2. ASSUME GapBefore(Latest + 1) PROVE seen < Latest
  <2>1. streak > 0 /\ Latest + 1 # lastSeq + 1
    BY <1>1, <1>2 DEF GapBefore
  <2>2. lastSeq = seen
    BY <2>1 DEF Tracking
  <2> QED
    BY <1>1, <2>1, <2>2
<1>3. ASSUME seen < Latest PROVE GapBefore(Latest + 1)
  <2>1. streak >= MinStreak
    BY <1>3 DEF Tracking, Detectable
  <2>2. lastSeq = seen
    BY <1>1, <2>1 DEF Tracking
  <2> QED
    BY <1>1, <1>3, <2>1, <2>2 DEF GapBefore
<1> QED
  BY <1>2, <1>3

-----------------------------------------------------------------------------
(* Every step preserves the invariant. First the updates: one that shows a  *)
(* gap starts a recovery of everything, one of an instrument that streams   *)
(* is on its way to its pipeline, one of an instrument that loads waits.    *)

LEMMA GapStep ==
  ASSUME IInv, NEW i \in Instruments, NEW n \in Nat, Latest = n, Publish(i),
         DboGap(Update(i, n + 1))
  PROVE  IInv'
<1> DEFINE m == Update(i, n + 1)
<1>1. /\ pc = "recv" /\ m.sym = i /\ m.seq = n + 1 /\ n < MaxSeq /\ GapBefore(n + 1)
      /\ owner' = Append(owner, i) /\ seen' = n + 1 /\ lastSeq' = n + 1 /\ pc' = "clear"
      /\ cur' = i /\ msg' = m /\ todo' = Instruments
      /\ UNCHANGED <<streak, loading, part, endSeq, channels, sent, asked, job, book>>
  BY DEF Publish, DboGap, RecoverySet, Update
<1>2. Types /\ Tracking /\ Requests /\ Handling
  BY DEF IInv, Control
<1>3. n + 1 \in Seqs /\ m \in Message /\ m \in Message \cup {None}
  BY <1>1, SeqsFacts, MessageTypes
<1>4. seen < Latest /\ Detectable
  <2>1. seen < Latest
    BY <1>1, <1>2, GapIsLoss
  <2> QED
    BY <1>2, <2>1 DEF Tracking
<1> HIDE DEF m
<1>5. Latest' = n + 1 /\ owner' \in Seq(Instruments) /\ owner'[n + 1] = i
  BY <1>1, <1>2 DEF Latest, Types
<1>6. Types'
  <2>1. /\ lastSeq' \in OptSeq /\ pc' = "clear" /\ msg' \in Message \cup {None}
        /\ cur' \in Instruments \cup {None} /\ todo' \in SUBSET Instruments
        /\ owner' \in Seq(Instruments) /\ Latest' \in Seqs /\ seen' \in Seqs /\ seen' <= Latest'
    BY <1>1, <1>3, <1>5 DEF OptSeq
  <2> QED
    BY <1>1, <1>2, <2>1 DEF Types, loading, channels
<1>7. Handling'
  BY <1>1, <1>5, MessageTypes DEF Handling, m
<1>8. \A j \in Instruments : mode[j] = "Streaming" /\ j \notin asked /\ ~Queued(j) /\ job[j] = Idle
  BY <1>2, <1>4 DEF Detectable, LoadingSet, Types, Queued
<1>9. Requests'
  BY <1>1, <1>2, <1>4, <1>8 DEF Requests, Queued, Sending, Recovering, Completing, Replaying,
     loading, channels, Detectable
<1>10. Tracking'
  BY <1>1, <1>5 DEF Tracking
<1>11. Grows
  <2>1. seen <= n + 1
    BY <1>2, <1>4, SeqsFacts DEF Types
  <2> QED
    BY <1>1, <1>3, <2>1 DEF Grows
<1>12. ASSUME NEW j \in Instruments PROVE View(j)'
  <2>1. ASSUME NEW b PROVE Phase(j, b)'
    BY <1>1, <1>8 DEF Phase, WhileLoading, WhileCompleting, WhileReplaying, WhileStreaming,
       Completing, Replaying, Recovering, loading
  <2> QED
    BY <1>1, <1>2, <1>11, <2>1, ViewKept DEF IInv, channels
<1> QED
  BY <1>6, <1>7, <1>9, <1>10, <1>12 DEF IInv, Control

(* The update of instrument i leaves the others as they were. *)
LEMMA OthersPublished ==
  ASSUME IInv, NEW i \in Instruments, NEW n \in Nat, Latest = n, seen = n, seen' = n + 1,
         n + 1 \in Seqs, owner' = Append(owner, i), pc = "recv", pc' \in {"recv", "events"},
         todo' = {}, pc' = "events" => cur' = i,
         UNCHANGED <<mode, cmdq, book, asked, job>>,
         NEW j \in Instruments, j # i, buffer'[j] = buffer[j]
  PROVE  View(j)'
<1>1. Types /\ Handling
  BY DEF IInv, Control
<1>2. Grows
  BY SeqsFacts DEF Grows
<1>3. \A lo \in Nat \ {0} : Own(j, lo, seen)' = Own(j, lo, seen)
  <2> TAKE lo \in Nat \ {0}
  <2>1. Own(j, lo, n + 1)' = Own(j, lo, n)
    BY <1>1, OwnGrows DEF Types
  <2> QED
    BY <2>1
<1>4. /\ ~Pending(j) /\ ~Recovering(j) /\ ~Completing(j) /\ ~Replaying(j)
      /\ ~Pending(j)' /\ ~Recovering(j)' /\ ~Completing(j)' /\ ~Replaying(j)'
  BY DEF Pending, Recovering, Completing, Replaying
<1>5. ASSUME NEW b \in Books, Phase(j, b) PROVE Phase(j, b)'
  BY <1>1, <1>2, <1>3, <1>4, <1>5, PhaseKept
<1> QED
  BY <1>1, <1>2, <1>5, ViewKept DEF IInv

LEMMA StreamStep ==
  ASSUME IInv, NEW i \in Instruments, NEW n \in Nat, Latest = n, Publish(i),
         DboStream(Update(i, n + 1))
  PROVE  IInv'
<1> DEFINE m == Update(i, n + 1)
<1>1. /\ pc = "recv" /\ n < MaxSeq /\ ~GapBefore(n + 1) /\ mode[i] = "Streaming"
      /\ owner' = Append(owner, i) /\ seen' = n + 1 /\ Track(n + 1) /\ pc' = "events"
      /\ cur' = i /\ msg' = m /\ part' = 0
      /\ UNCHANGED <<loading, todo, endSeq, channels, sent, asked, job, book>>
  BY DEF Publish, DboStream, Update, Streams
<1>2. Types /\ Tracking /\ Requests /\ Handling
  BY DEF IInv, Control
<1>3. n + 1 \in Seqs /\ n + 1 # None /\ m \in Message \cup {None}
  BY <1>1, SeqsFacts, MessageTypes
<1>4. seen = n
  BY <1>1, <1>2, GapIsLoss, SeqsFacts DEF Types
<1>5. Latest' = n + 1 /\ owner' \in Seq(Instruments) /\ owner'[n + 1] = i
  BY <1>1, <1>2 DEF Latest, Types
<1>6. lastSeq' = n + 1 /\ streak' \in 0 .. MinStreak
  BY <1>1, <1>2, <1>3, DispatcherAssumption DEF Track, Types
<1> HIDE DEF m
<1>7. Types'
  <2>1. /\ lastSeq' \in OptSeq /\ pc' = "events" /\ msg' \in Message \cup {None}
        /\ cur' \in Instruments \cup {None} /\ part' \in {0, 1}
        /\ owner' \in Seq(Instruments) /\ Latest' \in Seqs /\ seen' \in Seqs /\ seen' <= Latest'
    BY <1>1, <1>3, <1>5, <1>6 DEF OptSeq
  <2> QED
    BY <1>1, <1>2, <1>6, <2>1 DEF Types, loading, channels
<1>8. todo = {}
  BY <1>1, <1>2 DEF Handling
<1>9. Handling'
  BY <1>1, <1>5, <1>8, MessageTypes DEF Handling, m, loading
<1>10. Requests'
  <2>1. \A j \in Instruments : job[j].at <= seen /\ job[j].at # None => job[j].at <= n + 1
    BY <1>2, <1>4, SeqsFacts DEF Types, Jobs, OptSeq
  <2> QED
    BY <1>1, <1>2, <2>1 DEF Requests, Queued, Sending, Recovering, Completing, Replaying,
       loading, channels
<1>11. Tracking'
  BY <1>1, <1>5, <1>6 DEF Tracking
<1>12. Grows
  BY <1>1, <1>3, <1>4 DEF Grows
<1>13. ASSUME NEW j \in Instruments, j # i PROVE View(j)'
  BY <1>1, <1>3, <1>4, <1>8, <1>13, OthersPublished DEF loading, channels
<1>14. View(i)'
  <2>1. ASSUME NEW b \in Books, Phase(i, b) PROVE Phase(i, b)'
    <3>1. WhileLoading(i, b)' /\ WhileCompleting(i, b)' /\ WhileReplaying(i, b)'
      BY <1>1 DEF WhileLoading, WhileCompleting, WhileReplaying, Completing, Replaying, loading
    <3>2. Pending(i)' /\ ~Pending(i) /\ ~Recovering(i) /\ ~Replaying(i)
      BY <1>1 DEF Pending, Recovering, Replaying
    <3>3. IF b.done THEN \E S \in Seqs : Holds(i, b, S, seen) ELSE i \in asked
      BY <1>1, <2>1, <3>2 DEF Phase, WhileStreaming
    <3>4. b.done => \E S \in Seqs : Holds(i, b, S, n)'
      <4> SUFFICES ASSUME b.done PROVE \E S \in Seqs : Holds(i, b, S, n)'
        OBVIOUS
      <4>1. PICK S \in Seqs : Holds(i, b, S, n)
        BY <1>4, <3>3
      <4>2. Own(i, S + 1, n)' = Own(i, S + 1, n)
        BY <1>2, <1>4, <1>12, OwnKept, SeqsFacts
      <4> QED
        BY <4>1, <4>2 DEF Holds, Lists, InOrder, FullSnapshot
    <3>5. (seen - 1)' = n
      BY <1>1
    <3> QED
      BY <1>1, <3>1, <3>2, <3>3, <3>4, <3>5 DEF Phase, WhileStreaming
  <2> QED
    BY <1>1, <1>2, <1>12, <2>1, ViewKept DEF IInv, channels
<1> QED
  BY <1>2, <1>7, <1>9, <1>10, <1>11, <1>13, <1>14 DEF IInv, Control

LEMMA BufferStep ==
  ASSUME IInv, NEW i \in Instruments, NEW n \in Nat, Latest = n, Publish(i), Fits',
         DboBuffer(Update(i, n + 1))
  PROVE  IInv'
<1> DEFINE m == Update(i, n + 1)
<1>1. /\ pc = "recv" /\ n < MaxSeq /\ ~GapBefore(n + 1) /\ mode[i] = "Loading"
      /\ owner' = Append(owner, i) /\ seen' = n + 1 /\ Track(n + 1)
      /\ \/ buffer' = [buffer EXCEPT ![i] = Append(@, m)] /\ UNCHANGED overflowed
         \/ overflowed' = [overflowed EXCEPT ![i] = TRUE]
      /\ UNCHANGED <<mode, pc, serving, channels, sent, asked, job, book>>
  <2>1. n + 1 # None /\ m.sym = i /\ m.seq = n + 1
    BY SeqsFacts, DispatcherAssumption DEF Update
  <2>2. mode[i] = "Loading"
    BY DEF DboBuffer, Streams, IInv, Control, Types, Update
  <2> QED
    BY <2>1, <2>2 DEF Publish, DboBuffer, Update, PushBack
<1>2. Types /\ Tracking /\ Requests /\ Handling
  BY DEF IInv, Control
<1>3. n + 1 \in Seqs /\ n + 1 # None /\ m \in Message
  BY <1>1, SeqsFacts, MessageTypes
<1>4. seen = n
  BY <1>1, <1>2, GapIsLoss, SeqsFacts DEF Types
<1>5. Latest' = n + 1 /\ owner' \in Seq(Instruments) /\ owner'[n + 1] = i
  BY <1>1, <1>2 DEF Latest, Types
<1>6. lastSeq' = n + 1 /\ streak' \in 0 .. MinStreak
  BY <1>1, <1>2, <1>3, DispatcherAssumption DEF Track, Types
<1> HIDE DEF m
<1>7. buffer' = [buffer EXCEPT ![i] = Append(@, m)] /\ UNCHANGED overflowed
  BY <1>1, <1>2 DEF Fits, Types
<1>8. buffer' \in [Instruments -> Seq(Message)]
  BY <1>2, <1>3, <1>7 DEF Types
<1>9. Types'
  <2>1. /\ lastSeq' \in OptSeq
        /\ owner' \in Seq(Instruments) /\ Latest' \in Seqs /\ seen' \in Seqs /\ seen' <= Latest'
    BY <1>1, <1>3, <1>5, <1>6 DEF OptSeq
  <2> QED
    BY <1>1, <1>2, <1>6, <1>7, <1>8, <2>1 DEF Types, serving, channels
<1>10. todo = {}
  BY <1>1, <1>2 DEF Handling
<1>11. Handling'
  BY <1>1, <1>10 DEF Handling, serving
<1>12. Requests'
  <2>1. \A j \in Instruments : job[j].at <= seen /\ job[j].at # None => job[j].at <= n + 1
    BY <1>2, <1>4, SeqsFacts DEF Types, Jobs, OptSeq
  <2> QED
    BY <1>1, <1>2, <2>1 DEF Requests, Queued, Sending, Recovering, Completing, Replaying,
       serving, channels
<1>13. Tracking'
  BY <1>1, <1>5, <1>6 DEF Tracking
<1>14. Grows
  BY <1>1, <1>3, <1>4 DEF Grows
<1>15. ASSUME NEW j \in Instruments, j # i PROVE View(j)'
  <2>1. buffer'[j] = buffer[j]
    BY <1>2, <1>7, <1>15 DEF Types
  <2>2. todo' = {} /\ pc' \in {"recv", "events"} /\ pc' # "events"
    BY <1>1, <1>10 DEF serving
  <2> QED
    BY <1>1, <1>3, <1>4, <1>15, <2>1, <2>2, OthersPublished DEF channels
<1>16. View(i)'
  <2>1. ASSUME NEW b \in Books, Phase(i, b) PROVE Phase(i, b)'
    <3>1. WhileCompleting(i, b)' /\ WhileReplaying(i, b)' /\ WhileStreaming(i, b)'
      BY <1>1 DEF WhileCompleting, WhileReplaying, WhileStreaming, Completing, Replaying
    <3>2. /\ ~Completing(i) /\ ~b.done /\ b.updates = <<>> /\ b.pieces = Delivered(i)
          /\ \E g \in 1 .. seen + 1 : BuffersFrom(i, g) /\ (job[i] # Idle => g <= job[i].at + 1)
      BY <1>1, <2>1 DEF Phase, WhileLoading, Completing
    <3>3. Delivered(i)' = Delivered(i)
      BY <1>1 DEF Delivered, Pending
    <3>4. PICK g \in 1 .. n + 1 : BuffersFrom(i, g) /\ (job[i] # Idle => g <= job[i].at + 1)
      BY <1>4, <3>2
    <3>5. g \in Nat \ {0} /\ g \in 1 .. (n + 1) + 1 /\ g <= n + 1
      OBVIOUS
    <3> DEFINE q == [k \in 1 .. Len(buffer[i]) |-> buffer[i][k].seq]
               r == [k \in 1 .. Len(buffer'[i]) |-> buffer'[i][k].seq]
    <3>6. /\ buffer[i] \in Seq(Message) /\ buffer'[i] = Append(buffer[i], m) /\ Len(buffer[i]) \in Nat
          /\ Len(buffer'[i]) = Len(buffer[i]) + 1 /\ buffer'[i][Len(buffer[i]) + 1] = m
          /\ \A k \in 1 .. Len(buffer[i]) : buffer'[i][k] = buffer[i][k]
      BY <1>2, <1>3, <1>7 DEF Types
    <3>7. q \in Seq(OptSeq) /\ n + 1 \in OptSeq
      <4>0. \A k \in 1 .. Len(buffer[i]) : buffer[i][k] \in Message
        BY <3>6
      <4>1. \A k \in 1 .. Len(buffer[i]) : buffer[i][k].seq \in OptSeq
        BY <4>0 DEF Message
      <4> QED
        BY <1>3, <3>6, <4>1 DEF OptSeq
    <3>8. r = Append(q, n + 1)
      <4>1. m.seq = n + 1
        BY DEF m, Update
      <4> QED
        BY <3>6, <3>7, <4>1
    <3> HIDE DEF q
    <3>9. Lists(q, Own(i, g, n))
      BY <1>4, <3>4 DEF BuffersFrom, q
    <3>10. Own(i, g, n) \in SUBSET Nat /\ \A u \in Own(i, g, n) : u < n + 1
      BY DEF Own
    <3>11. Lists(Append(q, n + 1), Own(i, g, n) \cup {n + 1})
      BY <1>3, <3>7, <3>9, <3>10, ListsAppend
    <3>12. Own(i, g, n + 1)' = Own(i, g, n) \cup {n + 1}
      BY <1>1, <1>2, <3>5, OwnGrows DEF Types
    <3>13. \A k \in 1 .. Len(buffer'[i]) : buffer'[i][k] = Update(i, buffer'[i][k].seq)
      <4>1. m = Update(i, m.seq)
        BY DEF m, Update
      <4>2. \A k \in 1 .. Len(buffer[i]) : buffer[i][k] = Update(i, buffer[i][k].seq)
        BY <3>4 DEF BuffersFrom
      <4> QED
        BY <3>6, <4>1, <4>2
    <3>14. Lists(r, Own(i, g, n + 1)')
      BY <3>8, <3>11, <3>12
    <3>15. BuffersFrom(i, g)'
      <4>1. Own(i, g, seen)' = Own(i, g, n + 1)'
        BY <1>1
      <4>2. Lists(r, Own(i, g, seen)')
        BY <3>14, <4>1
      <4> QED
        BY <3>13, <4>2 DEF BuffersFrom, Lists, InOrder
    <3>16. WhileLoading(i, b)'
      <4>1. job'[i] # Idle => g <= job'[i].at + 1
        BY <1>1, <3>4
      <4>2. g \in 1 .. seen' + 1
        BY <1>1, <3>5
      <4> QED
        BY <3>2, <3>3, <3>15, <4>1, <4>2 DEF WhileLoading
    <3> QED
      BY <3>1, <3>16 DEF Phase
  <2> QED
    BY <1>1, <1>2, <1>14, <2>1, ViewKept DEF IInv, channels
<1> QED
  BY <1>2, <1>9, <1>11, <1>12, <1>13, <1>15, <1>16 DEF IInv, Control

LEMMA PublishStep ==
  ASSUME IInv, NEW i \in Instruments, Publish(i), Fits'
  PROVE  IInv'
<1>1. Types /\ Latest \in Nat /\ Latest + 1 \in Seqs
  BY SeqsFacts DEF IInv, Control, Types, Publish
<1>2. PICK n \in Nat : Latest = n
  BY <1>1
<1>3. DboGap(Update(i, n + 1)) \/ DboStream(Update(i, n + 1)) \/ DboBuffer(Update(i, n + 1))
  BY <1>1, <1>2, ReceiveUpdate DEF Publish
<1> QED
  BY <1>2, <1>3, GapStep, StreamStep, BufferStep

-----------------------------------------------------------------------------
(* The server, the write task and the pipelines. *)

LEMMA LoseStep ==
  ASSUME IInv, Regular, NEW i \in Instruments, Lose(i)
  PROVE  IInv'
<1>1. /\ Detectable /\ pc = "recv" /\ owner' = Append(owner, i) /\ Latest < MaxSeq
      /\ UNCHANGED <<dvars, seen, asked, job, book>>
  BY DEF Lose, Regular, Detectable
<1>2. Types /\ Tracking /\ Requests /\ Handling
  BY DEF IInv, Control
<1>3. Latest' = Latest + 1 /\ owner' \in Seq(Instruments) /\ Latest \in Nat /\ Latest + 1 \in Seqs
      /\ seen <= Latest + 1 /\ seen \in Nat
  BY <1>1, <1>2, SeqsFacts DEF Latest, Types
<1>4. Types'
  <2>1. Latest' \in Seqs /\ seen' <= Latest'
    BY <1>1, <1>3
  <2> QED
    BY <1>1, <1>2, <1>3, <2>1 DEF Types, dvars
<1>5. Handling'
  BY <1>1, <1>2 DEF Handling, dvars
<1>6. Requests'
  BY <1>1, <1>2 DEF Requests, Queued, Sending, Recovering, Completing, Replaying, dvars
<1>7. Tracking'
  BY <1>1, <1>2 DEF Tracking, Detectable, LoadingSet, dvars
<1>8. Grows
  BY <1>1, <1>2, <1>3 DEF Grows, Types
<1>9. ASSUME NEW j \in Instruments PROVE View(j)'
  <2>1. \A lo \in Nat \ {0} : Own(j, lo, seen)' = Own(j, lo, seen)
    <3> TAKE lo \in Nat \ {0}
    <3>1. PICK h \in Nat : seen = h
      BY <1>3
    <3>2. seen' = h
      BY <1>1, <3>1
    <3>3. Own(j, lo, h)' = Own(j, lo, h)
      BY <1>2, <1>8, <3>1, OwnKept
    <3> QED
      BY <3>1, <3>2, <3>3
  <2>2. /\ ~Pending(j) /\ ~Recovering(j) /\ ~Completing(j) /\ ~Replaying(j)
        /\ ~Pending(j)' /\ ~Recovering(j)' /\ ~Completing(j)' /\ ~Replaying(j)'
    BY <1>1 DEF Pending, Recovering, Completing, Replaying, dvars
  <2>3. UNCHANGED <<mode, buffer, cmdq>>
    BY <1>1 DEF dvars
  <2>4. ASSUME NEW b \in Books, Phase(j, b) PROVE Phase(j, b)'
    BY <1>1, <1>2, <1>8, <2>1, <2>2, <2>3, <2>4, PhaseKept
  <2> QED
    BY <1>1, <1>2, <1>8, <2>3, <2>4, ViewKept DEF IInv
<1> QED
  BY <1>4, <1>5, <1>6, <1>7, <1>9 DEF IInv, Control

(* Steps that leave the updates and the dispatcher's memory alone.          *)
LEMMA PhaseSteady ==
  ASSUME Types, UNCHANGED <<mode, buffer, pc, cur, part, msg, todo, endSeq, owner, seen>>,
         NEW j \in Instruments, job'[j] = job[j],
         mode[j] = "Streaming" => (j \in asked' <=> j \in asked),
         NEW b \in Books, Phase(j, b)
  PROVE  Phase(j, b)'
<1>1. Grows
  BY SeqsFacts DEF Grows, Types
<1>3. \A lo \in Nat \ {0} : Own(j, lo, seen)' = Own(j, lo, seen)
  BY DEF Own
<1>4. Pending(j)' <=> Pending(j)
  BY DEF Pending
<1>5. Recovering(j)' <=> Recovering(j)
  BY DEF Recovering
<1>6. Completing(j)' <=> Completing(j)
  BY DEF Completing
<1>7. Replaying(j)' <=> Replaying(j)
  BY DEF Replaying
<1> QED
  BY <1>1, <1>3, <1>4, <1>5, <1>6, <1>7, PhaseKept

LEMMA WriterStep ==
  ASSUME IInv, WriterTakes
  PROVE  IInv'
<1>2. Types /\ Tracking /\ Requests /\ Handling
  BY DEF IInv, Control
<1>0. wsq # <<>> /\ wsq \in Seq(Instruments)
  BY <1>2 DEF WriterTakes, Types
<1>h. PICK h \in Instruments : Head(wsq) = h
  BY <1>0
<1>1. /\ h \notin asked /\ asked' = asked \cup {h} /\ wsq' = Tail(wsq)
      /\ UNCHANGED <<tracker, loading, pc, serving, cmdq, rxOpen, wsOpen, sent, owner, seen, job, book>>
  BY <1>h DEF WriterTakes
<1>3. /\ wsq' \in Seq(Instruments) /\ Len(wsq') = Len(wsq) - 1
      /\ Len(wsq) \in Nat \ {0} /\ h = wsq[1]
      /\ \A k \in 1 .. Len(wsq') : wsq'[k] = wsq[k + 1]
  BY <1>0, <1>1, <1>h
<1>4. Queued(h) /\ mode[h] = "Loading" /\ job[h] = Idle /\ ~Sending(h)
      /\ ~Recovering(h) /\ ~Completing(h) /\ ~Replaying(h)
  <2>1. Queued(h)
    BY <1>3 DEF Queued
  <2> QED
    BY <1>2, <1>3, <2>1 DEF Requests
<1>5. ~(\E k \in 1 .. Len(wsq') : wsq'[k] = h)
  <2> SUFFICES ASSUME NEW k \in 1 .. Len(wsq'), wsq'[k] = h PROVE FALSE
    OBVIOUS
  <2>1. k + 1 \in 1 .. Len(wsq) /\ 1 \in 1 .. Len(wsq) /\ wsq[k + 1] = wsq[1] /\ k + 1 # 1
    BY <1>3
  <2> QED
    BY <1>2, <2>1 DEF Requests
<1>6. \A j \in Instruments : (\E k \in 1 .. Len(wsq') : wsq'[k] = j) => Queued(j)
  <2> SUFFICES ASSUME NEW j \in Instruments, NEW k \in 1 .. Len(wsq'), wsq'[k] = j PROVE Queued(j)
    OBVIOUS
  <2>1. k + 1 \in 1 .. Len(wsq) /\ wsq[k + 1] = j
    BY <1>3
  <2> QED
    BY <2>1 DEF Queued
<1>7. Types'
  BY <1>1, <1>2, <1>3 DEF Types, tracker, loading, serving, Latest
<1>8. Handling'
  BY <1>1, <1>2 DEF Handling, serving, loading
<1>9. Requests'
  <2>1. \A j, k \in 1 .. Len(wsq') : wsq'[j] = wsq'[k] => j = k
    <3> SUFFICES ASSUME NEW j \in 1 .. Len(wsq'), NEW k \in 1 .. Len(wsq'), wsq'[j] = wsq'[k]
                 PROVE  j = k
      OBVIOUS
    <3>1. j + 1 \in 1 .. Len(wsq) /\ k + 1 \in 1 .. Len(wsq) /\ wsq[j + 1] = wsq[k + 1]
      BY <1>3
    <3>2. j + 1 = k + 1
      BY <1>2, <3>1 DEF Requests
    <3> QED
      BY <1>3, <3>2
  <2>2. ASSUME NEW j \in Instruments, j # h
        PROVE  /\ Queued(j)' => j \notin asked' /\ job'[j] = Idle /\ mode'[j] = "Loading"
               /\ Sending(j)' => ~Queued(j)' /\ j \notin asked' /\ job'[j] = Idle /\ mode'[j] = "Loading"
               /\ j \in asked' => job'[j] = Idle
               /\ job'[j] # Idle => mode'[j] = "Loading" /\ job'[j].at # None /\ job'[j].at <= seen'
               /\ Recovering(j)' \/ Completing(j)' \/ Replaying(j)' =>
                    ~Queued(j)' /\ j \notin asked' /\ job'[j] = Idle
               /\ Recovering(j)' => mode'[j] = "Streaming"
    <3>1. Queued(j)' => Queued(j)
      BY <1>6 DEF Queued
    <3>2. UNCHANGED <<pc, cur, todo, mode, job, seen>> /\ (j \in asked' <=> j \in asked)
      BY <1>1, <2>2 DEF serving, loading
    <3> QED
      BY <1>2, <3>1, <3>2 DEF Requests, Sending, Recovering, Completing, Replaying
  <2>3. ~Queued(h)'
    <3>1. ~(\E k \in 1 .. Len(wsq') : wsq'[k] = h)
      BY <1>5
    <3> QED
      BY <3>1 DEF Queued
  <2>4. UNCHANGED <<pc, cur, todo, mode, job, seen>>
    BY <1>1 DEF serving, loading
  <2>5. ~Sending(h)' /\ ~Recovering(h)' /\ ~Completing(h)' /\ ~Replaying(h)'
    BY <1>4, <2>4 DEF Sending, Recovering, Completing, Replaying
  <2>6. job'[h] = Idle
    BY <1>4, <2>4
  <2>7. ASSUME NEW j \in Instruments
        PROVE  /\ Queued(j)' => j \notin asked' /\ job'[j] = Idle /\ mode'[j] = "Loading"
               /\ Sending(j)' => ~Queued(j)' /\ j \notin asked' /\ job'[j] = Idle /\ mode'[j] = "Loading"
               /\ j \in asked' => job'[j] = Idle
               /\ job'[j] # Idle => mode'[j] = "Loading" /\ job'[j].at # None /\ job'[j].at <= seen'
               /\ Recovering(j)' \/ Completing(j)' \/ Replaying(j)' =>
                    ~Queued(j)' /\ j \notin asked' /\ job'[j] = Idle
               /\ Recovering(j)' => mode'[j] = "Streaming"
    <3>1. CASE j # h
      BY <2>2, <3>1
    <3>2. CASE j = h
      BY <2>3, <2>5, <2>6, <3>2
    <3> QED
      BY <3>1, <3>2
  <2> QED
    BY <2>1, <2>7 DEF Requests
<1>10. Tracking'
  <2>1. ~(seen < Latest)
    BY <1>0, <1>2 DEF Tracking, Detectable
  <2> QED
    BY <1>1, <1>2, <2>1 DEF Tracking, tracker, Latest
<1>11. Grows
  BY <1>1, <1>2, SeqsFacts DEF Grows, Types
<1>12. ASSUME NEW j \in Instruments PROVE View(j)'
  <2>1. mode[j] = "Streaming" => (j \in asked' <=> j \in asked)
    BY <1>1, <1>4
  <2>2. \A b \in Books : Phase(j, b) => Phase(j, b)'
    BY <1>1, <1>2, <2>1, PhaseSteady DEF serving, loading
  <2> QED
    BY <1>1, <1>2, <1>11, <2>2, ViewKept DEF IInv
<1> QED
  BY <1>7, <1>8, <1>9, <1>10, <1>12 DEF IInv, Control

LEMMA TakeStep ==
  ASSUME IInv, NEW i \in Instruments, PipelineTakes(i)
  PROVE  IInv'
<1>1. /\ cmdq[i] # <<>>
      /\ book' = [book EXCEPT ![i] = Applied(book[i], Head(cmdq[i]))]
      /\ cmdq' = [cmdq EXCEPT ![i] = Tail(cmdq[i])]
      /\ UNCHANGED <<tracker, loading, pc, serving, wsq, rxOpen, wsOpen, sent, server>>
  BY DEF PipelineTakes
<1>2. Types /\ Tracking /\ Requests /\ Handling
  BY DEF IInv, Control
<1>3. Head(cmdq[i]) \in Command /\ Tail(cmdq[i]) \in Seq(Command) /\ book[i] \in Books
  BY <1>1, <1>2 DEF Types
<1>4. cmdq' \in [Instruments -> Seq(Command)] /\ book' \in [Instruments -> Books]
  <2>1. Applied(book[i], Head(cmdq[i])) \in Books
    BY <1>3, AppliedTypes
  <2> HIDE DEF Command
  <2>2. cmdq' \in [Instruments -> Seq(Command)]
    BY <1>1, <1>2, <1>3 DEF Types
  <2>3. book' \in [Instruments -> Books]
    BY <1>1, <1>2, <2>1 DEF Types
  <2> QED
    BY <2>2, <2>3
<1>5. Types'
  BY <1>1, <1>2, <1>4 DEF Types, tracker, loading, serving, server, Latest
<1>6. Handling' /\ Requests' /\ Tracking'
  BY <1>1, <1>2 DEF Handling, Requests, Queued, Sending, Recovering, Completing, Replaying,
     Tracking, Detectable, LoadingSet, tracker, loading, serving, server, Latest
<1>7. Grows
  BY <1>1, <1>2, SeqsFacts DEF Grows, Types, server
<1>8. \A j \in Instruments, b \in Books : Phase(j, b) => Phase(j, b)'
  BY <1>1, <1>2, PhaseSteady DEF serving, loading, server
<1>9. View(i)'
  BY <1>1, <1>2, <1>7, <1>8, ViewTaken DEF IInv, Types
<1>10. ASSUME NEW j \in Instruments, j # i PROVE View(j)'
  <2>1. cmdq'[j] = cmdq[j] /\ book'[j] = book[j]
    BY <1>1, <1>2, <1>10 DEF Types
  <2> QED
    BY <1>2, <1>7, <1>8, <2>1, ViewKept DEF IInv
<1> QED
  BY <1>5, <1>6, <1>9, <1>10 DEF IInv, Control

LEMMA CaptureStep ==
  ASSUME IInv, Regular, NEW i \in Instruments, Capture(i)
  PROVE  IInv'
<1>1. /\ i \in asked /\ job[i] = Idle /\ mode[i] = "Loading"
      /\ asked' = asked \ {i} /\ job' = [job EXCEPT ![i] = [at |-> Latest, left |-> Pieces]]
      /\ UNCHANGED <<dvars, owner, seen, book>>
  BY DEF Capture, Regular, Streams, IInv, Control, Types
<1>2. Types /\ Tracking /\ Requests /\ Handling
  BY DEF IInv, Control
<1>3. seen = Latest
  <2>1. ~(seen < Latest)
    BY <1>1, <1>2 DEF Tracking, Detectable
  <2> QED
    BY <1>2, <2>1, SeqsFacts DEF Types
<1>4. PICK n \in Nat : seen = n
  BY <1>2, SeqsFacts DEF Types
<1>5. /\ n \in Seqs /\ n # None /\ job' = [job EXCEPT ![i] = [at |-> n, left |-> Pieces]]
      /\ job'[i] = [at |-> n, left |-> Pieces] /\ \A j \in Instruments : j # i => job'[j] = job[j]
  BY <1>1, <1>2, <1>3, <1>4, SeqsFacts DEF Types
<1>6. Types'
  <2>1. [at |-> n, left |-> Pieces] \in Jobs
    BY <1>5, SyncAssumption DEF Jobs, OptSeq
  <2>2. job' \in [Instruments -> Jobs]
    BY <1>2, <1>5, <2>1 DEF Types
  <2> QED
    BY <1>1, <1>2, <2>2 DEF Types, dvars, Latest
<1>7. ~Queued(i) /\ ~Sending(i) /\ ~Recovering(i) /\ ~Completing(i) /\ ~Replaying(i)
  BY <1>1, <1>2 DEF Requests
<1>8. pc = "events" => cur # i
  <2> SUFFICES ASSUME pc = "events", cur = i PROVE FALSE
    OBVIOUS
  <2>1. mode[cur] = "Loading" /\ job[cur].at # None
    BY <1>1, <1>2 DEF Handling
  <2> QED
    BY <1>1, <2>1 DEF Idle
<1>9. Handling'
  <2>1. UNCHANGED <<pc, cur, msg, todo, endSeq, mode, seen, owner>>
    BY <1>1 DEF dvars
  <2>2. pc = "events" => job'[cur] = job[cur]
    BY <1>2, <1>5, <1>8 DEF Handling
  <2> QED
    BY <1>2, <2>1, <2>2 DEF Handling
<1>10. Requests'
  <2>1. UNCHANGED <<pc, cur, todo, wsq, mode, seen>>
    BY <1>1 DEF dvars
  <2>2. \A j \in Instruments : /\ Queued(j)' <=> Queued(j)
                               /\ Sending(j)' <=> Sending(j)
                               /\ Recovering(j)' <=> Recovering(j)
                               /\ Completing(j)' <=> Completing(j)
                               /\ Replaying(j)' <=> Replaying(j)
    BY <2>1 DEF Queued, Sending, Recovering, Completing, Replaying
  <2>3. job'[i].at = n /\ n <= seen
    BY <1>4, <1>5
  <2>4. \A j \in Instruments : (j \in asked' => j \in asked) /\ (j = i => j \notin asked')
    BY <1>1
  <2> QED
    BY <1>1, <1>2, <1>5, <1>7, <2>1, <2>2, <2>3, <2>4 DEF Requests
<1>11. Tracking'
  BY <1>1, <1>2, <1>3 DEF Tracking, dvars, Types, Latest
<1>12. Grows
  BY <1>1, <1>2, SeqsFacts DEF Grows, Types
<1>13. ASSUME NEW j \in Instruments, NEW b \in Books, Phase(j, b) PROVE Phase(j, b)'
  <2>1. CASE j # i
    <3>1. job'[j] = job[j] /\ (j \in asked' <=> j \in asked)
      BY <1>1, <1>5, <2>1
    <3> QED
      BY <1>1, <1>2, <1>13, <3>1, PhaseSteady DEF dvars
  <2>2. CASE j = i
    <3>1. WhileCompleting(i, b)' /\ WhileReplaying(i, b)' /\ WhileStreaming(i, b)'
      BY <1>1, <1>7 DEF WhileCompleting, WhileReplaying, WhileStreaming, Completing, Replaying, dvars
    <3>2. /\ ~b.done /\ b.updates = <<>> /\ b.pieces = {}
          /\ \E g \in 1 .. n + 1 : BuffersFrom(i, g)
      BY <1>1, <1>4, <1>7, <1>13, <2>2 DEF Phase, WhileLoading, Delivered
    <3>3. Delivered(i)' = {}
      <4>1. job'[i] # Idle /\ job'[i].left = Pieces
        BY <1>5 DEF Idle
      <4>2. \A p \in Pieces + 1 .. Pieces : FALSE
        BY SyncAssumption
      <4>3. ~Pending(i)'
        BY <1>1, <1>8 DEF Pending, dvars
      <4> QED
        BY <4>1, <4>2, <4>3 DEF Delivered
    <3>4. PICK g \in 1 .. n + 1 : BuffersFrom(i, g)
      BY <3>2
    <3>5. BuffersFrom(i, g)'
      <4>1. Own(i, g, seen)' = Own(i, g, seen) /\ buffer'[i] = buffer[i]
        BY <1>1 DEF Own, dvars
      <4> QED
        BY <3>4, <4>1, BuffersKept
    <3>6. job'[i].at = n /\ g <= n + 1 /\ seen' = n
      BY <1>1, <1>4, <1>5
    <3>7. WhileLoading(i, b)'
      BY <3>2, <3>3, <3>4, <3>5, <3>6 DEF WhileLoading
    <3> QED
      BY <2>2, <3>1, <3>7 DEF Phase
  <2> QED
    BY <2>1, <2>2
<1>14. \A j \in Instruments : View(j)'
  <2> TAKE j \in Instruments
  <2>1. cmdq'[j] = cmdq[j] /\ book'[j] = book[j] /\ View(j)
    BY <1>1 DEF dvars, IInv
  <2> QED
    BY <1>2, <1>12, <1>13, <2>1, ViewKept
<1> QED
  BY <1>6, <1>9, <1>10, <1>11, <1>14 DEF IInv, Control

(* An entry of a snapshot is taken up: it is the next of its snapshot.      *)
LEMMA EntryStep ==
  ASSUME IInv, NEW i \in Instruments, NEW S \in Seqs, S <= seen, NEW L \in Nat, L + 1 \in 1 .. Pieces,
         SnapEntry(Entry(i, S, L + 1)), job' = [job EXCEPT ![i] = [at |-> S, left |-> L]],
         asked' = asked \ {i}, UNCHANGED <<owner, seen, book>>,
         \/ job[i] = [at |-> S, left |-> L + 1]
         \/ job[i] = Idle /\ i \in asked /\ L + 1 = Pieces /\ S = seen
  PROVE  IInv'
<1> DEFINE m == Entry(i, S, L + 1)
<1>0. Types /\ Tracking /\ Requests /\ Handling
  BY DEF IInv, Control
<1>1. /\ pc = "recv" /\ mode[i] = "Loading" /\ lastSeq' = lastSeq
      /\ pc' = "events" /\ cur' = i /\ msg' = m /\ part' = 0
      /\ UNCHANGED <<streak, mode, buffer, overflowed, todo, endSeq, channels, sent>>
  BY <1>0 DEF SnapEntry, Entry, Overwrite, Streams, Types, loading
<1>2. m \in Message \cup {None} /\ S # None /\ Idle # [at |-> S, left |-> L + 1]
      /\ Idle # [at |-> S, left |-> L]
  BY MessageTypes, SeqsFacts DEF Idle
<1>3. seen = Latest /\ seen \in Nat
  <2>1. ~(seen < Latest)
    BY <1>0, <1>2 DEF Tracking, Detectable
  <2> QED
    BY <1>0, <2>1, SeqsFacts DEF Types
<1> HIDE DEF m
<1>4. /\ job'[i] = [at |-> S, left |-> L] /\ \A j \in Instruments : j # i => job'[j] = job[j]
      /\ i \notin asked'
      /\ \A j \in Instruments : j # i => (j \in asked' <=> j \in asked)
  BY <1>0 DEF Types
<1>5. Types'
  <2>1. [at |-> S, left |-> L] \in Jobs
    BY SyncAssumption DEF Jobs, OptSeq
  <2>2. job' \in [Instruments -> Jobs]
    BY <1>0, <2>1 DEF Types
  <2>3. /\ pc' = "events" /\ cur' \in Instruments \cup {None} /\ msg' \in Message \cup {None}
        /\ part' \in {0, 1} /\ asked' \in SUBSET Instruments
    BY <1>0, <1>1, <1>2 DEF Types
  <2> QED
    BY <1>0, <1>1, <2>2, <2>3 DEF Types, channels, Latest
<1>6. ~Queued(i) /\ ~Sending(i) /\ ~Recovering(i) /\ ~Completing(i) /\ ~Replaying(i) /\ ~Pending(i)
  BY <1>0, <1>1, <1>2 DEF Requests, Sending, Recovering, Completing, Replaying, Pending
<1>7. Handling'
  <2>1. todo' = {}
    BY <1>0, <1>1 DEF Handling
  <2> QED
    BY <1>1, <1>2, <1>4, <2>1 DEF Handling, m
<1>8. Requests'
  <2>1. \A j \in Instruments : /\ Queued(j)' <=> Queued(j)
                               /\ ~Sending(j)' /\ ~Recovering(j)' /\ ~Completing(j)' /\ ~Replaying(j)'
    BY <1>1 DEF Queued, Sending, Recovering, Completing, Replaying, channels
  <2>2. job'[i] # Idle /\ job'[i].at = S /\ S # None /\ S <= seen /\ mode'[i] = "Loading"
    BY <1>1, <1>2, <1>4
  <2>3. UNCHANGED <<wsq, mode, seen>>
    BY <1>1 DEF channels
  <2> QED
    BY <1>0, <1>4, <1>6, <2>1, <2>2, <2>3 DEF Requests
<1>9. Tracking'
  BY <1>0, <1>1, <1>3 DEF Tracking, Latest
<1>10. Grows
  BY <1>0, SeqsFacts DEF Grows, Types
<1>11. ASSUME NEW j \in Instruments, NEW b \in Books, Phase(j, b) PROVE Phase(j, b)'
  <2>1. CASE j # i
    <3>1. /\ ~Pending(j) /\ ~Recovering(j) /\ ~Completing(j) /\ ~Replaying(j)
          /\ ~Pending(j)' /\ ~Recovering(j)' /\ ~Completing(j)' /\ ~Replaying(j)'
      BY <1>1, <2>1 DEF Pending, Recovering, Completing, Replaying
    <3>2. \A lo \in Nat \ {0} : Own(j, lo, seen)' = Own(j, lo, seen)
      BY DEF Own
    <3> QED
      BY <1>0, <1>1, <1>4, <1>10, <1>11, <2>1, <3>1, <3>2, PhaseKept
  <2>2. CASE j = i
    <3>1. WhileCompleting(i, b)' /\ WhileReplaying(i, b)' /\ WhileStreaming(i, b)'
      BY <1>1 DEF WhileCompleting, WhileReplaying, WhileStreaming, Completing, Replaying
    <3>2. /\ ~b.done /\ b.updates = <<>> /\ b.pieces = Delivered(i)
          /\ \E g \in 1 .. seen + 1 : BuffersFrom(i, g) /\ (job[i] # Idle => g <= job[i].at + 1)
      BY <1>1, <1>6, <1>11, <2>2 DEF Phase, WhileLoading
    <3>3. Delivered(i) = Delivered(i)'
      <4>1. Delivered(i)' = {[at |-> S, piece |-> p] : p \in L + 2 .. Pieces}
        BY <1>1, <1>2, <1>4 DEF Delivered, Pending
      <4>2. CASE job[i] = [at |-> S, left |-> L + 1]
        <5>1. Delivered(i) = {[at |-> S, piece |-> p] : p \in (L + 1) + 1 .. Pieces}
          BY <1>2, <1>6, <4>2 DEF Delivered
        <5>2. (L + 1) + 1 = L + 2
          OBVIOUS
        <5> QED
          BY <4>1, <5>1, <5>2
      <4>3. CASE job[i] = Idle /\ L + 1 = Pieces
        <5>1. \A p \in L + 2 .. Pieces : FALSE
          BY <4>3, SyncAssumption
        <5> QED
          BY <4>1, <4>3, <5>1 DEF Delivered
      <4> QED
        BY <4>2, <4>3
    <3>4. PICK g \in 1 .. seen + 1 : BuffersFrom(i, g) /\ (job[i] # Idle => g <= job[i].at + 1)
      BY <3>2
    <3>5. BuffersFrom(i, g)'
      <4>1. Own(i, g, seen)' = Own(i, g, seen) /\ buffer'[i] = buffer[i]
        BY <1>1 DEF Own
      <4> QED
        BY <3>4, <4>1, BuffersKept
    <3>6. g <= S + 1
      BY <1>2, <3>4
    <3>7. g \in 1 .. seen' + 1 /\ g <= job'[i].at + 1
      BY <1>4, <3>6
    <3>8. WhileLoading(i, b)'
      BY <3>2, <3>3, <3>5, <3>7 DEF WhileLoading
    <3> QED
      BY <2>2, <3>1, <3>8 DEF Phase
  <2> QED
    BY <2>1, <2>2
<1>12. \A j \in Instruments : View(j)'
  <2> TAKE j \in Instruments
  <2>1. cmdq'[j] = cmdq[j] /\ book'[j] = book[j] /\ View(j)
    BY <1>1 DEF channels, IInv
  <2> QED
    BY <1>0, <1>10, <1>11, <2>1, ViewKept
<1> QED
  BY <1>5, <1>7, <1>8, <1>9, <1>12 DEF IInv, Control

(* A book that was just cleared, of an instrument that buffers nothing yet. *)
LEMMA EmptyBuffers ==
  ASSUME NEW i, NEW n \in Nat, seen' = n, buffer'[i] = <<>>
  PROVE  BuffersFrom(i, n + 1)'
<1>1. Own(i, n + 1, seen)' = {}
  <2>1. \A s \in n + 1 .. n : FALSE
    OBVIOUS
  <2> QED
    BY <2>1 DEF Own
<1>2. Len(buffer'[i]) = 0
  OBVIOUS
<1>3. Lists([k \in 1 .. Len(buffer'[i]) |-> buffer'[i][k].seq], {})
  <2>1. [k \in 1 .. Len(buffer'[i]) |-> buffer'[i][k].seq] = <<>>
    BY <1>2
  <2> QED
    BY <2>1, ListsEmpty
<1> QED
  BY <1>1, <1>2, <1>3 DEF BuffersFrom, Lists, InOrder

(* The first entry of a cold snapshot clears the book and is its first.     *)
LEMMA ColdStep ==
  ASSUME IInv, Regular, NEW i \in Instruments, NEW S \in Nat, S = Latest,
         CaptureAndSend(i), SnapColdStart(Entry(i, S, Pieces))
  PROVE  IInv'
<1> DEFINE m == Entry(i, S, Pieces)
           L == Pieces - 1
<1>0. Types /\ Tracking /\ Requests /\ Handling
  BY DEF IInv, Control
<1>1. /\ pc = "recv" /\ mode[i] = "Streaming" /\ lastSeq' = lastSeq
      /\ i \in asked /\ job[i] = Idle /\ asked' = asked \ {i}
      /\ job' = [job EXCEPT ![i] = [at |-> S, left |-> L]]
      /\ mode' = [mode EXCEPT ![i] = "Loading"] /\ buffer' = [buffer EXCEPT ![i] = <<>>]
      /\ overflowed' = [overflowed EXCEPT ![i] = FALSE]
      /\ pc' = "events" /\ cur' = i /\ msg' = m /\ part' = 0
      /\ cmdq' = [cmdq EXCEPT ![i] = Append(cmdq[i], ClearBook)]
      /\ UNCHANGED <<streak, todo, endSeq, wsq, rxOpen, wsOpen, owner, seen, book>>
  BY <1>0 DEF CaptureAndSend, SnapColdStart, Entry, Overwrite, Streams, Types, Send
<1>2. /\ L \in Nat /\ L + 1 = Pieces /\ L + 1 \in 1 .. Pieces /\ S \in Seqs
      /\ m \in Message \cup {None} /\ S # None /\ Idle # [at |-> S, left |-> L]
      /\ ClearBook \in Command /\ EmptyBook \in Books /\ m = Entry(i, S, L + 1)
  <2>1. L \in Nat /\ L + 1 = Pieces /\ L + 1 \in 1 .. Pieces
    BY SyncAssumption
  <2>2. S \in Seqs
    BY <1>0 DEF Types
  <2>3. S # None /\ Idle # [at |-> S, left |-> L] /\ EmptyBook \in Books
    BY <2>2, SeqsFacts DEF Idle, EmptyBook, Books
  <2> QED
    BY <2>1, <2>2, <2>3, MessageTypes
<1> HIDE DEF m, L, Command
<1>3. seen = S /\ seen = Latest
  <2>1. ~(seen < Latest)
    BY <1>0, <1>1 DEF Tracking, Detectable
  <2> QED
    BY <1>0, <2>1, SeqsFacts DEF Types
<1>4. /\ job'[i] = [at |-> S, left |-> L] /\ mode'[i] = "Loading" /\ buffer'[i] = <<>>
      /\ i \notin asked'
      /\ \A j \in Instruments : j # i =>
           /\ job'[j] = job[j] /\ mode'[j] = mode[j] /\ buffer'[j] = buffer[j] /\ cmdq'[j] = cmdq[j]
           /\ (j \in asked' <=> j \in asked)
  BY <1>0, <1>1 DEF Types
<1>5. Types'
  <2>1. [at |-> S, left |-> L] \in Jobs
    BY <1>2 DEF Jobs, OptSeq
  <2>2. job' \in [Instruments -> Jobs]
    BY <1>0, <1>1, <2>1 DEF Types
  <2>3. /\ pc' = "events" /\ cur' \in Instruments \cup {None} /\ msg' \in Message \cup {None}
        /\ part' \in {0, 1} /\ asked' \in SUBSET Instruments
    BY <1>0, <1>1, <1>2 DEF Types
  <2>4. mode' \in [Instruments -> {"Streaming", "Loading"}] /\ overflowed' \in [Instruments -> BOOLEAN]
    BY <1>0, <1>1 DEF Types
  <2>5. buffer' \in [Instruments -> Seq(Message)]
    BY <1>0, <1>1 DEF Types
  <2>6. cmdq' \in [Instruments -> Seq(Command)]
    <3>1. Append(cmdq[i], ClearBook) \in Seq(Command)
      BY <1>0, <1>2 DEF Types
    <3> QED
      BY <1>0, <1>1, <3>1 DEF Types
  <2> QED
    BY <1>0, <1>1, <2>2, <2>3, <2>4, <2>5, <2>6 DEF Types, Latest
<1>6. ~Queued(i)
  BY <1>0, <1>1 DEF Requests
<1>7. Handling'
  <2>1. todo' = {}
    BY <1>0, <1>1 DEF Handling
  <2> QED
    BY <1>1, <1>2, <1>4, <2>1 DEF Handling
<1>8. Requests'
  <2>1. \A j \in Instruments : /\ Queued(j)' <=> Queued(j)
                               /\ ~Sending(j)' /\ ~Recovering(j)' /\ ~Completing(j)' /\ ~Replaying(j)'
    BY <1>1 DEF Queued, Sending, Recovering, Completing, Replaying
  <2>2. job'[i] # Idle /\ job'[i].at = S /\ S # None /\ S <= seen /\ mode'[i] = "Loading"
    BY <1>2, <1>3, <1>4
  <2> QED
    BY <1>0, <1>1, <1>4, <1>6, <2>1, <2>2 DEF Requests
<1>9. Tracking'
  BY <1>0, <1>1, <1>3 DEF Tracking, Latest
<1>10. Grows
  BY <1>0, <1>1, SeqsFacts DEF Grows, Types
<1>11. ASSUME NEW j \in Instruments, j # i PROVE View(j)'
  <2>1. /\ ~Pending(j) /\ ~Recovering(j) /\ ~Completing(j) /\ ~Replaying(j)
        /\ ~Pending(j)' /\ ~Recovering(j)' /\ ~Completing(j)' /\ ~Replaying(j)'
    BY <1>1, <1>11 DEF Pending, Recovering, Completing, Replaying
  <2>2. \A lo \in Nat \ {0} : Own(j, lo, seen)' = Own(j, lo, seen)
    BY <1>1 DEF Own
  <2>3. ASSUME NEW b \in Books, Phase(j, b) PROVE Phase(j, b)'
    BY <1>0, <1>1, <1>4, <1>10, <1>11, <2>1, <2>2, <2>3, PhaseKept
  <2> QED
    BY <1>0, <1>1, <1>4, <1>10, <1>11, <2>3, ViewKept DEF IInv
<1>12. View(i)'
  <2>1. BuffersFrom(i, S + 1)'
    BY <1>1, <1>3, <1>4, EmptyBuffers
  <2>2. Delivered(i)' = {}
    <3>1. \A p \in L + 2 .. Pieces : FALSE
      BY <1>2
    <3>2. Delivered(i)' = {[at |-> S, piece |-> p] : p \in L + 2 .. Pieces}
      BY <1>1, <1>2, <1>4 DEF Delivered, Pending
    <3> QED
      BY <3>1, <3>2
  <2>3. WhileLoading(i, EmptyBook)'
    <3>1. S + 1 \in 1 .. seen' + 1 /\ S + 1 <= job'[i].at + 1
      BY <1>1, <1>3, <1>4
    <3> QED
      BY <2>1, <2>2, <3>1 DEF WhileLoading, EmptyBook
  <2>4. Phase(i, EmptyBook)'
    <3>1. WhileCompleting(i, EmptyBook)' /\ WhileReplaying(i, EmptyBook)' /\ WhileStreaming(i, EmptyBook)'
      BY <1>1, <1>4 DEF WhileCompleting, WhileReplaying, WhileStreaming, Completing, Replaying
    <3> QED
      BY <2>3, <3>1 DEF Phase
  <2>5. Sound(i, EmptyBook)'
    BY DEF Sound, EmptyBook
  <2>6. \A b : Applied(b, ClearBook) = EmptyBook
    BY DEF Applied, ClearBook
  <2>7. cmdq'[i] = Append(cmdq[i], ClearBook) /\ book'[i] = book[i]
    BY <1>0, <1>1 DEF Types
  <2> QED
    BY <1>0, <1>2, <1>10, <2>4, <2>5, <2>6, <2>7, ViewSent DEF IInv
<1> QED
  BY <1>5, <1>7, <1>8, <1>9, <1>11, <1>12 DEF IInv, Control

(* Every entry the server sends. *)
LEMMA EntriesStep ==
  ASSUME IInv, Regular, NEW i \in Instruments, CaptureAndSend(i) \/ SendEntry(i)
  PROVE  IInv'
<1>0. Types /\ Tracking /\ Requests
  BY DEF IInv, Control
<1>1. CASE CaptureAndSend(i)
  <2>1. PICK S \in Seqs : Latest = S
    BY <1>0 DEF Types
  <2>2. S \in Nat /\ Pieces \in 1 .. Pieces /\ Pieces - 1 \in Nat /\ (Pieces - 1) + 1 = Pieces
    BY SeqsFacts, SyncAssumption
  <2>3. SnapColdStart(Entry(i, S, Pieces)) \/ SnapEntry(Entry(i, S, Pieces))
    BY <1>0, <1>1, <2>1, <2>2, ReceiveEntry DEF CaptureAndSend
  <2>4. CASE SnapColdStart(Entry(i, S, Pieces))
    BY <1>1, <2>1, <2>2, <2>4, ColdStep
  <2>5. CASE SnapEntry(Entry(i, S, Pieces))
    <3>1. ~(seen < Latest)
      BY <1>0, <1>1 DEF Tracking, Detectable, CaptureAndSend
    <3>2. seen = S
      BY <1>0, <2>1, <3>1, SeqsFacts DEF Types
    <3>3. /\ job' = [job EXCEPT ![i] = [at |-> S, left |-> Pieces - 1]] /\ asked' = asked \ {i}
          /\ UNCHANGED <<owner, seen, book>> /\ job[i] = Idle /\ i \in asked
      BY <1>1, <2>1 DEF CaptureAndSend
    <3>4. PICK L \in Nat : L = Pieces - 1
      BY <2>2
    <3>5. S <= seen /\ L + 1 \in 1 .. Pieces /\ L + 1 = Pieces /\ SnapEntry(Entry(i, S, L + 1))
          /\ job' = [job EXCEPT ![i] = [at |-> S, left |-> L]]
      BY <2>2, <2>5, <3>2, <3>3, <3>4
    <3> QED
      BY <3>2, <3>3, <3>5, EntryStep
  <2> QED
    BY <2>3, <2>4, <2>5
<1>2. CASE SendEntry(i)
  <2>1. job[i] \in Jobs /\ job[i].left > 0 /\ job[i].left \in 0 .. Pieces /\ Pieces \in Nat
    BY <1>0, <1>2, SyncAssumption DEF SendEntry, Types, Jobs
  <2>2. job[i] # Idle
    BY <2>1 DEF Idle
  <2>3. PICK S \in Seqs : job[i].at = S /\ S <= seen
    BY <1>0, <2>1, <2>2 DEF Requests, Jobs, OptSeq
  <2>4. PICK L \in Nat : job[i].left = L + 1
    <3>1. job[i].left - 1 \in Nat /\ job[i].left = (job[i].left - 1) + 1
      BY <2>1
    <3> QED
      BY <3>1
  <2>5. L + 1 \in 1 .. Pieces
    BY <2>1, <2>4
  <2>6. job[i] = [at |-> S, left |-> L + 1]
    BY <2>1, <2>3, <2>4 DEF Jobs
  <2>7. i \notin asked
    BY <1>0, <2>2 DEF Requests
  <2>8. /\ job' = [job EXCEPT ![i].left = job[i].left - 1]
        /\ Receive(Entry(i, S, L + 1)) /\ UNCHANGED <<owner, seen, asked, book>>
    BY <1>2, <2>3, <2>4 DEF SendEntry
  <2>9. job' = [job EXCEPT ![i] = [at |-> S, left |-> L]]
    <3>1. [job[i] EXCEPT !.left = job[i].left - 1] = [at |-> S, left |-> L]
      BY <2>4, <2>6
    <3> QED
      BY <2>8, <3>1
  <2>10. SnapColdStart(Entry(i, S, L + 1)) \/ SnapEntry(Entry(i, S, L + 1))
    BY <1>0, <2>5, <2>8, ReceiveEntry
  <2>11. mode[i] = "Loading"
    BY <1>0, <2>2 DEF Requests
  <2>12. SnapEntry(Entry(i, S, L + 1))
    BY <2>10, <2>11 DEF SnapColdStart, Streams, Entry
  <2>13. asked' = asked \ {i}
    BY <2>7, <2>8
  <2> QED
    BY <2>3, <2>5, <2>6, <2>8, <2>9, <2>12, <2>13, EntryStep
<1> QED
  BY <1>1, <1>2

(* The end of a snapshot: it has been delivered in full.                    *)
LEMMA EndStep ==
  ASSUME IInv, Regular, NEW i \in Instruments, SendClosing(i)
  PROVE  IInv'
<1>0. Types /\ Tracking /\ Requests /\ Handling
  BY DEF IInv, Control
<1>1. job[i].at # None /\ job[i].left = 0 /\ job[i] # Idle /\ mode[i] = "Loading" /\ job[i] \in Jobs
  BY <1>0 DEF SendClosing, Idle, Requests, Types
<1>2. PICK S \in Seqs : job[i].at = S /\ S <= seen
  BY <1>0, <1>1 DEF Requests, Jobs, OptSeq
<1>3. /\ pc = "recv" /\ pc' = "complete" /\ todo' = {i} /\ lastSeq' = S /\ endSeq' = S
      /\ job' = [job EXCEPT ![i] = Idle]
      /\ UNCHANGED <<streak, mode, buffer, overflowed, cur, msg, part, channels, sent,
                     owner, seen, asked, book>>
  <2>1. \/ Receive(Closing(i, S))
        \/ LoadingSet = {i} /\ Receive(EndMark(S))
    BY <1>2 DEF SendClosing, Regular
  <2>2. /\ pc = "recv" /\ pc' = "complete" /\ todo' = {i} /\ lastSeq' = S /\ endSeq' = S
        /\ UNCHANGED <<streak, loading, cur, msg, part, channels, sent>>
    BY <1>0, <1>1, <2>1, ReceiveEnd
  <2> QED
    BY <2>2 DEF SendClosing, loading
<1>4. job'[i] = Idle /\ \A j \in Instruments : j # i => job'[j] = job[j]
  BY <1>0, <1>3 DEF Types
<1>5. Types'
  <2>1. Idle \in Jobs
    BY SyncAssumption DEF Idle, Jobs, OptSeq
  <2>2. job' \in [Instruments -> Jobs]
    BY <1>0, <1>3, <2>1 DEF Types
  <2>3. pc' = "complete" /\ todo' \in SUBSET Instruments /\ lastSeq' \in OptSeq /\ endSeq' \in Seqs
    BY <1>2, <1>3 DEF OptSeq
  <2> QED
    BY <1>0, <1>3, <2>2, <2>3 DEF Types, channels, Latest
<1>6. ~Queued(i) /\ ~Sending(i) /\ i \notin asked
  BY <1>0, <1>1 DEF Requests
<1>7. Handling'
  BY <1>1, <1>2, <1>3 DEF Handling
<1>8. Requests'
  <2>1. \A j \in Instruments : /\ Queued(j)' <=> Queued(j)
                               /\ ~Sending(j)' /\ ~Recovering(j)' /\ ~Replaying(j)'
                               /\ Completing(j)' <=> j = i
    BY <1>3 DEF Queued, Sending, Recovering, Completing, Replaying, channels
  <2>2. UNCHANGED <<wsq, mode, seen, asked>>
    BY <1>3 DEF channels
  <2> QED
    BY <1>0, <1>4, <1>6, <2>1, <2>2 DEF Requests
<1>9. Tracking'
  <2>1. ~(seen < Latest)
    BY <1>0, <1>1 DEF Tracking, Detectable
  <2> QED
    BY <1>3, <2>1 DEF Tracking, Latest
<1>10. Grows
  BY <1>0, <1>3, SeqsFacts DEF Grows, Types
<1>11. ASSUME NEW j \in Instruments, NEW b \in Books, Phase(j, b) PROVE Phase(j, b)'
  <2>1. CASE j # i
    <3>1. /\ ~Pending(j) /\ ~Recovering(j) /\ ~Completing(j) /\ ~Replaying(j)
          /\ ~Pending(j)' /\ ~Recovering(j)' /\ ~Completing(j)' /\ ~Replaying(j)'
      BY <1>3, <2>1 DEF Pending, Recovering, Completing, Replaying
    <3>2. \A lo \in Nat \ {0} : Own(j, lo, seen)' = Own(j, lo, seen)
      BY <1>3 DEF Own
    <3> QED
      BY <1>0, <1>3, <1>4, <1>10, <1>11, <2>1, <3>1, <3>2, PhaseKept
  <2>2. CASE j = i
    <3>1. WhileReplaying(i, b)' /\ WhileStreaming(i, b)' /\ Completing(i)'
      BY <1>1, <1>3 DEF WhileReplaying, WhileStreaming, Completing, Replaying
    <3>2. /\ ~b.done /\ b.updates = <<>> /\ b.pieces = Delivered(i)
          /\ \E g \in 1 .. seen + 1 : BuffersFrom(i, g) /\ (job[i] # Idle => g <= job[i].at + 1)
      BY <1>1, <1>3, <1>11, <2>2 DEF Phase, WhileLoading, Completing
    <3>3. Delivered(i) = FullSnapshot(S)
      <4>1. ~Pending(i) /\ 0 + 1 = 1
        BY <1>3 DEF Pending
      <4> QED
        BY <1>1, <1>2, <4>1 DEF Delivered, FullSnapshot
    <3>4. PICK g \in 1 .. seen + 1 : BuffersFrom(i, g) /\ g <= S + 1
      BY <1>1, <1>2, <3>2
    <3>5. BuffersFrom(i, g)'
      <4>1. Own(i, g, seen)' = Own(i, g, seen) /\ buffer'[i] = buffer[i]
        BY <1>3 DEF Own
      <4> QED
        BY <3>4, <4>1, BuffersKept
    <3>6. g \in 1 .. S + 1
      BY <3>4, SeqsFacts
    <3>7. WhileCompleting(i, b)'
      BY <1>3, <3>2, <3>3, <3>5, <3>6 DEF WhileCompleting, FullSnapshot
    <3>8. WhileLoading(i, b)'
      BY <3>1 DEF WhileLoading
    <3> QED
      BY <2>2, <3>1, <3>7, <3>8 DEF Phase
  <2> QED
    BY <2>1, <2>2
<1>12. \A j \in Instruments : View(j)'
  <2> TAKE j \in Instruments
  <2>1. cmdq'[j] = cmdq[j] /\ book'[j] = book[j] /\ View(j)
    BY <1>3 DEF channels, IInv
  <2> QED
    BY <1>0, <1>10, <1>11, <2>1, ViewKept
<1> QED
  BY <1>5, <1>7, <1>8, <1>9, <1>12 DEF IInv, Control

-----------------------------------------------------------------------------
(* What the dispatcher does on its own. *)

(* A step of the dispatcher that does not touch instrument j. *)
LEMMA ViewSteady ==
  ASSUME Types, UNCHANGED <<server, book>>, NEW j \in Instruments, View(j),
         mode'[j] = mode[j], buffer'[j] = buffer[j], cmdq'[j] = cmdq[j],
         Pending(j)' <=> Pending(j), Recovering(j)' <=> Recovering(j),
         Completing(j)' <=> Completing(j), Replaying(j)' <=> Replaying(j),
         Completing(j) \/ Replaying(j) => endSeq' = endSeq,
         Replaying(j) => pc' = pc /\ msg' = msg /\ part' = part
  PROVE  View(j)'
<1>1. UNCHANGED <<owner, seen, asked, job, book>>
  BY DEF server
<1>2. Grows
  BY <1>1, SeqsFacts DEF Grows, Types
<1>3. \A lo \in Nat \ {0} : Own(j, lo, seen)' = Own(j, lo, seen)
  BY <1>1 DEF Own
<1>4. ASSUME NEW b \in Books, Phase(j, b) PROVE Phase(j, b)'
  BY <1>1, <1>2, <1>3, <1>4, PhaseKept
<1> QED
  BY <1>1, <1>2, <1>4, ViewKept

(* The message that showed the gap waits alone in its instrument's buffer.  *)
LEMMA FirstBuffered ==
  ASSUME NEW i, NEW n \in Nat, seen' = n, owner'[n] = i, buffer'[i] = <<Update(i, n)>>
  PROVE  BuffersFrom(i, n)'
<1> DEFINE q == [k \in 1 .. Len(buffer'[i]) |-> buffer'[i][k].seq]
<1>1. Own(i, n, seen)' = {n}
  BY DEF Own
<1>2. Len(buffer'[i]) = 1 /\ buffer'[i][1] = Update(i, n) /\ buffer'[i][1].seq = n
  BY DEF Update
<1>3. Lists(q, {n})
  <2>1. Len(q) = 1 /\ q[1] = n
    BY <1>2
  <2> HIDE DEF q
  <2>2. 1 .. Len(q) = {1}
    BY <2>1
  <2> QED
    BY <2>1, <2>2 DEF Lists, InOrder
<1>4. \A k \in 1 .. Len(buffer'[i]) : buffer'[i][k] = Update(i, buffer'[i][k].seq)
  BY <1>2
<1> QED
  BY <1>1, <1>3, <1>4 DEF BuffersFrom, Lists, InOrder

LEMMA ClearStep ==
  ASSUME IInv, NEW i \in Instruments, RecoverClear(i), UNCHANGED <<server, book>>
  PROVE  IInv'
<1>0. Types /\ Tracking /\ Requests /\ Handling
  BY DEF IInv, Control
<1>1. /\ pc = "clear" /\ i \in todo /\ pc' = "request" /\ cur' = i /\ todo' = todo \ {i}
      /\ mode' = [mode EXCEPT ![i] = "Loading"]
      /\ buffer' = [buffer EXCEPT ![i] = IF i = msg.sym THEN <<msg>> ELSE <<>>]
      /\ overflowed' = [overflowed EXCEPT ![i] = FALSE]
      /\ cmdq' = [cmdq EXCEPT ![i] = Append(cmdq[i], ClearBook)]
      /\ UNCHANGED <<lastSeq, streak, msg, part, endSeq, wsq, rxOpen, wsOpen,
                     owner, seen, asked, job, book>>
  BY DEF RecoverClear, Send, tracker, server
<1>2. PICK k \in Instruments : seen # 0 /\ owner[seen] = k /\ msg = Update(k, seen)
  BY <1>0, <1>1 DEF Handling
<1>3. PICK n \in Nat \ {0} : seen = n
  BY <1>0, <1>2, SeqsFacts DEF Types
<1>4. /\ mode'[i] = "Loading" /\ buffer'[i] = IF i = msg.sym THEN <<msg>> ELSE <<>>
      /\ cmdq'[i] = Append(cmdq[i], ClearBook)
      /\ \A j \in Instruments : j # i =>
           mode'[j] = mode[j] /\ buffer'[j] = buffer[j] /\ cmdq'[j] = cmdq[j]
  BY <1>0, <1>1 DEF Types
<1>5. ClearBook \in Command /\ EmptyBook \in Books /\ msg \in Message /\ msg.sym = k
  <2>1. msg \in Message
    BY <1>0, <1>2, MessageTypes DEF Types
  <2> QED
    BY <1>2, <2>1, MessageTypes DEF EmptyBook, Books, Update
<1> HIDE DEF Command
<1>6. Types'
  <2>1. mode' \in [Instruments -> {"Streaming", "Loading"}] /\ overflowed' \in [Instruments -> BOOLEAN]
    BY <1>0, <1>1 DEF Types
  <2>2. buffer' \in [Instruments -> Seq(Message)]
    <3>1. <<msg>> \in Seq(Message) /\ <<>> \in Seq(Message)
      BY <1>5
    <3> HIDE DEF Message
    <3> QED
      BY <1>0, <1>1, <3>1 DEF Types
  <2>3. cmdq' \in [Instruments -> Seq(Command)]
    <3>1. Append(cmdq[i], ClearBook) \in Seq(Command)
      BY <1>0, <1>5 DEF Types
    <3> QED
      BY <1>0, <1>1, <3>1 DEF Types
  <2>4. pc' = "request" /\ cur' \in Instruments \cup {None} /\ todo' \in SUBSET Instruments
    BY <1>0, <1>1 DEF Types
  <2> QED
    BY <1>0, <1>1, <2>1, <2>2, <2>3, <2>4 DEF Types, Latest
<1>7. Handling'
  BY <1>1, <1>2 DEF Handling
<1>8. ~Queued(i) /\ i \notin asked /\ job[i] = Idle
  BY <1>0, <1>1 DEF Requests, Recovering
<1>9. Requests'
  <2>1. \A j \in Instruments : /\ Queued(j)' <=> Queued(j)
                               /\ Sending(j)' <=> j = i
                               /\ Recovering(j)' <=> Recovering(j) /\ j # i
                               /\ ~Replaying(j)' /\ ~Completing(j)'
    BY <1>1 DEF Queued, Sending, Recovering, Completing, Replaying
  <2>2. UNCHANGED <<wsq, seen, asked, job>>
    BY <1>1
  <2> QED
    BY <1>0, <1>4, <1>8, <2>1, <2>2 DEF Requests
<1>10. Tracking'
  BY <1>0, <1>1 DEF Tracking, Detectable, Latest
<1>11. Grows
  BY <1>0, <1>1, SeqsFacts DEF Grows, Types
<1>12. ASSUME NEW j \in Instruments, j # i PROVE View(j)'
  <2>1. /\ ~Pending(j) /\ ~Pending(j)' /\ ~Completing(j) /\ ~Completing(j)'
        /\ ~Replaying(j) /\ ~Replaying(j)' /\ (Recovering(j)' <=> Recovering(j))
    BY <1>1, <1>12 DEF Pending, Recovering, Completing, Replaying
  <2> QED
    BY <1>0, <1>4, <1>12, <2>1, ViewSteady DEF IInv
<1>13. View(i)'
  <2>1. \E g \in 1 .. seen' + 1 : BuffersFrom(i, g)'
    <3>1. CASE i = k
      <4>1. buffer'[i] = <<Update(i, n)>> /\ owner'[n] = i
        BY <1>1, <1>2, <1>3, <1>4, <1>5, <3>1
      <4>2. BuffersFrom(i, n)'
        BY <1>1, <1>3, <4>1, FirstBuffered
      <4>3. n \in 1 .. seen' + 1
        BY <1>1, <1>3
      <4> QED
        BY <4>2, <4>3
    <3>2. CASE i # k
      <4>1. buffer'[i] = <<>>
        BY <1>4, <1>5, <3>2
      <4>2. BuffersFrom(i, n + 1)'
        BY <1>1, <1>3, <4>1, EmptyBuffers
      <4>3. n + 1 \in 1 .. seen' + 1
        BY <1>1, <1>3
      <4> QED
        BY <4>2, <4>3
    <3> QED
      BY <3>1, <3>2
  <2>2. Delivered(i)' = {} /\ job'[i] = Idle
    BY <1>1, <1>8 DEF Delivered
  <2>3. WhileLoading(i, EmptyBook)'
    BY <2>1, <2>2 DEF WhileLoading, EmptyBook
  <2>4. Phase(i, EmptyBook)'
    <3>1. WhileCompleting(i, EmptyBook)' /\ WhileReplaying(i, EmptyBook)' /\ WhileStreaming(i, EmptyBook)'
      BY <1>1, <1>4 DEF WhileCompleting, WhileReplaying, WhileStreaming, Completing, Replaying
    <3> QED
      BY <2>3, <3>1 DEF Phase
  <2>5. Sound(i, EmptyBook)'
    BY DEF Sound, EmptyBook
  <2>6. \A b : Applied(b, ClearBook) = EmptyBook
    BY DEF Applied, ClearBook
  <2> QED
    BY <1>0, <1>1, <1>4, <1>5, <1>11, <2>4, <2>5, <2>6, ViewSent DEF IInv
<1> QED
  BY <1>6, <1>7, <1>9, <1>10, <1>12, <1>13 DEF IInv, Control

LEMMA RequestStep ==
  ASSUME IInv, RecoverRequest, UNCHANGED <<server, book>>
  PROVE  IInv'
<1>0. Types /\ Tracking /\ Requests /\ Handling
  BY DEF IInv, Control
<1>1. /\ pc = "request" /\ wsq' = Append(wsq, cur)
      /\ \/ todo = {} /\ pc' = "recv" /\ streak' = 0 /\ cur' = None /\ msg' = None
         \/ todo # {} /\ pc' = "clear" /\ UNCHANGED <<streak, cur, msg>>
      /\ UNCHANGED <<lastSeq, mode, buffer, overflowed, part, todo, endSeq, cmdq, rxOpen, wsOpen,
                     owner, seen, asked, job, book>>
  BY DEF RecoverRequest, loading, server
<1>2. cur \in Instruments \ todo
  BY <1>0, <1>1 DEF Handling
<1>3. PICK i \in Instruments : cur = i /\ i \notin todo
  BY <1>2
<1>4. /\ wsq \in Seq(Instruments) /\ wsq' \in Seq(Instruments) /\ Len(wsq) \in Nat
      /\ Len(wsq') = Len(wsq) + 1 /\ wsq'[Len(wsq) + 1] = i
      /\ \A k \in 1 .. Len(wsq) : wsq'[k] = wsq[k]
  BY <1>0, <1>1, <1>3 DEF Types
<1>5. ~Queued(i) /\ i \notin asked /\ job[i] = Idle /\ mode[i] = "Loading"
  BY <1>0, <1>1, <1>3 DEF Requests, Sending
<1>6. Types'
  <2>1. /\ pc' \in {"recv", "clear"} /\ streak' \in 0 .. MinStreak /\ cur' \in Instruments \cup {None}
        /\ msg' \in Message \cup {None}
    BY <1>0, <1>1, DispatcherAssumption DEF Types
  <2> QED
    BY <1>0, <1>1, <1>4, <2>1 DEF Types, Latest
<1>7. Handling'
  BY <1>0, <1>1 DEF Handling
<1>8. Requests'
  <2>1. \A j \in Instruments : /\ ~Sending(j)' /\ ~Completing(j)' /\ ~Replaying(j)'
                               /\ Recovering(j)' <=> Recovering(j)
    BY <1>1 DEF Sending, Completing, Replaying, Recovering
  <2>2. \A j \in Instruments : Queued(j)' => Queued(j) \/ j = i
    <3> SUFFICES ASSUME NEW j \in Instruments, NEW k \in 1 .. Len(wsq'), wsq'[k] = j
                 PROVE  Queued(j) \/ j = i
      BY DEF Queued
    <3>1. k \in 1 .. Len(wsq) \/ k = Len(wsq) + 1
      BY <1>4
    <3> QED
      BY <1>4, <3>1 DEF Queued
  <2>3. \A j, k \in 1 .. Len(wsq') : wsq'[j] = wsq'[k] => j = k
    <3> SUFFICES ASSUME NEW j \in 1 .. Len(wsq'), NEW k \in 1 .. Len(wsq'), wsq'[j] = wsq'[k]
                 PROVE  j = k
      OBVIOUS
    <3>1. /\ j \in 1 .. Len(wsq) \/ j = Len(wsq) + 1
          /\ k \in 1 .. Len(wsq) \/ k = Len(wsq) + 1
      BY <1>4
    <3>2. \A a \in 1 .. Len(wsq) : wsq[a] # i
      BY <1>5 DEF Queued
    <3>3. \A a, c \in 1 .. Len(wsq) : wsq[a] = wsq[c] => a = c
      BY <1>0 DEF Requests
    <3> QED
      BY <1>4, <3>1, <3>2, <3>3
  <2>4. UNCHANGED <<mode, seen, asked, job>>
    BY <1>1
  <2>5. ~Recovering(i)
    BY <1>3 DEF Recovering
  <2> QED
    BY <1>0, <1>5, <2>1, <2>2, <2>3, <2>4, <2>5 DEF Requests
<1>9. Tracking'
  BY <1>0, <1>1 DEF Tracking, Detectable, Latest
<1>10. ASSUME NEW j \in Instruments PROVE View(j)'
  <2>1. /\ ~Pending(j) /\ ~Pending(j)' /\ ~Completing(j) /\ ~Completing(j)'
        /\ ~Replaying(j) /\ ~Replaying(j)' /\ (Recovering(j)' <=> Recovering(j))
    BY <1>1 DEF Pending, Recovering, Completing, Replaying
  <2> QED
    BY <1>0, <1>1, <2>1, ViewSteady DEF IInv
<1> QED
  BY <1>6, <1>7, <1>8, <1>9, <1>10 DEF IInv, Control

(* What the events of the server's messages do to a book. *)
LEMMA UpdateApplied ==
  ASSUME NEW i \in Instruments, NEW s \in Seqs, NEW b \in Books
  PROVE  /\ Applied(b, EventOf(Update(i, s), 1)).pieces = b.pieces
         /\ Applied(b, EventOf(Update(i, s), 1)).done = b.done
         /\ Applied(b, EventOf(Update(i, s), 1)).updates = Append(b.updates, s)
<1>1. Applied(b, EventOf(Update(i, s), 1)) = [b EXCEPT !.updates = Append(b.updates, s)]
  BY DEF Applied, EventOf, Update
<1> QED
  BY <1>1 DEF Books

LEMMA EntryApplied ==
  ASSUME NEW i \in Instruments, NEW S \in Seqs, NEW p \in 1 .. Pieces, NEW b \in Books
  PROVE  /\ Applied(b, EventOf(Entry(i, S, p), 1)).pieces = b.pieces \cup {[at |-> S, piece |-> p]}
         /\ Applied(b, EventOf(Entry(i, S, p), 1)).done = b.done
         /\ Applied(b, EventOf(Entry(i, S, p), 1)).updates = b.updates
<1>1. Applied(b, EventOf(Entry(i, S, p), 1))
        = [b EXCEPT !.pieces = b.pieces \cup {[at |-> S, piece |-> p]}]
  BY DEF Applied, EventOf, Entry
<1> QED
  BY <1>1 DEF Books

(* A book that holds i's updates up to s - 1 and is given update s holds    *)
(* those up to s.                                                           *)
LEMMA NextListed ==
  ASSUME NEW i, NEW X, NEW q \in Seq(X), NEW lo \in Nat, NEW s \in Nat, s \in X,
         lo <= s, owner[s] = i, Lists(q, Own(i, lo, s - 1))
  PROVE  Lists(Append(q, s), Own(i, lo, s))
<1>1. Own(i, lo, s) = Own(i, lo, s - 1) \cup {s}
  <2>1. lo .. s = (lo .. s - 1) \cup {s}
    OBVIOUS
  <2> QED
    BY <2>1 DEF Own
<1>2. Own(i, lo, s - 1) \in SUBSET Nat /\ \A u \in Own(i, lo, s - 1) : u < s
  BY DEF Own
<1>3. Lists(Append(q, s), Own(i, lo, s - 1) \cup {s})
  BY <1>2, ListsAppend
<1> QED
  BY <1>1, <1>3

(* An event of instrument i is sent: the trail of i is one book longer.     *)
LEMMA EventStep ==
  ASSUME IInv, SendEvent, UNCHANGED <<server, book>>, NEW i \in Instruments, cur = i,
         msg \in Message, msg.n = 1,
         \A b \in Books : Phase(i, b) /\ Sound(i, b) =>
            Phase(i, Applied(b, EventOf(msg, 1)))' /\ Sound(i, Applied(b, EventOf(msg, 1)))'
  PROVE  IInv'
<1>0. Types /\ Tracking /\ Requests /\ Handling
  BY DEF IInv, Control
<1>1. /\ pc \in {"events", "replaying"} /\ part = 0 /\ part' = 1
      /\ cmdq' = [cmdq EXCEPT ![i] = Append(cmdq[i], EventOf(msg, 1))]
      /\ UNCHANGED <<lastSeq, streak, mode, buffer, overflowed, pc, cur, msg, todo, endSeq,
                     wsq, rxOpen, wsOpen, owner, seen, asked, job, book>>
  <2>1. part \in {0, 1} /\ part < 1
    BY <1>0 DEF SendEvent, Types
  <2>2. part = 0 /\ part + 1 = 1
    BY <2>1
  <2>3. Send(i, EventOf(msg, 1))
    BY <2>2 DEF SendEvent
  <2>4. part' = 1
    BY <2>2 DEF SendEvent
  <2> QED
    BY <2>2, <2>3, <2>4 DEF SendEvent, Send, tracker, loading, server
<1>2. PICK c \in Command : c = EventOf(msg, 1)
  <2>1. EventOf(msg, 1) \in Command
    BY SyncAssumption, DispatcherAssumption DEF EventOf, Command
  <2> QED
    BY <2>1
<1>3. c = EventOf(msg, 1)'
  BY <1>1, <1>2 DEF EventOf
<1> HIDE DEF Command
<1>4. /\ cmdq'[i] = Append(cmdq[i], c)
      /\ \A j \in Instruments : j # i => cmdq'[j] = cmdq[j]
      /\ cmdq' \in [Instruments -> Seq(Command)]
  <2>1. Append(cmdq[i], c) \in Seq(Command)
    BY <1>0 DEF Types
  <2> QED
    BY <1>0, <1>1, <1>2, <2>1 DEF Types
<1>5. Types'
  BY <1>0, <1>1, <1>4 DEF Types, Latest
<1>6. Handling' /\ Requests' /\ Tracking'
  BY <1>0, <1>1 DEF Handling, Requests, Queued, Sending, Recovering, Completing, Replaying,
     Tracking, Detectable, LoadingSet, Latest
<1>7. Grows
  BY <1>0, <1>1, SeqsFacts DEF Grows, Types
<1>8. ASSUME NEW j \in Instruments, j # i PROVE View(j)'
  <2>1. /\ ~Pending(j) /\ ~Pending(j)' /\ ~Replaying(j) /\ ~Replaying(j)'
        /\ ~Completing(j) /\ ~Completing(j)' /\ ~Recovering(j) /\ ~Recovering(j)'
    BY <1>1, <1>8 DEF Pending, Recovering, Completing, Replaying
  <2> QED
    BY <1>0, <1>1, <1>4, <1>8, <2>1, ViewSteady DEF IInv
<1>9. View(i)'
  <2>1. ASSUME NEW b \in Books, Phase(i, b), Sound(i, b)
        PROVE  Phase(i, Applied(b, c))' /\ Sound(i, Applied(b, c))'
    <3>1. Phase(i, Applied(b, EventOf(msg, 1)))' /\ Sound(i, Applied(b, EventOf(msg, 1)))'
      BY <2>1
    <3> QED
      BY <1>3, <3>1
  <2> QED
    BY <1>0, <1>1, <1>4, <1>7, <2>1, ViewSent DEF IInv
<1> QED
  BY <1>5, <1>6, <1>8, <1>9 DEF IInv, Control

(* An update of an instrument that streams, one from its buffer, an entry.  *)
LEMMA LiveEvent ==
  ASSUME IInv, SendEvent, UNCHANGED <<server, book>>, pc = "events", mode[cur] = "Streaming"
  PROVE  IInv'
<1>0. Types /\ Handling
  BY DEF IInv, Control
<1>1. PICK i \in Instruments : cur = i
  BY <1>0 DEF Handling
<1>2. seen # 0 /\ owner[seen] = i /\ msg = Update(i, seen) /\ mode[i] = "Streaming"
  BY <1>0, <1>1 DEF Handling
<1>3. PICK s \in Seqs : seen = s
  BY <1>0 DEF Types
<1>4. s \in Nat \ {0} /\ s - 1 \in Nat /\ s \in OptSeq
  BY <1>2, <1>3, SeqsFacts DEF OptSeq
<1>5. msg = Update(i, s) /\ owner[s] = i /\ msg \in Message /\ msg.n = 1 /\ part \in {0, 1} /\ part < 1
  BY <1>0, <1>2, <1>3, MessageTypes DEF Update, SendEvent, Types
<1>6. /\ part = 0 /\ part' = 1
      /\ UNCHANGED <<mode, pc, cur, msg, todo, endSeq, owner, seen, asked>>
  BY <1>5 DEF SendEvent, loading, server
<1>7. ASSUME NEW b \in Books, Phase(i, b), Sound(i, b)
      PROVE  /\ Phase(i, Applied(b, EventOf(Update(i, s), 1)))'
             /\ Sound(i, Applied(b, EventOf(Update(i, s), 1)))'
  <2> DEFINE d == Applied(b, EventOf(Update(i, s), 1))
  <2>1. d.pieces = b.pieces /\ d.done = b.done /\ d.updates = Append(b.updates, s)
    BY UpdateApplied
  <2> HIDE DEF d
  <2>2. Pending(i) /\ ~Pending(i)' /\ ~Recovering(i) /\ ~Completing(i) /\ ~Replaying(i)
        /\ ~Recovering(i)' /\ ~Completing(i)' /\ ~Replaying(i)'
    BY <1>1, <1>6 DEF Pending, Recovering, Completing, Replaying
  <2>3. IF b.done THEN \E S \in Seqs : Holds(i, b, S, seen - 1) ELSE i \in asked
    BY <1>2, <1>7, <2>2 DEF Phase, WhileStreaming
  <2>4. d.done => \E S \in Seqs : Holds(i, d, S, s)'
    <3> SUFFICES ASSUME b.done PROVE \E S \in Seqs : Holds(i, d, S, s)'
      BY <2>1
    <3>1. PICK S \in Seqs : Holds(i, b, S, s - 1)
      BY <1>3, <2>3
    <3>2. S \in Nat /\ S <= s - 1 /\ S + 1 <= s /\ S <= s /\ b.pieces = FullSnapshot(S)
          /\ Lists(b.updates, Own(i, S + 1, s - 1)) /\ b.updates \in Seq(OptSeq)
      BY <1>4, <3>1, SeqsFacts DEF Holds, Books
    <3>3. Lists(d.updates, Own(i, S + 1, s))
      BY <1>4, <1>5, <2>1, <3>2, NextListed
    <3>4. Own(i, S + 1, s)' = Own(i, S + 1, s)
      BY <1>6 DEF Own
    <3>5. Holds(i, d, S, s)'
      BY <2>1, <3>2, <3>3, <3>4 DEF Holds, Lists, InOrder, FullSnapshot
    <3> QED
      BY <3>5
  <2>5. WhileStreaming(i, d)'
    <3>1. seen' = s
      BY <1>3, <1>6
    <3>2. d.done => \E S \in Seqs : Holds(i, d, S, seen)'
      BY <2>4, <3>1
    <3>3. ~d.done => i \in asked'
      BY <1>6, <2>1, <2>3
    <3> QED
      BY <2>2, <3>2, <3>3 DEF WhileStreaming
  <2>6. Phase(i, d)'
    BY <1>2, <1>6, <2>2, <2>5 DEF Phase, WhileLoading, WhileCompleting, WhileReplaying
  <2>7. Sound(i, d)'
    <3>1. s <= seen'
      BY <1>3, <1>4, <1>6
    <3> QED
      BY <2>4, <3>1 DEF Sound
  <2> QED
    BY <2>6, <2>7 DEF d
<1>8. ASSUME NEW b \in Books, Phase(i, b), Sound(i, b)
      PROVE  Phase(i, Applied(b, EventOf(msg, 1)))' /\ Sound(i, Applied(b, EventOf(msg, 1)))'
  <2>1. msg' = Update(i, s)
    BY <1>5, <1>6
  <2>2. /\ Phase(i, Applied(b, EventOf(Update(i, s), 1)))'
        /\ Sound(i, Applied(b, EventOf(Update(i, s), 1)))'
    BY <1>7, <1>8
  <2> QED
    BY <2>1, <2>2
<1> QED
  BY <1>1, <1>5, <1>8, EventStep

LEMMA EntryEvent ==
  ASSUME IInv, SendEvent, UNCHANGED <<server, book>>, pc = "events", mode[cur] = "Loading"
  PROVE  IInv'
<1>0. Types /\ Handling /\ Requests
  BY DEF IInv, Control
<1>1. PICK i \in Instruments : cur = i
  BY <1>0 DEF Handling
<1>2. /\ job[i].at # None /\ job[i].left + 1 \in 1 .. Pieces /\ mode[i] = "Loading"
      /\ msg = Entry(i, job[i].at, job[i].left + 1) /\ job[i] \in Jobs
  BY <1>0, <1>1 DEF Handling, Types
<1>3. PICK S \in Seqs : job[i].at = S
  BY <1>2 DEF Jobs, OptSeq
<1>4. PICK L \in Nat : job[i].left = L
  BY <1>2, SyncAssumption DEF Jobs
<1>5. /\ L + 1 \in 1 .. Pieces /\ msg = Entry(i, S, L + 1) /\ msg \in Message /\ msg.n = 1
      /\ part \in {0, 1} /\ part < 1 /\ job[i] # Idle
  <2>1. L + 1 \in 1 .. Pieces /\ msg = Entry(i, S, L + 1)
    BY <1>2, <1>3, <1>4
  <2>2. msg \in Message
    BY <2>1, MessageTypes
  <2>3. msg.n = 1
    BY <2>1 DEF Entry
  <2>4. part \in {0, 1} /\ part < 1
    BY <1>0, <2>3 DEF SendEvent, Types
  <2>5. job[i] # Idle
    BY <1>2 DEF Idle
  <2> QED
    BY <2>1, <2>2, <2>3, <2>4, <2>5
<1>6. /\ part = 0 /\ part' = 1
      /\ UNCHANGED <<mode, buffer, pc, cur, msg, todo, endSeq, owner, seen, asked, job>>
  BY <1>5 DEF SendEvent, loading, server
<1>7. ASSUME NEW b \in Books, Phase(i, b), Sound(i, b)
      PROVE  /\ Phase(i, Applied(b, EventOf(Entry(i, S, L + 1), 1)))'
             /\ Sound(i, Applied(b, EventOf(Entry(i, S, L + 1), 1)))'
  <2> DEFINE d == Applied(b, EventOf(Entry(i, S, L + 1), 1))
  <2>1. /\ d.pieces = b.pieces \cup {[at |-> S, piece |-> L + 1]}
        /\ d.done = b.done /\ d.updates = b.updates
    BY <1>5, EntryApplied
  <2> HIDE DEF d
  <2>2. Pending(i) /\ ~Pending(i)' /\ ~Completing(i) /\ ~Completing(i)' /\ ~Replaying(i)'
    BY <1>1, <1>6 DEF Pending, Completing, Replaying
  <2>3. /\ ~b.done /\ b.updates = <<>> /\ b.pieces = Delivered(i)
        /\ \E g \in 1 .. seen + 1 : BuffersFrom(i, g) /\ (job[i] # Idle => g <= job[i].at + 1)
    BY <1>2, <1>7, <2>2 DEF Phase, WhileLoading
  <2>4. d.pieces = Delivered(i)'
    <3>1. Delivered(i) = {[at |-> S, piece |-> p] : p \in L + 2 .. Pieces}
      BY <1>3, <1>4, <1>5, <2>2 DEF Delivered
    <3>2. Delivered(i)' = {[at |-> S, piece |-> p] : p \in L + 1 .. Pieces}
      BY <1>3, <1>4, <1>5, <1>6, <2>2 DEF Delivered
    <3>3. L + 1 .. Pieces = (L + 2 .. Pieces) \cup {L + 1}
      BY <1>5, SyncAssumption
    <3> QED
      BY <2>1, <2>3, <3>1, <3>2, <3>3
  <2>5. PICK g \in 1 .. seen + 1 : BuffersFrom(i, g) /\ g <= job[i].at + 1
    BY <1>5, <2>3
  <2>6. BuffersFrom(i, g)'
    <3>1. Own(i, g, seen)' = Own(i, g, seen) /\ buffer'[i] = buffer[i]
      BY <1>6 DEF Own
    <3> QED
      BY <2>5, <3>1, BuffersKept
  <2>7. WhileLoading(i, d)'
    BY <1>6, <2>1, <2>3, <2>4, <2>5, <2>6 DEF WhileLoading
  <2>8. Phase(i, d)'
    BY <1>2, <1>6, <2>2, <2>7 DEF Phase, WhileCompleting, WhileReplaying, WhileStreaming
  <2>9. Sound(i, d)'
    BY <2>1, <2>3 DEF Sound
  <2> QED
    BY <2>8, <2>9 DEF d
<1>8. ASSUME NEW b \in Books, Phase(i, b), Sound(i, b)
      PROVE  Phase(i, Applied(b, EventOf(msg, 1)))' /\ Sound(i, Applied(b, EventOf(msg, 1)))'
  <2>1. msg' = Entry(i, S, L + 1)
    BY <1>5, <1>6
  <2>2. /\ Phase(i, Applied(b, EventOf(Entry(i, S, L + 1), 1)))'
        /\ Sound(i, Applied(b, EventOf(Entry(i, S, L + 1), 1)))'
    BY <1>7, <1>8
  <2> QED
    BY <2>1, <2>2
<1> QED
  BY <1>1, <1>5, <1>8, EventStep

LEMMA ReplayEvent ==
  ASSUME IInv, SendEvent, UNCHANGED <<server, book>>, pc = "replaying"
  PROVE  IInv'
<1>0. Types /\ Handling /\ Requests
  BY DEF IInv, Control
<1>1. PICK i \in Instruments : cur = i
  BY <1>0 DEF Handling
<1>2. PICK e \in Seqs : endSeq = e
  BY <1>0 DEF Types
<1>3. mode[i] = "Streaming" /\ \E s \in e + 1 .. seen : owner[s] = i /\ msg = Update(i, s)
  BY <1>0, <1>1, <1>2 DEF Handling
<1>4. PICK s \in e + 1 .. seen : owner[s] = i /\ msg = Update(i, s)
  BY <1>3
<1>5. /\ e \in Nat /\ s \in Nat \ {0} /\ s \in Seqs /\ s \in OptSeq /\ s - 1 \in Nat /\ e + 1 <= s
      /\ seen \in Nat
  BY <1>0, <1>4, SeqsFacts DEF Types, OptSeq
<1>6. msg.n = 1 /\ msg.seq = s /\ msg \in Message /\ part \in {0, 1} /\ part < 1
  BY <1>0, <1>4, <1>5, MessageTypes DEF Update, SendEvent, Types
<1>7. /\ part = 0 /\ part' = 1
      /\ UNCHANGED <<mode, buffer, pc, cur, msg, todo, endSeq, owner, seen, asked, job>>
  BY <1>6 DEF SendEvent, loading, server
<1>8. ASSUME NEW b \in Books, Phase(i, b), Sound(i, b)
      PROVE  /\ Phase(i, Applied(b, EventOf(Update(i, s), 1)))'
             /\ Sound(i, Applied(b, EventOf(Update(i, s), 1)))'
  <2> DEFINE d == Applied(b, EventOf(Update(i, s), 1))
  <2>1. d.pieces = b.pieces /\ d.done = b.done /\ d.updates = Append(b.updates, s)
    BY <1>5, UpdateApplied
  <2> HIDE DEF d
  <2>2. Replaying(i) /\ Replaying(i)' /\ ~Completing(i)'
    BY <1>1, <1>7 DEF Replaying, Completing
  <2>3. /\ ~b.done /\ b.pieces = FullSnapshot(e)
        /\ BuffersFrom(i, s + 1) /\ Lists(b.updates, Own(i, e + 1, s - 1))
    <3>1. msg.seq - 1 + part = s - 1
      BY <1>5, <1>6, <1>7
    <3> QED
      BY <1>2, <1>6, <1>8, <2>2, <3>1 DEF Phase, WhileReplaying
  <2>4. Lists(d.updates, Own(i, e + 1, s))'
    <3>1. b.updates \in Seq(OptSeq)
      BY DEF Books
    <3>2. Lists(d.updates, Own(i, e + 1, s))
      BY <1>4, <1>5, <2>1, <2>3, <3>1, NextListed
    <3>3. Own(i, e + 1, s)' = Own(i, e + 1, s)
      BY <1>7 DEF Own
    <3> QED
      BY <3>2, <3>3 DEF Lists, InOrder
  <2>5. BuffersFrom(i, s + 1)'
    <3>1. Own(i, s + 1, seen)' = Own(i, s + 1, seen) /\ buffer'[i] = buffer[i]
      BY <1>7 DEF Own
    <3> QED
      BY <2>3, <3>1, BuffersKept
  <2>6. WhileReplaying(i, d)'
    <3>1. /\ msg'.seq = s /\ msg'.seq - 1 + part' = s /\ endSeq' = e /\ pc' = "replaying"
      BY <1>2, <1>5, <1>6, <1>7
    <3>2. FullSnapshot(e)' = FullSnapshot(e)
      BY DEF FullSnapshot
    <3>3. BuffersFrom(i, msg.seq + 1)'
      BY <2>5, <3>1
    <3>4. Lists(d.updates, Own(i, endSeq + 1, msg.seq - 1 + part))'
      BY <2>4, <3>1
    <3>5. ~d.done /\ d.pieces = FullSnapshot(endSeq)'
      BY <2>1, <2>3, <3>1, <3>2
    <3> QED
      BY <3>1, <3>3, <3>4, <3>5 DEF WhileReplaying
  <2>7. Phase(i, d)'
    BY <1>3, <1>7, <2>2, <2>6 DEF Phase, WhileLoading, WhileCompleting, WhileStreaming
  <2>8. Sound(i, d)'
    BY <2>1, <2>3 DEF Sound
  <2> QED
    BY <2>7, <2>8 DEF d
<1>9. ASSUME NEW b \in Books, Phase(i, b), Sound(i, b)
      PROVE  Phase(i, Applied(b, EventOf(msg, 1)))' /\ Sound(i, Applied(b, EventOf(msg, 1)))'
  <2>1. msg' = Update(i, s)
    BY <1>4, <1>7
  <2>2. /\ Phase(i, Applied(b, EventOf(Update(i, s), 1)))'
        /\ Sound(i, Applied(b, EventOf(Update(i, s), 1)))'
    BY <1>8, <1>9
  <2> QED
    BY <2>1, <2>2
<1> QED
  BY <1>1, <1>6, <1>9, EventStep

LEMMA SendStep ==
  ASSUME IInv, SendEvent, UNCHANGED <<server, book>>
  PROVE  IInv'
<1>1. \/ pc = "events" /\ mode[cur] = "Streaming"
      \/ pc = "events" /\ mode[cur] = "Loading"
      \/ pc = "replaying"
  BY DEF SendEvent, IInv, Control, Handling
<1> QED
  BY <1>1, LiveEvent, EntryEvent, ReplayEvent

LEMMA DoneStep ==
  ASSUME IInv, EventsDone, UNCHANGED <<server, book>>
  PROVE  IInv'
<1>0. Types /\ Tracking /\ Requests /\ Handling
  BY DEF IInv, Control
<1>1. /\ pc = "events" /\ part = msg.n /\ pc' = "recv" /\ cur' = None /\ msg' = None /\ part' = 0
      /\ UNCHANGED <<lastSeq, streak, mode, buffer, overflowed, todo, endSeq, cmdq, wsq, rxOpen,
                     wsOpen, owner, seen, asked, job, book>>
  BY DEF EventsDone, tracker, loading, channels, server
<1>2. msg.n = 1
  BY <1>0, <1>1 DEF Handling, Update, Entry
<1>3. Types'
  BY <1>0, <1>1 DEF Types, Latest
<1>4. Handling' /\ Tracking'
  BY <1>0, <1>1 DEF Handling, Tracking, Detectable, Latest
<1>5. Requests'
  <2>1. \A j \in Instruments : /\ ~Sending(j)' /\ ~Completing(j)' /\ ~Replaying(j)' /\ ~Recovering(j)'
                               /\ Queued(j)' <=> Queued(j)
    BY <1>1 DEF Sending, Completing, Replaying, Recovering, Queued
  <2> QED
    BY <1>0, <1>1, <2>1 DEF Requests
<1>6. ASSUME NEW j \in Instruments PROVE View(j)'
  <2>1. /\ ~Pending(j) /\ ~Pending(j)' /\ ~Completing(j) /\ ~Completing(j)'
        /\ ~Replaying(j) /\ ~Replaying(j)' /\ ~Recovering(j)' /\ ~Recovering(j)
    BY <1>1, <1>2 DEF Pending, Recovering, Completing, Replaying
  <2> QED
    BY <1>0, <1>1, <2>1, ViewSteady DEF IInv
<1> QED
  BY <1>3, <1>4, <1>5, <1>6 DEF IInv, Control

LEMMA CompleteStep ==
  ASSUME IInv, Fits, NEW i \in Instruments, CompleteStart(i), UNCHANGED <<server, book>>
  PROVE  IInv'
<1>0. Types /\ Tracking /\ Requests /\ Handling
  BY DEF IInv, Control
<1>1. /\ pc = "complete" /\ i \in todo /\ pc' = "replay" /\ cur' = i /\ todo' = todo \ {i}
      /\ mode' = [mode EXCEPT ![i] = "Streaming"]
      /\ overflowed' = [overflowed EXCEPT ![i] = FALSE]
      /\ UNCHANGED <<lastSeq, streak, msg, part, endSeq, cmdq, wsq, rxOpen, wsOpen,
                     owner, seen, asked, job, book>>
  BY DEF CompleteStart, tracker, channels, server
<1>2. buffer' = buffer
  BY <1>0 DEF CompleteStart, Fits, Types
<1>3. todo = {i} /\ todo' = {} /\ mode[i] = "Loading" /\ endSeq <= seen
  BY <1>0, <1>1 DEF Handling
<1>4. /\ mode'[i] = "Streaming" /\ \A j \in Instruments : j # i => mode'[j] = mode[j]
  BY <1>0, <1>1 DEF Types
<1>5. Types'
  <2>1. mode' \in [Instruments -> {"Streaming", "Loading"}] /\ overflowed' \in [Instruments -> BOOLEAN]
    BY <1>0, <1>1 DEF Types
  <2>2. pc' = "replay" /\ cur' \in Instruments \cup {None} /\ todo' \in SUBSET Instruments
    BY <1>1, <1>3
  <2> QED
    BY <1>0, <1>1, <1>2, <2>1, <2>2 DEF Types, Latest
<1>6. Handling'
  BY <1>1, <1>3, <1>4 DEF Handling
<1>7. Completing(i) /\ ~Queued(i) /\ i \notin asked /\ job[i] = Idle
  BY <1>0, <1>1 DEF Requests, Completing
<1>8. Requests'
  <2>1. \A j \in Instruments : /\ ~Sending(j)' /\ ~Completing(j)' /\ ~Recovering(j)'
                               /\ Replaying(j)' <=> j = i
                               /\ Queued(j)' <=> Queued(j)
    BY <1>1 DEF Sending, Completing, Replaying, Recovering, Queued
  <2> QED
    BY <1>0, <1>1, <1>4, <1>7, <2>1 DEF Requests
<1>9. Tracking'
  BY <1>0, <1>1 DEF Tracking, Detectable, Latest
<1>10. Grows
  BY <1>0, <1>1, SeqsFacts DEF Grows, Types
<1>11. ASSUME NEW j \in Instruments, j # i PROVE View(j)'
  <2>1. /\ ~Pending(j) /\ ~Pending(j)' /\ ~Completing(j) /\ ~Completing(j)'
        /\ ~Replaying(j) /\ ~Replaying(j)' /\ ~Recovering(j)' /\ ~Recovering(j)
    BY <1>1, <1>3, <1>11 DEF Pending, Recovering, Completing, Replaying
  <2> QED
    BY <1>0, <1>1, <1>2, <1>4, <1>11, <2>1, ViewSteady DEF IInv
<1>12. View(i)'
  <2>1. ASSUME NEW b \in Books, Phase(i, b) PROVE Phase(i, b)'
    <3>1. /\ ~b.done /\ b.updates = <<>> /\ b.pieces = FullSnapshot(endSeq)
          /\ \E g \in 1 .. endSeq + 1 : BuffersFrom(i, g)
      BY <1>7, <2>1 DEF Phase, WhileCompleting
    <3>2. PICK g \in 1 .. endSeq + 1 : BuffersFrom(i, g)
      BY <3>1
    <3>3. endSeq \in Nat /\ seen \in Nat /\ g \in Nat \ {0} /\ g \in 1 .. seen + 1
      BY <1>0, <1>3, SeqsFacts DEF Types
    <3>4. BuffersFrom(i, g)'
      <4>1. Own(i, g, seen)' = Own(i, g, seen) /\ buffer'[i] = buffer[i]
        BY <1>1, <1>2 DEF Own
      <4> QED
        BY <3>2, <4>1, BuffersKept
    <3>5. Lists(b.updates, Own(i, endSeq + 1, g - 1)')
      <4>1. \A s \in endSeq + 1 .. g - 1 : FALSE
        BY <3>2, <3>3
      <4>2. Own(i, endSeq + 1, g - 1)' = {}
        BY <1>1, <4>1 DEF Own
      <4>3. Len(b.updates) = 0
        BY <3>1
      <4> QED
        BY <4>2, <4>3, ListsEmpty
    <3>6. Lists(b.updates, Own(i, endSeq + 1, g - 1))'
      BY <3>5 DEF Lists, InOrder
    <3>7. WhileReplaying(i, b)'
      <4>1. pc' = "replay" /\ g \in 1 .. seen' + 1 /\ b.pieces = FullSnapshot(endSeq)'
        BY <1>1, <3>1, <3>3 DEF FullSnapshot
      <4> QED
        BY <3>1, <3>4, <3>6, <4>1 DEF WhileReplaying
    <3>8. Replaying(i)' /\ ~Completing(i)'
      BY <1>1 DEF Replaying, Completing
    <3> QED
      BY <1>4, <3>7, <3>8 DEF Phase, WhileLoading, WhileCompleting, WhileStreaming
  <2> QED
    BY <1>0, <1>1, <1>10, <2>1, ViewKept DEF IInv
<1> QED
  BY <1>5, <1>6, <1>8, <1>9, <1>11, <1>12 DEF IInv, Control

(* The first of the buffered updates: it is the least of those from g on,   *)
(* and the rest are those after it.                                         *)
LEMMA FirstOfBuffer ==
  ASSUME NEW i \in Instruments, NEW n \in Nat, seen = n, NEW g \in Nat \ {0}, BuffersFrom(i, g),
         buffer[i] \in Seq(Message), buffer[i] # <<>>,
         buffer'[i] = Tail(buffer[i]), UNCHANGED <<owner, seen>>
  PROVE  \E s \in g .. n : /\ owner[s] = i /\ Head(buffer[i]) = Update(i, s)
                           /\ \A u \in Own(i, g, n) : s <= u
                           /\ BuffersFrom(i, s + 1)'
<1> DEFINE B == buffer[i]
           q == [k \in 1 .. Len(B) |-> B[k].seq]
           C == buffer'[i]
           r == [k \in 1 .. Len(C) |-> C[k].seq]
<1>1. /\ Len(B) \in Nat \ {0} /\ Len(C) = Len(B) - 1 /\ Head(B) = B[1]
      /\ \A k \in 1 .. Len(C) : C[k] = B[k + 1] /\ k + 1 \in 1 .. Len(B)
  OBVIOUS
<1>2. \A k \in 1 .. Len(B) : B[k] = Update(i, B[k].seq) /\ B[k] \in Message
  BY DEF BuffersFrom
<1>3. \A k \in 1 .. Len(B) : B[k].seq \in OptSeq
  BY <1>2 DEF Message
<1>4. Lists(q, Own(i, g, n))
  BY DEF BuffersFrom
<1>5. q \in Seq(OptSeq) /\ Len(q) = Len(B) /\ q # <<>> /\ q[1] = B[1].seq
  BY <1>1, <1>3
<1>6. r = Tail(q)
  BY <1>1, <1>5
<1> HIDE DEF B, C, q
<1>7. /\ q[1] \in Own(i, g, n) /\ \A u \in Own(i, g, n) : q[1] <= u
      /\ Lists(Tail(q), Own(i, g, n) \ {q[1]})
  <2>1. Own(i, g, n) \in SUBSET Nat
    BY DEF Own
  <2> QED
    BY <1>4, <1>5, <2>1, ListsTail
<1>8. PICK s \in g .. n : q[1] = s /\ owner[s] = i
  BY <1>7 DEF Own
<1>9. Head(B) = Update(i, s)
  <2>1. 1 \in 1 .. Len(B)
    BY <1>1
  <2>2. B[1] = Update(i, B[1].seq) /\ B[1].seq = s
    BY <1>2, <1>5, <1>8, <2>1, Zenon
  <2> QED
    BY <1>1, <2>2, Zenon
<1>10. Own(i, s + 1, n) = Own(i, g, n) \ {s}
  <2>1. \A u \in Own(i, g, n) : s <= u
    BY <1>7, <1>8
  <2>2. ASSUME NEW u \in Own(i, g, n) \ {s} PROVE u \in Own(i, s + 1, n)
    BY <2>1 DEF Own
  <2>3. ASSUME NEW u \in Own(i, s + 1, n) PROVE u \in Own(i, g, n) \ {s}
    BY DEF Own
  <2> QED
    BY <2>2, <2>3
<1>11. BuffersFrom(i, s + 1)'
  <2>1. Own(i, s + 1, seen)' = Own(i, s + 1, n)
    BY DEF Own
  <2>2. Lists(r, Own(i, s + 1, seen)')
    BY <1>6, <1>7, <1>8, <1>10, <2>1
  <2>3. \A k \in 1 .. Len(C) : C[k] = Update(i, C[k].seq)
    BY <1>1, <1>2
  <2> QED
    BY <2>2, <2>3 DEF BuffersFrom, Lists, InOrder, C
<1> QED
  BY <1>7, <1>8, <1>9, <1>11 DEF B

(* A step of the replay loop that only moves on in the buffer. *)
LEMMA ReplayMoves ==
  ASSUME IInv, UNCHANGED <<server, book>>, NEW i \in Instruments, cur = i, UNCHANGED cur,
         pc \in {"replay", "replaying"}, pc' \in {"replay", "replaying"},
         lastSeq' \in OptSeq, msg' \in Message \cup {None}, part' \in {0, 1},
         buffer' \in [Instruments -> Seq(Message)],
         \A j \in Instruments : j # i => buffer'[j] = buffer[j],
         UNCHANGED <<streak, mode, overflowed, todo, endSeq, cmdq, wsq, rxOpen, wsOpen>>,
         pc' = "replaying" => \E s \in endSeq + 1 .. seen : owner[s] = i /\ msg' = Update(i, s),
         \A b \in Books : WhileReplaying(i, b) => WhileReplaying(i, b)'
  PROVE  IInv'
<1>0. Types /\ Tracking /\ Requests /\ Handling
  BY DEF IInv, Control
<1>1. UNCHANGED <<owner, seen, asked, job, book>>
  BY DEF server
<1>2. todo = {} /\ mode[i] = "Streaming" /\ endSeq <= seen
  BY <1>0 DEF Handling
<1>3. Types'
  BY <1>0, <1>1 DEF Types, Latest
<1>4. Handling'
  BY <1>1, <1>2 DEF Handling
<1>5. Tracking'
  BY <1>0, <1>1 DEF Tracking, Detectable, Latest
<1>6. Requests'
  <2>1. \A j \in Instruments : /\ ~Sending(j)' /\ ~Completing(j)' /\ ~Recovering(j)'
                               /\ Replaying(j)' <=> Replaying(j)
                               /\ Queued(j)' <=> Queued(j)
    BY <1>2 DEF Sending, Completing, Replaying, Recovering, Queued
  <2> QED
    BY <1>0, <1>1, <2>1 DEF Requests
<1>7. Grows
  BY <1>0, <1>1, SeqsFacts DEF Grows, Types
<1>8. ASSUME NEW j \in Instruments, j # i PROVE View(j)'
  <2>1. /\ ~Pending(j) /\ ~Pending(j)' /\ ~Completing(j) /\ ~Completing(j)'
        /\ ~Replaying(j) /\ ~Replaying(j)' /\ ~Recovering(j)' /\ ~Recovering(j)
    BY <1>8 DEF Pending, Recovering, Completing, Replaying
  <2> QED
    BY <1>0, <1>8, <2>1, ViewSteady DEF IInv
<1>9. View(i)'
  <2>1. ASSUME NEW b \in Books, Phase(i, b) PROVE Phase(i, b)'
    <3>1. Replaying(i)' /\ ~Completing(i)' /\ WhileReplaying(i, b)'
      BY <2>1 DEF Replaying, Completing, Phase
    <3> QED
      BY <1>2, <3>1 DEF Phase, WhileLoading, WhileCompleting, WhileStreaming
  <2> QED
    BY <1>0, <1>1, <1>7, <2>1, ViewKept DEF IInv
<1> QED
  BY <1>3, <1>4, <1>5, <1>6, <1>8, <1>9 DEF IInv, Control

LEMMA DiscardStep ==
  ASSUME IInv, ReplayDiscard, UNCHANGED <<server, book>>
  PROVE  IInv'
<1>0. Types /\ Handling
  BY DEF IInv, Control
<1>1. PICK i \in Instruments : cur = i
  BY <1>0 DEF ReplayDiscard, Handling
<1>2. /\ pc = "replay" /\ buffer[i] # <<>> /\ Head(buffer[i]).seq <= endSeq
      /\ buffer' = [buffer EXCEPT ![i] = Tail(buffer[i])]
      /\ UNCHANGED <<lastSeq, streak, mode, overflowed, pc, cur, msg, part, todo, endSeq,
                     cmdq, wsq, rxOpen, wsOpen, owner, seen, asked, job, book>>
  BY <1>1 DEF ReplayDiscard, tracker, serving, channels, server
<1> HIDE DEF Message
<1>3. /\ buffer[i] \in Seq(Message) /\ buffer'[i] = Tail(buffer[i])
      /\ buffer' \in [Instruments -> Seq(Message)]
      /\ \A j \in Instruments : j # i => buffer'[j] = buffer[j]
  <2>1. buffer[i] \in Seq(Message) /\ Tail(buffer[i]) \in Seq(Message)
    BY <1>0, <1>2 DEF Types
  <2> QED
    BY <1>0, <1>2, <2>1 DEF Types
<1>4. PICK n \in Nat : seen = n
  BY <1>0, SeqsFacts DEF Types
<1>5. PICK e \in Nat : endSeq = e
  BY <1>0, SeqsFacts DEF Types
<1>6. ASSUME NEW b \in Books, WhileReplaying(i, b) PROVE WhileReplaying(i, b)'
  <2>1. Replaying(i) /\ Replaying(i)'
    BY <1>1, <1>2 DEF Replaying
  <2>2. /\ ~b.done /\ b.pieces = FullSnapshot(e)
        /\ \E g \in 1 .. n + 1 : BuffersFrom(i, g) /\ Lists(b.updates, Own(i, e + 1, g - 1))
    BY <1>2, <1>4, <1>5, <1>6, <2>1 DEF WhileReplaying
  <2>3. PICK g \in 1 .. n + 1 : BuffersFrom(i, g) /\ Lists(b.updates, Own(i, e + 1, g - 1))
    BY <2>2
  <2>4. PICK s \in g .. n : Head(buffer[i]) = Update(i, s) /\ BuffersFrom(i, s + 1)'
    BY <1>2, <1>3, <1>4, <2>3, FirstOfBuffer
  <2>5. s <= e
    BY <1>2, <1>5, <2>4 DEF Update
  <2>6. Own(i, e + 1, g - 1) = {} /\ Own(i, e + 1, (s + 1) - 1)' = {}
    <3>1. (\A u \in e + 1 .. g - 1 : FALSE) /\ (\A u \in e + 1 .. (s + 1) - 1 : FALSE)
      BY <2>4, <2>5
    <3> QED
      BY <3>1 DEF Own
  <2>7. Lists(b.updates, Own(i, e + 1, (s + 1) - 1))'
    BY <2>3, <2>6 DEF Lists, InOrder
  <2>8. s + 1 \in 1 .. n + 1
    BY <2>3, <2>4
  <2>9. pc' = "replay" /\ seen' = n /\ endSeq' = e /\ FullSnapshot(e)' = FullSnapshot(e)
    BY <1>2, <1>4, <1>5 DEF FullSnapshot
  <2>10. PICK h \in 1 .. n + 1 : h = s + 1
    BY <2>8
  <2>11. BuffersFrom(i, h)' /\ Lists(b.updates, Own(i, endSeq + 1, h - 1))'
    BY <2>4, <2>7, <2>9, <2>10
  <2>12. ~b.done /\ b.pieces = FullSnapshot(endSeq)' /\ h \in 1 .. seen' + 1
    BY <2>2, <2>9
  <2> QED
    BY <2>9, <2>11, <2>12 DEF WhileReplaying
<1> QED
  BY <1>0, <1>1, <1>2, <1>3, <1>6, ReplayMoves DEF Types

LEMMA ReplayStartStep ==
  ASSUME IInv, ReplayStart, UNCHANGED <<server, book>>
  PROVE  IInv'
<1>0. Types /\ Handling
  BY DEF IInv, Control
<1>1. PICK i \in Instruments : cur = i
  BY <1>0 DEF ReplayStart, Handling
<1>2. /\ pc = "replay" /\ buffer[i] # <<>> /\ Head(buffer[i]).seq > endSeq
      /\ buffer' = [buffer EXCEPT ![i] = Tail(buffer[i])]
      /\ msg' = Head(buffer[i]) /\ part' = 0 /\ pc' = "replaying"
      /\ UNCHANGED <<lastSeq, streak, mode, overflowed, cur, todo, endSeq,
                     cmdq, wsq, rxOpen, wsOpen, owner, seen, asked, job, book>>
  BY <1>1 DEF ReplayStart, tracker, channels, server
<1> HIDE DEF Message
<1>3. /\ buffer[i] \in Seq(Message) /\ buffer'[i] = Tail(buffer[i]) /\ Head(buffer[i]) \in Message
      /\ buffer' \in [Instruments -> Seq(Message)]
      /\ \A j \in Instruments : j # i => buffer'[j] = buffer[j]
  <2>1. buffer[i] \in Seq(Message) /\ Tail(buffer[i]) \in Seq(Message) /\ Head(buffer[i]) \in Message
    BY <1>0, <1>2 DEF Types
  <2> QED
    BY <1>0, <1>2, <2>1 DEF Types
<1>4. PICK n \in Nat : seen = n
  BY <1>0, SeqsFacts DEF Types
<1>5. PICK e \in Nat : endSeq = e
  BY <1>0, SeqsFacts DEF Types
<1>6. ASSUME NEW b \in Books, WhileReplaying(i, b)
      PROVE  /\ WhileReplaying(i, b)'
             /\ \E s \in e + 1 .. n : owner[s] = i /\ msg' = Update(i, s)
  <2>1. Replaying(i) /\ Replaying(i)'
    BY <1>1, <1>2 DEF Replaying
  <2>2. /\ ~b.done /\ b.pieces = FullSnapshot(e)
        /\ \E g \in 1 .. n + 1 : BuffersFrom(i, g) /\ Lists(b.updates, Own(i, e + 1, g - 1))
    BY <1>2, <1>4, <1>5, <1>6, <2>1 DEF WhileReplaying
  <2>3. PICK g \in 1 .. n + 1 : BuffersFrom(i, g) /\ Lists(b.updates, Own(i, e + 1, g - 1))
    BY <2>2
  <2>4. PICK s \in g .. n : /\ owner[s] = i /\ Head(buffer[i]) = Update(i, s)
                            /\ \A u \in Own(i, g, n) : s <= u
                            /\ BuffersFrom(i, s + 1)'
    BY <1>2, <1>3, <1>4, <2>3, FirstOfBuffer
  <2>5. s > e /\ s \in e + 1 .. n /\ msg' = Update(i, s) /\ msg'.seq = s
    BY <1>2, <1>5, <2>4 DEF Update
  <2>6. Own(i, e + 1, s - 1 + 0)' = Own(i, e + 1, g - 1)
    <3>1. Own(i, e + 1, s - 1 + 0)' = {u \in e + 1 .. s - 1 : owner[u] = i}
      BY <1>2, <2>4 DEF Own
    <3>2. ASSUME NEW u \in e + 1 .. s - 1, owner[u] = i PROVE u \in e + 1 .. g - 1
      <4>1. u \notin Own(i, g, n)
        BY <2>4, <2>5
      <4>2. ~(g <= u /\ u <= n)
        BY <2>3, <3>2, <4>1 DEF Own
      <4> QED
        BY <2>3, <2>4, <4>2
    <3>3. \A u \in e + 1 .. g - 1 : u \in e + 1 .. s - 1
      BY <2>3, <2>4
    <3> QED
      BY <3>1, <3>2, <3>3 DEF Own
  <2>7. Lists(b.updates, Own(i, e + 1, s - 1 + 0))'
    BY <2>3, <2>6 DEF Lists, InOrder
  <2>8. pc' = "replaying" /\ endSeq' = e /\ part' = 0 /\ FullSnapshot(e)' = FullSnapshot(e)
    BY <1>2, <1>5 DEF FullSnapshot
  <2>9. BuffersFrom(i, msg.seq + 1)' /\ Lists(b.updates, Own(i, endSeq + 1, msg.seq - 1 + part))'
    BY <2>4, <2>5, <2>7, <2>8
  <2>10. ~b.done /\ b.pieces = FullSnapshot(endSeq)'
    BY <2>2, <2>8
  <2>11. WhileReplaying(i, b)'
    BY <2>8, <2>9, <2>10 DEF WhileReplaying
  <2>12. \E v \in e + 1 .. n : owner[v] = i /\ msg' = Update(i, v)
    BY <2>4, <2>5
  <2> QED
    BY <2>11, <2>12
<1>7. \E b \in Books : WhileReplaying(i, b)
  <2>1. PICK t \in Seq(Books) : Follows(i, t)
    BY DEF IInv, View
  <2>2. Len(t) \in 1 .. Len(t) /\ Phase(i, t[Len(t)])
    BY <1>0, <2>1 DEF Follows, Trail, Types
  <2>3. t[Len(t)] \in Books
    BY <2>2
  <2> QED
    BY <2>2, <2>3 DEF Phase
<1>8. \E s \in endSeq + 1 .. seen : owner[s] = i /\ msg' = Update(i, s)
  BY <1>4, <1>5, <1>6, <1>7
<1> QED
  BY <1>0, <1>1, <1>2, <1>3, <1>6, <1>8, ReplayMoves DEF Types

LEMMA ReplayNextStep ==
  ASSUME IInv, ReplayNext, UNCHANGED <<server, book>>
  PROVE  IInv'
<1>0. Types /\ Handling
  BY DEF IInv, Control
<1>1. PICK i \in Instruments : cur = i
  BY <1>0 DEF ReplayNext, Handling
<1>2. /\ pc = "replaying" /\ part = msg.n /\ lastSeq' = msg.seq /\ pc' = "replay"
      /\ msg' = None /\ part' = 0
      /\ UNCHANGED <<streak, mode, buffer, overflowed, cur, todo, endSeq,
                     cmdq, wsq, rxOpen, wsOpen, owner, seen, asked, job, book>>
  BY <1>1 DEF ReplayNext, loading, channels, server
<1>3. PICK n \in Nat : seen = n
  BY <1>0, SeqsFacts DEF Types
<1>4. PICK e \in Nat : endSeq = e
  BY <1>0, SeqsFacts DEF Types
<1>5. PICK s \in e + 1 .. n : owner[s] = i /\ msg = Update(i, s)
  BY <1>0, <1>1, <1>2, <1>3, <1>4 DEF Handling
<1>6. msg.n = 1 /\ msg.seq = s /\ s \in Nat /\ s \in OptSeq /\ part = 1
  <2>1. msg.n = 1 /\ msg.seq = s
    BY <1>5 DEF Update
  <2>2. n \in 0 .. MaxSeq /\ MaxSeq \in Nat
    BY <1>0, <1>3, SeqsFacts DEF Types
  <2>3. s \in Nat /\ s \in 0 .. MaxSeq
    BY <2>2
  <2> QED
    BY <1>2, <2>1, <2>3, SeqsFacts DEF OptSeq
<1>7. ASSUME NEW b \in Books, WhileReplaying(i, b) PROVE WhileReplaying(i, b)'
  <2>1. Replaying(i) /\ Replaying(i)'
    BY <1>1, <1>2 DEF Replaying
  <2>2. msg.seq - 1 + part = s /\ (s + 1) - 1 = s
    BY <1>5, <1>6
  <2>3. /\ ~b.done /\ b.pieces = FullSnapshot(e)
        /\ BuffersFrom(i, s + 1) /\ Lists(b.updates, Own(i, e + 1, s))
    BY <1>2, <1>4, <1>6, <1>7, <2>1, <2>2 DEF WhileReplaying
  <2>4. BuffersFrom(i, s + 1)'
    <3>1. Own(i, s + 1, seen)' = Own(i, s + 1, seen) /\ buffer'[i] = buffer[i]
      BY <1>2 DEF Own
    <3> QED
      BY <2>3, <3>1, BuffersKept
  <2>5. Own(i, e + 1, (s + 1) - 1)' = Own(i, e + 1, s)
    BY <1>2, <2>2 DEF Own
  <2>6. Lists(b.updates, Own(i, e + 1, (s + 1) - 1))'
    BY <2>3, <2>5 DEF Lists, InOrder
  <2>7. pc' = "replay" /\ seen' = n /\ endSeq' = e /\ FullSnapshot(e)' = FullSnapshot(e)
    BY <1>2, <1>3, <1>4 DEF FullSnapshot
  <2>8. s + 1 \in 1 .. n + 1
    BY <1>4, <1>5
  <2>9. PICK h \in 1 .. n + 1 : h = s + 1
    BY <2>8
  <2>10. BuffersFrom(i, h)' /\ Lists(b.updates, Own(i, endSeq + 1, h - 1))'
    BY <2>4, <2>6, <2>7, <2>9
  <2>11. ~b.done /\ b.pieces = FullSnapshot(endSeq)' /\ h \in 1 .. seen' + 1
    BY <2>3, <2>7
  <2> QED
    BY <2>7, <2>10, <2>11 DEF WhileReplaying
<1> QED
  BY <1>0, <1>1, <1>2, <1>6, <1>7, ReplayMoves DEF Types

(* The buffer is drained: the book has all that was seen.                   *)
LEMMA FinishStep ==
  ASSUME IInv, CompleteEnd, UNCHANGED <<server, book>>
  PROVE  IInv'
<1>0. Types /\ Tracking /\ Requests /\ Handling
  BY DEF IInv, Control
<1>1. PICK i \in Instruments : cur = i
  BY <1>0 DEF CompleteEnd, Handling
<1>2. todo = {} /\ mode[i] = "Streaming" /\ endSeq <= seen
  BY <1>0, <1>1 DEF Handling, CompleteEnd
<1>3. /\ pc = "replay" /\ buffer[i] = <<>> /\ pc' = "recv" /\ cur' = None /\ endSeq' = 0
      /\ cmdq' = [cmdq EXCEPT ![i] = Append(cmdq[i], SnapshotComplete)] /\ streak' = 0
      /\ UNCHANGED <<lastSeq, mode, buffer, overflowed, msg, part, todo, wsq, rxOpen, wsOpen,
                     owner, seen, asked, job, book>>
  BY <1>1, <1>2 DEF CompleteEnd, Send, loading, server
<1>4. PICK n \in Nat : seen = n
  BY <1>0, SeqsFacts DEF Types
<1>5. PICK e \in Seqs : endSeq = e
  BY <1>0 DEF Types
<1>6. SnapshotComplete \in Command /\ 0 \in Seqs /\ 0 \in 0 .. MinStreak /\ n \in Seqs /\ e \in Nat
  BY <1>0, <1>4, MessageTypes, SeqsFacts, DispatcherAssumption DEF Types
<1> HIDE DEF Command
<1>7. /\ cmdq'[i] = Append(cmdq[i], SnapshotComplete)
      /\ cmdq' \in [Instruments -> Seq(Command)]
      /\ \A j \in Instruments : j # i => cmdq'[j] = cmdq[j]
  <2>1. Append(cmdq[i], SnapshotComplete) \in Seq(Command)
    BY <1>0, <1>6 DEF Types
  <2> QED
    BY <1>0, <1>3, <2>1 DEF Types
<1>8. Types'
  <2>1. pc' = "recv" /\ cur' \in Instruments \cup {None} /\ endSeq' \in Seqs /\ streak' \in 0 .. MinStreak
    BY <1>3, <1>6
  <2> QED
    BY <1>0, <1>3, <1>7, <2>1 DEF Types, Latest
<1>9. Handling'
  BY <1>2, <1>3 DEF Handling
<1>10. Requests'
  <2>1. \A j \in Instruments : /\ ~Sending(j)' /\ ~Completing(j)' /\ ~Recovering(j)' /\ ~Replaying(j)'
                               /\ Queued(j)' <=> Queued(j)
    BY <1>3 DEF Sending, Completing, Replaying, Recovering, Queued
  <2> QED
    BY <1>0, <1>3, <2>1 DEF Requests
<1>11. Tracking'
  BY <1>0, <1>3 DEF Tracking, Detectable, Latest
<1>12. Grows
  BY <1>0, <1>3, SeqsFacts DEF Grows, Types
<1>13. ASSUME NEW j \in Instruments, j # i PROVE View(j)'
  <2>1. /\ ~Pending(j) /\ ~Pending(j)' /\ ~Completing(j) /\ ~Completing(j)'
        /\ ~Replaying(j) /\ ~Replaying(j)' /\ ~Recovering(j)' /\ ~Recovering(j)
    BY <1>1, <1>3, <1>13 DEF Pending, Recovering, Completing, Replaying
  <2> QED
    BY <1>0, <1>3, <1>7, <1>13, <2>1, ViewSteady DEF IInv
<1>14. View(i)'
  <2>1. ASSUME NEW b \in Books, Phase(i, b)
        PROVE  Phase(i, Applied(b, SnapshotComplete))' /\ Sound(i, Applied(b, SnapshotComplete))'
    <3> DEFINE d == Applied(b, SnapshotComplete)
    <3>1. d.done /\ d.pieces = b.pieces /\ d.updates = b.updates
      BY DEF Applied, SnapshotComplete, Books
    <3> HIDE DEF d
    <3>2. Replaying(i) /\ ~Replaying(i)' /\ ~Recovering(i)' /\ ~Completing(i)' /\ ~Pending(i)'
      BY <1>1, <1>3 DEF Replaying, Recovering, Completing, Pending
    <3>3. /\ b.pieces = FullSnapshot(e)
          /\ \E g \in 1 .. n + 1 : BuffersFrom(i, g) /\ Lists(b.updates, Own(i, e + 1, g - 1))
      BY <1>3, <1>4, <1>5, <2>1, <3>2 DEF Phase, WhileReplaying
    <3>4. PICK g \in 1 .. n + 1 : BuffersFrom(i, g) /\ Lists(b.updates, Own(i, e + 1, g - 1))
      BY <3>3
    <3>5. Own(i, g, n) = {}
      <4>1. Len(buffer[i]) = 0
        BY <1>3
      <4>2. \A k \in 1 .. Len(buffer[i]) : FALSE
        BY <4>1
      <4> QED
        BY <1>4, <3>4, <4>2 DEF BuffersFrom, Lists
    <3>6. Own(i, e + 1, n) = Own(i, e + 1, g - 1)
      <4>1. ASSUME NEW u \in Own(i, e + 1, n) PROVE u \in Own(i, e + 1, g - 1)
        <5>1. u \notin Own(i, g, n) /\ u \in e + 1 .. n /\ owner[u] = i
          BY <3>5 DEF Own
        <5>2. ~(g <= u /\ u <= n)
          BY <3>4, <5>1 DEF Own
        <5> QED
          BY <1>6, <3>4, <5>1, <5>2 DEF Own
      <4>2. ASSUME NEW u \in Own(i, e + 1, g - 1) PROVE u \in Own(i, e + 1, n)
        BY <3>4 DEF Own
      <4> QED
        BY <4>1, <4>2
    <3>7. Own(i, e + 1, n)' = Own(i, e + 1, n)
      BY <1>3 DEF Own
    <3>8. Holds(i, d, e, n)'
      <4>1. e <= n
        BY <1>2, <1>4, <1>5
      <4> QED
        BY <3>1, <3>3, <3>4, <3>6, <3>7, <4>1 DEF Holds, Lists, InOrder, FullSnapshot
    <3>9. seen' = n /\ n <= seen'
      BY <1>3, <1>4
    <3>10. Sound(i, d)'
      BY <1>6, <3>8, <3>9 DEF Sound
    <3>11. WhileStreaming(i, d)'
      <4>1. Holds(i, d, e, seen)'
        BY <3>8, <3>9
      <4> QED
        BY <3>1, <3>2, <4>1 DEF WhileStreaming
    <3>12. Phase(i, d)'
      BY <1>2, <1>3, <3>2, <3>11 DEF Phase, WhileLoading, WhileCompleting, WhileReplaying
    <3> QED
      BY <3>10, <3>12 DEF d
  <2> QED
    BY <1>0, <1>3, <1>6, <1>7, <1>12, <2>1, ViewSent DEF IInv
<1> QED
  BY <1>8, <1>9, <1>10, <1>11, <1>13, <1>14 DEF IInv, Control

LEMMA DispatchStep ==
  ASSUME IInv, Fits, Dispatch
  PROVE  IInv'
<1>0. Types /\ Handling /\ UNCHANGED <<server, book>>
  BY DEF IInv, Control, Dispatch
<1>1. ~SendFails
  <2> SUFFICES ASSUME SendFails PROVE FALSE
    OBVIOUS
  <2>1. wsOpen /\ \A i \in Instruments : rxOpen[i]
    BY <1>0 DEF Types
  <2>2. todo \subseteq Instruments
    BY <1>0 DEF Types
  <2>3. pc \in {"events", "replaying", "replay"} => cur \in Instruments
    BY <1>0 DEF Handling
  <2> QED
    BY <2>1, <2>2, <2>3 DEF SendFails
<1>2. \/ \E i \in Instruments : RecoverClear(i) \/ CompleteStart(i)
      \/ RecoverRequest \/ SendEvent \/ EventsDone
      \/ ReplayDiscard \/ ReplayStart \/ ReplayNext \/ CompleteEnd
  BY <1>1 DEF Dispatch, Proceed
<1> QED
  BY <1>0, <1>2, ClearStep, CompleteStep, RequestStep, SendStep, DoneStep, DiscardStep,
     ReplayStartStep, ReplayNextStep, FinishStep

-----------------------------------------------------------------------------
(* The invariant holds at the start and in every step of a run in which no  *)
(* buffer overflows.                                                        *)

LEMMA InitIInv == ASSUME Init PROVE IInv
<1> USE DispatcherAssumption, SyncAssumption
<1>1. Seqs = 0 .. MaxSeq /\ 0 \in Seqs /\ None \in OptSeq
  BY SeqsFacts DEF OptSeq
<1>2. Idle \in Jobs /\ EmptyBook \in Books
  BY <1>1 DEF Idle, Jobs, EmptyBook, Books
<1>3. Len(owner) = 0 /\ Len(wsq) = 0 /\ seen = 0
  BY DEF Init, DInit
<1>4. Types
  <2>1. cmdq \in [Instruments -> Seq(Command)] /\ buffer \in [Instruments -> Seq(Message)]
    BY DEF Init, DInit
  <2>2. job \in [Instruments -> Jobs] /\ book \in [Instruments -> Books]
    BY <1>2 DEF Init
  <2>3. /\ lastSeq \in OptSeq /\ streak \in 0 .. MinStreak /\ pc = "recv"
        /\ cur \in Instruments \cup {None} /\ msg \in Message \cup {None}
        /\ part \in {0, 1} /\ todo \in SUBSET Instruments /\ endSeq \in Seqs
        /\ mode \in [Instruments -> {"Streaming", "Loading"}]
        /\ overflowed \in [Instruments -> BOOLEAN]
    BY <1>1 DEF Init, DInit
  <2>4. /\ rxOpen = [i \in Instruments |-> TRUE] /\ wsOpen = TRUE /\ wsq \in Seq(Instruments)
        /\ owner \in Seq(Instruments) /\ asked \in SUBSET Instruments
    BY DEF Init, DInit
  <2>5. Latest \in Seqs /\ seen \in Seqs /\ seen <= Latest
    BY <1>1, <1>3 DEF Latest
  <2> QED
    BY <2>1, <2>2, <2>3, <2>4, <2>5 DEF Types
<1>5. Handling /\ Tracking
  BY <1>3 DEF Init, DInit, Handling, Tracking, Latest
<1>6. Requests
  BY <1>3 DEF Init, DInit, Requests, Queued, Sending, Recovering, Completing, Replaying
<1>7. ASSUME NEW i \in Instruments PROVE View(i)
  <2> DEFINE t == <<EmptyBook>>
  <2>1. t \in Seq(Books) /\ Len(t) = 1 /\ t[1] = EmptyBook
    BY <1>2
  <2>2. cmdq[i] = <<>> /\ Len(cmdq[i]) = 0 /\ book[i] = EmptyBook
    BY DEF Init, DInit
  <2> HIDE DEF t
  <2>3. Trail(i, t)
    BY <2>1, <2>2 DEF Trail
  <2>4. \A k \in 1 .. Len(t) : Sound(i, t[k])
    <3>1. \A k \in 1 .. Len(t) : k = 1
      BY <2>1
    <3> QED
      BY <2>1, <3>1 DEF Sound, EmptyBook
  <2>5. Phase(i, t[Len(t)])
    <3>1. mode[i] = "Streaming" /\ i \in asked /\ pc = "recv"
      BY DEF Init, DInit
    <3> QED
      BY <2>1, <3>1 DEF Phase, WhileLoading, WhileCompleting, WhileReplaying, WhileStreaming,
         Completing, Replaying, EmptyBook
  <2> QED
    BY <2>1, <2>3, <2>4, <2>5 DEF View, Follows
<1> QED
  BY <1>4, <1>5, <1>6, <1>7 DEF IInv, Control

LEMMA StutterIInv == ASSUME IInv, UNCHANGED vars PROVE IInv'
<1>1. UNCHANGED <<lastSeq, streak, mode, buffer, overflowed, pc, cur, msg, part, todo, endSeq,
                  cmdq, wsq, rxOpen, wsOpen, owner, seen, asked, job, book>>
  BY DEF vars, dvars, server
<1>2. Control'
  BY <1>1 DEF IInv, Control, Types, Handling, Requests, Queued, Sending, Recovering, Completing,
     Replaying, Tracking, Detectable, LoadingSet, Latest
<1>3. ASSUME NEW i \in Instruments PROVE View(i)'
  <2>1. /\ Pending(i)' <=> Pending(i)
        /\ Recovering(i)' <=> Recovering(i)
        /\ Completing(i)' <=> Completing(i)
        /\ Replaying(i)' <=> Replaying(i)
    BY <1>1 DEF Pending, Recovering, Completing, Replaying
  <2> QED
    BY <1>1, <2>1, ViewSteady DEF IInv, Control, server
<1> QED
  BY <1>2, <1>3 DEF IInv

LEMMA NextIInv ==
  ASSUME Regular, Fits, Fits', IInv, [Next]_vars
  PROVE  IInv'
<1>1. ASSUME NEW i \in Instruments, Serve(i) PROVE IInv'
  BY <1>1, CaptureStep, EntriesStep, EndStep DEF Serve
<1>2. CASE UNCHANGED vars
  BY <1>2, StutterIInv
<1>3. CASE Quiet
  BY <1>3, StutterIInv DEF Quiet
<1> QED
  BY <1>1, <1>2, <1>3, PublishStep, LoseStep, TakeStep, WriterStep, DispatchStep DEF Next

(* The invariant, for every feed and every snapshot, while no buffer        *)
(* overflows (dispatcher.rs:18-28).                                         *)
THEOREM Invariance == Regular => (Spec /\ []Fits => []IInv)
<1> SUFFICES ASSUME Regular PROVE Spec /\ []Fits => []IInv
  OBVIOUS
<1>1. Init => IInv
  BY InitIInv
<1>2. Fits /\ Fits' /\ IInv /\ [Next]_vars => IInv'
  BY NextIInv
<1> QED
  BY <1>1, <1>2, PTL DEF Spec

(* A pipeline that was told its snapshot is complete holds every entry of   *)
(* one snapshot and of no other, whatever else is published, lost, asked    *)
(* for or under way (dispatcher.rs:69-71).                                  *)
THEOREM LoadsAreWhole == Regular => (Spec /\ []Fits => []CompletionMeansLoaded)
<1> SUFFICES ASSUME Regular PROVE Spec /\ []Fits => []CompletionMeansLoaded
  OBVIOUS
<1>1. IInv => CompletionMeansLoaded
  <2> SUFFICES ASSUME IInv, NEW i \in Instruments, book[i].done
               PROVE  \E S \in Seqs : book[i].pieces = FullSnapshot(S)
    BY DEF CompletionMeansLoaded
  <2>1. PICK t \in Seq(Books) : Follows(i, t)
    BY DEF IInv, View
  <2>2. t[1] = book[i] /\ 1 \in 1 .. Len(t)
    BY <2>1 DEF Follows, Trail, IInv, Control, Types
  <2>3. Sound(i, book[i])
    BY <2>1, <2>2 DEF Follows
  <2> QED
    BY <2>3 DEF Sound, Holds
<1> QED
  BY <1>1, Invariance, PTL

(* When the dispatcher is idle and the pipeline has caught up, the book of  *)
(* a streaming instrument is the exchange's: a full snapshot and exactly    *)
(* the updates it does not contain, in order (dispatcher.rs:18-28).         *)
THEOREM BooksAreCurrent == Regular => (Spec /\ []Fits => []BookIsCurrent)
<1> SUFFICES ASSUME Regular PROVE Spec /\ []Fits => []BookIsCurrent
  OBVIOUS
<1>1. IInv => BookIsCurrent
  <2> SUFFICES ASSUME IInv, NEW i \in Instruments,
                      book[i].done, cmdq[i] = <<>>, Streams(i), pc = "recv"
               PROVE  \E S \in Seqs : /\ book[i].pieces = FullSnapshot(S)
                                      /\ Lists(book[i].updates, Own(i, S + 1, seen))
    BY DEF BookIsCurrent
  <2>1. PICK t \in Seq(Books) : Follows(i, t)
    BY DEF IInv, View
  <2>2. Len(t) = 1 /\ t[1] = book[i]
    BY <2>1 DEF Follows, Trail
  <2>3. WhileStreaming(i, book[i])
    BY <2>1, <2>2 DEF Follows, Phase
  <2>4. ~Recovering(i) /\ ~Replaying(i) /\ ~Pending(i)
    BY DEF Recovering, Replaying, Pending
  <2>5. PICK S \in Seqs : Holds(i, book[i], S, seen)
    BY <2>3, <2>4 DEF WhileStreaming, Streams
  <2> QED
    BY <2>5 DEF Holds
<1> QED
  BY <1>1, Invariance, PTL

-----------------------------------------------------------------------------
(* No buffer overflows that could hold the whole feed. *)

LEMMA ListFits ==
  ASSUME NEW n \in Nat, NEW q, Len(q) \in Nat, NEW U \in SUBSET (1 .. n), Lists(q, U)
  PROVE  Len(q) <= n
<1> SUFFICES ASSUME n < Len(q) PROVE FALSE
  OBVIOUS
<1> DEFINE f == [k \in 1 .. Len(q) |-> q[k]]
<1>1. \A k \in 1 .. Len(q) : q[k] \in 1 .. n
  BY DEF Lists
<1>2. f \in [1 .. Len(q) -> 1 .. n]
  BY <1>1
<1>3. /\ IsFiniteSet(1 .. Len(q)) /\ Cardinality(1 .. Len(q)) = Len(q)
      /\ IsFiniteSet(1 .. n) /\ Cardinality(1 .. n) = n
  <2>1. ASSUME NEW m \in Nat PROVE IsFiniteSet(1 .. m) /\ Cardinality(1 .. m) = m
    <3>1. 1 \in Int /\ m \in Int
      OBVIOUS
    <3>2. IsFiniteSet(1 .. m) /\ Cardinality(1 .. m) = IF 1 > m THEN 0 ELSE m - 1 + 1
      BY <3>1, FS_Interval
    <3> QED
      BY <3>2
  <2> QED
    BY <2>1
<1>4. \E x, y \in 1 .. Len(q) : x # y /\ f[x] = f[y]
  <2> HIDE DEF f
  <2> QED
    BY <1>2, <1>3, FS_PigeonHole
<1>5. PICK x \in 1 .. Len(q), y \in 1 .. Len(q) : x # y /\ q[x] = q[y]
  BY <1>4
<1>6. q[x] < q[y] \/ q[y] < q[x]
  BY <1>5 DEF Lists, InOrder
<1> QED
  BY <1>1, <1>5, <1>6

(* Only an update that finds its instrument's buffer full overflows it.     *)
LEMMA OverflowsWhenFull ==
  ASSUME IInv, [Next]_vars, Fits
  PROVE  \/ Fits'
         \/ \E i \in Instruments : /\ mode[i] = "Loading" /\ pc = "recv"
                                   /\ Len(buffer[i]) >= BufferLimit /\ Latest < MaxSeq
<1>0. Types
  BY DEF IInv, Control
<1>1. ASSUME UNCHANGED overflowed PROVE Fits'
  BY <1>1 DEF Fits
<1>2. ASSUME NEW i \in Instruments, overflowed' = [overflowed EXCEPT ![i] = FALSE] PROVE Fits'
  BY <1>0, <1>2 DEF Fits, Types
<1>3. ASSUME NEW i \in Instruments, Publish(i)
      PROVE  \/ Fits'
             \/ \E j \in Instruments : /\ mode[j] = "Loading" /\ pc = "recv"
                                       /\ Len(buffer[j]) >= BufferLimit /\ Latest < MaxSeq
  <2>1. Latest + 1 \in Seqs /\ Latest < MaxSeq
    BY <1>0, <1>3, SeqsFacts DEF Types, Publish
  <2>2. \/ DboGap(Update(i, Latest + 1)) \/ DboStream(Update(i, Latest + 1))
        \/ DboBuffer(Update(i, Latest + 1))
    BY <1>0, <1>3, <2>1, ReceiveUpdate DEF Publish
  <2>3. CASE DboGap(Update(i, Latest + 1)) \/ DboStream(Update(i, Latest + 1))
    BY <1>1, <2>3 DEF DboGap, DboStream, loading
  <2>4. CASE DboBuffer(Update(i, Latest + 1))
    <3>1. pc = "recv" /\ mode[i] = "Loading"
      BY <1>0, <2>4 DEF DboBuffer, Streams, Types, Update
    <3>2. UNCHANGED overflowed \/ Len(buffer[i]) >= BufferLimit
      BY <2>4 DEF DboBuffer, Update
    <3> QED
      BY <1>1, <2>1, <3>1, <3>2
  <2> QED
    BY <2>2, <2>3, <2>4
<1>4. ASSUME NEW i \in Instruments, Serve(i) PROVE Fits'
  <2>1. CASE Capture(i)
    BY <1>1, <2>1 DEF Capture, dvars
  <2>2. ASSUME NEW S \in Seqs, NEW p \in 1 .. Pieces, Receive(Entry(i, S, p)) PROVE Fits'
    <3>1. SnapColdStart(Entry(i, S, p)) \/ SnapEntry(Entry(i, S, p))
      BY <1>0, <2>2, ReceiveEntry
    <3>2. CASE SnapColdStart(Entry(i, S, p))
      BY <1>2, <3>2 DEF SnapColdStart, Entry
    <3>3. CASE SnapEntry(Entry(i, S, p))
      BY <1>1, <3>3 DEF SnapEntry, loading
    <3> QED
      BY <3>1, <3>2, <3>3
  <2>3. CASE CaptureAndSend(i)
    <3>1. Latest \in Seqs /\ Pieces \in 1 .. Pieces
      BY <1>0, SyncAssumption DEF Types
    <3> QED
      BY <2>2, <2>3, <3>1 DEF CaptureAndSend
  <2>4. CASE SendEntry(i)
    <3>1. job[i] # Idle /\ job[i] \in Jobs /\ job[i].left > 0
      BY <1>0, <2>4 DEF SendEntry, Idle, Types
    <3>2. job[i].at \in Seqs /\ job[i].left \in 1 .. Pieces
      BY <3>1, SyncAssumption DEF IInv, Control, Requests, Jobs, OptSeq
    <3> QED
      BY <2>2, <2>4, <3>2 DEF SendEntry
  <2>5. CASE SendClosing(i)
    <3>1. UNCHANGED overflowed
      BY <2>5 DEF SendClosing, Receive, DboForeign, DboGap, DboStream, DboBuffer, SnapForeign,
         SnapColdStart, SnapColdStartFails, SnapEntry, Sentinel, SentinelStray, EndEvent,
         EndEventStray, SubscriptionAck, Other, Logout, Closing, EndMark, loading, dvars, Fail
    <3> QED
      BY <1>1, <3>1
  <2> QED
    BY <1>4, <2>1, <2>3, <2>4, <2>5 DEF Serve
<1>5. ASSUME Dispatch PROVE Fits'
  <2>1. CASE \E i \in Instruments : RecoverClear(i) \/ CompleteStart(i)
    BY <1>2, <2>1 DEF RecoverClear, CompleteStart
  <2>2. CASE \/ RecoverRequest \/ SendEvent \/ EventsDone \/ ReplayDiscard \/ ReplayStart
             \/ ReplayNext \/ CompleteEnd \/ SendFails
    BY <1>1, <2>2 DEF RecoverRequest, SendEvent, EventsDone, ReplayDiscard, ReplayStart,
       ReplayNext, CompleteEnd, SendFails, Fail, loading
  <2> QED
    BY <1>5, <2>1, <2>2 DEF Dispatch, Proceed
<1>6. ASSUME \/ \E i \in Instruments : Lose(i) \/ PipelineTakes(i)
             \/ WriterTakes \/ Quiet \/ UNCHANGED vars
      PROVE  Fits'
  BY <1>1, <1>6 DEF Lose, PipelineTakes, WriterTakes, Quiet, vars, dvars, loading
<1> QED
  BY <1>3, <1>4, <1>5, <1>6 DEF Next

LEMMA LargeBufferFits ==
  ASSUME IInv, Fits, [Next]_vars, MaxSeq <= BufferLimit
  PROVE  Fits'
<1> SUFFICES ASSUME NEW i \in Instruments, mode[i] = "Loading", pc = "recv",
                    Len(buffer[i]) >= BufferLimit, Latest < MaxSeq
             PROVE  FALSE
  BY OverflowsWhenFull
<1>0. /\ seen \in Nat /\ Latest \in Nat /\ seen <= Latest /\ MaxSeq \in Nat /\ BufferLimit \in Nat
      /\ buffer[i] \in Seq(Message)
  BY SeqsFacts, DispatcherAssumption DEF IInv, Control, Types
<1>1. \E g \in 1 .. seen + 1 : BuffersFrom(i, g)
  <2>1. PICK t \in Seq(Books) : Follows(i, t)
    BY DEF IInv, View
  <2> QED
    BY <2>1 DEF Follows, Phase, WhileLoading, Completing
<1>2. PICK g \in 1 .. seen + 1 : BuffersFrom(i, g)
  BY <1>1
<1> DEFINE q == [k \in 1 .. Len(buffer[i]) |-> buffer[i][k].seq]
<1>3. Len(q) = Len(buffer[i]) /\ Len(q) \in Nat
  BY <1>0
<1>4. Lists(q, Own(i, g, seen)) /\ Own(i, g, seen) \in SUBSET (1 .. seen)
  BY <1>0, <1>2 DEF BuffersFrom, Own
<1>5. Len(q) <= seen
  <2> HIDE DEF q
  <2> QED
    BY <1>0, <1>3, <1>4, ListFits
<1> QED
  BY <1>0, <1>3, <1>5

(* Where a buffer has room for the whole feed none overflows, and what is   *)
(* proved while none does holds of every run.                               *)
THEOREM BuffersHoldTheFeed == Regular /\ MaxSeq <= BufferLimit => (Spec => []Fits)
<1> SUFFICES ASSUME Regular, MaxSeq <= BufferLimit PROVE Spec => []Fits
  OBVIOUS
<1>1. Init => IInv /\ Fits
  BY InitIInv DEF Init, DInit, Fits
<1>2. IInv /\ Fits /\ [Next]_vars => (IInv /\ Fits)'
  BY LargeBufferFits, NextIInv
<1> QED
  BY <1>1, <1>2, PTL DEF Spec

-----------------------------------------------------------------------------
(* The client implements the book follower: each step moves the books it    *)
(* stands for as the follower may move them, or not at all.                 *)

(* The updates of i among lo .. hi when o tells their owners, and those a   *)
(* book b of i reflects.                                                    *)
OwnIn(o, i, lo, hi) == {s \in lo .. hi : o[s] = i}
ReflectedBy(o, i, b) ==
  IF ~b.done THEN None
  ELSE IF ~InOrder(b.updates) THEN {None}
  ELSE OwnIn(o, i, 1, (CHOOSE e \in b.pieces : TRUE).at)
         \cup {b.updates[k] : k \in 1 .. Len(b.updates)}

Published == [i \in Instruments |-> Own(i, 1, Latest)]
Views     == [i \in Instruments |-> Reflects(i)]

LEMMA ReflectsIs ==
  ASSUME NEW i
  PROVE  /\ Reflects(i) = ReflectedBy(owner, i, book[i])
         /\ Reflects(i)' = ReflectedBy(owner', i, book'[i])
BY DEF Reflects, ReflectedBy, Own, OwnIn, Base, InOrder

(* A full snapshot and the later updates up to h reflect those up to h.     *)
LEMMA Reflection ==
  ASSUME NEW o, NEW i, NEW b, NEW S \in Seqs, NEW h \in Seqs, S <= h, b.done,
         b.pieces = FullSnapshot(S), Lists(b.updates, OwnIn(o, i, S + 1, h))
  PROVE  ReflectedBy(o, i, b) = OwnIn(o, i, 1, h)
<1>1. (CHOOSE e \in b.pieces : TRUE).at = S
  <2>1. [at |-> S, piece |-> 1] \in b.pieces
    BY SyncAssumption DEF FullSnapshot
  <2>2. (CHOOSE e \in b.pieces : TRUE) \in b.pieces
    BY <2>1
  <2>3. \A e \in b.pieces : e.at = S
    BY DEF FullSnapshot
  <2> QED
    BY <2>2, <2>3
<1>2. ReflectedBy(o, i, b) = OwnIn(o, i, 1, S) \cup OwnIn(o, i, S + 1, h)
  BY <1>1 DEF ReflectedBy, Lists
<1>3. 1 .. h = (1 .. S) \cup (S + 1 .. h)
  BY SeqsFacts
<1> QED
  BY <1>2, <1>3 DEF OwnIn

LEMMA SoundReflects ==
  ASSUME NEW i, Sound(i, book[i]), book[i].done
  PROVE  \E S, h \in Seqs : /\ S <= h /\ h <= seen /\ book[i].pieces = FullSnapshot(S)
                            /\ Lists(book[i].updates, OwnIn(owner, i, S + 1, h))
                            /\ Reflects(i) = OwnIn(owner, i, 1, h)
<1>1. PICK S \in Seqs, h \in Seqs : h <= seen /\ Holds(i, book[i], S, h)
  BY DEF Sound
<1>2. /\ S <= h /\ book[i].pieces = FullSnapshot(S)
      /\ Lists(book[i].updates, OwnIn(owner, i, S + 1, h))
  BY <1>1 DEF Holds, Own, OwnIn
<1>3. Reflects(i) = OwnIn(owner, i, 1, h)
  BY <1>2, ReflectsIs, Reflection
<1> QED
  BY <1>1, <1>2, <1>3

LEMMA FollowerKept ==
  ASSUME UNCHANGED <<owner, book>>
  PROVE  UNCHANGED Follower!avars
<1>1. \A i : Reflects(i)' = Reflects(i)
  BY ReflectsIs
<1>2. Views' = Views /\ Published' = Published
  BY <1>1 DEF Views, Published, Own, Latest
<1> QED
  BY <1>2 DEF Follower!avars, Views, Published

(* An update is published, whether it reaches the client or is lost.        *)
LEMMA PublishFollows ==
  ASSUME IInv, NEW i \in Instruments, owner' = Append(owner, i), Latest < MaxSeq, book' = book
  PROVE  Follower!Publish(i)
<1>1. owner \in Seq(Instruments) /\ seen \in Nat /\ Latest \in Nat /\ seen <= Latest
  BY SeqsFacts DEF IInv, Control, Types
<1>2. PICK n \in Nat : Latest = n
  BY <1>1
<1>3. n + 1 \in Seqs /\ Latest' = n + 1
  BY <1>1, <1>2, SeqsFacts DEF Latest
<1>4. \A v \in Published[i] : v < n + 1
  BY <1>2 DEF Published, Own
<1>5. Published' = [Published EXCEPT ![i] = Published[i] \cup {n + 1}]
  <2>1. Published = [j \in Instruments |-> Own(j, 1, n)]
    BY <1>2 DEF Published
  <2>2. Published' = [j \in Instruments |-> Own(j, 1, n + 1)']
    BY <1>3 DEF Published
  <2>3. ASSUME NEW j \in Instruments
        PROVE  Own(j, 1, n + 1)' = IF j = i THEN Own(j, 1, n) \cup {n + 1} ELSE Own(j, 1, n)
    <3>1. PICK lo \in Nat \ {0} : lo = 1 /\ lo <= n + 1
      OBVIOUS
    <3>2. /\ j # i => Own(j, lo, n + 1)' = Own(j, lo, n)
          /\ j = i => Own(j, lo, n + 1)' = Own(j, lo, n) \cup {n + 1}
      BY <1>1, <1>2, <3>1, OwnGrows
    <3> QED
      BY <3>1, <3>2
  <2> QED
    BY <2>1, <2>2, <2>3
<1>6. ASSUME NEW j \in Instruments PROVE Reflects(j)' = Reflects(j)
  <2>1. CASE ~book[j].done
    BY <2>1, ReflectsIs DEF ReflectedBy
  <2>2. CASE book[j].done
    <3>1. Sound(j, book[j])
      <4>1. PICK t \in Seq(Books) : Follows(j, t)
        BY DEF IInv, View
      <4>2. t[1] = book[j] /\ 1 \in 1 .. Len(t)
        BY <4>1 DEF Follows, Trail, IInv, Control, Types
      <4> QED
        BY <4>1, <4>2 DEF Follows
    <3>2. PICK S \in Seqs, h \in Seqs :
                   /\ S <= h /\ h <= seen /\ book[j].pieces = FullSnapshot(S)
                   /\ Lists(book[j].updates, OwnIn(owner, j, S + 1, h))
                   /\ Reflects(j) = OwnIn(owner, j, 1, h)
      BY <2>2, <3>1, SoundReflects
    <3>3. \A s \in 1 .. h : owner'[s] = owner[s]
      BY <1>1, <3>2, SeqsFacts DEF Latest
    <3>4. OwnIn(owner', j, S + 1, h) = OwnIn(owner, j, S + 1, h)
          /\ OwnIn(owner', j, 1, h) = OwnIn(owner, j, 1, h)
      <4>1. \A s \in S + 1 .. h : s \in 1 .. h
        BY SeqsFacts
      <4> QED
        BY <3>3, <4>1 DEF OwnIn
    <3>5. ReflectedBy(owner', j, book'[j]) = OwnIn(owner', j, 1, h)
      BY <2>2, <3>2, <3>4, Reflection
    <3> QED
      BY <3>2, <3>4, <3>5, ReflectsIs
  <2> QED
    BY <2>1, <2>2
<1>7. Views' = Views
  BY <1>6 DEF Views
<1>8. \E u \in Seqs : (\A v \in Published[i] : v < u)
                      /\ Published' = [Published EXCEPT ![i] = Published[i] \cup {u}]
  BY <1>3, <1>4, <1>5
<1> QED
  BY <1>7, <1>8 DEF Follower!Publish, Published, Views

(* A pipeline takes a command: its book is invalidated, comes back at a     *)
(* prefix, moves by the next update, or still reflects what it did.         *)
LEMMA TakeFollows ==
  ASSUME IInv, NEW i \in Instruments, PipelineTakes(i)
  PROVE  [Follower!ANext]_(Follower!avars)
<1>0. Types
  BY DEF IInv, Control
<1>1. PICK c \in Command : c = Head(cmdq[i])
  BY <1>0 DEF PipelineTakes, Types
<1> DEFINE d == Applied(book[i], c)
<1>2. /\ cmdq[i] # <<>> /\ owner' = owner
      /\ book'[i] = d /\ \A j \in Instruments : j # i => book'[j] = book[j]
  BY <1>0, <1>1 DEF PipelineTakes, server, Types
<1>3. Sound(i, book[i]) /\ Sound(i, d) /\ book[i] \in Books
  <2>1. PICK t \in Seq(Books) : Follows(i, t)
    BY DEF IInv, View
  <2>2. Len(cmdq[i]) \in Nat \ {0} /\ Head(cmdq[i]) = cmdq[i][1] /\ Len(t) = Len(cmdq[i]) + 1
    BY <1>0, <1>2, <2>1 DEF Follows, Trail, Types
  <2>3. t[1] = book[i] /\ t[1 + 1] = Applied(t[1], cmdq[i][1])
    BY <2>1, <2>2 DEF Follows, Trail
  <2>4. 1 \in 1 .. Len(t) /\ 1 + 1 \in 1 .. Len(t)
    BY <2>2
  <2>5. Sound(i, t[1]) /\ Sound(i, t[1 + 1])
    BY <2>1, <2>4 DEF Follows
  <2>6. t[1 + 1] = d
    BY <1>1, <2>2, <2>3
  <2> QED
    BY <1>0, <2>3, <2>5, <2>6 DEF Types
<1> DEFINE b == book[i]
<1>4. Reflects(i) = ReflectedBy(owner, i, b) /\ Reflects(i)' = ReflectedBy(owner, i, d)
  BY <1>2, ReflectsIs
<1>5. \A j \in Instruments : j # i => Reflects(j)' = Reflects(j)
  BY <1>2, ReflectsIs
<1> HIDE DEF b, d
<1>6. Published' = Published
  BY <1>2 DEF Published, Own, Latest
<1>7. Views' = [Views EXCEPT ![i] = ReflectedBy(owner, i, d)]
  BY <1>4, <1>5 DEF Views
<1>8. ASSUME ReflectedBy(owner, i, d) = ReflectedBy(owner, i, b) PROVE UNCHANGED Follower!avars
  <2>1. Views' = Views
    BY <1>4, <1>7, <1>8 DEF Views
  <2> QED
    BY <1>6, <2>1 DEF Follower!avars, Published, Views
<1>9. ASSUME ReflectedBy(owner, i, d) = None PROVE Follower!Invalidate(i)
  BY <1>6, <1>7, <1>9 DEF Follower!Invalidate, Published, Views
<1>10. b \in Books /\ Sound(i, b) /\ Sound(i, d) /\ d = Applied(b, c)
  BY <1>3 DEF b, d
<1>11. ASSUME d.done
       PROVE  \E S, h \in Seqs : /\ S <= h /\ h <= seen /\ d.pieces = FullSnapshot(S)
                                 /\ Lists(d.updates, OwnIn(owner, i, S + 1, h))
                                 /\ ReflectedBy(owner, i, d) = OwnIn(owner, i, 1, h)
  <2>1. PICK S \in Seqs, h \in Seqs : h <= seen /\ Holds(i, d, S, h)
    BY <1>10, <1>11 DEF Sound
  <2>2. /\ S <= h /\ d.pieces = FullSnapshot(S)
        /\ Lists(d.updates, OwnIn(owner, i, S + 1, h))
    BY <2>1 DEF Holds, Own, OwnIn
  <2>3. ReflectedBy(owner, i, d) = OwnIn(owner, i, 1, h)
    BY <1>11, <2>2, Reflection
  <2> QED
    BY <2>1, <2>2, <2>3
<1>12. seen \in Nat /\ Latest \in Nat /\ seen <= Latest
  BY <1>0, SeqsFacts DEF Types
<1>13. CASE ~d.done
  BY <1>2, <1>9, <1>13 DEF ReflectedBy, Follower!ANext
<1>14. CASE d.done /\ ~b.done
  <2>1. PICK S \in Seqs, h \in Seqs : h <= seen /\ ReflectedBy(owner, i, d) = OwnIn(owner, i, 1, h)
    BY <1>11, <1>14
  <2>2. OwnIn(owner, i, 1, h) = {u \in Published[i] : u <= h}
    <3>1. 1 .. h = {u \in 1 .. Latest : u <= h}
      BY <1>12, <2>1, SeqsFacts
    <3> QED
      BY <3>1 DEF OwnIn, Published, Own
  <2>3. Views[i] = None
    BY <1>4, <1>14 DEF Views, ReflectedBy
  <2>4. Views' = [Views EXCEPT ![i] = {u \in Published[i] : u <= h}]
    BY <1>7, <2>1, <2>2
  <2>5. Follower!Resync(i)
    BY <1>6, <2>3, <2>4 DEF Follower!Resync, Follower!Prefix, Views, Published
  <2> QED
    BY <2>5 DEF Follower!ANext
<1>15. CASE d.done /\ b.done
  <2>1. PICK S \in Seqs, h \in Seqs : /\ S <= h /\ h <= seen /\ b.pieces = FullSnapshot(S)
                                      /\ Lists(b.updates, OwnIn(owner, i, S + 1, h))
                                      /\ ReflectedBy(owner, i, b) = OwnIn(owner, i, 1, h)
    BY <1>4, <1>10, <1>15, SoundReflects DEF b
  <2>2. PICK R \in Seqs, k \in Seqs : /\ R <= k /\ k <= seen /\ d.pieces = FullSnapshot(R)
                                      /\ Lists(d.updates, OwnIn(owner, i, R + 1, k))
                                      /\ ReflectedBy(owner, i, d) = OwnIn(owner, i, 1, k)
    BY <1>11, <1>15
  <2>3. c.type \in {"SnapshotComplete", "Event"} /\ c.type # "ClearBook"
    BY <1>10, <1>15 DEF Applied, EmptyBook, Command
  <2>4. CASE c.type = "SnapshotComplete"
    <3>1. d.pieces = b.pieces /\ d.updates = b.updates
      BY <1>10, <2>4 DEF Applied, Books
    <3> QED
      BY <1>8, <1>15, <3>1 DEF ReflectedBy
  <2>5. ASSUME b.pieces \subseteq d.pieces PROVE R = S
    <3>1. [at |-> S, piece |-> 1] \in b.pieces
      BY <2>1, SyncAssumption DEF FullSnapshot
    <3>2. [at |-> S, piece |-> 1] \in FullSnapshot(R)
      BY <2>2, <2>5, <3>1
    <3> QED
      BY <3>2 DEF FullSnapshot
  <2>6. CASE c.type = "Event" /\ c.of.tid = 116
    <3>1. d.pieces = b.pieces \cup {c.of.body} /\ d.updates = b.updates
      BY <1>10, <2>6 DEF Applied, Books
    <3>2. d.pieces = b.pieces
      BY <2>1, <2>2, <2>5, <3>1
    <3> QED
      BY <1>8, <1>15, <3>1, <3>2 DEF ReflectedBy
  <2>7. CASE c.type = "Event" /\ c.of.tid # 116
    <3> DEFINE s == c.of.seq
    <3>1. d.pieces = b.pieces /\ d.updates = Append(b.updates, s)
      BY <1>10, <2>7 DEF Applied, Books
    <3>2. b.updates \in Seq(OptSeq) /\ s \in OptSeq /\ Len(b.updates) \in Nat
      BY <1>10, <2>7 DEF Books, Command, Message
    <3>3. R = S
      BY <2>5, <3>1
    <3> HIDE DEF s
    <3>4. /\ Len(d.updates) = Len(b.updates) + 1 /\ d.updates[Len(b.updates) + 1] = s
          /\ \A a \in 1 .. Len(b.updates) : d.updates[a] = b.updates[a]
      BY <3>1, <3>2
    <3>5. \A a \in 1 .. Len(b.updates) : b.updates[a] < s
      <4> TAKE a \in 1 .. Len(b.updates)
      <4>1. /\ a \in 1 .. Len(d.updates) /\ Len(b.updates) + 1 \in 1 .. Len(d.updates)
            /\ a < Len(b.updates) + 1
        BY <3>2, <3>4
      <4> QED
        BY <2>2, <3>4, <4>1 DEF Lists, InOrder
    <3>6. OwnIn(owner, i, S + 1, k) = OwnIn(owner, i, S + 1, h) \cup {s}
      <4>1. ASSUME NEW u \in OwnIn(owner, i, S + 1, k)
            PROVE  u \in OwnIn(owner, i, S + 1, h) \cup {s}
        <5>1. PICK a \in 1 .. Len(d.updates) : d.updates[a] = u
          BY <2>2, <3>3 DEF Lists
        <5>2. a \in 1 .. Len(b.updates) \/ a = Len(b.updates) + 1
          BY <3>2, <3>4
        <5> QED
          BY <2>1, <3>4, <5>1, <5>2 DEF Lists
      <4>2. ASSUME NEW u \in OwnIn(owner, i, S + 1, h)
            PROVE  u \in OwnIn(owner, i, S + 1, k)
        <5>1. PICK a \in 1 .. Len(b.updates) : b.updates[a] = u
          BY <2>1 DEF Lists
        <5>2. a \in 1 .. Len(d.updates) /\ d.updates[a] = u
          BY <3>2, <3>4, <5>1
        <5> QED
          BY <2>2, <3>3, <5>2 DEF Lists
      <4>3. s \in OwnIn(owner, i, S + 1, k)
        <5>1. Len(b.updates) + 1 \in 1 .. Len(d.updates)
          BY <3>2, <3>4
        <5> QED
          BY <2>2, <3>3, <3>4, <5>1 DEF Lists
      <4> QED
        BY <4>1, <4>2, <4>3
    <3>7. s \in S + 1 .. k /\ owner[s] = i /\ s \notin OwnIn(owner, i, S + 1, h)
      <4>1. s \in S + 1 .. k /\ owner[s] = i
        BY <3>6 DEF OwnIn
      <4>2. \A u \in OwnIn(owner, i, S + 1, h) : u < s
        BY <2>1, <3>5 DEF Lists
      <4>3. ~(s < s)
        BY <4>1
      <4> QED
        BY <4>1, <4>2, <4>3
    <3>8. /\ S \in Nat /\ h \in Nat /\ k \in Nat /\ s \in Nat /\ h < s /\ s <= k /\ s <= Latest
      BY <1>12, <2>1, <2>2, <3>7, SeqsFacts DEF OwnIn
    <3>9. s \in Published[i] \ Views[i]
      <4>1. s \in Published[i]
        BY <3>7, <3>8 DEF Published, Own
      <4>2. Views[i] = OwnIn(owner, i, 1, h)
        BY <1>4, <2>1 DEF Views
      <4>3. s \notin OwnIn(owner, i, 1, h)
        BY <3>8 DEF OwnIn
      <4> QED
        BY <4>1, <4>2, <4>3
    <3>10. ASSUME NEW v \in Published[i] \ Views[i] PROVE s <= v
      <4>1. v \in 1 .. Latest /\ owner[v] = i /\ v \notin OwnIn(owner, i, 1, h)
        BY <1>4, <2>1 DEF Published, Views, Own
      <4>2. v > h
        BY <1>12, <3>8, <4>1 DEF OwnIn
      <4>3. v < s => v \in OwnIn(owner, i, S + 1, k) /\ v \notin OwnIn(owner, i, S + 1, h)
        BY <1>12, <2>1, <3>8, <4>1, <4>2 DEF OwnIn
      <4>4. v < s => v = s
        BY <3>6, <4>3
      <4> QED
        BY <1>12, <3>8, <4>1, <4>4
    <3>11. ReflectedBy(owner, i, d) = Views[i] \cup {s}
      <4>1. OwnIn(owner, i, 1, h) = OwnIn(owner, i, 1, S) \cup OwnIn(owner, i, S + 1, h)
        <5>1. 1 .. h = (1 .. S) \cup (S + 1 .. h)
          BY <2>1, <3>8
        <5> QED
          BY <5>1 DEF OwnIn
      <4>2. OwnIn(owner, i, 1, k) = OwnIn(owner, i, 1, S) \cup OwnIn(owner, i, S + 1, k)
        <5>1. 1 .. k = (1 .. S) \cup (S + 1 .. k)
          BY <2>2, <3>3, <3>8
        <5> QED
          BY <5>1 DEF OwnIn
      <4>3. Views[i] = OwnIn(owner, i, 1, h)
        BY <1>4, <2>1 DEF Views
      <4> QED
        BY <2>2, <3>6, <4>1, <4>2, <4>3
    <3>12. Views[i] # None
      <4>1. Views[i] = OwnIn(owner, i, 1, h)
        BY <1>4, <2>1 DEF Views
      <4>2. OwnIn(owner, i, 1, h) \in SUBSET Seqs
        BY SeqsFacts DEF OwnIn
      <4> QED
        BY <4>1, <4>2, SyncAssumption
    <3>13. Views' = [Views EXCEPT ![i] = Views[i] \cup {s}]
      BY <1>7, <3>11
    <3>14. Follower!Apply(i)
      BY <1>6, <3>9, <3>10, <3>12, <3>13 DEF Follower!Apply, Views, Published
    <3> QED
      BY <3>14 DEF Follower!ANext
  <2> QED
    BY <2>3, <2>4, <2>6, <2>7
<1> QED
  BY <1>13, <1>14, <1>15

LEMMA NextFollows ==
  ASSUME IInv, [Next]_vars
  PROVE  [Follower!ANext]_(Follower!avars)
<1>1. ASSUME UNCHANGED <<owner, book>> PROVE UNCHANGED Follower!avars
  BY <1>1, FollowerKept
<1>2. ASSUME NEW i \in Instruments, Publish(i) \/ Lose(i) PROVE Follower!Publish(i)
  BY <1>2, PublishFollows DEF Publish, Lose
<1>3. ASSUME NEW i \in Instruments, Serve(i) PROVE UNCHANGED Follower!avars
  BY <1>1, <1>3 DEF Serve, Capture, CaptureAndSend, SendEntry, SendClosing
<1>4. ASSUME WriterTakes \/ Dispatch \/ Quiet \/ UNCHANGED vars PROVE UNCHANGED Follower!avars
  BY <1>1, <1>4 DEF WriterTakes, Dispatch, Quiet, vars, server
<1>5. ASSUME NEW i \in Instruments, Follower!Publish(i) PROVE Follower!ANext
  BY <1>5 DEF Follower!ANext
<1> QED
  BY <1>2, <1>3, <1>4, <1>5, TakeFollows DEF Next

LEMMA InitFollows == ASSUME Init PROVE Follower!AInit
<1>1. Latest = 0
  BY DEF Init, Latest
<1>2. \A i \in Instruments : Own(i, 1, Latest) = {}
  BY <1>1 DEF Own
<1>3. \A i \in Instruments : Reflects(i) = None
  BY DEF Init, EmptyBook, Reflects
<1> QED
  BY <1>2, <1>3 DEF Follower!AInit

(* The client implements the book follower: through gaps, reloads and       *)
(* replays no completed book has a hole, a duplicate or an update out of    *)
(* order (dispatcher.rs:18-28).                                             *)
THEOREM ClientFollows == Regular => (Spec /\ []Fits => FollowsExchange)
<1> SUFFICES ASSUME Regular PROVE Spec /\ []Fits => FollowsExchange
  OBVIOUS
<1>1. Init => Follower!AInit
  BY InitFollows
<1>2. IInv /\ [Next]_vars => [Follower!ANext]_(Follower!avars)
  BY NextFollows
<1> QED
  BY <1>1, <1>2, Invariance, PTL DEF Spec, FollowsExchange, Follower!ASpec
=============================================================================
