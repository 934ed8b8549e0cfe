--------------------------- MODULE PipelineProofs ---------------------------
(***************************************************************************)
(* The gating, the ring of BBOs and the verdicts of the pipelines, for any *)
(* instruments, prices and times, any size of the ring and any capacity of *)
(* the channels. IInv of PipelineFeed is inductive.                        *)
(***************************************************************************)
EXTENDS PipelineFeed, SequenceTheorems, WellFoundedInduction, TLAPS

(* Some slot of any that are given is the closest: the CHOOSE of find_match *)
(* has a value, and so the slot it takes is one of them.                    *)
LEMMA ClosestIsOne ==
  ASSUME NEW r \in Rings, NEW S \in SUBSET Held(r), S # {}, NEW t \in Nat
  PROVE  Closest(r, S, t) \in S
<1>1. \A k \in S : k \in Nat /\ Age(r.buf[k], t) \in Nat
  BY PipelineAssumption DEF Held, Rings, Age, BBO
<1>2. \A T \in SUBSET Nat : T # {} => \E x \in T : \A y \in T : x <= y
  <2> SUFFICES ASSUME NEW T \in SUBSET Nat, T # {}
               PROVE  \E x \in T : \A y \in T : x <= y
    OBVIOUS
  <2>1. PICK x \in T : \A y \in T : <<y, x>> \notin OpToRel(<, Nat)
    BY WFMin, NatLessThanWellFounded, Zenon
  <2>2. \A y \in T : ~(y < x)
    BY <2>1, Zenon DEF OpToRel
  <2> QED
    BY <2>2
<1> DEFINE Ages == {Age(r.buf[k], t) : k \in S}
<1>3. PICK a \in Ages : \A b \in Ages : a <= b
  <2>1. Ages \in SUBSET Nat /\ Ages # {}
    BY <1>1
  <2> QED
    BY <1>2, <2>1, Zenon
<1> DEFINE Youngest == {k \in S : Age(r.buf[k], t) = a}
<1>4. PICK k \in Youngest : \A j \in Youngest : k <= j
  <2>1. Youngest \in SUBSET Nat /\ Youngest # {}
    BY <1>1
  <2> QED
    BY <1>2, <2>1, Zenon
<1>5. \A j \in S : /\ Age(r.buf[k], t) <= Age(r.buf[j], t)
                   /\ Age(r.buf[k], t) = Age(r.buf[j], t) => k <= j
  BY <1>3, <1>4
<1> QED
  BY <1>4, <1>5 DEF Closest

(* Where the wrap-around leads: the slots before next, and next itself.     *)
LEMMA Wraps ==
  ASSUME NEW p \in Rings
  PROVE  /\ \A back \in 0 .. RingSize - 1 :
              /\ Slot(p, back) \in 0 .. RingSize - 1
              /\ Slot(p, back) = IF back < p.next THEN p.next - 1 - back
                                 ELSE p.next + RingSize - 1 - back
         /\ (p.next + 1) % RingSize = IF p.next = RingSize - 1 THEN 0 ELSE p.next + 1
<1>1. RingSize \in Nat \ {0} /\ p.next \in 0 .. RingSize - 1
  BY PipelineAssumption DEF Rings
<1>2. \A x \in Nat : /\ x < RingSize => x % RingSize = x
                     /\ RingSize <= x /\ x < 2 * RingSize => x % RingSize = x - RingSize
  BY <1>1, SMTT(30)
<1>3. ASSUME NEW back \in 0 .. RingSize - 1
      PROVE  /\ Slot(p, back) \in 0 .. RingSize - 1
             /\ Slot(p, back) = IF back < p.next THEN p.next - 1 - back
                                ELSE p.next + RingSize - 1 - back
  <2>2. CASE back < p.next
    <3> DEFINE x == p.next - 1 - back
    <3>1. x \in Nat /\ x < RingSize /\ p.next + RingSize - 1 - back = x + RingSize
      BY <1>1, <2>2
    <3>2. (x + RingSize) % RingSize = x
      <4>1. x + RingSize \in Nat /\ RingSize <= x + RingSize /\ x + RingSize < 2 * RingSize
        BY <1>1, <3>1
      <4>2. (x + RingSize) % RingSize = (x + RingSize) - RingSize
        BY <1>2, <4>1, Zenon
      <4> QED
        BY <1>1, <3>1, <4>2
    <3> QED
      BY <1>1, <2>2, <3>1, <3>2 DEF Slot
  <2>3. CASE ~(back < p.next)
    <3> DEFINE x == p.next + RingSize - 1 - back
    <3>1. x \in Nat /\ x < RingSize
      BY <1>1, <2>3
    <3>2. x % RingSize = x
      BY <1>2, <3>1, Zenon
    <3> QED
      BY <1>1, <2>3, <3>1, <3>2 DEF Slot
  <2> QED
    BY <2>2, <2>3
<1>4. CASE p.next = RingSize - 1
  <2>1. /\ p.next + 1 \in Nat /\ RingSize <= p.next + 1 /\ p.next + 1 < 2 * RingSize
        /\ (p.next + 1) - RingSize = 0
    BY <1>1, <1>4
  <2>2. (p.next + 1) % RingSize = 0
    BY <1>2, <2>1, Zenon
  <2> QED
    BY <1>3, <1>4, <2>2
<1>5. CASE p.next # RingSize - 1
  <2>1. p.next + 1 \in Nat /\ p.next + 1 < RingSize
    BY <1>1, <1>5
  <2>2. (p.next + 1) % RingSize = p.next + 1
    BY <1>2, <2>1, Zenon
  <2> QED
    BY <1>3, <1>5, <2>2
<1> QED
  BY <1>4, <1>5

(* Pushing keeps the newest RingSize BBOs, the newest just before next.     *)
LEMMA PushRemembers ==
  ASSUME NEW r \in Rings, NEW s \in Seq(BBO), NEW u \in BBO, Len(s) <= RingSize,
         \A back \in 0 .. RingSize - 1 :
           r.buf[Slot(r, back)] = IF back < Len(s) THEN s[Len(s) - back] ELSE None
  PROVE  LET q == Push(r, u)
             n == LastOf(Append(s, u), RingSize)
         IN  /\ q \in Rings /\ n \in Seq(BBO) /\ Len(n) <= RingSize
             /\ \A back \in 0 .. RingSize - 1 :
                  q.buf[Slot(q, back)] = IF back < Len(n) THEN n[Len(n) - back] ELSE None
<1> DEFINE q == Push(r, u)
           n == LastOf(Append(s, u), RingSize)
<1>1. RingSize \in Nat \ {0}
  BY PipelineAssumption
<1>2. /\ q.buf = [r.buf EXCEPT ![r.next] = u]
      /\ q.next = IF r.next = RingSize - 1 THEN 0 ELSE r.next + 1
      /\ q \in Rings /\ r.next \in 0 .. RingSize - 1
  <2>1. r.next \in 0 .. RingSize - 1 /\ r.buf \in [0 .. RingSize - 1 -> BBO \cup {None}]
    BY DEF Rings
  <2>2. (r.next + 1) % RingSize = IF r.next = RingSize - 1 THEN 0 ELSE r.next + 1
    BY Wraps, Zenon
  <2>3. q.buf = [r.buf EXCEPT ![r.next] = u] /\ q.next = (r.next + 1) % RingSize
    BY DEF Push
  <2>4. (r.next + 1) % RingSize \in 0 .. RingSize - 1
    BY <1>1, <2>1, <2>2
  <2>5. [r.buf EXCEPT ![r.next] = u] \in [0 .. RingSize - 1 -> BBO \cup {None}]
    BY <2>1
  <2>6. q \in Rings
    BY <2>4, <2>5, Zenon DEF Push, Rings
  <2> QED
    BY <2>1, <2>2, <2>3, <2>6
<1>3. /\ n \in Seq(BBO)
      /\ Len(n) = IF Len(s) = RingSize THEN RingSize ELSE Len(s) + 1
      /\ n[Len(n)] = u
      /\ \A back \in 1 .. Len(n) - 1 : n[Len(n) - back] = s[Len(s) - (back - 1)]
  <2> DEFINE w == Append(s, u)
  <2>0. /\ w \in Seq(BBO) /\ Len(w) = Len(s) + 1 /\ w[Len(s) + 1] = u
        /\ \A k \in 1 .. Len(s) : w[k] = s[k]
        /\ Len(s) \in Nat
    BY AppendProperties, LenProperties
  <2>1. CASE Len(s) < RingSize
    <3>1. n = w
      BY <1>1, <2>0, <2>1 DEF LastOf
    <3> QED
      BY <1>1, <2>0, <2>1, <3>1
  <2>2. CASE Len(s) = RingSize
    <3>1. n = SubSeq(w, 2, RingSize + 1)
      BY <1>1, <2>0, <2>2 DEF LastOf
    <3>2. /\ n \in Seq(BBO) /\ Len(n) = RingSize
          /\ \A k \in 1 .. RingSize : n[k] = w[k + 1]
      BY <1>1, <2>0, <2>2, <3>1
    <3> QED
      BY <1>1, <2>0, <2>2, <3>2
  <2> QED
    BY <1>1, <2>1, <2>2
<1>4. ASSUME NEW back \in 0 .. RingSize - 1
      PROVE  q.buf[Slot(q, back)] = IF back < Len(n) THEN n[Len(n) - back] ELSE None
  <2>1. CASE back = 0
    <3>1. Slot(q, back) = r.next
      <4> HIDE DEF q
      <4>1. Slot(q, back) = IF back < q.next THEN q.next - 1 - back
                            ELSE q.next + RingSize - 1 - back
        BY Wraps, <1>2
      <4> QED
        BY <1>1, <1>2, <2>1, <4>1
    <3>2. q.buf[Slot(q, back)] = u
      BY <1>2, <3>1 DEF Rings
    <3>3. Len(n) \in Nat \ {0} /\ n[Len(n) - back] = u
      <4> HIDE DEF n
      <4>1. Len(n) \in Nat \ {0}
        BY <1>1, <1>3
      <4>2. Len(n) - back = Len(n)
        BY <2>1, <4>1
      <4> QED
        BY <1>3, <4>1, <4>2
    <3> QED
      BY <2>1, <3>2, <3>3
  <2>2. CASE back > 0
    <3>0. back - 1 \in 0 .. RingSize - 1 /\ r \in Rings /\ q \in Rings
      BY <1>1, <1>2, <2>2
    <3>1. Slot(q, back) = Slot(r, back - 1) /\ Slot(q, back) # r.next
      <4> HIDE DEF q
      <4>1. Slot(q, back) = IF back < q.next THEN q.next - 1 - back
                            ELSE q.next + RingSize - 1 - back
        BY Wraps, <3>0
      <4>2. Slot(r, back - 1) = IF back - 1 < r.next THEN r.next - 1 - (back - 1)
                                ELSE r.next + RingSize - 1 - (back - 1)
        BY Wraps, <3>0
      <4> QED
        BY <1>1, <1>2, <2>2, <4>1, <4>2
    <3>2. q.buf[Slot(q, back)] = r.buf[Slot(r, back - 1)]
      BY Wraps, <1>2, <2>2, <3>0, <3>1 DEF Rings
    <3> QED
      BY <1>1, <1>3, <2>2, <3>2
  <2> QED
    BY <2>1, <2>2
<1> QED
  BY <1>1, <1>2, <1>3, <1>4

(* IInv, one pipeline at a time. *)
Streams(i) ==
  /\ rxOpen[i] <=> ppc[i] \in {"select", "output"}
  /\ rxOpen[i] => (gate[i].bbo <=> fresh[i])
  /\ rxOpen[i] => (gate[i].inRecovery <=> ~(gate[i].complete /\ fresh[i]))

Remembers(i) ==
  /\ Len(recent[i]) <= RingSize
  /\ \A back \in 0 .. RingSize - 1 :
       ring[i].buf[Slot(ring[i], back)] =
         IF back < Len(recent[i]) THEN recent[i][Len(recent[i]) - back] ELSE None

Judged(i) ==
  ppc[i] = "output" /\ check[i] # None =>
    (check[i].verdict = "match"
       <=> \E k \in 1 .. Len(recent[i]) : recent[i][k].top = check[i].top)

(* IInv holds at the start, and every step of a pipeline, of a producer or  *)
(* of the output task preserves it.                                         *)
THEOREM Invariance == Spec => []IInv
<1> DEFINE Parts == Types /\ \A i \in Instruments : Streams(i) /\ Remembers(i) /\ Judged(i)
<1>1. IInv <=> Parts
  BY DEF IInv, GateJoins, RingHoldsRecent, CheckIsRight, Streams, Remembers, Judged
<1>2. Init => IInv
  <2> SUFFICES ASSUME Init PROVE IInv
    OBVIOUS
  <2>1. RingSize \in Nat \ {0}
    BY PipelineAssumption
  <2>2. Types
    BY <2>1 DEF Init, PInit, Types, Gates, Rings, FreshGate
  <2> QED
    BY <2>1, <2>2 DEF Init, PInit, IInv, GateJoins, RingHoldsRecent, CheckIsRight, FreshGate, Slot
<1>3. Parts /\ [Next]_vars => Parts'
  <2> SUFFICES ASSUME Parts, [Next]_vars PROVE Parts'
    OBVIOUS
  <2>1. CASE UNCHANGED <<pstate, rxOpen, recent, fresh>>
             /\ cmdq' \in [Instruments -> Seq(Command)] /\ bboq' \in [Instruments -> Seq(BBO)]
    BY <2>1 DEF Types, Streams, Remembers, Judged, pstate
  <2>2. CASE Feeds
    <3>1. UNCHANGED <<pstate, rxOpen, recent, fresh>>
      BY <2>2 DEF Feeds, PutCommand, PutBbo, ProducerEnds, PrintLine, OutputEnds, history
    <3>2. cmdq' \in [Instruments -> Seq(Command)] /\ bboq' \in [Instruments -> Seq(BBO)]
      <4>1. ASSUME NEW j \in Instruments, NEW c \in Command, PutCommand(j, c)
            PROVE  cmdq' \in [Instruments -> Seq(Command)] /\ bboq' = bboq
        <5>1. Append(cmdq[j], c) \in Seq(Command)
          BY <4>1, AppendProperties DEF Types
        <5>2. cmdq' = [cmdq EXCEPT ![j] = Append(cmdq[j], c)] /\ bboq' = bboq
          BY <4>1 DEF PutCommand
        <5> HIDE DEF Command
        <5> QED
          BY <5>1, <5>2 DEF Types
      <4>2. ASSUME NEW j \in Instruments, NEW u \in BBO, PutBbo(j, u)
            PROVE  bboq' \in [Instruments -> Seq(BBO)] /\ cmdq' = cmdq
        <5>1. Append(bboq[j], u) \in Seq(BBO)
          BY <4>2, AppendProperties DEF Types
        <5>2. bboq' = [bboq EXCEPT ![j] = Append(bboq[j], u)] /\ cmdq' = cmdq
          BY <4>2 DEF PutBbo
        <5> QED
          BY <5>1, <5>2 DEF Types
      <4>3. CASE UNCHANGED <<cmdq, bboq>>
        BY <4>3 DEF Types
      <4> QED
        BY <2>2, <4>1, <4>2, <4>3 DEF Feeds, ProducerEnds, PrintLine, OutputEnds, Types
    <3> QED
      BY <2>1, <3>1, <3>2
  <2>3. CASE UNCHANGED vars
    BY <2>1, <2>3 DEF vars, pchannels, history, Types
  <2>4. ASSUME NEW i \in Instruments, PStep(i), Remember(i)
        PROVE  Parts'
    <3>1. /\ cmdq[i] \in Seq(Command) /\ bboq[i] \in Seq(BBO) /\ gate[i] \in Gates
          /\ ring[i] \in Rings /\ recent[i] \in Seq(BBO) /\ fresh[i] \in BOOLEAN
          /\ Streams(i) /\ Remembers(i) /\ Judged(i)
      BY DEF Types
    <3>2. \A j \in Instruments \ {i} :
            /\ rxOpen'[j] = rxOpen[j] /\ ppc'[j] = ppc[j] /\ gate'[j] = gate[j]
            /\ ring'[j] = ring[j] /\ check'[j] = check[j]
            /\ recent'[j] = recent[j] /\ fresh'[j] = fresh[j]
      <4>1. \A j \in Instruments \ {i} : recent'[j] = recent[j] /\ fresh'[j] = fresh[j]
        BY <2>4 DEF Remember, Types
      <4>2. \A j \in Instruments \ {i} :
              /\ rxOpen'[j] = rxOpen[j] /\ ppc'[j] = ppc[j] /\ gate'[j] = gate[j]
              /\ ring'[j] = ring[j] /\ check'[j] = check[j]
        BY <2>4 DEF PStep, BboBranch, CmdBranch, Emit, TakeBbo, BboClosed, CmdClosed,
                    TakeClear, TakeComplete, Degrade, TakeEvent, SendOutput, OutputClosed,
                    Return, Types
      <4> QED
        BY <4>1, <4>2
    <3>3. ASSUME Types', Streams(i)', Remembers(i)', Judged(i)'
          PROVE  Parts'
      <4>1. ASSUME NEW j \in Instruments \ {i}
            PROVE  Streams(j)' /\ Remembers(j)' /\ Judged(j)'
        BY <3>2 DEF Streams, Remembers, Judged
      <4> QED
        BY <3>3, <4>1
    <3>4. \A g \in Gates :
            GateBbo(g) \in Gates /\ GateClear(g) \in Gates /\ Counted(g) \in Gates
            /\ GateComplete(Counted(g)) \in Gates
      <4>1. \A g \in Gates : /\ [g EXCEPT !.inRecovery = FALSE] \in Gates
                              /\ [g EXCEPT !.bbo = TRUE] \in Gates
                              /\ [g EXCEPT !.complete = TRUE] \in Gates
                              /\ [g EXCEPT !.initialDone = TRUE] \in Gates
                              /\ [g EXCEPT !.recoveries = @ + 1] \in Gates
        <5> SUFFICES ASSUME NEW g \in Gates
                     PROVE  /\ [g EXCEPT !.inRecovery = FALSE] \in Gates
                            /\ [g EXCEPT !.bbo = TRUE] \in Gates
                            /\ [g EXCEPT !.complete = TRUE] \in Gates
                            /\ [g EXCEPT !.initialDone = TRUE] \in Gates
                            /\ [g EXCEPT !.recoveries = @ + 1] \in Gates
          OBVIOUS
        <5>1. g.recoveries + 1 \in Nat
          BY DEF Gates
        <5> QED
          BY <5>1 DEF Gates
      <4>2. \A g \in Gates : GateClear(g) \in Gates
        BY DEF Gates, GateClear
      <4>3. \A g \in Gates : Rejoin(g) \in Gates /\ Counted(g) \in Gates
        BY <4>1 DEF Rejoin, Counted
      <4> QED
        BY <4>1, <4>2, <4>3 DEF GateBbo, GateComplete
    <3>5. CASE TakeBbo(i)
      <4>1. /\ ring' = [ring EXCEPT ![i] = Push(@, Head(bboq[i]))]
            /\ gate' = [gate EXCEPT ![i] = GateBbo(@)]
            /\ bboq' = [bboq EXCEPT ![i] = Tail(@)]
            /\ bboq[i] # <<>> /\ ppc[i] = "select" /\ rxOpen[i]
            /\ UNCHANGED <<cmdq, rxOpen, ppc, check>>
        BY <3>1, <3>5 DEF TakeBbo, Streams
      <4>2. /\ recent' = [recent EXCEPT ![i] = LastOf(Append(@, Head(bboq[i])), RingSize)]
            /\ fresh' = [fresh EXCEPT ![i] = TRUE]
        <5>1. TakesBbo(i)
          BY <4>1 DEF TakesBbo, Types
        <5> QED
          BY <2>4, <5>1 DEF Remember
      <4>3. Head(bboq[i]) \in BBO /\ Tail(bboq[i]) \in Seq(BBO)
        BY <3>1, <4>1, HeadTailProperties
      <4>4. /\ ring'[i] \in Rings /\ recent'[i] \in Seq(BBO) /\ Remembers(i)'
        <5>1. /\ ring'[i] = Push(ring[i], Head(bboq[i]))
              /\ recent'[i] = LastOf(Append(recent[i], Head(bboq[i])), RingSize)
          BY <4>1, <4>2 DEF Types
        <5>2. /\ ring'[i] \in Rings /\ recent'[i] \in Seq(BBO) /\ Len(recent'[i]) <= RingSize
              /\ \A back \in 0 .. RingSize - 1 :
                   ring'[i].buf[Slot(ring'[i], back)] =
                     IF back < Len(recent'[i]) THEN recent'[i][Len(recent'[i]) - back] ELSE None
          <6>1. /\ Len(recent[i]) <= RingSize
                /\ \A back \in 0 .. RingSize - 1 :
                     ring[i].buf[Slot(ring[i], back)] =
                       IF back < Len(recent[i]) THEN recent[i][Len(recent[i]) - back] ELSE None
            BY <3>1, Zenon DEF Remembers
          <6>2. LET q == Push(ring[i], Head(bboq[i]))
                    n == LastOf(Append(recent[i], Head(bboq[i])), RingSize)
                IN  /\ q \in Rings /\ n \in Seq(BBO) /\ Len(n) <= RingSize
                    /\ \A back \in 0 .. RingSize - 1 :
                         q.buf[Slot(q, back)] = IF back < Len(n) THEN n[Len(n) - back] ELSE None
            BY <3>1, <4>3, <6>1, PushRemembers
          <6> QED
            BY <5>1, <6>2
        <5> QED
          BY <5>2 DEF Remembers, Slot
      <4>5. Types'
        <5>1. gate'[i] \in Gates
          BY <3>1, <3>4, <4>1 DEF Types
        <5>2. bboq' \in [Instruments -> Seq(BBO)]
          BY <4>1, <4>3 DEF Types
        <5>3. gate' \in [Instruments -> Gates]
          BY <4>1, <5>1 DEF Types
        <5>4. ring' \in [Instruments -> Rings]
          BY <4>1, <4>4 DEF Types
        <5>5. recent' \in [Instruments -> Seq(BBO)] /\ fresh' \in [Instruments -> BOOLEAN]
          BY <4>2, <4>4 DEF Types
        <5> QED
          BY <4>1, <5>2, <5>3, <5>4, <5>5 DEF Types
      <4>6. Streams(i)'
        BY <3>1, <4>1, <4>2 DEF Streams, GateBbo, Rejoin, Gates, Types
      <4>7. Judged(i)'
        BY <4>1 DEF Judged
      <4> QED
        BY <3>3, <4>4, <4>5, <4>6, <4>7
    <3>6. ASSUME ~TakesBbo(i), ring' = ring
          PROVE  /\ recent' = recent /\ Remembers(i)'
                 /\ fresh' = [fresh EXCEPT ![i] = @ /\ ~TakeClear(i)]
      <4>1. recent' = recent /\ fresh' = [fresh EXCEPT ![i] = @ /\ ~TakeClear(i)]
        BY <2>4, <3>6 DEF Remember
      <4> QED
        BY <3>1, <3>6, <4>1 DEF Remembers, Slot
    <3>7. bboq' = bboq => ~TakesBbo(i)
      <4>1. ASSUME bboq[i] # <<>> PROVE Len(Tail(bboq[i])) # Len(bboq[i])
        <5>1. Len(Tail(bboq[i])) = Len(bboq[i]) - 1 /\ Len(bboq[i]) \in Nat
          BY <3>1, <4>1, HeadTailProperties, LenProperties
        <5> QED
          BY <5>1
      <4> QED
        BY <4>1 DEF TakesBbo
    <3>8. CASE TakeClear(i) \/ TakeComplete(i) \/ TakeEvent(i) \/ SendOutput(i)
      <4>1. /\ bboq' = bboq /\ rxOpen' = rxOpen /\ ring' = ring
            /\ recent' = recent /\ Remembers(i)'
            /\ fresh' = [fresh EXCEPT ![i] = @ /\ ~TakeClear(i)]
        <5>1. bboq' = bboq /\ rxOpen' = rxOpen /\ ring' = ring
          BY <3>8 DEF TakeClear, TakeComplete, TakeEvent, SendOutput
        <5> QED
          BY <3>6, <3>7, <5>1
      <4>2. fresh' = IF TakeClear(i) THEN [fresh EXCEPT ![i] = FALSE] ELSE fresh
        BY <3>1, <4>1 DEF Types
      <4>3. rxOpen' \in [Instruments -> BOOLEAN] /\ fresh' \in [Instruments -> BOOLEAN]
        BY <4>1, <4>2 DEF Types
      <4>4. ASSUME cmdq[i] # <<>>, cmdq' = [cmdq EXCEPT ![i] = Tail(@)]
            PROVE  cmdq' \in [Instruments -> Seq(Command)]
        <5>1. Tail(cmdq[i]) \in Seq(Command)
          BY <3>1, <4>4, HeadTailProperties
        <5> HIDE DEF Command
        <5> QED
          BY <4>4, <5>1 DEF Types
      <4>5. CASE TakeClear(i)
        <5>1. /\ gate' = [gate EXCEPT ![i] = GateClear(@)] /\ ppc' = ppc /\ ppc[i] = "select"
              /\ check' = [check EXCEPT ![i] = None]
              /\ cmdq[i] # <<>> /\ cmdq' = [cmdq EXCEPT ![i] = Tail(@)]
          BY <4>5 DEF TakeClear, Takes
        <5>2. gate'[i] = GateClear(gate[i]) /\ gate' \in [Instruments -> Gates]
          BY <3>1, <3>4, <5>1 DEF Types
        <5>3. check' \in [Instruments -> [top : Tops, verdict : {"match", "divergence"}] \cup {None}]
          BY <5>1 DEF Types
        <5>4. Types'
          BY <4>1, <4>3, <4>4, <5>1, <5>2, <5>3 DEF Types
        <5>5. Streams(i)'
          BY <3>1, <4>1, <4>2, <4>5, <5>1, <5>2 DEF Streams, GateClear, Gates, Types
        <5>6. Judged(i)'
          BY <5>1 DEF Judged
        <5> QED
          BY <3>3, <4>1, <5>4, <5>5, <5>6
      <4>6. CASE TakeComplete(i)
        <5>1. /\ gate' = [gate EXCEPT ![i] = GateComplete(Counted(@))]
              /\ ppc' = ppc /\ ppc[i] = "select" /\ Head(cmdq[i]).type = "SnapshotComplete"
              /\ check' = [check EXCEPT ![i] = None]
              /\ cmdq[i] # <<>> /\ cmdq' = [cmdq EXCEPT ![i] = Tail(@)]
          BY <4>6 DEF TakeComplete, Takes
        <5>2. gate'[i] = GateComplete(Counted(gate[i])) /\ gate' \in [Instruments -> Gates]
          BY <3>1, <3>4, <5>1 DEF Types
        <5>3. check' \in [Instruments -> [top : Tops, verdict : {"match", "divergence"}] \cup {None}]
          BY <5>1 DEF Types
        <5>4. Types'
          BY <4>1, <4>3, <4>4, <5>1, <5>2, <5>3 DEF Types
        <5>5. fresh' = fresh
          BY <4>2, <5>1 DEF TakeClear, Takes
        <5>6. Streams(i)'
          <6>1. /\ Counted(gate[i]) \in Gates
                /\ Counted(gate[i]).inRecovery = gate[i].inRecovery
                /\ Counted(gate[i]).bbo = gate[i].bbo
            BY <3>1, <3>4 DEF Counted, Gates
          <6>2. /\ gate'[i].bbo = gate[i].bbo /\ gate'[i].complete = TRUE
                /\ gate'[i].inRecovery = IF gate[i].bbo THEN FALSE ELSE gate[i].inRecovery
            BY <5>2, <6>1 DEF GateComplete, Rejoin, Gates
          <6>3. rxOpen'[i] = rxOpen[i] /\ ppc'[i] = ppc[i] /\ fresh'[i] = fresh[i]
            BY <4>1, <5>1, <5>5
          <6> QED
            BY <3>1, <6>2, <6>3 DEF Streams, Gates
        <5>7. Judged(i)'
          BY <5>1 DEF Judged
        <5> QED
          BY <3>3, <4>1, <5>4, <5>6, <5>7
      <4>7. CASE SendOutput(i)
        <5>1. /\ ppc' = [ppc EXCEPT ![i] = "select"] /\ ppc[i] = "output"
              /\ UNCHANGED <<cmdq, gate, check>>
          BY <4>7 DEF SendOutput
        <5>2. fresh' = fresh
          BY <4>2, <5>1 DEF TakeClear, Takes
        <5>3. Types'
          BY <4>1, <4>3, <5>1 DEF Types
        <5>4. Streams(i)' /\ Judged(i)'
          BY <3>1, <4>1, <5>1, <5>2 DEF Streams, Judged, Types
        <5> QED
          BY <3>3, <4>1, <5>3, <5>4
      <4>8. CASE TakeEvent(i)
        <5>1. /\ gate' = gate /\ ppc[i] = "select" /\ Head(cmdq[i]).type = "Event"
              /\ cmdq[i] # <<>> /\ cmdq' = [cmdq EXCEPT ![i] = Tail(@)]
          BY <4>8 DEF TakeEvent, Takes
        <5>2. fresh' = fresh
          BY <4>2, <5>1 DEF TakeClear, Takes
        <5>3. CASE ppc' = ppc /\ check' = [check EXCEPT ![i] = None]
          <6>1. Types'
            BY <4>1, <4>3, <4>4, <5>1, <5>3 DEF Types
          <6>2. Streams(i)' /\ Judged(i)'
            BY <3>1, <4>1, <5>1, <5>2, <5>3 DEF Streams, Judged
          <6> QED
            BY <3>3, <4>1, <6>1, <6>2
        <5>4. ASSUME NEW top \in Tops \cup {None}, NEW t \in Times,
                     check' = [check EXCEPT ![i] = Verdict(i, top, t)],
                     ppc' = [ppc EXCEPT ![i] = "output"]
              PROVE  Parts'
          <6> DEFINE k == BestMatch(ring[i], top, t)
                     v == Verdict(i, top, t)
          <6>1. v # None => /\ top \in Tops /\ k # None
                            /\ v = [top |-> top, verdict |-> IF ring[i].buf[k].top = top
                                                             THEN "match" ELSE "divergence"]
            BY DEF Verdict
          <6>2. k # None => (ring[i].buf[k].top = top <=> Exact(ring[i], top) # {})
            <7>1. t \in Nat
              BY PipelineAssumption
            <7>2. CASE Exact(ring[i], top) # {}
              <8>1. Exact(ring[i], top) \in SUBSET Held(ring[i]) /\ Held(ring[i]) # {}
                BY <7>2 DEF Exact
              <8>2. k \in Exact(ring[i], top)
                BY <3>1, <7>1, <7>2, <8>1, ClosestIsOne DEF BestMatch
              <8> QED
                BY <7>2, <8>2 DEF Exact
            <7>3. CASE Exact(ring[i], top) = {} /\ Held(ring[i]) # {}
              <8>1. k \in Held(ring[i])
                BY <3>1, <7>1, <7>3, ClosestIsOne DEF BestMatch
              <8> QED
                BY <7>3, <8>1 DEF Exact
            <7>4. CASE Held(ring[i]) = {}
              BY <7>4 DEF BestMatch
            <7> QED
              BY <7>2, <7>3, <7>4
          <6>3. Exact(ring[i], top) # {} <=> \E m \in 1 .. Len(recent[i]) : recent[i][m].top = top
            <7>0. RingSize \in Nat \ {0} /\ Len(recent[i]) \in Nat /\ None \notin BBO
              BY <3>1, LenProperties, PipelineAssumption DEF BBO
            <7>1. ASSUME NEW j \in Exact(ring[i], top)
                  PROVE  \E m \in 1 .. Len(recent[i]) : recent[i][m].top = top
              <8> DEFINE next == ring[i].next
                         back == IF j < next THEN next - 1 - j ELSE next + RingSize - 1 - j
              <8>1. j \in 0 .. RingSize - 1 /\ ring[i].buf[j] # None /\ ring[i].buf[j].top = top
                BY <7>1 DEF Exact, Held
              <8>2. next \in 0 .. RingSize - 1
                BY <3>1 DEF Rings
              <8>3. /\ back \in 0 .. RingSize - 1
                    /\ j = IF back < next THEN next - 1 - back ELSE next + RingSize - 1 - back
                BY <7>0, <8>1, <8>2
              <8> HIDE DEF back
              <8>4. Slot(ring[i], back) = j
                <9>1. Slot(ring[i], back) = IF back < next THEN next - 1 - back
                                            ELSE next + RingSize - 1 - back
                  BY <3>1, <8>3, Wraps
                <9> QED
                  BY <8>3, <9>1
              <8>5. ring[i].buf[j] = IF back < Len(recent[i])
                                     THEN recent[i][Len(recent[i]) - back] ELSE None
                BY <3>1, <8>3, <8>4 DEF Remembers
              <8>6. back < Len(recent[i]) /\ recent[i][Len(recent[i]) - back].top = top
                BY <8>1, <8>5
              <8> QED
                BY <7>0, <8>3, <8>6
            <7>2. ASSUME NEW m \in 1 .. Len(recent[i]), recent[i][m].top = top
                  PROVE  Exact(ring[i], top) # {}
              <8> DEFINE back == Len(recent[i]) - m
              <8>1. back \in 0 .. RingSize - 1 /\ back < Len(recent[i]) /\ Len(recent[i]) - back = m
                BY <3>1, <7>0 DEF Remembers
              <8>2. recent[i][m] \in BBO
                BY <3>1, ElementOfSeq
              <8> HIDE DEF back
              <8>3. Slot(ring[i], back) \in 0 .. RingSize - 1
                BY <3>1, <8>1, Wraps
              <8>4. ring[i].buf[Slot(ring[i], back)] = recent[i][m]
                BY <3>1, <8>1 DEF Remembers
              <8>5. Slot(ring[i], back) \in Exact(ring[i], top)
                BY <7>0, <7>2, <8>2, <8>3, <8>4 DEF Exact, Held
              <8> QED
                BY <8>5
            <7> QED
              BY <7>1, <7>2
          <6> HIDE DEF k
          <6>4. v \in [top : Tops, verdict : {"match", "divergence"}] \cup {None}
            BY <6>1
          <6>5. v # None => (v.verdict = "match"
                              <=> \E m \in 1 .. Len(recent[i]) : recent[i][m].top = v.top)
            BY <6>1, <6>2, <6>3
          <6> HIDE DEF v
          <6>6. check' = [check EXCEPT ![i] = v]
            BY <5>4 DEF v
          <6>7. Types'
            BY <4>1, <4>3, <4>4, <5>1, <5>4, <6>4, <6>6 DEF Types
          <6>8. Streams(i)'
            BY <3>1, <4>1, <5>1, <5>2, <5>4 DEF Streams, Types
          <6>9. Judged(i)'
            BY <4>1, <6>5, <6>6 DEF Judged, Types
          <6> QED
            BY <3>3, <4>1, <6>7, <6>8, <6>9
        <5> QED
          BY <4>8, <5>3, <5>4 DEF TakeEvent
      <4> QED
        BY <3>8, <4>5, <4>6, <4>7, <4>8
    <3>9. CASE BboClosed(i) \/ CmdClosed(i) \/ Degrade(i) \/ OutputClosed(i)
      <4>1. /\ rxOpen' = [rxOpen EXCEPT ![i] = FALSE]
            /\ cmdq' = [cmdq EXCEPT ![i] = <<>>] /\ bboq' = [bboq EXCEPT ![i] = <<>>]
            /\ \E how \in {"closed", "degraded", "output_closed"} : ppc' = [ppc EXCEPT ![i] = how]
            /\ ring' = ring /\ check' = check
        BY <3>9 DEF BboClosed, CmdClosed, Degrade, OutputClosed, Return
      <4>2. recent' = recent /\ Remembers(i)' /\ fresh' = [fresh EXCEPT ![i] = @ /\ ~TakeClear(i)]
        <5>1. ~TakesBbo(i)
          BY <4>1 DEF TakesBbo, Types
        <5> QED
          BY <3>6, <4>1, <5>1
      <4>3. fresh' \in [Instruments -> BOOLEAN]
        BY <3>1, <4>2 DEF Types
      <4>4. gate' \in [Instruments -> Gates]
        <5>1. [Counted(gate[i]) EXCEPT !.complete = TRUE] \in Gates
          <6>1. Counted(gate[i]) \in Gates
            BY <3>1, <3>4
          <6> QED
            BY <6>1 DEF Gates
        <5>2. gate' = gate \/ gate' = [gate EXCEPT ![i] = [Counted(@) EXCEPT !.complete = TRUE]]
          BY <3>9 DEF BboClosed, CmdClosed, Degrade, OutputClosed
        <5> QED
          BY <3>1, <5>1, <5>2 DEF Types
      <4>5. /\ ppc' \in [Instruments -> {"select", "output", "closed", "degraded", "output_closed"}]
            /\ ppc'[i] \notin {"select", "output"} /\ ~rxOpen'[i]
        BY <4>1 DEF Types
      <4>6. cmdq' \in [Instruments -> Seq(Command)] /\ bboq' \in [Instruments -> Seq(BBO)]
        BY <4>1, EmptySeq DEF Types
      <4>7. rxOpen' \in [Instruments -> BOOLEAN]
        BY <4>1 DEF Types
      <4>8. Types'
        BY <4>1, <4>2, <4>3, <4>4, <4>5, <4>6, <4>7 DEF Types
      <4> QED
        BY <3>3, <4>2, <4>5, <4>8 DEF Streams, Judged
    <3> QED
      BY <2>4, <3>5, <3>8, <3>9 DEF PStep, BboBranch, CmdBranch, Emit
  <2> QED
    BY <2>2, <2>3, <2>4 DEF Next, Pipelines, Stopped
<1> QED
  BY <1>1, <1>2, <1>3, PTL DEF Spec

(* A pipeline leaves a recovery exactly when the completion of its clear    *)
(* and a BBO that came after it are both there.                             *)
THEOREM GateIsJoined == Spec => []GateJoins
<1>1. IInv => GateJoins
  BY DEF IInv
<1> QED
  BY <1>1, Invariance, PTL

(* The ring holds exactly the last RingSize BBOs a pipeline took, the       *)
(* newest before next, across every wrap-around (pipeline.rs:96-137).       *)
THEOREM RingIsRight == Spec => []RingHoldsRecent
<1>1. IInv => RingHoldsRecent
  BY DEF IInv
<1> QED
  BY <1>1, Invariance, PTL

(* A batch end is a match if and only if one of the BBOs in the ring shows  *)
(* the prices of the book (pipeline.rs:139-167).                            *)
THEOREM VerdictIsRight == Spec => []CheckIsRight
<1>1. IInv => CheckIsRight
  BY DEF IInv
<1> QED
  BY <1>1, Invariance, PTL

-----------------------------------------------------------------------------
(* Degradation: the completions a pipeline counted and those still queued   *)
(* for it are no more than its clears, less one if the last clear is not    *)
(* yet completed. Tallies are what the count will be after each of the      *)
(* queued commands.                                                         *)
Done(g) == g.recoveries + (IF g.initialDone THEN 1 ELSE 0)

Completions(c) == IF c.type = "SnapshotComplete" THEN 1 ELSE 0

Tallies(from, q, to, limit) ==
  \E f \in [0 .. Len(q) -> Nat] :
    /\ f[0] = from /\ f[Len(q)] <= to
    /\ \A k \in 1 .. Len(q) : f[k] = f[k - 1] + Completions(q[k])
    /\ \A k \in 0 .. Len(q) : f[k] <= limit

Completed(i) == IF open[i] THEN clears[i] - 1 ELSE clears[i]

Tally(i) ==
  /\ gate[i].recoveries > 0 => gate[i].initialDone
  /\ rxOpen[i] => /\ gate[i].recoveries < MaxRecoveries
                  /\ Tallies(Done(gate[i]), cmdq[i], Completed(i), clears[i])
  /\ ~rxOpen[i] => IF ppc[i] = "degraded"
                   THEN gate[i].recoveries = MaxRecoveries /\ clears[i] > MaxRecoveries
                   ELSE gate[i].recoveries < MaxRecoveries

Tallied ==
  /\ clears \in [Instruments -> Nat] /\ open \in [Instruments -> BOOLEAN]
  /\ \A i \in Instruments : Tally(i)

(* Tallies when a command is queued, when one is taken, and when a clear    *)
(* raises what they may reach.                                              *)
LEMMA TalliesGrow ==
  ASSUME NEW q \in Seq(Command), NEW c \in Command, NEW from \in Nat,
         NEW to \in Int, NEW limit \in Nat, Tallies(from, q, to, limit),
         NEW tonew \in Int, NEW limitnew \in Nat,
         to + Completions(c) <= tonew, tonew <= limitnew, limit <= limitnew
  PROVE  Tallies(from, Append(q, c), tonew, limitnew)
<1>1. PICK f \in [0 .. Len(q) -> Nat] :
        /\ f[0] = from /\ f[Len(q)] <= to
        /\ \A k \in 1 .. Len(q) : f[k] = f[k - 1] + Completions(q[k])
        /\ \A k \in 0 .. Len(q) : f[k] <= limit
  BY DEF Tallies
<1>2. /\ Len(q) \in Nat /\ Len(Append(q, c)) = Len(q) + 1
      /\ Append(q, c)[Len(q) + 1] = c
      /\ \A k \in 1 .. Len(q) : Append(q, c)[k] = q[k]
  BY AppendProperties, LenProperties
<1>3. Completions(c) \in Nat
  <2> HIDE DEF Command
  <2> QED
    BY DEF Completions
<1> HIDE DEF Completions, Command
<1> DEFINE n == Len(q)
           g == [k \in 0 .. n + 1 |-> IF k = n + 1 THEN f[n] + Completions(c) ELSE f[k]]
<1>4. g \in [0 .. n + 1 -> Nat]
  <2>1. n \in 0 .. n /\ \A k \in 0 .. n + 1 : k # n + 1 => k \in 0 .. n
    BY <1>2
  <2>2. f[n] + Completions(c) \in Nat
    BY <1>3, <2>1
  <2> QED
    BY <2>1, <2>2
<1>5. /\ g[n + 1] = f[n] + Completions(c)
      /\ \A k \in 0 .. n : g[k] = f[k]
  BY <1>2
<1> HIDE DEF g
<1>6. g[0] = from /\ g[n + 1] <= tonew
  BY <1>1, <1>2, <1>3, <1>5
<1>7. ASSUME NEW k \in 1 .. n + 1 PROVE g[k] = g[k - 1] + Completions(Append(q, c)[k])
  <2>1. CASE k = n + 1
    BY <1>2, <1>5, <2>1
  <2>2. CASE k # n + 1
    <3>1. k \in 1 .. n /\ k - 1 \in 0 .. n /\ k \in 0 .. n
      BY <1>2, <2>2
    <3> QED
      BY <1>1, <1>2, <1>5, <3>1
  <2> QED
    BY <2>1, <2>2
<1>8. ASSUME NEW k \in 0 .. n + 1 PROVE g[k] <= limitnew
  <2>1. CASE k = n + 1
    BY <1>2, <1>4, <1>6, <2>1
  <2>2. CASE k # n + 1
    <3>1. k \in 0 .. n /\ f[k] \in Nat
      BY <1>2, <2>2
    <3> QED
      BY <1>1, <1>5, <3>1
  <2> QED
    BY <2>1, <2>2
<1> QED
  BY <1>2, <1>4, <1>6, <1>7, <1>8 DEF Tallies

LEMMA TalliesShrink ==
  ASSUME NEW q \in Seq(Command), q # <<>>, NEW from \in Nat,
         NEW to \in Int, NEW limit \in Nat, Tallies(from, q, to, limit)
  PROVE  /\ Tallies(from + Completions(Head(q)), Tail(q), to, limit)
         /\ from + Completions(Head(q)) <= limit
<1>1. PICK f \in [0 .. Len(q) -> Nat] :
        /\ f[0] = from /\ f[Len(q)] <= to
        /\ \A k \in 1 .. Len(q) : f[k] = f[k - 1] + Completions(q[k])
        /\ \A k \in 0 .. Len(q) : f[k] <= limit
  BY DEF Tallies
<1>2. /\ Len(q) \in Nat \ {0} /\ Len(Tail(q)) = Len(q) - 1 /\ Head(q) = q[1]
      /\ \A k \in 1 .. Len(q) - 1 : Tail(q)[k] = q[k + 1]
  <2>1. Len(q) \in Nat \ {0} /\ Head(q) = q[1]
    BY LenProperties, EmptySeq
  <2> QED
    BY <2>1, HeadTailProperties
<1> HIDE DEF Completions, Command
<1> DEFINE n == Len(q)
           g == [k \in 0 .. n - 1 |-> f[k + 1]]
<1>3. g \in [0 .. n - 1 -> Nat] /\ \A k \in 0 .. n - 1 : g[k] = f[k + 1] /\ k + 1 \in 1 .. n
  BY <1>2
<1> HIDE DEF g
<1>4. f[1] = from + Completions(Head(q))
  BY <1>1, <1>2
<1>5. g[0] = f[1] /\ g[n - 1] = f[n]
  BY <1>2, <1>3
<1>6. ASSUME NEW k \in 1 .. n - 1 PROVE g[k] = g[k - 1] + Completions(Tail(q)[k])
  <2>1. k \in 0 .. n - 1 /\ k - 1 \in 0 .. n - 1 /\ k + 1 \in 1 .. n /\ (k - 1) + 1 = k
        /\ (k + 1) - 1 = k
    BY <1>2
  <2>2. g[k] = f[k + 1] /\ g[k - 1] = f[k] /\ f[k + 1] = f[k] + Completions(q[k + 1])
    BY <1>1, <1>3, <2>1
  <2> QED
    BY <1>2, <2>2
<1>7. \A k \in 0 .. n - 1 : g[k] <= limit
  BY <1>1, <1>3
<1>8. 1 \in 0 .. n
  BY <1>2
<1>9. f[1] <= limit
  BY <1>1, <1>8
<1> QED
  BY <1>1, <1>2, <1>3, <1>4, <1>5, <1>6, <1>7, <1>9 DEF Tallies

(* Counting holds at the start and every step preserves it, given IInv.     *)
LEMMA Counting == Spec => []Tallied
<1>1. Init => Tallied
  <2> SUFFICES ASSUME Init PROVE Tallied
    OBVIOUS
  <2>1. clears \in [Instruments -> Nat] /\ open \in [Instruments -> BOOLEAN]
    BY DEF Init
  <2>2. ASSUME NEW i \in Instruments PROVE Tally(i)
    <3>1. /\ gate[i] = FreshGate /\ rxOpen[i] = TRUE /\ cmdq[i] = <<>>
          /\ clears[i] = 0 /\ open[i] = FALSE
      BY <2>2 DEF Init, PInit
    <3>2. Tallies(0, <<>>, 0, 0)
      <4> DEFINE f == [k \in 0 .. 0 |-> 0]
      <4>1. Len(<<>>) = 0
        BY EmptySeq
      <4>2. f \in [0 .. 0 -> Nat] /\ f[0] = 0 /\ \A k \in 0 .. 0 : f[k] <= 0
        OBVIOUS
      <4>3. 1 .. 0 = {}
        OBVIOUS
      <4> HIDE DEF f
      <4> QED
        BY <4>1, <4>2, <4>3 DEF Tallies
    <3> QED
      BY <3>1, <3>2, PipelineAssumption DEF Tally, FreshGate, Done, Completed
  <2> QED
    BY <2>1, <2>2 DEF Tallied
<1>2. IInv /\ Tallied /\ [Next]_vars => Tallied'
  <2> SUFFICES ASSUME IInv, Tallied, [Next]_vars PROVE Tallied'
    OBVIOUS
  <2>0. /\ Types /\ clears \in [Instruments -> Nat] /\ open \in [Instruments -> BOOLEAN]
        /\ \A i \in Instruments : /\ Tally(i)
                                  /\ rxOpen[i] <=> ppc[i] \in {"select", "output"}
    BY DEF IInv, Tallied
  <2>1. ASSUME UNCHANGED <<clears, open, gate, cmdq, rxOpen, ppc>> PROVE Tallied'
    BY <2>1 DEF Tallied, Tally, Tallies, Done, Completed
  <2>2. ASSUME NEW i \in Instruments, NEW c \in Command, PutCommand(i, c)
        PROVE  Tallied'
    <3>1. /\ rxOpen[i] /\ cmdq' = [cmdq EXCEPT ![i] = Append(@, c)]
          /\ UNCHANGED <<gate, rxOpen, ppc>>
      BY <2>2 DEF PutCommand, pstate
    <3>2. /\ clears' \in [Instruments -> Nat] /\ open' \in [Instruments -> BOOLEAN]
          /\ clears[i] <= clears'[i] /\ Completed(i) + Completions(c) <= Completed(i)'
          /\ \A j \in Instruments \ {i} : clears'[j] = clears[j] /\ open'[j] = open[j]
      <4>1. CASE c.type = "Event" /\ UNCHANGED <<clears, open>>
        BY <2>0, <4>1 DEF Completed, Completions
      <4>2. CASE /\ c.type = "ClearBook" /\ clears' = [clears EXCEPT ![i] = @ + 1]
                 /\ open' = [open EXCEPT ![i] = TRUE]
        BY <2>0, <4>2 DEF Completed, Completions
      <4>3. CASE /\ c.type = "SnapshotComplete" /\ open[i] /\ clears' = clears
                 /\ open' = [open EXCEPT ![i] = FALSE]
        BY <2>0, <4>3 DEF Completed, Completions
      <4> QED
        BY <2>2, <4>1, <4>2, <4>3 DEF PutCommand
    <3>3. Tally(i)'
      <4>1. /\ gate[i] \in Gates /\ cmdq[i] \in Seq(Command) /\ clears[i] \in Nat
            /\ clears'[i] \in Nat /\ open[i] \in BOOLEAN /\ open'[i] \in BOOLEAN
            /\ rxOpen'[i] /\ gate'[i] = gate[i] /\ cmdq'[i] = Append(cmdq[i], c)
        BY <2>0, <3>1, <3>2 DEF Types
      <4>2. /\ Completed(i) \in Int /\ Completed(i)' \in Int /\ Completed(i)' <= clears'[i]
            /\ Done(gate[i]) \in Nat
        BY <4>1 DEF Completed, Done, Gates
      <4>3. /\ gate[i].recoveries > 0 => gate[i].initialDone
            /\ gate[i].recoveries < MaxRecoveries
            /\ Tallies(Done(gate[i]), cmdq[i], Completed(i), clears[i])
        BY <2>0, <3>1 DEF Tally
      <4>4. PICK done \in Nat : done = Done(gate[i])
        BY <4>2
      <4>5. PICK to \in Int : to = Completed(i)
        BY <4>2
      <4>6. PICK tonew \in Int : tonew = Completed(i)'
        BY <4>2
      <4>7. PICK limitnew \in Nat : limitnew = clears'[i]
        BY <4>1
      <4>8. Tallies(done, Append(cmdq[i], c), tonew, limitnew)
        <5>1. Tallies(done, cmdq[i], to, clears[i])
          BY <4>3, <4>4, <4>5
        <5>2. to + Completions(c) <= tonew /\ tonew <= limitnew /\ clears[i] <= limitnew
          BY <3>2, <4>2, <4>5, <4>6, <4>7
        <5> QED
          BY <4>1, <5>1, <5>2, TalliesGrow
      <4>9. Tallies(Done(gate[i]), cmdq[i], Completed(i), clears[i])'
        BY <4>1, <4>4, <4>6, <4>7, <4>8 DEF Tallies, Done
      <4> QED
        BY <4>1, <4>3, <4>9 DEF Tally
    <3>4. ASSUME NEW j \in Instruments \ {i} PROVE Tally(j)'
      <4>1. /\ cmdq'[j] = cmdq[j] /\ gate'[j] = gate[j] /\ rxOpen'[j] = rxOpen[j]
            /\ ppc'[j] = ppc[j] /\ clears'[j] = clears[j] /\ open'[j] = open[j] /\ Tally(j)
        BY <2>0, <3>1, <3>2 DEF Types
      <4> QED
        BY <4>1 DEF Tally, Tallies, Done, Completed
    <3> QED
      BY <3>2, <3>3, <3>4 DEF Tallied
  <2>3. ASSUME NEW i \in Instruments, PStep(i), UNCHANGED <<clears, open>>
        PROVE  Tallied'
    <3>1. /\ gate[i] \in Gates /\ cmdq[i] \in Seq(Command) /\ clears[i] \in Nat
          /\ open[i] \in BOOLEAN /\ Tally(i) /\ Completed(i) \in Int
          /\ rxOpen[i] <=> ppc[i] \in {"select", "output"}
      BY <2>0 DEF Types, Completed
    <3>2. ASSUME NEW j \in Instruments \ {i} PROVE Tally(j)'
      <4>1. /\ cmdq'[j] = cmdq[j] /\ gate'[j] = gate[j] /\ rxOpen'[j] = rxOpen[j]
            /\ ppc'[j] = ppc[j] /\ clears'[j] = clears[j] /\ open'[j] = open[j] /\ Tally(j)
        BY <2>0, <2>3 DEF PStep, BboBranch, CmdBranch, Emit, TakeBbo, BboClosed, CmdClosed,
                TakeClear, TakeComplete, Degrade, TakeEvent, SendOutput, OutputClosed,
                Return, Types
      <4> QED
        BY <4>1 DEF Tally, Tallies, Done, Completed
    <3>3. ASSUME Tally(i)' PROVE Tallied'
      BY <2>0, <2>3, <3>2, <3>3 DEF Tallied
    (* Neither the counters nor the commands that complete are touched. *)
    <3>4. ASSUME gate'[i].recoveries = gate[i].recoveries,
                 gate'[i].initialDone = gate[i].initialDone,
                 rxOpen'[i] = rxOpen[i], rxOpen[i], cmdq'[i] = cmdq[i]
          PROVE  Tallied'
      BY <2>3, <3>1, <3>3, <3>4 DEF Tally, Tallies, Done, Completed
    <3>5. ASSUME gate'[i].recoveries = gate[i].recoveries,
                 gate'[i].initialDone = gate[i].initialDone,
                 rxOpen'[i] = rxOpen[i], rxOpen[i], cmdq[i] # <<>>, cmdq'[i] = Tail(cmdq[i]),
                 Head(cmdq[i]).type # "SnapshotComplete"
          PROVE  Tallied'
      <4>1. Completions(Head(cmdq[i])) = 0 /\ Done(gate[i]) \in Nat
        BY <3>1, <3>5 DEF Completions, Done, Gates
      <4>2. Tallies(Done(gate[i]), cmdq[i], Completed(i), clears[i])
        BY <3>1, <3>5 DEF Tally
      <4>3. Tallies(Done(gate[i]) + 0, Tail(cmdq[i]), Completed(i), clears[i])
        BY <3>1, <3>5, <4>1, <4>2, TalliesShrink
      <4>4. Tallies(Done(gate[i]), Tail(cmdq[i]), Completed(i), clears[i])
        BY <4>1, <4>3
      <4>5. Tallies(Done(gate[i]), cmdq[i], Completed(i), clears[i])'
        BY <2>3, <3>5, <4>4 DEF Tallies, Done, Completed
      <4> QED
        BY <3>1, <3>3, <3>5, <4>5 DEF Tally
    <3>6. CASE TakeBbo(i)
      <4>1. /\ gate'[i] = GateBbo(gate[i]) /\ cmdq' = cmdq /\ rxOpen' = rxOpen /\ rxOpen[i]
        BY <2>0, <3>1, <3>6 DEF TakeBbo, Types
      <4>2. gate'[i].recoveries = gate[i].recoveries /\ gate'[i].initialDone = gate[i].initialDone
        BY <3>1, <4>1 DEF GateBbo, Rejoin, Gates
      <4> QED
        BY <3>4, <4>1, <4>2
    <3>7. CASE SendOutput(i)
      <4>1. /\ gate' = gate /\ cmdq' = cmdq /\ rxOpen' = rxOpen /\ rxOpen[i]
        BY <3>1, <3>7 DEF SendOutput
      <4> QED
        BY <3>4, <4>1
    <3>8. CASE TakeEvent(i)
      <4>1. /\ gate' = gate /\ cmdq'[i] = Tail(cmdq[i]) /\ cmdq[i] # <<>>
            /\ rxOpen' = rxOpen /\ rxOpen[i] /\ Head(cmdq[i]).type = "Event"
        BY <2>0, <3>1, <3>8 DEF TakeEvent, Takes, Types
      <4> QED
        BY <3>5, <4>1
    <3>9. CASE TakeClear(i)
      <4>1. /\ gate'[i] = GateClear(gate[i]) /\ cmdq'[i] = Tail(cmdq[i]) /\ cmdq[i] # <<>>
            /\ rxOpen' = rxOpen /\ rxOpen[i] /\ Head(cmdq[i]).type = "ClearBook"
        BY <2>0, <3>1, <3>9 DEF TakeClear, Takes, Types
      <4>2. gate'[i].recoveries = gate[i].recoveries /\ gate'[i].initialDone = gate[i].initialDone
        BY <3>1, <4>1 DEF GateClear, Gates
      <4> QED
        BY <3>5, <4>1, <4>2
    <3>10. CASE TakeComplete(i) \/ Degrade(i)
      <4>1. /\ cmdq[i] # <<>> /\ rxOpen[i] /\ Head(cmdq[i]).type = "SnapshotComplete"
        BY <3>1, <3>10 DEF TakeComplete, Degrade, Takes
      <4>2. /\ gate[i].recoveries > 0 => gate[i].initialDone
            /\ gate[i].recoveries < MaxRecoveries
            /\ Tallies(Done(gate[i]), cmdq[i], Completed(i), clears[i])
        BY <3>1, <4>1 DEF Tally
      <4>3. Completions(Head(cmdq[i])) = 1 /\ Done(gate[i]) \in Nat
        BY <3>1, <4>1 DEF Completions, Done, Gates
      <4>4. /\ Tallies(Done(gate[i]) + 1, Tail(cmdq[i]), Completed(i), clears[i])
            /\ Done(gate[i]) + 1 <= clears[i]
        BY <3>1, <4>1, <4>2, <4>3, TalliesShrink
      <4>5. /\ Counted(gate[i]).recoveries = IF gate[i].initialDone THEN gate[i].recoveries + 1
                                             ELSE gate[i].recoveries
            /\ Counted(gate[i]).initialDone = TRUE
        BY <3>1 DEF Counted, Gates
      <4>6. MaxRecoveries \in Nat \ {0} /\ gate[i].recoveries \in Nat /\ gate[i].initialDone \in BOOLEAN
        BY <3>1, PipelineAssumption DEF Gates
      <4>7. CASE TakeComplete(i)
        <5>1. /\ gate'[i] = GateComplete(Counted(gate[i])) /\ cmdq'[i] = Tail(cmdq[i])
              /\ rxOpen' = rxOpen /\ Counted(gate[i]).recoveries < MaxRecoveries
          <6>1. ~(Counted(gate[i]).recoveries >= MaxRecoveries)
            BY <4>7 DEF TakeComplete, Degraded
          <6>2. Counted(gate[i]).recoveries \in Nat
            BY <4>5, <4>6
          <6>3. Counted(gate[i]).recoveries < MaxRecoveries
            BY <4>6, <6>1, <6>2
          <6> QED
            BY <2>0, <4>7, <6>3 DEF TakeComplete, Types
        <5>2. /\ gate'[i].recoveries = Counted(gate[i]).recoveries
              /\ gate'[i].initialDone = Counted(gate[i]).initialDone
          BY <3>1, <5>1 DEF GateComplete, Rejoin, Counted, Gates
        <5>3. Done(gate'[i]) = Done(gate[i]) + 1
          BY <4>2, <4>5, <4>6, <5>2 DEF Done
        <5>4. Tallies(Done(gate[i]), cmdq[i], Completed(i), clears[i])'
          BY <2>3, <4>4, <5>1, <5>3 DEF Tallies, Done, Completed
        <5>5. /\ rxOpen'[i] /\ gate'[i].recoveries < MaxRecoveries
              /\ gate'[i].recoveries > 0 => gate'[i].initialDone
          BY <4>1, <4>5, <5>1, <5>2
        <5> QED
          BY <3>3, <5>4, <5>5 DEF Tally
      <4>8. CASE Degrade(i)
        <5>1. /\ gate'[i] = [Counted(gate[i]) EXCEPT !.complete = TRUE]
              /\ ~rxOpen'[i] /\ ppc'[i] = "degraded"
          BY <2>0, <4>8 DEF Degrade, Return, Types
        <5>2. Counted(gate[i]).recoveries >= MaxRecoveries
          BY <4>8 DEF Degrade, Degraded
        <5>3. /\ gate'[i].recoveries = Counted(gate[i]).recoveries
              /\ gate'[i].initialDone = Counted(gate[i]).initialDone
          BY <3>1, <5>1 DEF Counted, Gates
        <5>4. gate[i].initialDone /\ gate'[i].recoveries = MaxRecoveries
          BY <4>2, <4>5, <4>6, <5>2, <5>3
        <5>5. clears'[i] > MaxRecoveries
          <6>1. Done(gate[i]) = MaxRecoveries
            BY <4>5, <4>6, <5>3, <5>4 DEF Done
          <6> QED
            BY <2>3, <3>1, <4>4, <4>6, <6>1
        <5>6. gate'[i].initialDone
          BY <4>5, <5>3
        <5> QED
          BY <3>3, <5>1, <5>4, <5>5, <5>6 DEF Tally
      <4> QED
        BY <3>10, <4>7, <4>8
    <3>11. CASE BboClosed(i) \/ CmdClosed(i) \/ OutputClosed(i)
      <4>1. /\ gate' = gate /\ rxOpen[i] /\ ~rxOpen'[i]
            /\ ppc'[i] \in {"closed", "output_closed"}
        BY <2>0, <3>1, <3>11 DEF BboClosed, CmdClosed, OutputClosed, Return, Types
      <4> QED
        BY <3>1, <3>3, <4>1 DEF Tally
    <3> QED
      BY <2>3, <3>6, <3>7, <3>8, <3>9, <3>10, <3>11 DEF PStep, BboBranch, CmdBranch, Emit
  <2>4. CASE Feeds
    <3>1. CASE \E i \in Instruments, c \in Command : PutCommand(i, c)
      BY <2>2, <3>1
    <3>2. CASE ~\E i \in Instruments, c \in Command : PutCommand(i, c)
      <4>1. UNCHANGED <<clears, open, gate, cmdq, rxOpen, ppc>>
        BY <2>4, <3>2 DEF Feeds, PutBbo, ProducerEnds, PrintLine, OutputEnds, pstate, history
      <4> QED
        BY <2>1, <4>1
    <3> QED
      BY <3>1, <3>2
  <2>5. CASE UNCHANGED vars
    BY <2>1, <2>5 DEF vars, pchannels, pstate, history
  <2> QED
    BY <2>3, <2>4, <2>5 DEF Next, Pipelines, Stopped
<1> QED
  BY <1>1, <1>2, Invariance, PTL DEF Spec

(* A pipeline gives up exactly when it counted MaxRecoveries completions    *)
(* after the first, and then the dispatcher cleared it more often than that *)
(* (pipeline.rs:260-292).                                                   *)
THEOREM GivesUpInTime == Spec => []Degradation
<1>1. IInv /\ Tallied => Degradation
  <2> SUFFICES ASSUME IInv, Tallied, NEW i \in Instruments
               PROVE  /\ ppc[i] = "degraded" =>
                           gate[i].recoveries = MaxRecoveries /\ clears[i] > MaxRecoveries
                      /\ gate[i].recoveries = MaxRecoveries => ppc[i] = "degraded"
    BY DEF Degradation
  <2>1. Tally(i) /\ gate[i] \in Gates /\ (rxOpen[i] <=> ppc[i] \in {"select", "output"})
    BY DEF IInv, Tallied, Types
  <2>2. gate[i].recoveries \in Nat /\ MaxRecoveries \in Nat
    BY <2>1, PipelineAssumption DEF Gates
  <2> QED
    BY <2>1, <2>2 DEF Tally
<1> QED
  BY <1>1, Counting, Invariance, PTL
=============================================================================
