----------------------------- MODULE LiveProofs -----------------------------
(***************************************************************************)
(* The tasks of a session, for any instruments, messages and channel       *)
(* sizes: a pipeline is in recovery while its snapshot loads, and the      *)
(* tasks live and die as TaskLife says. Nothing is known of the messages,  *)
(* so a queue is a sequence over some set and a history has some highest   *)
(* number; the invariant is about modes, clears, gates and open channels.  *)
(***************************************************************************)
EXTENDS LiveFeed, TLAPS

-----------------------------------------------------------------------------
(* What the commands of a queue leave the gate with.                        *)
Ungated(q) == \A k \in DOMAIN q : q[k].type = "Event"

LEMMA UngatedStays ==
  ASSUME NEW q, NEW complete, Ungated(q)
  PROVE  GateAfter(q, complete) = complete
BY DEF Ungated, GateAfter

(* A command that is sent is the last to act on the gate. *)
LEMMA SentDecides ==
  ASSUME NEW S, NEW q \in Seq(S), NEW c, NEW complete \in BOOLEAN
  PROVE  /\ c.type = "Event" =>
              /\ GateAfter(Append(q, c), complete) <=> GateAfter(q, complete)
              /\ Ungated(Append(q, c)) <=> Ungated(q)
         /\ c.type # "Event" =>
              (GateAfter(Append(q, c), complete) <=> c.type = "SnapshotComplete")
<1> DEFINE r == Append(q, c)
           G(s) == {k \in DOMAIN s : s[k].type # "Event"}
<1>1. /\ DOMAIN q = 1 .. Len(q) /\ Len(q) \in Nat
      /\ DOMAIN r = 1 .. (Len(q) + 1)
      /\ r[Len(q) + 1] = c
      /\ \A k \in 1 .. Len(q) : r[k] = q[k]
  OBVIOUS
<1> HIDE DEF r
<1>2. CASE c.type = "Event"
  <2>1. G(r) = G(q)
    BY <1>1, <1>2
  <2>2. \A k \in G(q) : r[k] = q[k]
    BY <1>1
  <2>3. Ungated(r) <=> Ungated(q)
    BY <2>1 DEF Ungated
  <2>4. GateAfter(r, complete) <=> GateAfter(q, complete)
    BY <2>1, <2>2 DEF GateAfter
  <2> QED
    BY <1>2, <2>3, <2>4 DEF r
<1>3. CASE c.type # "Event"
  <2>1. Len(q) + 1 \in G(r) /\ \A k \in G(r) : k <= Len(q) + 1
    BY <1>1, <1>3
  <2>2. \A k \in G(r) : (\A j \in G(r) : j <= k) => k = Len(q) + 1
    BY <1>1, <2>1
  <2>3. GateAfter(r, complete) <=> r[Len(q) + 1].type = "SnapshotComplete"
    BY <2>1, <2>2 DEF GateAfter
  <2> QED
    BY <1>1, <1>3, <2>3 DEF r
<1> QED
  BY <1>2, <1>3

(* Taking the first command and letting it act on the gate changes nothing. *)
LEMMA TakenActs ==
  ASSUME NEW S, NEW q \in Seq(S), q # <<>>, NEW complete \in BOOLEAN, NEW after \in BOOLEAN,
         Head(q).type = "Event" => after = complete,
         Head(q).type # "Event" => (after <=> Head(q).type = "SnapshotComplete")
  PROVE  /\ GateAfter(Tail(q), after) <=> GateAfter(q, complete)
         /\ Ungated(q) => Head(q).type = "Event" /\ Ungated(Tail(q))
<1> DEFINE r == Tail(q)
           G(s) == {k \in DOMAIN s : s[k].type # "Event"}
<1>1. /\ DOMAIN q = 1 .. Len(q) /\ Len(q) \in Nat \ {0} /\ Head(q) = q[1]
      /\ DOMAIN r = 1 .. (Len(q) - 1)
      /\ \A k \in 1 .. (Len(q) - 1) : r[k] = q[k + 1]
  OBVIOUS
<1> HIDE DEF r
<1>2. \A k \in G(r) : k + 1 \in G(q) /\ q[k + 1] = r[k]
  BY <1>1
<1>3. \A k \in G(q) : k = 1 \/ (k - 1 \in G(r) /\ q[k] = r[k - 1])
  BY <1>1
<1>4. CASE G(r) = {}
  <2>1. GateAfter(r, after) <=> after
    BY <1>4 DEF GateAfter
  <2>2. ASSUME Head(q).type = "Event" PROVE GateAfter(r, after) <=> GateAfter(q, complete)
    <3>1. G(q) = {}
      BY <1>1, <1>3, <1>4, <2>2
    <3>2. GateAfter(q, complete) <=> complete
      BY <3>1 DEF GateAfter
    <3> QED
      BY <2>1, <2>2, <3>2, Zenon
  <2>3. ASSUME Head(q).type # "Event" PROVE GateAfter(r, after) <=> GateAfter(q, complete)
    <3>1. G(q) = {1}
      BY <1>1, <1>3, <1>4, <2>3
    <3>2. GateAfter(q, complete) <=> q[1].type = "SnapshotComplete"
      BY <3>1 DEF GateAfter
    <3> QED
      BY <1>1, <2>1, <2>3, <3>2, Zenon
  <2>4. Ungated(q) => Head(q).type = "Event" /\ Ungated(r)
    BY <1>1 DEF Ungated
  <2> QED
    BY <2>1, <2>2, <2>3, <2>4 DEF r
<1>5. CASE G(r) # {}
  <2>1. G(q) # {}
    BY <1>2, <1>5
  <2>2. ASSUME NEW k \in G(r), r[k].type = "SnapshotComplete", \A j \in G(r) : j <= k
        PROVE  GateAfter(q, complete)
    <3>1. k + 1 \in G(q) /\ q[k + 1].type = "SnapshotComplete"
      BY <1>2, <2>2
    <3>2. \A j \in G(q) : j <= k + 1
      BY <1>1, <1>3, <2>2
    <3> QED
      BY <2>1, <3>1, <3>2 DEF GateAfter
  <2>3. ASSUME NEW k \in G(q), q[k].type = "SnapshotComplete", \A j \in G(q) : j <= k
        PROVE  GateAfter(r, after)
    <3>1. PICK j \in G(r) : TRUE
      BY <1>5
    <3>2. j + 1 <= k /\ j \in Nat \ {0} /\ k \in Nat
      BY <1>1, <1>2, <2>3, <3>1
    <3>3. k - 1 \in G(r) /\ r[k - 1] = q[k]
      BY <1>3, <3>2
    <3>4. \A h \in G(r) : h <= k - 1
      BY <1>1, <1>2, <2>3
    <3> QED
      BY <1>5, <2>3, <3>3, <3>4 DEF GateAfter
  <2>4. GateAfter(r, after) <=> GateAfter(q, complete)
    BY <1>5, <2>1, <2>2, <2>3 DEF GateAfter
  <2>5. Ungated(q) => Head(q).type = "Event" /\ Ungated(r)
    BY <1>1 DEF Ungated
  <2> QED
    BY <2>4, <2>5 DEF r
<1> QED
  BY <1>4, <1>5


-----------------------------------------------------------------------------
(* The invariant. *)

Gates == [inRecovery : BOOLEAN, complete : BOOLEAN, bbo : BOOLEAN, initialDone : BOOLEAN,
          recoveries : Nat]

Modes == [Instruments -> {"Streaming", "Loading"}]

Types ==
  /\ mode \in Modes
  /\ \E H : sent \in [Instruments -> [cleared : BOOLEAN, high : H]]
  /\ \E S : cmdq \in [Instruments -> Seq(S)]
  /\ gate \in [Instruments -> Gates]
  /\ rxOpen \in [Instruments -> BOOLEAN]
  /\ ppc \in [Instruments -> {"select", "output", "closed", "degraded", "output_closed"}]
  /\ \A i \in Instruments : rxOpen[i] <=> ppc[i] \in {"select", "output"}
  /\ pc \in {"request", "events", "replay", "replaying"} => cur \in Instruments
  /\ todo \subseteq Instruments

(* A completion is under way for the instrument that is being served. *)
Replaying == {"replay", "replaying"}

(* A clear is open from the load it begins to the end of the replay.        *)
ClearsAreOpen(m, s, at, c) ==
  \A i \in Instruments : s[i].cleared <=> m[i] = "Loading" \/ (at \in Replaying /\ c = i)

Loads ==
  pc \notin Ended =>
    /\ pc \in Replaying \cup {"complete"} => \A j \in todo : mode[j] = "Loading"
    /\ pc \in Replaying => mode[cur] = "Streaming"
    /\ ClearsAreOpen(mode, sent, pc, cur)

(* An open clear leaves the gate shut; without one the gate is open, or was *)
(* never meant to.                                                          *)
Shut(cleared, q, complete) ==
  /\ cleared => ~GateAfter(q, complete)
  /\ ~cleared /\ ~GateAfter(q, complete) => ~complete /\ Ungated(q)

Gated ==
  \A i \in Instruments : rxOpen[i] => Shut(sent[i].cleared, cmdq[i], gate[i].complete)

LiveInv == Types /\ Loads /\ Gated

LEMMA AppendTypes ==
  ASSUME NEW S, NEW f \in [Instruments -> Seq(S)], NEW i \in Instruments, NEW c
  PROVE  /\ [f EXCEPT ![i] = Append(@, c)] \in [Instruments -> Seq(S \cup {c})]
         /\ [f EXCEPT ![i] = Append(@, c)][i] = Append(f[i], c)
         /\ \A j \in Instruments \ {i} : [f EXCEPT ![i] = Append(@, c)][j] = f[j]
<1>1. \A j \in Instruments : f[j] \in Seq(S \cup {c})
  OBVIOUS
<1>2. Append(f[i], c) \in Seq(S \cup {c})
  BY <1>1
<1> QED
  BY <1>1, <1>2

(* What the dispatcher sends keeps the gates as the history says.           *)
LEMMA SendKeeps ==
  ASSUME Types, Gated, NEW i \in Instruments, CanSend(i), NEW c, Send(i, c),
         UNCHANGED <<gate, rxOpen>>,
         \A j \in Instruments \ {i} : sent'[j].cleared = sent[j].cleared,
         sent'[i].cleared \in BOOLEAN,
         \/ c.type = "Event" /\ sent'[i].cleared = sent[i].cleared
         \/ c.type = "ClearBook" /\ sent'[i].cleared
         \/ c.type = "SnapshotComplete" /\ ~sent'[i].cleared
  PROVE  Gated' /\ \E S : cmdq' \in [Instruments -> Seq(S)]
<1>1. PICK S : cmdq \in [Instruments -> Seq(S)]
  BY DEF Types
<1>2. /\ cmdq' \in [Instruments -> Seq(S \cup {c})]
      /\ cmdq'[i] = Append(cmdq[i], c)
      /\ \A j \in Instruments \ {i} : cmdq'[j] = cmdq[j]
  BY <1>1, AppendTypes DEF Send
<1>3. gate[i].complete \in BOOLEAN /\ rxOpen[i] /\ cmdq[i] \in Seq(S)
  BY <1>1 DEF Types, Gates, CanSend
<1>4. Shut(sent[i].cleared, cmdq[i], gate[i].complete)
  BY <1>3 DEF Gated
<1>5. /\ c.type = "Event" =>
           /\ GateAfter(cmdq'[i], gate[i].complete) <=> GateAfter(cmdq[i], gate[i].complete)
           /\ Ungated(cmdq'[i]) <=> Ungated(cmdq[i])
      /\ c.type # "Event" =>
           (GateAfter(cmdq'[i], gate[i].complete) <=> c.type = "SnapshotComplete")
  <2> DEFINE q == cmdq[i]
             g == gate[i].complete
  <2>1. q \in Seq(S) /\ g \in BOOLEAN
    BY <1>3
  <2> HIDE DEF q, g
  <2>2. /\ c.type = "Event" =>
             /\ GateAfter(Append(q, c), g) <=> GateAfter(q, g)
             /\ Ungated(Append(q, c)) <=> Ungated(q)
        /\ c.type # "Event" => (GateAfter(Append(q, c), g) <=> c.type = "SnapshotComplete")
    BY <2>1, SentDecides
  <2> USE DEF q, g
  <2> QED
    BY <2>2, <1>2, Zenon
<1>6. Shut(sent'[i].cleared, cmdq'[i], gate[i].complete)
  <2>1. CASE c.type = "Event" /\ sent'[i].cleared = sent[i].cleared
    <3>1. /\ GateAfter(cmdq'[i], gate[i].complete) <=> GateAfter(cmdq[i], gate[i].complete)
          /\ Ungated(cmdq'[i]) <=> Ungated(cmdq[i])
      BY <1>5, <2>1, Zenon
    <3> QED
      BY <3>1, <2>1, <1>4, Zenon DEF Shut
  <2>2. CASE c.type = "ClearBook" /\ sent'[i].cleared
    <3>1. GateAfter(cmdq'[i], gate[i].complete) <=> c.type = "SnapshotComplete"
      <4>1. c.type # "Event"
        BY <2>2
      <4> QED
        BY <1>5, <4>1, Zenon
    <3>2. ~GateAfter(cmdq'[i], gate[i].complete)
      BY <3>1, <2>2
    <3> QED
      BY <3>2, <2>2, Zenon DEF Shut
  <2>3. CASE c.type = "SnapshotComplete" /\ ~sent'[i].cleared
    <3>1. GateAfter(cmdq'[i], gate[i].complete) <=> c.type = "SnapshotComplete"
      <4>1. c.type # "Event"
        BY <2>3
      <4> QED
        BY <1>5, <4>1, Zenon
    <3>2. GateAfter(cmdq'[i], gate[i].complete)
      BY <3>1, <2>3
    <3> QED
      BY <3>2, <2>3, Zenon DEF Shut
  <2> QED
    BY <2>1, <2>2, <2>3
<1>7. ASSUME NEW j \in Instruments, rxOpen'[j]
      PROVE  Shut(sent'[j].cleared, cmdq'[j], gate'[j].complete)
  <2>1. CASE j = i
    BY <2>1, <1>6
  <2>2. CASE j # i
    <3>1. Shut(sent[j].cleared, cmdq[j], gate[j].complete)
      BY <1>7 DEF Gated
    <3> QED
      BY <3>1, <2>2, <1>2
  <2> QED
    BY <2>1, <2>2
<1> QED
  BY <1>2, <1>7, Zenon DEF Gated

(* Where a command is taken or dropped, the gate follows. *)
LEMMA TakeKeeps ==
  ASSUME Types, Gated, NEW i \in Instruments, cmdq[i] # <<>>,
         cmdq' = [cmdq EXCEPT ![i] = Tail(@)], UNCHANGED <<sent, rxOpen>>,
         gate' \in [Instruments -> Gates],
         \A j \in Instruments \ {i} : gate'[j] = gate[j],
         Head(cmdq[i]).type = "Event" => gate'[i] = gate[i],
         Head(cmdq[i]).type # "Event" =>
           (gate'[i].complete <=> Head(cmdq[i]).type = "SnapshotComplete")
  PROVE  Gated' /\ \E S : cmdq' \in [Instruments -> Seq(S)]
<1>1. PICK S : cmdq \in [Instruments -> Seq(S)]
  BY DEF Types
<1>2. /\ cmdq' \in [Instruments -> Seq(S)]
      /\ cmdq'[i] = Tail(cmdq[i])
      /\ \A j \in Instruments \ {i} : cmdq'[j] = cmdq[j]
  BY <1>1
<1>3. gate[i].complete \in BOOLEAN /\ gate'[i].complete \in BOOLEAN /\ cmdq[i] \in Seq(S)
  BY <1>1 DEF Types, Gates
<1>4. Head(cmdq[i]).type = "Event" => gate'[i].complete = gate[i].complete
  OBVIOUS
<1>5. /\ GateAfter(cmdq'[i], gate'[i].complete) <=> GateAfter(cmdq[i], gate[i].complete)
      /\ Ungated(cmdq[i]) => Head(cmdq[i]).type = "Event" /\ Ungated(cmdq'[i])
  <2> DEFINE q == cmdq[i]
             g == gate[i].complete
             a == gate'[i].complete
  <2>1. /\ q \in Seq(S) /\ q # <<>> /\ g \in BOOLEAN /\ a \in BOOLEAN
        /\ Head(q).type = "Event" => a = g
        /\ Head(q).type # "Event" => (a <=> Head(q).type = "SnapshotComplete")
    BY <1>3, <1>4
  <2> HIDE DEF q, g, a
  <2>2. /\ GateAfter(Tail(q), a) <=> GateAfter(q, g)
        /\ Ungated(q) => Head(q).type = "Event" /\ Ungated(Tail(q))
    BY <2>1, TakenActs
  <2> USE DEF q, g, a
  <2> QED
    BY <2>2, <1>2, Zenon
<1>6. ASSUME Shut(sent[i].cleared, cmdq[i], gate[i].complete)
      PROVE  Shut(sent[i].cleared, cmdq'[i], gate'[i].complete)
  BY <1>4, <1>5, <1>6, Zenon DEF Shut
<1>7. ASSUME NEW j \in Instruments, rxOpen'[j]
      PROVE  Shut(sent'[j].cleared, cmdq'[j], gate'[j].complete)
  <2>1. Shut(sent[j].cleared, cmdq[j], gate[j].complete)
    BY <1>7 DEF Gated
  <2>2. CASE j = i
    BY <2>1, <2>2, <1>6
  <2>3. CASE j # i
    BY <2>1, <2>3, <1>2
  <2> QED
    BY <2>2, <2>3
<1> QED
  BY <1>2, <1>7, Zenon DEF Gated

-----------------------------------------------------------------------------
(* The dispatcher. *)

(* A step of it that sends nothing and loads nothing.                       *)
LEMMA QuietKeeps ==
  ASSUME LiveInv, UNCHANGED <<mode, sent, cmdq, gate, rxOpen, ppc>>, pc \notin Ended,
         todo' \subseteq Instruments,
         pc' \in {"request", "events", "replay", "replaying"} => cur' \in Instruments,
         pc' \notin Ended =>
           /\ pc' \in Replaying <=> pc \in Replaying
           /\ pc \in Replaying => cur' = cur
           /\ pc' \in Replaying \cup {"complete"} => \A j \in todo' : mode[j] = "Loading"
  PROVE  LiveInv'
<1>1. Types'
  BY DEF LiveInv, Types
<1>2. Gated'
  BY DEF LiveInv, Gated
<1>3. Loads'
  <2> SUFFICES ASSUME pc' \notin Ended
               PROVE  /\ pc' \in Replaying \cup {"complete"} => \A j \in todo' : mode[j] = "Loading"
                      /\ pc' \in Replaying => mode[cur'] = "Streaming"
                      /\ ClearsAreOpen(mode, sent, pc', cur')
    BY DEF Loads
  <2> QED
    BY DEF LiveInv, Loads, ClearsAreOpen
<1> QED
  BY <1>1, <1>2, <1>3 DEF LiveInv

(* A clear that is sent opens a load, or opens it again.                    *)
LEMMA ClearKeeps ==
  ASSUME LiveInv, UNCHANGED <<gate, rxOpen, ppc>>, pc \in {"recv", "clear"},
         pc' \in {"request", "events"},
         NEW i \in Instruments, CanSend(i), Send(i, ClearBook), NoteCleared(i),
         mode' = [mode EXCEPT ![i] = "Loading"], cur' = i, todo' \subseteq Instruments
  PROVE  LiveInv'
<1>1. PICK H : sent \in [Instruments -> [cleared : BOOLEAN, high : H]]
  BY DEF LiveInv, Types
<1>2. /\ sent' \in [Instruments -> [cleared : BOOLEAN, high : H \cup {0}]]
      /\ sent'[i].cleared = TRUE
      /\ \A j \in Instruments \ {i} : sent'[j] = sent[j]
  BY <1>1 DEF NoteCleared
<1>3. Gated' /\ \E S : cmdq' \in [Instruments -> Seq(S)]
  BY <1>2, SendKeeps DEF LiveInv, ClearBook
<1>4. Types'
  BY <1>2, <1>3 DEF LiveInv, Types, Modes
<1>5. Loads'
  <2>1. ClearsAreOpen(mode, sent, pc, cur)
    BY DEF LiveInv, Loads, Ended
  <2>2. \A j \in Instruments : sent'[j].cleared <=> mode'[j] = "Loading"
    BY <1>2, <2>1 DEF LiveInv, Types, Modes, ClearsAreOpen, Replaying
  <2> QED
    BY <2>2 DEF Loads, ClearsAreOpen, Replaying
<1> QED
  BY <1>3, <1>4, <1>5 DEF LiveInv

(* The load of an instrument ends, its clear stays open.                    *)
LEMMA CompleteStartKeeps ==
  ASSUME LiveInv, NEW i \in Instruments, CompleteStart(i), UNCHANGED <<gate, ppc>>
  PROVE  LiveInv'
<1>1. /\ pc = "complete" /\ i \in todo /\ mode' = [mode EXCEPT ![i] = "Streaming"]
      /\ cur' = i /\ todo' = todo \ {i} /\ pc' = "replay"
      /\ UNCHANGED <<cmdq, rxOpen, sent>>
  BY DEF CompleteStart, channels
<1>2. Types'
  BY <1>1 DEF LiveInv, Types, Modes
<1>3. Gated'
  BY <1>1 DEF LiveInv, Gated
<1>4. /\ \A j \in todo : mode[j] = "Loading"
      /\ ClearsAreOpen(mode, sent, pc, cur)
  BY <1>1 DEF LiveInv, Loads, Ended
<1>5. mode \in Modes /\ mode' \in Modes /\ todo \subseteq Instruments
  BY <1>2 DEF LiveInv, Types
<1>6. \A j \in Instruments : sent'[j].cleared <=> mode'[j] = "Loading" \/ j = i
  BY <1>1, <1>4, <1>5 DEF ClearsAreOpen, Replaying, Modes
<1>7. mode'[i] = "Streaming" /\ \A j \in todo' : mode'[j] = "Loading"
  BY <1>1, <1>4, <1>5 DEF Modes
<1>8. ClearsAreOpen(mode', sent', pc', cur')
  BY <1>1, <1>6 DEF ClearsAreOpen, Replaying
<1> QED
  BY <1>1, <1>2, <1>3, <1>7, <1>8 DEF LiveInv, Loads

(* An event acts on no gate.                                                *)
LEMMA EventKeeps ==
  ASSUME LiveInv, UNCHANGED <<mode, gate, rxOpen, ppc, cur, todo, pc>>,
         NEW i \in Instruments, CanSend(i), NEW c, Send(i, c), c.type = "Event",
         \/ sent' = sent
         \/ \E h : sent' = [sent EXCEPT ![i].high = h]
  PROVE  LiveInv'
<1>1. PICK H : sent \in [Instruments -> [cleared : BOOLEAN, high : H]]
  BY DEF LiveInv, Types
<1>2. /\ \E G : sent' \in [Instruments -> [cleared : BOOLEAN, high : G]]
      /\ \A j \in Instruments : sent'[j].cleared = sent[j].cleared /\ sent'[j].cleared \in BOOLEAN
  <2>1. CASE sent' = sent
    BY <1>1, <2>1
  <2>2. ASSUME NEW h, sent' = [sent EXCEPT ![i].high = h]
        PROVE  /\ \E G : sent' \in [Instruments -> [cleared : BOOLEAN, high : G]]
               /\ \A j \in Instruments : sent'[j].cleared = sent[j].cleared
                                         /\ sent'[j].cleared \in BOOLEAN
    <3>1. /\ sent' \in [Instruments -> [cleared : BOOLEAN, high : H \cup {h}]]
          /\ \A j \in Instruments : sent'[j].cleared = sent[j].cleared
      BY <1>1, <2>2
    <3> QED
      BY <3>1
  <2> QED
    BY <2>1, <2>2
<1>3. Gated' /\ \E S : cmdq' \in [Instruments -> Seq(S)]
  BY <1>2, SendKeeps DEF LiveInv
<1>4. Types'
  BY <1>2, <1>3 DEF LiveInv, Types
<1>5. Loads'
  BY <1>2 DEF LiveInv, Loads, ClearsAreOpen
<1> QED
  BY <1>3, <1>4, <1>5 DEF LiveInv

(* The completion closes the clear. *)
LEMMA CompleteEndKeeps ==
  ASSUME LiveInv, CompleteEnd, UNCHANGED <<gate, ppc>>
  PROVE  LiveInv'
<1>1. /\ pc = "replay" /\ CanSend(cur) /\ Send(cur, SnapshotComplete) /\ NoteComplete(cur)
      /\ UNCHANGED <<mode, todo, rxOpen>> /\ pc' \in {"recv", "complete"}
  BY DEF CompleteEnd, loading
<1>2. cur \in Instruments
  BY <1>1 DEF LiveInv, Types
<1>3. PICK H : sent \in [Instruments -> [cleared : BOOLEAN, high : H]]
  BY DEF LiveInv, Types
<1>4. /\ sent' \in [Instruments -> [cleared : BOOLEAN, high : H]]
      /\ sent'[cur].cleared = FALSE
      /\ \A j \in Instruments \ {cur} : sent'[j] = sent[j]
  BY <1>1, <1>2, <1>3 DEF NoteComplete
<1>5. Gated' /\ \E S : cmdq' \in [Instruments -> Seq(S)]
  BY <1>1, <1>2, <1>4, SendKeeps DEF LiveInv, SnapshotComplete
<1>6. Types'
  BY <1>1, <1>4, <1>5 DEF LiveInv, Types
<1>7. /\ \A j \in todo : mode[j] = "Loading"
      /\ mode[cur] = "Streaming"
      /\ ClearsAreOpen(mode, sent, pc, cur)
  BY <1>1 DEF LiveInv, Loads, Ended, Replaying
<1>8. \A j \in Instruments : sent'[j].cleared <=> mode[j] = "Loading"
  BY <1>1, <1>2, <1>4, <1>7 DEF ClearsAreOpen, Replaying
<1>9. Loads'
  BY <1>1, <1>7, <1>8 DEF Loads, ClearsAreOpen, Replaying
<1> QED
  BY <1>5, <1>6, <1>9 DEF LiveInv

LEMMA DispatcherKeeps ==
  ASSUME LiveInv, UNCHANGED <<gate, ppc>>,
         (\E m : Receive(m)) \/ Proceed \/ RawClosed
  PROVE  LiveInv'
<1> USE DEF tracker, loading, serving, channels, dvars, Fail
<1>1. todo \subseteq Instruments
  BY DEF LiveInv, Types
<1>2. ASSUME NEW m, Receive(m) PROVE LiveInv'
  <2>1. pc = "recv"
    BY <1>2 DEF Receive, DboForeign, DboGap, DboStream, DboBuffer, SnapForeign, SnapColdStart,
                SnapColdStartFails, SnapEntry, Sentinel, SentinelStray, EndEvent, EndEventStray,
                SubscriptionAck, Other, Logout
  <2>2. CASE SnapColdStart(m)
    BY <2>1, <2>2, <1>1, ClearKeeps DEF SnapColdStart
  <2>3. CASE Sentinel(m) \/ EndEvent(m)
    <3>1. /\ UNCHANGED <<mode, sent, cmdq, rxOpen>> /\ pc' = "complete"
          /\ todo' \subseteq LoadingSet
      BY <2>3 DEF Sentinel, EndEvent
    <3> QED
      BY <2>1, <3>1, QuietKeeps DEF LoadingSet, Replaying, Ended
  <2>4. CASE DboGap(m)
    <3>1. /\ UNCHANGED <<mode, sent, cmdq, rxOpen>> /\ pc' = "clear" /\ todo' = Instruments
      BY <2>4 DEF DboGap, RecoverySet
    <3> QED
      BY <2>1, <3>1, QuietKeeps DEF Replaying, Ended
  <2>5. CASE DboStream(m) \/ SnapEntry(m)
    <3>1. /\ UNCHANGED <<mode, sent, cmdq, rxOpen, todo>> /\ pc' = "events"
          /\ cur' \in Instruments
      BY <2>5 DEF DboStream, SnapEntry
    <3> QED
      BY <2>1, <3>1, <1>1, QuietKeeps DEF Replaying, Ended
  <2>6. CASE \/ DboForeign(m) \/ DboBuffer(m) \/ SnapForeign(m) \/ SnapColdStartFails(m)
             \/ SentinelStray(m) \/ EndEventStray(m) \/ SubscriptionAck(m) \/ Other(m)
             \/ Logout(m)
    <3>1. /\ UNCHANGED <<mode, sent, cmdq, rxOpen, todo>>
          /\ pc' \in {"recv", "channel", "logout"}
      BY <2>1, <2>6 DEF DboForeign, DboBuffer, SnapForeign, SnapColdStartFails,
                SentinelStray, EndEventStray, SubscriptionAck, Other, Logout
    <3> QED
      BY <2>1, <3>1, <1>1, QuietKeeps DEF Replaying, Ended
  <2> QED
    BY <1>2, <2>2, <2>3, <2>4, <2>5, <2>6 DEF Receive
<1>3. ASSUME NEW i \in Instruments, RecoverClear(i) PROVE LiveInv'
  BY <1>1, <1>3, ClearKeeps DEF RecoverClear
<1>4. ASSUME NEW i \in Instruments, CompleteStart(i) PROVE LiveInv'
  BY <1>4, CompleteStartKeeps
<1>5. ASSUME RecoverRequest PROVE LiveInv'
  <2>1. /\ pc = "request" /\ pc' \in {"recv", "clear"}
        /\ UNCHANGED <<mode, sent, cmdq, rxOpen, todo>>
    BY <1>5 DEF RecoverRequest
  <2> QED
    BY <2>1, <1>1, QuietKeeps DEF Replaying, Ended
<1>6. ASSUME SendEvent PROVE LiveInv'
  <2>1. /\ cur \in Instruments /\ CanSend(cur) /\ Send(cur, EventOf(msg, part + 1))
        /\ NoteEvent(cur, msg) /\ UNCHANGED <<mode, rxOpen, cur, todo, pc>>
    BY <1>6 DEF SendEvent, LiveInv, Types
  <2>2. EventOf(msg, part + 1).type = "Event"
    BY DEF EventOf
  <2>3. \/ sent' = sent
        \/ \E h : sent' = [sent EXCEPT ![cur].high = h]
    BY <2>1 DEF NoteEvent
  <2> QED
    BY <2>1, <2>2, <2>3, EventKeeps
<1>7. ASSUME EventsDone \/ ReplayDiscard \/ ReplayStart \/ ReplayNext PROVE LiveInv'
  <2>1. /\ UNCHANGED <<mode, sent, cmdq, rxOpen, todo>>
        /\ \/ pc = "events" /\ pc' = "recv"
           \/ pc \in Replaying /\ pc' \in Replaying /\ cur' = cur
    <3>1. CASE EventsDone
      BY <3>1 DEF EventsDone
    <3>2. CASE ReplayDiscard
      BY <3>2 DEF ReplayDiscard, Replaying
    <3>3. CASE ReplayStart
      BY <3>3 DEF ReplayStart, Replaying
    <3>4. CASE ReplayNext
      BY <3>4 DEF ReplayNext, Replaying
    <3> QED
      BY <1>7, <3>1, <3>2, <3>3, <3>4
  <2>2. pc \in Replaying => cur \in Instruments /\ \A j \in todo : mode[j] = "Loading"
    BY DEF LiveInv, Types, Loads, Replaying, Ended
  <2> QED
    BY <2>1, <2>2, <1>1, QuietKeeps DEF Replaying, Ended
<1>8. ASSUME CompleteEnd PROVE LiveInv'
  BY <1>8, CompleteEndKeeps
<1>9. ASSUME SendFails \/ RawClosed PROVE LiveInv'
  <2>1. /\ UNCHANGED <<mode, sent, cmdq, rxOpen, todo>> /\ pc' \in Ended /\ pc \notin Ended
    BY <1>9 DEF SendFails, RawClosed, Ended
  <2> QED
    BY <2>1, <1>1, QuietKeeps DEF Ended
<1> QED
  BY <1>2, <1>3, <1>4, <1>5, <1>6, <1>7, <1>8, <1>9 DEF Proceed

-----------------------------------------------------------------------------
(* The pipelines. *)

(* A BBO, or a pipeline that waits for the output, leaves the gates' books. *)
LEMMA SelectKeeps ==
  ASSUME LiveInv, Elsewhere, UNCHANGED <<cmdq, rxOpen>>, NEW i \in Instruments,
         gate' \in [Instruments -> Gates],
         \A j \in Instruments : gate'[j].complete = gate[j].complete,
         \/ ppc' = ppc
         \/ ppc[i] = "output" /\ ppc' = [ppc EXCEPT ![i] = "select"]
  PROVE  LiveInv'
<1>1. UNCHANGED <<mode, sent, pc, cur, todo>>
  BY DEF Elsewhere, loading, serving
<1>2. Types'
  BY <1>1 DEF LiveInv, Types
<1>3. Gated'
  BY <1>1 DEF LiveInv, Gated
<1>4. Loads'
  BY <1>1 DEF LiveInv, Loads, ClearsAreOpen
<1> QED
  BY <1>2, <1>3, <1>4 DEF LiveInv

(* A pipeline that returns has no gate left to speak of.                    *)
LEMMA ReturnKeeps ==
  ASSUME LiveInv, Elsewhere, NEW i \in Instruments,
         NEW how \in {"closed", "degraded", "output_closed"}, P!Return(i, how),
         gate' \in [Instruments -> Gates], \A j \in Instruments \ {i} : gate'[j] = gate[j]
  PROVE  LiveInv'
<1>1. UNCHANGED <<mode, sent, pc, cur, todo>>
  BY DEF Elsewhere, loading, serving
<1>2. /\ ppc' = [ppc EXCEPT ![i] = how] /\ rxOpen' = [rxOpen EXCEPT ![i] = FALSE]
      /\ cmdq' = [cmdq EXCEPT ![i] = <<>>]
  BY DEF P!Return
<1>3. PICK S : cmdq \in [Instruments -> Seq(S)]
  BY DEF LiveInv, Types
<1>4. cmdq' \in [Instruments -> Seq(S)]
  <2>1. <<>> \in Seq(S)
    OBVIOUS
  <2> QED
    BY <1>2, <1>3, <2>1
<1>5. /\ rxOpen' \in [Instruments -> BOOLEAN]
      /\ ppc' \in [Instruments -> {"select", "output", "closed", "degraded", "output_closed"}]
      /\ \A j \in Instruments : rxOpen'[j] <=> ppc'[j] \in {"select", "output"}
  <2>1. /\ rxOpen \in [Instruments -> BOOLEAN]
        /\ ppc \in [Instruments -> {"select", "output", "closed", "degraded", "output_closed"}]
        /\ \A j \in Instruments : rxOpen[j] <=> ppc[j] \in {"select", "output"}
    BY DEF LiveInv, Types
  <2> QED
    BY <2>1, <1>2
<1>6. Types'
  BY <1>1, <1>4, <1>5 DEF LiveInv, Types
<1>7. Gated'
  <2> SUFFICES ASSUME NEW j \in Instruments, rxOpen'[j]
               PROVE  Shut(sent'[j].cleared, cmdq'[j], gate'[j].complete)
    BY DEF Gated
  <2>1. j # i
    BY <1>2 DEF LiveInv, Types
  <2>2. rxOpen'[j] = rxOpen[j] /\ cmdq'[j] = cmdq[j] /\ gate'[j] = gate[j]
    BY <1>2, <1>3, <2>1 DEF LiveInv, Types
  <2>3. Shut(sent[j].cleared, cmdq[j], gate[j].complete)
    BY <2>2 DEF LiveInv, Gated
  <2> QED
    BY <1>1, <2>2, <2>3
<1>8. Loads'
  BY <1>1 DEF LiveInv, Loads, ClearsAreOpen
<1> QED
  BY <1>6, <1>7, <1>8 DEF LiveInv

LEMMA CountedType == ASSUME NEW g \in Gates PROVE P!Counted(g) \in Gates
<1>1. PICK n \in Nat : n = g.recoveries + 1
  BY DEF Gates
<1>2. CASE g.initialDone
  <2>1. P!Counted(g) = [g EXCEPT !.recoveries = n]
    BY <1>1, <1>2 DEF P!Counted
  <2> QED
    BY <2>1 DEF Gates
<1>3. CASE ~g.initialDone
  <2>1. P!Counted(g) = [g EXCEPT !.initialDone = TRUE]
    BY <1>3 DEF P!Counted
  <2> QED
    BY <2>1 DEF Gates
<1> QED
  BY <1>2, <1>3

(* A pipeline that takes a command. *)
LEMMA TakesKeep ==
  ASSUME LiveInv, Elsewhere, NEW i \in Instruments, P!TakeClear(i) \/ P!TakeComplete(i) \/ P!TakeEvent(i)
  PROVE  LiveInv'
<1> USE DEF P!Takes
<1>1. UNCHANGED <<mode, sent, pc, cur, todo>>
  BY DEF Elsewhere, loading, serving
<1>2. /\ gate \in [Instruments -> Gates] /\ gate[i] \in Gates
      /\ ppc \in [Instruments -> {"select", "output", "closed", "degraded", "output_closed"}]
      /\ \A j \in Instruments : rxOpen[j] <=> ppc[j] \in {"select", "output"}
  BY DEF LiveInv, Types
<1>3. /\ cmdq[i] # <<>> /\ cmdq' = [cmdq EXCEPT ![i] = Tail(@)] /\ UNCHANGED rxOpen
      /\ ppc[i] = "select"
      /\ ppc' = ppc \/ ppc' = [ppc EXCEPT ![i] = "output"]
  BY DEF P!TakeClear, P!TakeComplete, P!TakeEvent
<1>4. ASSUME P!TakeClear(i)
      PROVE  /\ gate' \in [Instruments -> Gates]
             /\ \A j \in Instruments \ {i} : gate'[j] = gate[j]
             /\ Head(cmdq[i]).type = "Event" => gate'[i] = gate[i]
             /\ Head(cmdq[i]).type # "Event" =>
                  (gate'[i].complete <=> Head(cmdq[i]).type = "SnapshotComplete")
  <2>1. /\ gate' = [gate EXCEPT ![i] = P!GateClear(gate[i])] /\ Head(cmdq[i]).type = "ClearBook"
    BY <1>4 DEF P!TakeClear
  <2>2. P!GateClear(gate[i]) \in Gates /\ P!GateClear(gate[i]).complete = FALSE
    BY <1>2 DEF P!GateClear, Gates
  <2>3. /\ gate' \in [Instruments -> Gates] /\ gate'[i].complete = FALSE
        /\ \A j \in Instruments \ {i} : gate'[j] = gate[j]
    BY <1>2, <2>1, <2>2
  <2> QED
    BY <2>1, <2>3
<1>5. ASSUME P!TakeComplete(i)
      PROVE  /\ gate' \in [Instruments -> Gates]
             /\ \A j \in Instruments \ {i} : gate'[j] = gate[j]
             /\ Head(cmdq[i]).type = "Event" => gate'[i] = gate[i]
             /\ Head(cmdq[i]).type # "Event" =>
                  (gate'[i].complete <=> Head(cmdq[i]).type = "SnapshotComplete")
  <2>1. /\ gate' = [gate EXCEPT ![i] = P!GateComplete(P!Counted(gate[i]))]
        /\ Head(cmdq[i]).type = "SnapshotComplete"
    BY <1>5 DEF P!TakeComplete
  <2>2. P!Counted(gate[i]) \in Gates
    BY <1>2, CountedType
  <2>3. \A g \in Gates : P!GateComplete(g) \in Gates /\ P!GateComplete(g).complete = TRUE
    BY DEF P!GateComplete, P!Rejoin, Gates
  <2>4. /\ gate' \in [Instruments -> Gates] /\ gate'[i].complete = TRUE
        /\ \A j \in Instruments \ {i} : gate'[j] = gate[j]
    BY <1>2, <2>1, <2>2, <2>3
  <2> QED
    BY <2>1, <2>4
<1>6. ASSUME P!TakeEvent(i)
      PROVE  /\ gate' \in [Instruments -> Gates]
             /\ \A j \in Instruments \ {i} : gate'[j] = gate[j]
             /\ Head(cmdq[i]).type = "Event" => gate'[i] = gate[i]
             /\ Head(cmdq[i]).type # "Event" =>
                  (gate'[i].complete <=> Head(cmdq[i]).type = "SnapshotComplete")
  BY <1>2, <1>6 DEF P!TakeEvent
<1>7. /\ gate' \in [Instruments -> Gates]
      /\ \A j \in Instruments \ {i} : gate'[j] = gate[j]
      /\ Head(cmdq[i]).type = "Event" => gate'[i] = gate[i]
      /\ Head(cmdq[i]).type # "Event" =>
           (gate'[i].complete <=> Head(cmdq[i]).type = "SnapshotComplete")
  BY <1>4, <1>5, <1>6
<1>8. Gated' /\ \E S : cmdq' \in [Instruments -> Seq(S)]
  BY <1>1, <1>3, <1>7, TakeKeeps DEF LiveInv
<1>9. Types'
  BY <1>1, <1>2, <1>3, <1>7, <1>8 DEF LiveInv, Types
<1>10. Loads'
  BY <1>1 DEF LiveInv, Loads, ClearsAreOpen
<1> QED
  BY <1>8, <1>9, <1>10 DEF LiveInv

LEMMA PipelinesKeep ==
  ASSUME LiveInv, NEW i \in Instruments, PipelineBbo(i) \/ PipelineCmd(i) \/ PipelineOut(i)
  PROVE  LiveInv'
<1>1. Elsewhere
  BY DEF PipelineBbo, PipelineCmd, PipelineOut
<1>2. gate \in [Instruments -> Gates] /\ gate[i] \in Gates
  BY DEF LiveInv, Types
<1>3. CASE P!TakeBbo(i)
  <2>1. /\ gate' = [gate EXCEPT ![i] = P!GateBbo(gate[i])] /\ UNCHANGED <<cmdq, rxOpen, ppc>>
    BY <1>3 DEF P!TakeBbo
  <2>2. P!GateBbo(gate[i]) \in Gates /\ P!GateBbo(gate[i]).complete = gate[i].complete
    BY <1>2 DEF P!GateBbo, P!Rejoin, Gates
  <2>3. /\ gate' \in [Instruments -> Gates]
        /\ \A j \in Instruments : gate'[j].complete = gate[j].complete
    BY <1>2, <2>1, <2>2
  <2> QED
    BY <1>1, <2>1, <2>3, SelectKeeps
<1>4. CASE P!SendOutput(i)
  BY <1>1, <1>2, <1>4, SelectKeeps DEF P!SendOutput
<1>5. CASE P!BboClosed(i) \/ P!CmdClosed(i)
  BY <1>1, <1>2, <1>5, ReturnKeeps DEF P!BboClosed, P!CmdClosed
<1>6. CASE P!OutputClosed(i)
  BY <1>1, <1>2, <1>6, ReturnKeeps DEF P!OutputClosed
<1>7. CASE P!Degrade(i)
  <2>1. /\ gate' = [gate EXCEPT ![i] = [P!Counted(gate[i]) EXCEPT !.complete = TRUE]]
        /\ P!Return(i, "degraded")
    BY <1>7 DEF P!Degrade
  <2>2. [P!Counted(gate[i]) EXCEPT !.complete = TRUE] \in Gates
    BY <1>2, CountedType DEF Gates
  <2>3. /\ gate' \in [Instruments -> Gates]
        /\ \A j \in Instruments \ {i} : gate'[j] = gate[j]
    BY <1>2, <2>1, <2>2
  <2> QED
    BY <1>1, <2>1, <2>3, ReturnKeeps
<1>8. CASE P!TakeClear(i) \/ P!TakeComplete(i) \/ P!TakeEvent(i)
  BY <1>1, <1>8, TakesKeep
<1> QED
  BY <1>3, <1>4, <1>5, <1>6, <1>7, <1>8
  DEF PipelineBbo, PipelineCmd, PipelineOut, P!BboBranch, P!CmdBranch, P!Emit

-----------------------------------------------------------------------------
(* The whole session. *)

(* The BBO reader serves a known instrument. *)
Bound == bpc = "send" => bmsg.sym \in Instruments

LEMMA ReaderKeeps == ASSUME LiveInv, Bound, BboReader PROVE LiveInv' /\ Bound'
<1> USE DEF dvars, tracker, loading, serving, channels, pipelines, reader
<1>1. ASSUME UNCHANGED <<mode, sent, cmdq, gate, rxOpen, ppc, pc, cur, todo>> PROVE LiveInv'
  BY <1>1 DEF LiveInv, Types, Loads, ClearsAreOpen, Gated
<1>2. CASE BboReceive
  <2>1. LiveInv'
    BY <1>1, <1>2 DEF BboReceive
  <2>2. Bound'
    BY <1>2 DEF BboReceive, Forwarded, Bound
  <2> QED
    BY <2>1, <2>2
<1>3. CASE BboSend
  <2>1. bpc = "send" /\ bmsg.sym \in Instruments /\ bpc' = "recv"
    BY <1>3 DEF BboSend, Bound
  <2>2. CASE UNCHANGED cmdq
    BY <1>1, <1>3, <2>1, <2>2 DEF BboSend, Bound
  <2>3. CASE CanSend(bmsg.sym) /\ Send(bmsg.sym, TradeEvent(bmsg))
    <3>1. TradeEvent(bmsg).type = "Event"
      BY DEF TradeEvent
    <3>2. UNCHANGED <<mode, gate, rxOpen, ppc, cur, todo, pc, sent>>
      BY <1>3 DEF BboSend
    <3>3. LiveInv'
      BY <2>1, <2>3, <3>1, <3>2, EventKeeps
    <3> QED
      BY <2>1, <3>3 DEF Bound
  <2> QED
    BY <1>3, <2>2, <2>3 DEF BboSend
<1>4. CASE BboSendFails \/ BboRawClosed
  <2>1. LiveInv'
    BY <1>1, <1>4 DEF BboSendFails, BboRawClosed
  <2>2. Bound'
    BY <1>4 DEF BboSendFails, BboRawClosed, Bound
  <2> QED
    BY <2>1, <2>2
<1> QED
  BY <1>2, <1>3, <1>4 DEF BboReader

LEMMA LiveInit == Init => LiveInv /\ Bound
<1> SUFFICES ASSUME Init PROVE LiveInv /\ Bound
  OBVIOUS
<1> USE DEF Init, DInit, P!PInit
<1>1. Types
  <2>1. sent \in [Instruments -> [cleared : BOOLEAN, high : {0}]]
    OBVIOUS
  <2>2. cmdq \in [Instruments -> Seq({})]
    OBVIOUS
  <2>3. gate \in [Instruments -> Gates]
    BY DEF P!FreshGate, Gates
  <2>4. mode \in Modes
    BY DEF Modes
  <2> QED
    BY <2>1, <2>2, <2>3, <2>4 DEF Types
<1>2. Loads
  BY DEF Loads, ClearsAreOpen, Replaying
<1>3. Gated
  <2> SUFFICES ASSUME NEW i \in Instruments
               PROVE  Shut(sent[i].cleared, cmdq[i], gate[i].complete)
    BY DEF Gated
  <2>1. sent[i].cleared = FALSE /\ cmdq[i] = <<>> /\ gate[i].complete = FALSE
    BY DEF P!FreshGate
  <2>2. Ungated(cmdq[i])
    BY <2>1 DEF Ungated
  <2> QED
    BY <2>1, <2>2 DEF Shut
<1>4. Bound
  BY DEF Bound
<1> QED
  BY <1>1, <1>2, <1>3, <1>4 DEF LiveInv

LEMMA LiveStep == LiveInv /\ Bound /\ [Next]_vars => LiveInv' /\ Bound'
<1> SUFFICES ASSUME LiveInv, Bound, [Next]_vars PROVE LiveInv' /\ Bound'
  OBVIOUS
<1> USE DEF dvars, tracker, loading, serving, channels, pipelines, reader
<1>1. ASSUME UNCHANGED <<mode, sent, cmdq, gate, rxOpen, ppc, pc, cur, todo, bpc, bmsg>>
      PROVE  LiveInv' /\ Bound'
  BY <1>1 DEF LiveInv, Types, Loads, ClearsAreOpen, Gated, Bound
<1>2. ASSUME (\E m \in Wire : Read(m)) \/ SocketEnds \/ Router PROVE LiveInv' /\ Bound'
  BY <1>1, <1>2 DEF Read, SocketEnds, Router, HandOver, RouterBreaks
<1>3. ASSUME Dispatch PROVE LiveInv' /\ Bound'
  <2>1. /\ (\E m : Receive(m)) \/ Proceed \/ RawClosed
        /\ UNCHANGED <<gate, ppc, bpc, bmsg>>
    BY <1>3 DEF Dispatch
  <2> QED
    BY <2>1, DispatcherKeeps DEF Bound
<1>4. ASSUME BboReader PROVE LiveInv' /\ Bound'
  BY <1>4, ReaderKeeps
<1>5. ASSUME Output \/ PrintPanics PROVE LiveInv' /\ Bound'
  BY <1>1, <1>5 DEF Output, PrintLine, OutputClosed, PrintPanics
<1>6. ASSUME Writer \/ WriterEnds PROVE LiveInv' /\ Bound'
  BY <1>1, <1>6 DEF Writer, WriterTakes, WriterEnds
<1>7. ASSUME NEW i \in Instruments, PipelineBbo(i) \/ PipelineCmd(i) \/ PipelineOut(i)
      PROVE  LiveInv' /\ Bound'
  <2>1. UNCHANGED <<bpc, bmsg>>
    BY <1>7 DEF PipelineBbo, PipelineCmd, PipelineOut, Elsewhere
  <2> QED
    BY <1>7, <2>1, PipelinesKeep DEF Bound
<1>8. ASSUME UNCHANGED vars PROVE LiveInv' /\ Bound'
  BY <1>1, <1>8 DEF vars
<1> QED
  BY <1>2, <1>3, <1>4, <1>5, <1>6, <1>7, <1>8 DEF Next, Stopped

LEMMA LiveIsInvariant == Spec => [](LiveInv /\ Bound)
BY LiveInit, LiveStep, PTL DEF Spec

(* While an instrument's snapshot loads, its pipeline is in recovery or     *)
(* will be once it has taken what is queued, and when the load is done the  *)
(* completion is the last word (dispatcher.rs:226-251, 346-360, 485-545;    *)
(* pipeline.rs:216-303), with trades of the BBO reader in between and       *)
(* whichever tasks end.                                                     *)
THEOREM LoadsAreGated == Spec => []LoadingIsGated
<1>1. LiveInv => LoadingIsGated
  <2> SUFFICES ASSUME LiveInv, NEW i \in Instruments, rxOpen[i], pc \notin Ended
               PROVE  /\ mode[i] = "Loading" => ~CompleteAfter(i)
                      /\ ~CompleteAfter(i) /\ mode[i] = "Streaming" =>
                           \/ ~gate[i].complete /\ ~sent[i].cleared
                           \/ pc \in {"replay", "replaying"} /\ cur = i
    BY DEF LoadingIsGated
  <2>1. sent[i].cleared <=> mode[i] = "Loading" \/ (pc \in Replaying /\ cur = i)
    BY DEF LiveInv, Loads, ClearsAreOpen
  <2>2. Shut(sent[i].cleared, cmdq[i], gate[i].complete)
    BY DEF LiveInv, Gated
  <2> QED
    BY <2>1, <2>2 DEF Shut, CompleteAfter, Replaying
<1> QED
  BY <1>1, LiveIsInvariant, PTL

-----------------------------------------------------------------------------
(* The tasks' lives. *)

(* The one session's tasks, and how the status of one of them changes.      *)
Whole(f) == [s \in {1} |-> f]

Changes(f, g, t, v) == Whole(g) = [Whole(f) EXCEPT ![1][t] = v]

LEMMA OneSession ==
  ASSUME NEW f, NEW g, NEW t, NEW v, g = [f EXCEPT ![t] = v]
  PROVE  Whole(f)[1] = f /\ Changes(f, g, t, v)
BY DEF Whole, Changes

LEMMA Names ==
  /\ Life!Workers = Workers /\ Life!Tasks = Workers \cup Instruments
  /\ Workers \cap Instruments = {} /\ DOMAIN Status = Workers \cup Instruments
BY LiveAssumption DEF Life!Workers, Life!Tasks, Workers, Status

(* A task that ends while the others stay ends as TaskLife lets it.         *)
LEMMA EndsAsLife ==
  ASSUME NEW t \in Workers \cup Instruments, Status[t] = "alive",
         Status' = [Status EXCEPT ![t] = "ended"],
         t \in Instruments => Status["reader"] = "ended" \/ Status["output"] = "ended"
  PROVE  Life!LifeNext
<1>1. /\ Whole(Status)[1] = Status
      /\ Changes(Status, Status', t, "ended")
  BY OneSession, Zenon
<1>2. Life!MayEnd(Whole(Status)[1], t)
  BY <1>1 DEF Life!MayEnd, Life!Gone
<1>3. Life!End(1, t)
  BY <1>1, <1>2, Zenon DEF Life!End, Whole, Changes
<1> QED
  BY <1>3, Names DEF Life!LifeNext

LEMMA DegradesAsLife ==
  ASSUME NEW i \in Instruments, Status[i] = "alive",
         Status' = [Status EXCEPT ![i] = "degraded"]
  PROVE  Life!LifeNext
<1>1. /\ Whole(Status)[1] = Status
      /\ Changes(Status, Status', i, "degraded")
  BY OneSession, Zenon
<1>2. Life!Degrade(1, i)
  BY <1>1, Zenon DEF Life!Degrade, Whole, Changes
<1> QED
  BY <1>2 DEF Life!LifeNext

(* The statuses, of whatever the seven variables say.                       *)
StatusOf(router, writer, dispatcher, reading, output, pipes, open) ==
  [t \in Workers \cup Instruments |->
     IF t \in Instruments
     THEN IF pipes[t] = "degraded" THEN "degraded" ELSE EndedAs(~open[t])
     ELSE EndedAs(CASE t = "router"     -> router = "ended"
                    [] t = "writer"     -> ~writer
                    [] t = "dispatcher" -> dispatcher \in Ended
                    [] t = "reader"     -> reading \in Ended
                    [] t = "output"     -> ~output)]

LEMMA StatusIs ==
  Status = StatusOf(rpc, wsOpen, pc, bpc, outOpen, ppc, rxOpen)
BY DEF Status, StatusOf

(* A function on a set. *)
Over(D, f) == f = [t \in D |-> f[t]]

(* What the statuses st say of the seven.                                    *)
Tells(st, router, writer, dispatcher, reading, output, pipes, open) ==
  /\ st["router"] = EndedAs(router = "ended") /\ st["writer"] = EndedAs(~writer)
  /\ st["dispatcher"] = EndedAs(dispatcher \in Ended) /\ st["reader"] = EndedAs(reading \in Ended)
  /\ st["output"] = EndedAs(~output)
  /\ \A i \in Instruments :
       st[i] = IF pipes[i] = "degraded" THEN "degraded" ELSE EndedAs(~open[i])
  /\ Over(Workers \cup Instruments, st)

LEMMA StatusesAre ==
  ASSUME NEW router, NEW writer, NEW dispatcher, NEW reading, NEW output, NEW pipes, NEW open,
         NEW st, st = StatusOf(router, writer, dispatcher, reading, output, pipes, open)
  PROVE  Tells(st, router, writer, dispatcher, reading, output, pipes, open)
<1> USE Names DEF Workers, StatusOf
<1>1. \A i \in Instruments :
        st[i] = IF pipes[i] = "degraded" THEN "degraded" ELSE EndedAs(~open[i])
  OBVIOUS
<1>2. st["router"] = EndedAs(router = "ended")
  OBVIOUS
<1>3. st["writer"] = EndedAs(~writer)
  OBVIOUS
<1>4. st["dispatcher"] = EndedAs(dispatcher \in Ended)
  OBVIOUS
<1>5. st["reader"] = EndedAs(reading \in Ended)
  OBVIOUS
<1>6. st["output"] = EndedAs(~output)
  OBVIOUS
<1>7. Over(Workers \cup Instruments, st)
  BY DEF Over
<1> QED
  BY <1>1, <1>2, <1>3, <1>4, <1>5, <1>6, <1>7 DEF Tells

LEMMA OneChanges ==
  ASSUME NEW D, NEW f, NEW g, Over(D, f), Over(D, g),
         NEW t \in D, NEW v, g[t] = v, \A u \in D \ {t} : g[u] = f[u]
  PROVE  g = [f EXCEPT ![t] = v]
BY DEF Over

(* Whatever a step does to the statuses, one of these is how.               *)
Lives ==
  \/ Status' = Status
  \/ \E t \in Workers \cup Instruments :
       /\ Status[t] = "alive" /\ Status' = [Status EXCEPT ![t] = "ended"]
       /\ t \in Instruments => Status["reader"] = "ended" \/ Status["output"] = "ended"
  \/ \E i \in Instruments :
       Status[i] = "alive" /\ Status' = [Status EXCEPT ![i] = "degraded"]

LEMMA LivesAsLife == Lives => Life!LifeNext \/ Whole(Status') = Whole(Status)
BY EndsAsLife, DegradesAsLife DEF Lives

LEMMA StatusNow ==
  /\ Status["router"] = EndedAs(rpc = "ended") /\ Status["writer"] = EndedAs(~wsOpen)
  /\ Status["dispatcher"] = EndedAs(pc \in Ended) /\ Status["reader"] = EndedAs(bpc \in Ended)
  /\ Status["output"] = EndedAs(~outOpen)
  /\ \A i \in Instruments :
       Status[i] = IF ppc[i] = "degraded" THEN "degraded" ELSE EndedAs(~rxOpen[i])
  /\ Over(Workers \cup Instruments, Status)
<1>1. Tells(Status, rpc, wsOpen, pc, bpc, outOpen, ppc, rxOpen)
  BY StatusIs, StatusesAre, Zenon
<1> QED
  BY <1>1, Zenon DEF Tells

LEMMA StatusThen ==
  /\ Status'["router"] = EndedAs(rpc' = "ended") /\ Status'["writer"] = EndedAs(~wsOpen')
  /\ Status'["dispatcher"] = EndedAs(pc' \in Ended) /\ Status'["reader"] = EndedAs(bpc' \in Ended)
  /\ Status'["output"] = EndedAs(~outOpen')
  /\ \A i \in Instruments :
       Status'[i] = IF ppc'[i] = "degraded" THEN "degraded" ELSE EndedAs(~rxOpen'[i])
  /\ Over(Workers \cup Instruments, Status')
<1>1. Status' = StatusOf(rpc', wsOpen', pc', bpc', outOpen', ppc', rxOpen')
  BY DEF Status, StatusOf
<1>2. Tells(Status', rpc', wsOpen', pc', bpc', outOpen', ppc', rxOpen')
  BY <1>1, StatusesAre, Zenon
<1> QED
  BY <1>2, Zenon DEF Tells

(* A worker's step changes at most its own status. *)
LEMMA WorkerLives ==
  ASSUME UNCHANGED <<ppc, rxOpen>>,
         NEW w \in Workers,
         w = "router" \/ ((rpc = "ended") <=> (rpc' = "ended")),
         w = "writer" \/ UNCHANGED wsOpen,
         w = "dispatcher" \/ ((pc \in Ended) <=> (pc' \in Ended)),
         w = "reader" \/ ((bpc \in Ended) <=> (bpc' \in Ended)),
         w = "output" \/ UNCHANGED outOpen,
         w = "router" => rpc # "ended" /\ rpc' = "ended",
         w = "writer" => wsOpen /\ ~wsOpen',
         w = "dispatcher" => pc \notin Ended /\ pc' \in Ended,
         w = "reader" => bpc \notin Ended /\ bpc' \in Ended,
         w = "output" => outOpen /\ ~outOpen'
  PROVE  Lives
<1> PICK f : f = Status
  OBVIOUS
<1> PICK g : g = Status'
  OBVIOUS
<1>1. f[w] = "alive" /\ g[w] = "ended"
  BY StatusNow, StatusThen DEF Workers, EndedAs
<1>2. \A u \in (Workers \cup Instruments) \ {w} : g[u] = f[u]
  BY StatusNow, StatusThen DEF Workers, EndedAs
<1>3. g = [f EXCEPT ![w] = "ended"]
  <2>1. Over(Workers \cup Instruments, f) /\ Over(Workers \cup Instruments, g)
    BY StatusNow, StatusThen, Zenon
  <2>2. w \in Workers \cup Instruments
    OBVIOUS
  <2> QED
    BY <2>1, <2>2, <1>1, <1>2, OneChanges
<1>4. w \in Workers \cup Instruments /\ w \notin Instruments
  BY Names
<1> QED
  BY <1>1, <1>3, <1>4 DEF Lives

LEMMA NobodyLives ==
  ASSUME (rpc = "ended") <=> (rpc' = "ended"), UNCHANGED <<wsOpen, outOpen, rxOpen>>,
         (pc \in Ended) <=> (pc' \in Ended), (bpc \in Ended) <=> (bpc' \in Ended),
         \A i \in Instruments : (ppc[i] = "degraded") <=> (ppc'[i] = "degraded")
  PROVE  Lives
<1> PICK f : f = Status
  OBVIOUS
<1> PICK g : g = Status'
  OBVIOUS
<1>1. \A t \in Workers \cup Instruments : g[t] = f[t]
  BY StatusNow, StatusThen DEF Workers, EndedAs
<1>2. Over(Workers \cup Instruments, f) /\ Over(Workers \cup Instruments, g)
  BY StatusNow, StatusThen, Zenon
<1>3. g = f
  BY <1>1, <1>2 DEF Over
<1> QED
  BY <1>3 DEF Lives

(* A pipeline's step changes at most its own. *)
LEMMA PipelineLives ==
  ASSUME Types, UNCHANGED <<rpc, wsOpen, pc, bpc, outOpen>>, NEW i \in Instruments,
         NEW how \in {"closed", "degraded", "output_closed"}, P!Return(i, how),
         ppc[i] \in {"select", "output"},
         how = "degraded" \/ bpc \in Ended \/ ~outOpen
  PROVE  Lives
<1> PICK f : f = Status
  OBVIOUS
<1> PICK g : g = Status'
  OBVIOUS
<1>1. /\ ppc' = [ppc EXCEPT ![i] = how] /\ rxOpen' = [rxOpen EXCEPT ![i] = FALSE]
  BY DEF P!Return
<1>2. /\ rxOpen[i] /\ ppc[i] # "degraded" /\ ppc'[i] = how /\ ~rxOpen'[i]
      /\ \A j \in Instruments \ {i} : ppc'[j] = ppc[j] /\ rxOpen'[j] = rxOpen[j]
  BY <1>1 DEF Types
<1>3. f[i] = "alive" /\ g[i] = IF how = "degraded" THEN "degraded" ELSE "ended"
  BY <1>2, StatusNow, StatusThen DEF EndedAs
<1>4. \A u \in (Workers \cup Instruments) \ {i} : g[u] = f[u]
  BY <1>2, StatusNow, StatusThen DEF Workers, EndedAs
<1>5. g = [f EXCEPT ![i] = g[i]]
  <2>1. Over(Workers \cup Instruments, f) /\ Over(Workers \cup Instruments, g)
    BY StatusNow, StatusThen, Zenon
  <2> QED
    BY <2>1, <1>4, OneChanges
<1>6. how = "degraded" \/ f["reader"] = "ended" \/ f["output"] = "ended"
  BY StatusNow DEF EndedAs
<1> QED
  BY <1>3, <1>5, <1>6 DEF Lives

-----------------------------------------------------------------------------
(* One task ends at a time, and a pipeline that did not give up only after  *)
(* the BBO reader or the output task (client.rs:208-379): whatever the      *)
(* messages and the channel sizes, LiveFeed is a TaskLife.                  *)
THEOREM TasksLiveAsSaid == Spec => ImplementsTaskLife
<1>1. Init => Life!LifeInit
  <2> SUFFICES ASSUME Init PROVE Status = Life!AllAlive
    BY DEF Life!LifeInit
  <2>1. \A t \in Workers \cup Instruments : Status[t] = "alive"
    BY StatusNow DEF Workers, EndedAs, Init, DInit, P!PInit, Ended
  <2> QED
    BY <2>1, StatusNow, Names DEF Over, Life!AllAlive
<1>2. LiveInv /\ [Next]_vars => Lives
  <2> SUFFICES ASSUME LiveInv, [Next]_vars PROVE Lives
    OBVIOUS
  <2> USE DEF dvars, tracker, loading, serving, channels, pipelines, reader, routing, Ended
  <2>1. CASE (\E m \in Wire : Read(m)) \/ HandOver \/ PrintLine \/ WriterTakes \/ UNCHANGED vars
    <3>1. /\ (rpc = "ended") <=> (rpc' = "ended")
          /\ UNCHANGED <<wsOpen, outOpen, rxOpen, pc, bpc, ppc>>
      BY <2>1 DEF Read, HandOver, PrintLine, WriterTakes, vars
    <3> QED
      BY <3>1, NobodyLives
  <2>2. CASE SocketEnds \/ RouterBreaks
    <3>1. /\ rpc # "ended" /\ rpc' = "ended"
          /\ UNCHANGED <<wsOpen, outOpen, rxOpen, pc, bpc, ppc>>
      BY <2>2 DEF SocketEnds, RouterBreaks
    <3>2. "router" \in Workers
      BY DEF Workers
    <3> QED
      BY <3>1, <3>2, WorkerLives
  <2>3. CASE Dispatch
    <3>1. UNCHANGED <<rpc, wsOpen, outOpen, rxOpen, bpc, ppc>> /\ pc \notin Ended
      <4>1. UNCHANGED <<wsOpen, rxOpen>> /\ pc \notin Ended
        <5>1. ASSUME NEW m, Receive(m) PROVE UNCHANGED <<wsOpen, rxOpen>> /\ pc \notin Ended
          BY <5>1 DEF Receive, DboForeign, DboGap, DboStream, DboBuffer, SnapForeign, SnapColdStart,
                SnapColdStartFails, SnapEntry, Sentinel, SentinelStray, EndEvent, EndEventStray,
                SubscriptionAck, Other, Logout, Fail
        <5>2. ASSUME Proceed PROVE UNCHANGED <<wsOpen, rxOpen>> /\ pc \notin Ended
          <6>1. ASSUME NEW i \in Instruments, RecoverClear(i) \/ CompleteStart(i)
                PROVE  UNCHANGED <<wsOpen, rxOpen>> /\ pc \notin Ended
            BY <6>1 DEF RecoverClear, CompleteStart
          <6>2. CASE RecoverRequest \/ SendEvent \/ EventsDone \/ ReplayDiscard
            BY <6>2 DEF RecoverRequest, SendEvent, EventsDone, ReplayDiscard
          <6>3. CASE ReplayStart \/ ReplayNext \/ CompleteEnd \/ SendFails
            BY <6>3 DEF ReplayStart, ReplayNext, CompleteEnd, SendFails, Fail
          <6> QED
            BY <5>2, <6>1, <6>2, <6>3 DEF Proceed
        <5>3. RawClosed => UNCHANGED <<wsOpen, rxOpen>> /\ pc \notin Ended
          BY DEF RawClosed
        <5> QED
          BY <2>3, <5>1, <5>2, <5>3 DEF Dispatch
      <4> QED
        BY <2>3, <4>1 DEF Dispatch
    <3>2. CASE pc' \notin Ended
      BY <3>1, <3>2, NobodyLives
    <3>3. CASE pc' \in Ended
      <4>1. "dispatcher" \in Workers
        BY DEF Workers
      <4> QED
        BY <3>1, <3>3, <4>1, WorkerLives
    <3> QED
      BY <3>2, <3>3
  <2>4. CASE BboReader
    <3>1. UNCHANGED <<rpc, wsOpen, outOpen, rxOpen, pc, ppc>> /\ bpc \notin Ended
      BY <2>4 DEF BboReader, BboReceive, BboSend, BboSendFails, BboRawClosed
    <3>2. CASE bpc' \notin Ended
      BY <3>1, <3>2, NobodyLives
    <3>3. CASE bpc' \in Ended
      <4>1. "reader" \in Workers
        BY DEF Workers
      <4> QED
        BY <3>1, <3>3, <4>1, WorkerLives
    <3> QED
      BY <3>2, <3>3
  <2>5. CASE OutputClosed \/ PrintPanics
    <3>1. /\ outOpen /\ ~outOpen'
          /\ UNCHANGED <<rpc, wsOpen, rxOpen, pc, bpc, ppc>>
      BY <2>5 DEF OutputClosed, PrintPanics
    <3>2. "output" \in Workers
      BY DEF Workers
    <3> QED
      BY <3>1, <3>2, WorkerLives
  <2>6. CASE WriterEnds
    <3>1. /\ wsOpen /\ ~wsOpen'
          /\ UNCHANGED <<rpc, outOpen, rxOpen, pc, bpc, ppc>>
      BY <2>6 DEF WriterEnds
    <3>2. "writer" \in Workers
      BY DEF Workers
    <3> QED
      BY <3>1, <3>2, WorkerLives
  <2>7. ASSUME NEW i \in Instruments, PipelineBbo(i) \/ PipelineCmd(i) \/ PipelineOut(i)
        PROVE  Lives
    <3>1. UNCHANGED <<rpc, wsOpen, pc, bpc>>
      BY <2>7 DEF PipelineBbo, PipelineCmd, PipelineOut, Elsewhere
    <3>2. CASE P!TakeBbo(i) \/ P!TakeClear(i) \/ P!TakeComplete(i) \/ P!TakeEvent(i) \/ P!SendOutput(i)
      <4>1. /\ UNCHANGED <<outOpen, rxOpen>> /\ ppc[i] \in {"select", "output"}
            /\ ppc' = ppc \/ \E at \in {"select", "output"} : ppc' = [ppc EXCEPT ![i] = at]
        BY <3>2 DEF P!TakeBbo, P!TakeClear, P!TakeComplete, P!TakeEvent, P!SendOutput, P!Takes
      <4>2. \A j \in Instruments : (ppc[j] = "degraded") <=> (ppc'[j] = "degraded")
        BY <4>1 DEF LiveInv, Types
      <4> QED
        BY <3>1, <4>1, <4>2, NobodyLives
    <3>3. CASE P!BboClosed(i) \/ P!CmdClosed(i)
      <4>1. bpc \in Ended /\ P!Return(i, "closed") /\ ppc[i] = "select" /\ UNCHANGED outOpen
        BY <3>3 DEF P!BboClosed, P!CmdClosed, Producers
      <4> QED
        BY <3>1, <4>1, PipelineLives DEF LiveInv
    <3>4. CASE P!OutputClosed(i)
      <4>1. ~outOpen /\ P!Return(i, "output_closed") /\ ppc[i] = "output" /\ UNCHANGED outOpen
        BY <3>4 DEF P!OutputClosed
      <4> QED
        BY <3>1, <4>1, PipelineLives DEF LiveInv
    <3>5. CASE P!Degrade(i)
      <4>1. P!Return(i, "degraded") /\ ppc[i] = "select" /\ UNCHANGED outOpen
        BY <3>5 DEF P!Degrade, P!Takes
      <4> QED
        BY <3>1, <4>1, PipelineLives DEF LiveInv
    <3> QED
      BY <2>7, <3>2, <3>3, <3>4, <3>5
      DEF PipelineBbo, PipelineCmd, PipelineOut, P!BboBranch, P!CmdBranch, P!Emit
  <2> QED
    BY <2>1, <2>2, <2>3, <2>4, <2>5, <2>6, <2>7
    DEF Next, Router, Output, Writer, Stopped
<1>3. Lives => [Life!LifeNext]_(Whole(Status))
  BY LivesAsLife DEF Whole
<1>4. LiveInv /\ [Next]_vars => [Life!LifeNext]_(Whole(Status))
  BY <1>2, <1>3
<1>5. Spec => Life!LifeInit /\ [][Life!LifeNext]_(Whole(Status))
  BY <1>1, <1>4, LiveIsInvariant, PTL DEF Spec
<1> QED
  BY <1>5 DEF ImplementsTaskLife, Life!LifeSpec, Whole
=============================================================================
