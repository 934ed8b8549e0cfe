------------------------------ MODULE Pipeline ------------------------------
(***************************************************************************)
(* The per-instrument pipeline tasks of the Rithmic client                 *)
(* (crates/rithmic-client/src/pipeline.rs): each selects between its BBO   *)
(* channel and its command channel, rebuilds the book from the commands,   *)
(* gates BBO validation through a recovery, compares the book's top with   *)
(* the recent BBOs at every batch end and sends a feature vector.          *)
(*                                                                         *)
(* The book itself is abstract here: processing an event leaves it with    *)
(* some top or none. Latency histograms, the 10 s summary and the health   *)
(* log change nothing the other tasks or later steps see.                  *)
(***************************************************************************)
EXTENDS Naturals, Sequences

CONSTANTS
  Instruments,
  None,
  Tops,           (* pairs of best bid and ask prices                       *)
  Times,          (* gateway timestamps                                     *)
  RingSize,       (* BBO_RING_SIZE (8)                                      *)
  MaxRecoveries,  (* MAX_POST_INITIAL_RECOVERIES (10)                       *)
  OutCap          (* OUTPUT_BUF (256)                                       *)

ASSUME PipelineAssumption ==
  /\ None \notin Tops /\ None \notin [top : Tops, ts : Times]
  /\ Times \subseteq Nat
  /\ RingSize \in Nat \ {0}
  /\ MaxRecoveries \in Nat \ {0}
  /\ OutCap \in Nat \ {0}

VARIABLES
  producers,  (* which of "dispatcher" and "bbo_reader" still hold senders  *)
  cmdq,       (* the command channel of each pipeline                       *)
  bboq,       (* the BBO channel of each pipeline                           *)
  rxOpen,     (* which pipelines still hold their receivers                 *)
  outq,       (* the output channel all pipelines share                     *)
  outOpen,    (* the output task still holds its receiver                   *)
  ppc,        (* where each pipeline is suspended, or how it ended          *)
  gate,       (* each pipeline's recovery gating                            *)
  ring,       (* each pipeline's BBO ring buffer                            *)
  event,      (* the event whose features a pipeline is sending, or None    *)
  check       (* the verdict of a pipeline's last BBO check, None after a   *)
              (* command that made none                                     *)

pchannels == <<producers, cmdq, bboq, rxOpen, outq, outOpen>>
pstate    == <<ppc, gate, ring, event, check>>

BBO == [top : Tops, ts : Times]

(* in_recovery, snapshot_complete_received, recovery_bbo_received,          *)
(* initial_snapshot_done and post_initial_recoveries.                       *)
FreshGate == [inRecovery |-> TRUE, complete |-> FALSE, bbo |-> FALSE,
              initialDone |-> FALSE, recoveries |-> 0]

PInit ==
  /\ bboq = [i \in Instruments |-> <<>>]
  /\ outq = <<>> /\ outOpen = TRUE
  /\ ppc = [i \in Instruments |-> "select"]
  /\ gate = [i \in Instruments |-> FreshGate]
  /\ ring = [i \in Instruments |-> [buf |-> [k \in 0 .. RingSize - 1 |-> None], next |-> 0]]
  /\ event = [i \in Instruments |-> None]
  /\ check = [i \in Instruments |-> None]

-----------------------------------------------------------------------------
(* The BBO ring buffer. *)

PushFull(r, u) ==  (* mutant: it stops when the buffer is full *)
  IF r.buf[r.next] # None THEN r
  ELSE [buf |-> [r.buf EXCEPT ![r.next] = u], next |-> (r.next + 1) % RingSize]

Push(r, u) == [buf |-> [r.buf EXCEPT ![r.next] = u], next |-> (r.next + 1) % RingSize]

Held(r) == {k \in 0 .. RingSize - 1 : r.buf[k] # None}

Age(u, t) == IF u.ts <= t THEN t - u.ts ELSE u.ts - t

(* Among the given slots the first with the smallest age. *)
Closest(r, S, t) ==
  CHOOSE k \in S :
    \A j \in S : /\ Age(r.buf[k], t) <= Age(r.buf[j], t)
                 /\ Age(r.buf[k], t) = Age(r.buf[j], t) => k <= j

Exact(r, top) == {k \in Held(r) : r.buf[k].top = top}

(* A BBO with the book's prices if there is one, else the closest in time.  *)
MatchClosest(r, top, t) ==  (* mutant: prices are compared afterwards *)
  IF Held(r) = {} THEN None ELSE Closest(r, Held(r), t)

BestMatch(r, top, t) ==
  IF Held(r) = {} THEN None
  ELSE IF Exact(r, top) # {} THEN Closest(r, Exact(r, top), t)
  ELSE Closest(r, Held(r), t)

-----------------------------------------------------------------------------
(* Recovery gating. *)

(* Validation is re-enabled once both the completion and a BBO are there.   *)
Rejoin(g) == IF g.complete /\ g.bbo THEN [g EXCEPT !.inRecovery = FALSE] ELSE g

GateBbo(g)   == IF g.inRecovery THEN Rejoin([g EXCEPT !.bbo = TRUE]) ELSE g

GateClearStale(g) ==  (* mutant: a BBO from before the clear still counts *)
  [g EXCEPT !.inRecovery = TRUE, !.complete = FALSE]

GateClearKeeps(g) ==  (* mutant: an old completion still counts *)
  [g EXCEPT !.inRecovery = TRUE, !.bbo = FALSE]

GateClear(g) == [g EXCEPT !.inRecovery = TRUE, !.complete = FALSE, !.bbo = FALSE]

GateComplete(g) == Rejoin([g EXCEPT !.complete = TRUE])

-----------------------------------------------------------------------------
(* run_pipeline returns: its receivers go, and with them what they hold.    *)
Return(i, how) ==
  /\ ppc' = [ppc EXCEPT ![i] = how]
  /\ rxOpen' = [rxOpen EXCEPT ![i] = FALSE]
  /\ cmdq' = [cmdq EXCEPT ![i] = <<>>]
  /\ bboq' = [bboq EXCEPT ![i] = <<>>]
  /\ event' = [event EXCEPT ![i] = None]

TakeBbo(i) ==
  /\ ppc[i] = "select" /\ bboq[i] # <<>>
  /\ bboq' = [bboq EXCEPT ![i] = Tail(@)]
  /\ ring' = [ring EXCEPT ![i] = Push(@, Head(bboq[i]))]
  /\ gate' = [gate EXCEPT ![i] = GateBbo(@)]
  /\ UNCHANGED <<producers, cmdq, rxOpen, outq, outOpen, ppc, event, check>>

BboEmpty(i) ==  (* mutant: an empty channel is taken for a closed one *)
  /\ ppc[i] = "select" /\ bboq[i] = <<>>
  /\ Return(i, "closed")
  /\ UNCHANGED <<producers, outq, outOpen, gate, ring, check>>

(* A channel whose senders are all gone yields None once it is empty.       *)
BboClosed(i) ==
  /\ ppc[i] = "select" /\ bboq[i] = <<>> /\ "bbo_reader" \notin producers
  /\ Return(i, "closed")
  /\ UNCHANGED <<producers, outq, outOpen, gate, ring, check>>

CmdClosed(i) ==
  /\ ppc[i] = "select" /\ cmdq[i] = <<>> /\ producers = {}
  /\ Return(i, "closed")
  /\ UNCHANGED <<producers, outq, outOpen, gate, ring, check>>

Takes(i, type) ==
  /\ ppc[i] = "select" /\ cmdq[i] # <<>>
  /\ Head(cmdq[i]).type = type

TakeClear(i) ==
  /\ Takes(i, "ClearBook")
  /\ cmdq' = [cmdq EXCEPT ![i] = Tail(@)]
  /\ gate' = [gate EXCEPT ![i] = GateClear(@)]
  /\ check' = [check EXCEPT ![i] = None]
  /\ UNCHANGED <<producers, bboq, rxOpen, outq, outOpen, ppc, ring, event>>

CountedAll(g) ==  (* mutant: the initial completion counts too *)
  [g EXCEPT !.recoveries = @ + 1, !.initialDone = TRUE]

(* The first completion is the initial one, the others are counted.         *)
Counted(g) ==
  IF g.initialDone THEN [g EXCEPT !.recoveries = @ + 1] ELSE [g EXCEPT !.initialDone = TRUE]

Degraded(g) == Counted(g).recoveries >= MaxRecoveries

TakeComplete(i) ==
  /\ Takes(i, "SnapshotComplete")
  /\ ~Degraded(gate[i])
  /\ cmdq' = [cmdq EXCEPT ![i] = Tail(@)]
  /\ gate' = [gate EXCEPT ![i] = GateComplete(Counted(@))]
  /\ check' = [check EXCEPT ![i] = None]
  /\ UNCHANGED <<producers, bboq, rxOpen, outq, outOpen, ppc, ring, event>>

Degrade(i) ==
  /\ Takes(i, "SnapshotComplete")
  /\ Degraded(gate[i])
  /\ gate' = [gate EXCEPT ![i] = [Counted(@) EXCEPT !.complete = TRUE]]
  /\ Return(i, "degraded")
  /\ UNCHANGED <<producers, outq, outOpen, ring, check>>

(* An event changes the book; the last of its batch is checked against the  *)
(* BBOs, after the first snapshot and if the book has two sides, and its    *)
(* features are sent.                                                       *)
Verdict(i, top, t) ==
  LET k == BestMatch(ring[i], top, t)
  IN  IF ~gate[i].initialDone \/ top = None \/ k = None THEN None
      ELSE [top |-> top,
            verdict |-> IF ring[i].buf[k].top = top THEN "match" ELSE "divergence"]

TakeEvent(i) ==
  /\ Takes(i, "Event")
  /\ cmdq' = [cmdq EXCEPT ![i] = Tail(@)]
  /\ \/ /\ ~Head(cmdq[i]).last
        /\ check' = [check EXCEPT ![i] = None]
        /\ UNCHANGED <<ppc, event>>
     \/ /\ Head(cmdq[i]).last
        /\ \E top \in Tops \cup {None}, t \in Times :
             check' = [check EXCEPT ![i] = Verdict(i, top, t)]
        /\ event' = [event EXCEPT ![i] = Head(cmdq[i])]
        /\ ppc' = [ppc EXCEPT ![i] = "output"]
  /\ UNCHANGED <<producers, bboq, rxOpen, outq, outOpen, gate, ring>>

SendOutput(i) ==
  /\ ppc[i] = "output" /\ outOpen /\ Len(outq) < OutCap
  /\ outq' = Append(outq, [inst |-> i, of |-> event[i]])
  /\ ppc' = [ppc EXCEPT ![i] = "select"]
  /\ event' = [event EXCEPT ![i] = None]
  /\ UNCHANGED <<producers, cmdq, bboq, rxOpen, outOpen, gate, ring, check>>

OutputClosed(i) ==
  /\ ppc[i] = "output" /\ ~outOpen
  /\ Return(i, "output_closed")
  /\ UNCHANGED <<producers, outq, outOpen, gate, ring, check>>

(* The two branches of the select, and the rest of a batch end. *)
BboBranch(i) == TakeBbo(i) \/ BboClosed(i)
CmdBranch(i) == CmdClosed(i) \/ TakeClear(i) \/ TakeComplete(i) \/ Degrade(i) \/ TakeEvent(i)
Emit(i)      == SendOutput(i) \/ OutputClosed(i)

PStep(i) == BboBranch(i) \/ CmdBranch(i) \/ Emit(i)
=============================================================================
