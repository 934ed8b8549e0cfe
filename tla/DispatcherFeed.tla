--------------------------- MODULE DispatcherFeed ---------------------------
(***************************************************************************)
(* The dispatcher under any feed: a server that numbers its updates in     *)
(* increasing order on a connection that may lose some but never reorders  *)
(* them, and that may send snapshot entries, sentinels, end events and     *)
(* acknowledgements whenever it likes; pipelines and a write task that     *)
(* take what they are sent, and may end.                                   *)
(***************************************************************************)
EXTENDS Dispatcher

CONSTANTS
  SnapSeqs,  (* bound: the sequence numbers snapshot and end messages carry *)
  Sizes      (* bound: how many order events a message converts to          *)

ASSUME FeedAssumption ==
  /\ SnapSeqs \subseteq OptSeq
  /\ Sizes \subseteq 0 .. MaxEvents

VARIABLE wire  (* the highest sequence number a 160 carried so far *)

vars == <<dvars, wire>>

(* What the code ignores in a message is fixed, to keep the instances small. *)
IsUpdate(m)  == m.tid = 160 /\ ~m.sentinel /\ m.n \in Sizes
IsEntry(m)   == m.tid = 116 /\ ~m.sentinel /\ m.n \in Sizes /\ m.seq \in SnapSeqs
IsClosing(m) == m.tid = 116 /\ m.sentinel /\ m.n = 0 /\ m.seq \in SnapSeqs
IsControl(m) == m.tid \in {161, 118, 19, 77} /\ m.sym = Foreign /\ ~m.sentinel /\ m.n = 0
                /\ m.seq \in (IF m.tid = 161 THEN SnapSeqs ELSE {None})

Feed == {m \in Message : IsUpdate(m) \/ IsEntry(m) \/ IsClosing(m) \/ IsControl(m)}

Init == DInit /\ wire = 0

Deliver ==
  \E m \in Feed :
    /\ m.tid = 160 /\ m.seq # None => m.seq > wire
    /\ Receive(m)
    /\ wire' = IF m.tid = 160 /\ m.seq # None THEN m.seq ELSE wire

Task == (Proceed \/ RawClosed) /\ UNCHANGED wire

(* The pipelines and the write task take from their channels; when one ends *)
(* its receiver and what it holds are dropped.                              *)
PipelineTakes(i) ==
  /\ rxOpen[i] /\ cmdq[i] # <<>>
  /\ cmdq' = [cmdq EXCEPT ![i] = Tail(@)]
  /\ UNCHANGED <<tracker, loading, pc, serving, wsq, rxOpen, wsOpen, sent, wire>>

PipelineEnds(i) ==
  /\ rxOpen[i]
  /\ rxOpen' = [rxOpen EXCEPT ![i] = FALSE]
  /\ cmdq' = [cmdq EXCEPT ![i] = <<>>]
  /\ UNCHANGED <<tracker, loading, pc, serving, wsq, wsOpen, sent, wire>>

WriterTakes ==
  /\ wsOpen /\ wsq # <<>>
  /\ wsq' = Tail(wsq)
  /\ UNCHANGED <<tracker, loading, pc, serving, cmdq, rxOpen, wsOpen, sent, wire>>

WriterEnds ==
  /\ wsOpen
  /\ wsOpen' = FALSE
  /\ wsq' = <<>>
  /\ UNCHANGED <<tracker, loading, pc, serving, cmdq, rxOpen, sent, wire>>

Stopped == pc \in Ended /\ UNCHANGED vars

Consumers ==
  \/ \E i \in Instruments : PipelineTakes(i) \/ PipelineEnds(i)
  \/ WriterTakes \/ WriterEnds

Next == Deliver \/ Task \/ Consumers \/ Stopped

Spec == Init /\ [][Next]_vars

-----------------------------------------------------------------------------
(* Type invariant, with the bounds the code keeps: no channel and no buffer *)
(* exceeds its capacity (dispatcher.rs:268-276, client.rs:42-47), and a     *)
(* buffer holds only numbered updates of its own instrument.                *)
BufferOK(i, q) ==
  /\ q \in Seq(Message) /\ Len(q) <= BufferLimit
  /\ \A j \in 1 .. Len(q) : q[j].tid = 160 /\ q[j].sym = i /\ q[j].seq # None

TypeOK ==
  /\ lastSeq \in OptSeq
  /\ streak \in 0 .. MinStreak
  /\ mode \in [Instruments -> {"Streaming", "Loading"}]
  /\ buffer \in [Instruments -> Seq(Message)]
  /\ \A i \in Instruments : BufferOK(i, buffer[i])
  /\ overflowed \in [Instruments -> BOOLEAN]
  /\ pc \in {"recv", "clear", "request", "events", "complete", "replay", "replaying"} \cup Ended
  /\ cur \in Instruments \cup {None}
  /\ msg \in Message \cup {None}
  /\ part \in 0 .. MaxEvents
  /\ todo \in SUBSET Instruments
  /\ endSeq \in Seqs
  /\ cmdq \in [Instruments -> Seq(Command)]
  /\ \A i \in Instruments : Len(cmdq[i]) <= CmdCap
  /\ wsq \in Seq(Instruments) /\ Len(wsq) <= WsCap
  /\ rxOpen \in [Instruments -> BOOLEAN]
  /\ wsOpen \in BOOLEAN
  /\ sent \in [Instruments -> [cleared : BOOLEAN, high : Seqs]]
  /\ wire \in Seqs

(* While an instrument loads, its pipeline has been told to clear and has   *)
(* been sent no update since: what reaches the book is the snapshot alone   *)
(* (dispatcher.rs:20-23, cold start and gap recovery alike).                *)
LoadingBookIsSnapshotOnly ==
  \A i \in Instruments :
    mode[i] = "Loading" => sent[i].cleared /\ sent[i].high = 0

(* A snapshot completion reaches a pipeline at most once per clear, also    *)
(* when both the 116 sentinel and a 161 end the same load: the pipeline     *)
(* counts every completion as a recovery and gives up after ten.            *)
Sends(i, t) ==
  /\ Len(cmdq'[i]) > Len(cmdq[i])
  /\ cmdq'[i][Len(cmdq'[i])].type = t

CompletionClosesAClear ==
  [][\A i \in Instruments :
       Sends(i, "SnapshotComplete") => sent[i].cleared /\ ~sent'[i].cleared]_vars

(* Between two clears a pipeline gets the numbered updates of its           *)
(* instrument in the server's order and each at most once, whether they     *)
(* were streamed or buffered and replayed.                                  *)
UpdatesInOrder ==
  [][\A i \in Instruments :
       Sends(i, "Event") =>
         LET e == cmdq'[i][Len(cmdq'[i])]
         IN  e.of.tid = 160 /\ e.of.seq # None =>
               \/ e.of.seq > sent[i].high
               \/ e.of.seq = sent[i].high /\ e.pos > 1]_vars

(* When the recovery loop a gap started is over, every instrument loads:    *)
(* none was left streaming on a book that missed updates.                   *)
GapRecoversAll ==
  [][pc = "request" /\ pc' = "recv" =>
       streak' = 0 /\ \A i \in Instruments : mode'[i] = "Loading"]_vars

(* What the header promises (dispatcher.rs:12-16): the numbers are global   *)
(* and one tracker sees them all, so once the detector is armed a numbered  *)
(* update that follows a hole is never applied to a streaming book. It does *)
(* not hold: a 116 or 161 of one instrument overwrites last_sequence, and a *)
(* hole in the updates of another one that ends there goes unseen.          *)
ArmedGapRecovers ==
  [][pc = "recv" /\ pc' = "events" /\ msg'.tid = 160 /\ msg'.seq # None
       /\ wire # 0 /\ streak >= MinStreak
     => msg'.seq = wire + 1]_vars

(* The inductive invariant behind these: what a suspended handler has still *)
(* to do, and the order of what is buffered, being sent and already sent.   *)
HandlerInv ==
  /\ pc \in {"clear", "request"} =>
       /\ msg # None /\ msg.tid = 160 /\ msg.sym \in Instruments
       /\ msg.seq # None /\ 0 < msg.seq /\ msg.seq <= wire
       /\ \A i \in Instruments \ todo : mode[i] = "Loading"
  /\ pc = "request" => cur # None
  /\ pc \in {"events", "replaying"} => msg # None /\ cur # None /\ part <= msg.n
  /\ pc \in {"complete", "replay", "replaying"} => \A i \in todo : mode[i] = "Loading"
  /\ pc \in {"replay", "replaying"} =>
       cur # None /\ mode[cur] = "Streaming" /\ sent[cur].cleared

BufferOrder ==
  \A i \in Instruments :
    /\ sent[i].high <= wire
    /\ \A j \in 1 .. Len(buffer[i]) :
         /\ sent[i].high < buffer[i][j].seq
         /\ buffer[i][j].seq <= wire
         /\ \A h \in 1 .. j - 1 : buffer[i][h].seq < buffer[i][j].seq

Drained ==
  pc \notin Ended =>
    \A i \in Instruments :
      mode[i] = "Streaming" =>
        buffer[i] = <<>> \/ (pc \in {"replay", "replaying"} /\ cur = i)

StreamOrder ==
  pc = "events" /\ msg.tid = 160 =>
    /\ mode[cur] = "Streaming"
    /\ msg.seq # None =>
         /\ msg.seq <= wire
         /\ part = 0 => sent[cur].high < msg.seq
         /\ part > 0 => sent[cur].high = msg.seq

ReplayOrder ==
  pc = "replaying" =>
    /\ msg.tid = 160 /\ msg.seq # None /\ msg.seq <= wire
    /\ part = 0 => sent[cur].high < msg.seq
    /\ part > 0 => sent[cur].high = msg.seq
    /\ \A j \in 1 .. Len(buffer[cur]) : msg.seq < buffer[cur][j].seq

OrderInv == BufferOrder /\ Drained /\ StreamOrder /\ ReplayOrder

IInv == TypeOK /\ LoadingBookIsSnapshotOnly /\ HandlerInv /\ OrderInv
=============================================================================
