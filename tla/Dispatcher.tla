----------------------------- MODULE Dispatcher -----------------------------
(***************************************************************************)
(* The DBO dispatcher task of the Rithmic client                           *)
(* (crates/rithmic-client/src/dispatcher.rs): it receives the raw DBO      *)
(* messages the router forwards, detects sequence gaps, runs one snapshot  *)
(* state machine per instrument and sends commands to the per-instrument   *)
(* pipeline tasks and snapshot requests to the WebSocket write task.       *)
(*                                                                         *)
(* Every send of the code is an await on a bounded channel, so a handler   *)
(* is not one step: pc says at which await the task is suspended, and      *)
(* everything a handler does between two awaits (the task's own memory,    *)
(* which no other task sees) is part of the step that ends in the send.    *)
(*                                                                         *)
(* Messages keep what the control flow reads: template id, symbol,         *)
(* sequence number, sentinel mark and the number of order events they      *)
(* convert to (adapter.rs). The capture record of a message leaves through *)
(* a try_send that never waits and has no effect on this task.             *)
(***************************************************************************)
EXTENDS Naturals, Sequences, FiniteSets

CONSTANTS
  Instruments,  (* the configured instruments                               *)
  Foreign,      (* the symbol of a message that names none of them          *)
  None,         (* an absent Option value                                   *)
  Bodies,       (* what the order events of a message say                   *)
  MaxSeq,       (* bound: the largest sequence number a server sends        *)
  MaxEvents,    (* bound: the most order events in one message              *)
  MinStreak,    (* GAP_DETECTION_MIN_STREAK (50)                            *)
  BufferLimit,  (* SNAPSHOT_BUFFER_LIMIT (100000)                           *)
  CmdCap,       (* PIPELINE_CMD_BUF (8192)                                  *)
  WsCap         (* WS_CMD_BUF (64)                                          *)

ASSUME DispatcherAssumption ==
  /\ Foreign \notin Instruments
  /\ None \notin Instruments \cup Nat
  /\ MaxSeq \in Nat
  /\ MaxEvents \in Nat
  /\ MinStreak \in Nat
  /\ BufferLimit \in Nat \ {0}
  /\ CmdCap \in Nat \ {0}
  /\ WsCap \in Nat \ {0}

VARIABLES
  lastSeq,     (* last_sequence: the last sequence number seen, or None     *)
  streak,      (* dbo_streak, saturated at MinStreak                        *)
  mode,        (* each instrument's DispatcherState                         *)
  buffer,      (* each instrument's buffered 160s                           *)
  overflowed,  (* each instrument's buffer_overflowed                       *)
  pc,          (* where the task is suspended, or how it ended              *)
  cur,         (* the instrument being served, None when idle               *)
  msg,         (* the message whose events are being sent, None when idle   *)
  part,        (* how many of msg's events were sent                        *)
  todo,        (* instruments the recovery or completion loop has left      *)
  endSeq,      (* snapshot_end_seq of the completion under way              *)
  cmdq,        (* the command channel of each pipeline                      *)
  wsq,         (* the channel of the write task: snapshot requests          *)
  rxOpen,      (* which pipelines still hold their command receiver         *)
  wsOpen,      (* the write task still holds its receiver                   *)
  sent         (* history: what the commands sent to a pipeline amount to   *)

(* The task's own memory, without the position in a handler. *)
tracker == <<lastSeq, streak>>
loading == <<mode, buffer, overflowed>>
serving == <<cur, msg, part, todo, endSeq>>
channels == <<cmdq, wsq, rxOpen, wsOpen>>
dvars == <<lastSeq, streak, mode, buffer, overflowed, pc, cur, msg, part,
           todo, endSeq, cmdq, wsq, rxOpen, wsOpen, sent>>

Symbols == Instruments \cup {Foreign}
Seqs    == 0 .. MaxSeq
OptSeq  == Seqs \cup {None}

(* Template ids: 160 DepthByOrder, 116 snapshot entry or sentinel, 161 end  *)
(* event, 118 subscription ack, 19 stands for every message that only       *)
(* counts (19, 75, undecodable and unknown ones), 77 for both logouts.      *)
Tids == {160, 116, 161, 118, 19, 77}

Message == [tid : Tids, sym : Symbols, seq : OptSeq, sentinel : BOOLEAN,
            n : 0 .. MaxEvents, body : Bodies]

ASSUME NoneAssumption == None \notin Message

(* PipelineCommand. An event names the message it was converted from and    *)
(* its position in it; last is the F_LAST flag (0x80).                      *)
Command == [type : {"Event"}, of : Message, pos : 1 .. MaxEvents, last : BOOLEAN]
             \cup [type : {"ClearBook", "SnapshotComplete"}]

ClearBook        == [type |-> "ClearBook"]
SnapshotComplete == [type |-> "SnapshotComplete"]
EventOf(m, p)    == [type |-> "Event", of |-> m, pos |-> p, last |-> (p = m.n)]

Ended == {"ok", "logout", "channel"}

DInit ==
  /\ lastSeq = None
  /\ streak = 0
  /\ mode = [i \in Instruments |-> "Streaming"]
  /\ buffer = [i \in Instruments |-> <<>>]
  /\ overflowed = [i \in Instruments |-> FALSE]
  /\ pc = "recv"
  /\ cur = None
  /\ msg = None
  /\ part = 0
  /\ todo = {}
  /\ endSeq = 0
  /\ cmdq = [i \in Instruments |-> <<>>]
  /\ wsq = <<>>
  /\ rxOpen = [i \in Instruments |-> TRUE]
  /\ wsOpen = TRUE
  /\ sent = [i \in Instruments |-> [cleared |-> FALSE, high |-> 0]]

-----------------------------------------------------------------------------
(* Channel sends. A send waits for room and fails once the receiver is gone. *)

CanSendUnbounded(i) == rxOpen[i]                          (* mutant *)
CanSend(i) == rxOpen[i] /\ Len(cmdq[i]) < CmdCap
Send(i, c) == cmdq' = [cmdq EXCEPT ![i] = Append(@, c)]

(* A failed send returns Err from run_dispatcher, which drops everything. *)
Fail ==
  /\ pc' = "channel"
  /\ UNCHANGED <<tracker, loading, serving, channels, sent>>

NoteCleared(i)  == sent' = [sent EXCEPT ![i] = [cleared |-> TRUE, high |-> 0]]
NoteComplete(i) == sent' = [sent EXCEPT ![i].cleared = FALSE]
NoteEvent(i, m) ==
  sent' = IF m.tid = 160 /\ m.seq # None
          THEN [sent EXCEPT ![i].high = m.seq] ELSE sent

-----------------------------------------------------------------------------
Streams(i) == mode[i] = "Streaming"

LoadingSetAll == Instruments  (* mutant: the state is not looked at *)

LoadingSet == {i \in Instruments : mode[i] = "Loading"}

-----------------------------------------------------------------------------
(* The global sequence tracker. *)

GapBeforeLate(s) ==  (* mutant: the detector arms one message too late *)
  /\ s # None
  /\ lastSeq # None
  /\ s # lastSeq + 1
  /\ streak > MinStreak

GapBefore(s) ==
  /\ s # None
  /\ lastSeq # None
  /\ s # lastSeq + 1
  /\ streak >= MinStreak

(* Sequence bookkeeping of a 160 that does not trigger a recovery. *)
Track(s) ==
  /\ lastSeq' = IF s = None THEN lastSeq ELSE s
  /\ streak' = IF s = None \/ lastSeq = None THEN streak
               ELSE IF s # lastSeq + 1 THEN 0
               ELSE IF streak < MinStreak THEN streak + 1 ELSE streak

(* A 116 or 161 that carries a number overwrites the tracker's. *)
Overwrite(s) == lastSeq' = IF s = None THEN lastSeq ELSE s

-----------------------------------------------------------------------------
(* 160: DepthByOrder. *)

(* An unknown symbol is skipped before the tracker sees its number. *)
DboForeign(m) ==
  /\ pc = "recv"
  /\ m.tid = 160 /\ m.sym = Foreign
  /\ UNCHANGED dvars

(* A gap sends every instrument into recovery. *)
RecoverySetOwn(m) == {m.sym}  (* mutant: only the instrument of the message *)

RecoverySet(m) == Instruments

DboGap(m) ==
  /\ pc = "recv"
  /\ m.tid = 160 /\ m.sym \in Instruments /\ GapBefore(m.seq)
  /\ lastSeq' = m.seq
  /\ pc' = "clear"
  /\ cur' = m.sym
  /\ msg' = m
  /\ todo' = RecoverySet(m)
  /\ UNCHANGED <<streak, loading, part, endSeq, channels, sent>>

(* mutant: the state is not looked at, an update passes a loading book *)
DboStreamAlways(m) ==
  /\ pc = "recv"
  /\ m.tid = 160 /\ m.sym \in Instruments /\ ~GapBefore(m.seq)
  /\ Track(m.seq)
  /\ pc' = "events"
  /\ cur' = m.sym
  /\ msg' = m
  /\ part' = 0
  /\ UNCHANGED <<loading, todo, endSeq, channels, sent>>

(* Streaming: the events of the message are sent one by one. *)
DboStream(m) ==
  /\ pc = "recv"
  /\ m.tid = 160 /\ m.sym \in Instruments /\ ~GapBefore(m.seq)
  /\ Streams(m.sym)
  /\ Track(m.seq)
  /\ pc' = "events"
  /\ cur' = m.sym
  /\ msg' = m
  /\ part' = 0
  /\ UNCHANGED <<loading, todo, endSeq, channels, sent>>

PushFront(q, m) == <<m>> \o q  (* mutant *)

PushBack(q, m) == Append(q, m)

(* Loading: the message waits in the buffer, or is lost when the buffer is  *)
(* full (overflowed) or the message has no number.                          *)
DboBuffer(m) ==
  /\ pc = "recv"
  /\ m.tid = 160 /\ m.sym \in Instruments /\ ~GapBefore(m.seq)
  /\ ~Streams(m.sym)
  /\ Track(m.seq)
  /\ \/ /\ m.seq # None /\ Len(buffer[m.sym]) < BufferLimit
        /\ buffer' = [buffer EXCEPT ![m.sym] = PushBack(@, m)]
        /\ UNCHANGED overflowed
     \/ /\ m.seq # None /\ Len(buffer[m.sym]) >= BufferLimit
        /\ overflowed' = [overflowed EXCEPT ![m.sym] = TRUE]
        /\ UNCHANGED buffer
     \/ /\ m.seq = None
        /\ UNCHANGED <<buffer, overflowed>>
  /\ UNCHANGED <<mode, pc, serving, channels, sent>>

(* The recovery loop, in the arbitrary order of a HashMap: the instrument   *)
(* enters LoadingSnapshot with an empty buffer, or one that holds the       *)
(* message that showed the gap, and its pipeline is told to clear the book. *)
RecoverClear(i) ==
  /\ pc = "clear" /\ i \in todo
  /\ CanSend(i)
  /\ Send(i, ClearBook)
  /\ NoteCleared(i)
  /\ mode' = [mode EXCEPT ![i] = "Loading"]
  /\ buffer' = [buffer EXCEPT ![i] = IF i = msg.sym THEN <<msg>> ELSE <<>>]
  /\ overflowed' = [overflowed EXCEPT ![i] = FALSE]
  /\ cur' = i
  /\ todo' = todo \ {i}
  /\ pc' = "request"
  /\ UNCHANGED <<tracker, msg, part, endSeq, wsq, rxOpen, wsOpen>>

RecoverRequestLost ==  (* mutant: the request is not sent *)
  /\ pc = "request"
  /\ wsOpen /\ Len(wsq) < WsCap
  /\ IF todo = {}
     THEN /\ pc' = "recv"
          /\ streak' = 0
          /\ cur' = None /\ msg' = None
     ELSE /\ pc' = "clear"
          /\ UNCHANGED <<streak, cur, msg>>
  /\ UNCHANGED <<lastSeq, loading, part, todo, endSeq, channels, sent>>

(* ... and a fresh snapshot is requested; after the last one the loop ends. *)
RecoverRequest ==
  /\ pc = "request"
  /\ wsOpen /\ Len(wsq) < WsCap
  /\ wsq' = Append(wsq, cur)
  /\ IF todo = {}
     THEN /\ pc' = "recv"
          /\ streak' = 0
          /\ cur' = None /\ msg' = None
     ELSE /\ pc' = "clear"
          /\ UNCHANGED <<streak, cur, msg>>
  /\ UNCHANGED <<lastSeq, loading, part, todo, endSeq, cmdq, rxOpen, wsOpen, sent>>

-----------------------------------------------------------------------------
(* The event loop of a 160 or 116: for event in events { tx.send(event) }. *)

SendEvent ==
  /\ pc \in {"events", "replaying"}
  /\ part < msg.n
  /\ CanSend(cur)
  /\ Send(cur, EventOf(msg, part + 1))
  /\ NoteEvent(cur, msg)
  /\ part' = part + 1
  /\ UNCHANGED <<tracker, loading, pc, cur, msg, todo, endSeq, wsq, rxOpen, wsOpen>>

EventsDone ==
  /\ pc = "events" /\ part = msg.n
  /\ pc' = "recv"
  /\ cur' = None /\ msg' = None /\ part' = 0
  /\ UNCHANGED <<tracker, loading, todo, endSeq, channels, sent>>

-----------------------------------------------------------------------------
(* 116: ResponseDepthByOrderSnapshot. *)

(* A data message without a known symbol is skipped. *)
SnapForeign(m) ==
  /\ pc = "recv"
  /\ m.tid = 116 /\ ~m.sentinel /\ m.sym = Foreign
  /\ UNCHANGED dvars

(* The first 116 of an instrument that streams starts its cold-start load:  *)
(* the pipeline is told to clear before the entries follow.                 *)
SnapColdStart(m) ==
  /\ pc = "recv"
  /\ m.tid = 116 /\ ~m.sentinel /\ m.sym \in Instruments
  /\ Streams(m.sym)
  /\ CanSend(m.sym)
  /\ Send(m.sym, ClearBook)
  /\ NoteCleared(m.sym)
  /\ mode' = [mode EXCEPT ![m.sym] = "Loading"]
  /\ buffer' = [buffer EXCEPT ![m.sym] = <<>>]
  /\ overflowed' = [overflowed EXCEPT ![m.sym] = FALSE]
  /\ Overwrite(m.seq)
  /\ pc' = "events"
  /\ cur' = m.sym
  /\ msg' = m
  /\ part' = 0
  /\ UNCHANGED <<streak, todo, endSeq, wsq, rxOpen, wsOpen>>

SnapEntry(m) ==
  /\ pc = "recv"
  /\ m.tid = 116 /\ ~m.sentinel /\ m.sym \in Instruments
  /\ ~Streams(m.sym)
  /\ Overwrite(m.seq)
  /\ pc' = "events"
  /\ cur' = m.sym
  /\ msg' = m
  /\ part' = 0
  /\ UNCHANGED <<streak, loading, todo, endSeq, channels, sent>>

EndSequenceLast(s) == IF lastSeq # None THEN lastSeq ELSE 0  (* mutant *)

(* sequence_number.or(last_sequence).unwrap_or(0) *)
EndSequence(s) == IF s # None THEN s ELSE IF lastSeq # None THEN lastSeq ELSE 0

SentinelAll(m) ==  (* mutant: it completes every loading instrument *)
  /\ pc = "recv"
  /\ m.tid = 116 /\ m.sentinel /\ LoadingSet # {}
  /\ todo' = LoadingSet
  /\ Overwrite(m.seq)
  /\ endSeq' = EndSequence(m.seq)
  /\ pc' = "complete"
  /\ UNCHANGED <<streak, loading, cur, msg, part, channels, sent>>

(* The sentinel (non-empty rp_code) completes the instrument it names, or,  *)
(* without a symbol, whichever loading instrument the HashMap yields first; *)
(* an instrument that is not loading is left alone with a warning.          *)
Sentinel(m) ==
  /\ pc = "recv"
  /\ m.tid = 116 /\ m.sentinel
  /\ \/ /\ m.sym \in LoadingSet
        /\ todo' = {m.sym}
     \/ /\ m.sym = Foreign
        /\ \E i \in LoadingSet : todo' = {i}
  /\ Overwrite(m.seq)
  /\ endSeq' = EndSequence(m.seq)
  /\ pc' = "complete"
  /\ UNCHANGED <<streak, loading, cur, msg, part, channels, sent>>

SentinelStray(m) ==
  /\ pc = "recv"
  /\ m.tid = 116 /\ m.sentinel
  /\ \/ /\ m.sym \in Instruments \ LoadingSet
        /\ Overwrite(m.seq)
     \/ /\ m.sym = Foreign /\ LoadingSet = {}
        /\ UNCHANGED lastSeq
  /\ UNCHANGED <<streak, loading, pc, serving, channels, sent>>

-----------------------------------------------------------------------------
(* 161: DepthByOrderEndEvent names no symbol and completes every instrument *)
(* that is loading.                                                         *)
EndEvent(m) ==
  /\ pc = "recv"
  /\ m.tid = 161 /\ LoadingSet # {}
  /\ todo' = LoadingSet
  /\ Overwrite(m.seq)
  /\ endSeq' = EndSequence(m.seq)
  /\ pc' = "complete"
  /\ UNCHANGED <<streak, loading, cur, msg, part, channels, sent>>

EndEventStray(m) ==
  /\ pc = "recv"
  /\ m.tid = 161 /\ LoadingSet = {}
  /\ UNCHANGED dvars

(* complete_snapshot: the instrument streams from here on; what it buffered *)
(* is replayed unless the buffer overflowed.                                *)
CompleteStart(i) ==
  /\ pc = "complete" /\ i \in todo
  /\ mode' = [mode EXCEPT ![i] = "Streaming"]
  /\ buffer' = [buffer EXCEPT ![i] = IF overflowed[i] THEN <<>> ELSE @]
  /\ overflowed' = [overflowed EXCEPT ![i] = FALSE]
  /\ cur' = i
  /\ todo' = todo \ {i}
  /\ pc' = "replay"
  /\ UNCHANGED <<tracker, msg, part, endSeq, channels, sent>>

(* A buffered update the snapshot already covers is discarded. *)
ReplayDiscard ==
  /\ pc = "replay" /\ buffer[cur] # <<>>
  /\ Head(buffer[cur]).seq <= endSeq
  /\ buffer' = [buffer EXCEPT ![cur] = Tail(@)]
  /\ UNCHANGED <<tracker, mode, overflowed, pc, serving, channels, sent>>

(* A later one is applied. *)
ReplayStart ==
  /\ pc = "replay" /\ buffer[cur] # <<>>
  /\ Head(buffer[cur]).seq > endSeq
  /\ buffer' = [buffer EXCEPT ![cur] = Tail(@)]
  /\ msg' = Head(buffer[cur])
  /\ part' = 0
  /\ pc' = "replaying"
  /\ UNCHANGED <<tracker, mode, overflowed, cur, todo, endSeq, channels, sent>>

ReplayNext ==
  /\ pc = "replaying" /\ part = msg.n
  /\ lastSeq' = msg.seq
  /\ pc' = "replay"
  /\ msg' = None /\ part' = 0
  /\ UNCHANGED <<streak, loading, cur, todo, endSeq, channels, sent>>

(* The buffer is drained: the streak restarts and the pipeline is told. *)
CompleteEnd ==
  /\ pc = "replay" /\ buffer[cur] = <<>>
  /\ CanSend(cur)
  /\ Send(cur, SnapshotComplete)
  /\ NoteComplete(cur)
  /\ streak' = 0
  /\ IF todo = {}
     THEN pc' = "recv" /\ cur' = None /\ endSeq' = 0
     ELSE pc' = "complete" /\ UNCHANGED <<cur, endSeq>>
  /\ UNCHANGED <<lastSeq, loading, msg, part, todo, wsq, rxOpen, wsOpen>>

-----------------------------------------------------------------------------
(* The other messages, and the ends of the task. *)

(* 118: the subscription ack restarts the tracker. *)
SubscriptionAck(m) ==
  /\ pc = "recv"
  /\ m.tid = 118
  /\ lastSeq' = None
  /\ streak' = 0
  /\ UNCHANGED <<loading, pc, serving, channels, sent>>

Other(m) ==
  /\ pc = "recv"
  /\ m.tid = 19
  /\ UNCHANGED dvars

Logout(m) ==
  /\ pc = "recv"
  /\ m.tid = 77
  /\ pc' = "logout"
  /\ UNCHANGED <<tracker, loading, serving, channels, sent>>

(* The router dropped its sender and the raw channel is drained. *)
RawClosed ==
  /\ pc = "recv"
  /\ pc' = "ok"
  /\ UNCHANGED <<tracker, loading, serving, channels, sent>>

(* A send whose receiver is gone. *)
SendFails ==
  /\ \/ /\ pc = "clear"
        /\ \E i \in todo : ~rxOpen[i]
     \/ pc = "request" /\ ~wsOpen
     \/ /\ pc \in {"events", "replaying"} /\ part < msg.n
        /\ ~rxOpen[cur]
     \/ /\ pc = "replay" /\ buffer[cur] = <<>>
        /\ ~rxOpen[cur]
  /\ Fail

SnapColdStartFails(m) ==
  /\ pc = "recv"
  /\ m.tid = 116 /\ ~m.sentinel /\ m.sym \in Instruments
  /\ Streams(m.sym)
  /\ ~rxOpen[m.sym]
  /\ Fail

-----------------------------------------------------------------------------
(* What the task does with the message it receives, and what it does on its *)
(* own until it is ready for the next.                                      *)
Receive(m) ==
  \/ DboForeign(m) \/ DboGap(m) \/ DboStream(m) \/ DboBuffer(m)
  \/ SnapForeign(m) \/ SnapColdStart(m) \/ SnapColdStartFails(m) \/ SnapEntry(m)
  \/ Sentinel(m) \/ SentinelStray(m)
  \/ EndEvent(m) \/ EndEventStray(m)
  \/ SubscriptionAck(m) \/ Other(m) \/ Logout(m)

Proceed ==
  \/ \E i \in Instruments : RecoverClear(i) \/ CompleteStart(i)
  \/ RecoverRequest
  \/ SendEvent \/ EventsDone
  \/ ReplayDiscard \/ ReplayStart \/ ReplayNext \/ CompleteEnd
  \/ SendFails

=============================================================================
