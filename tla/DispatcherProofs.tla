-------------------------- MODULE DispatcherProofs --------------------------
(***************************************************************************)
(* Proofs about the dispatcher under any feed, for every number of         *)
(* instruments, every buffer and channel capacity and every streak bound.  *)
(***************************************************************************)
EXTENDS DispatcherFeed, TLAPS

USE DispatcherAssumption, NoneAssumption, FeedAssumption

(* A message the dispatcher works on is a Message; the fields of one.       *)
LEMMA MessageFields ==
  ASSUME NEW m \in Message
  PROVE  /\ m.tid \in Tids /\ m.sym \in Symbols /\ m.seq \in OptSeq
         /\ m.n \in 0 .. MaxEvents /\ m # None
BY DEF Message

LEMMA CommandTypes ==
  /\ ClearBook \in Command /\ SnapshotComplete \in Command
  /\ \A m \in Message : \A p \in 1 .. MaxEvents : EventOf(m, p) \in Command
BY DEF Command, ClearBook, SnapshotComplete, EventOf

(* Facts about sequences and functions the type proofs use. *)
LEMMA AppendFacts ==
  ASSUME NEW S, NEW q \in Seq(S), NEW e \in S
  PROVE  /\ Append(q, e) \in Seq(S) /\ Len(Append(q, e)) = Len(q) + 1
         /\ \A j \in 1 .. Len(q) : Append(q, e)[j] = q[j]
         /\ Append(q, e)[Len(q) + 1] = e
OBVIOUS

LEMMA TailFacts ==
  ASSUME NEW S, NEW q \in Seq(S), q # <<>>
  PROVE  /\ Head(q) = q[1] /\ Head(q) \in S
         /\ Tail(q) \in Seq(S) /\ Len(Tail(q)) = Len(q) - 1 /\ Len(q) \in Nat \ {0}
         /\ \A j \in 1 .. Len(Tail(q)) : Tail(q)[j] = q[j + 1]
OBVIOUS

LEMMA ExceptType ==
  ASSUME NEW S, NEW T, NEW f \in [S -> T], NEW i \in S, NEW v \in T
  PROVE  [f EXCEPT ![i] = v] \in [S -> T]
OBVIOUS

LEMMA BooleanExcept ==
  ASSUME NEW S, NEW f \in [S -> BOOLEAN], NEW i \in S
  PROVE  /\ [f EXCEPT ![i] = TRUE] \in [S -> BOOLEAN]
         /\ [f EXCEPT ![i] = FALSE] \in [S -> BOOLEAN]
BY ExceptType

(* Replacing one buffer by a legal one keeps the buffers legal. *)
LEMMA BufferExcept ==
  ASSUME buffer \in [Instruments -> Seq(Message)],
         \A k \in Instruments : BufferOK(k, buffer[k]),
         NEW i \in Instruments, NEW q, BufferOK(i, q),
         buffer' = [buffer EXCEPT ![i] = q]
  PROVE  /\ buffer' \in [Instruments -> Seq(Message)]
         /\ \A k \in Instruments : BufferOK(k, buffer'[k])
<1>1. q \in Seq(Message)
  BY DEF BufferOK
<1> QED BY <1>1

LEMMA BufferEmpty == \A i \in Instruments : BufferOK(i, <<>>)
BY DEF BufferOK

LEMMA BufferTail ==
  ASSUME NEW i, NEW q, BufferOK(i, q), q # <<>>
  PROVE  BufferOK(i, Tail(q)) /\ Head(q) \in Message
BY TailFacts DEF BufferOK

LEMMA BufferAppend ==
  ASSUME NEW i \in Instruments, NEW q, BufferOK(i, q), Len(q) < BufferLimit,
         NEW m \in Message, m.tid = 160, m.sym = i, m.seq # None
  PROVE  BufferOK(i, Append(q, m))
<1>1. Len(q) \in Nat
  BY DEF BufferOK
<1> QED BY <1>1, AppendFacts DEF BufferOK

(* What the history variable records of a send is of its type. *)
SentType == [Instruments -> [cleared : BOOLEAN, high : Seqs]]

LEMMA NoteTypes ==
  ASSUME sent \in SentType, NEW i \in Instruments
  PROVE  /\ NoteCleared(i) => sent' \in SentType
         /\ NoteComplete(i) => sent' \in SentType
         /\ \A m \in Message : NoteEvent(i, m) => sent' \in SentType
<1> DEFINE R == [cleared : BOOLEAN, high : Seqs]
<1>1. sent[i] \in R
  BY DEF SentType
<1>2. [cleared |-> TRUE, high |-> 0] \in R
  BY DEF Seqs
<1>3. [sent[i] EXCEPT !.cleared = FALSE] \in R
  BY <1>1
<1>4. \A s \in Seqs : [sent[i] EXCEPT !.high = s] \in R
  BY <1>1
<1>5. \A r \in R : [sent EXCEPT ![i] = r] \in SentType
  BY DEF SentType
<1>6. \A m \in Message : m.seq # None => m.seq \in Seqs
  BY MessageFields DEF OptSeq
<1>7. NoteCleared(i) => sent' \in SentType
  BY <1>2, <1>5 DEF NoteCleared
<1>8. NoteComplete(i) => sent' \in SentType
  <2>1. NoteComplete(i) => sent' = [sent EXCEPT ![i] = [sent[i] EXCEPT !.cleared = FALSE]]
    BY DEF NoteComplete
  <2> QED BY <1>3, <1>5, <2>1
<1>9. ASSUME NEW m \in Message, NoteEvent(i, m) PROVE sent' \in SentType
  <2>1. CASE m.tid = 160 /\ m.seq # None
    <3>1. sent' = [sent EXCEPT ![i] = [sent[i] EXCEPT !.high = m.seq]]
      BY <1>9, <2>1 DEF NoteEvent
    <3>2. [sent[i] EXCEPT !.high = m.seq] \in R
      BY <1>4, <1>6, <2>1
    <3> HIDE DEF R
    <3> QED BY <1>5, <3>1, <3>2
  <2> QED BY <1>9, <2>1 DEF NoteEvent
<1> QED BY <1>7, <1>8, <1>9

(* Appending to one channel of a family keeps the others, and the type.     *)
LEMMA SendType ==
  ASSUME TypeOK, NEW i \in Instruments, CanSend(i), NEW c \in Command, Send(i, c)
  PROVE  /\ cmdq' \in [Instruments -> Seq(Command)]
         /\ \A j \in Instruments : Len(cmdq'[j]) <= CmdCap
BY DEF TypeOK, CanSend, Send

-----------------------------------------------------------------------------
(* Type correctness. *)

LEMMA ReceiveType ==
  ASSUME TypeOK, NEW m \in Message, Receive(m), wire' \in Seqs
  PROVE  TypeOK'
<1> USE DEF TypeOK, SentType, Ended, tracker, loading, serving, channels
<1>m. m.tid \in Tids /\ m.sym \in Symbols /\ m.seq \in OptSeq
      /\ m.n \in 0 .. MaxEvents /\ m # None
  BY MessageFields
<1>s. ASSUME NEW s \in OptSeq, Track(s) PROVE lastSeq' \in OptSeq /\ streak' \in 0 .. MinStreak
  BY <1>s DEF Track
<1>o. ASSUME NEW s \in OptSeq, Overwrite(s) PROVE lastSeq' \in OptSeq
  BY <1>o DEF Overwrite
<1>e. EndSequence(m.seq) \in Seqs
  BY <1>m DEF EndSequence, OptSeq, Seqs
<1>1. CASE DboForeign(m) \/ SnapForeign(m) \/ EndEventStray(m) \/ Other(m)
  BY <1>1 DEF DboForeign, SnapForeign, EndEventStray, Other, dvars
<1>2. CASE DboGap(m)
  BY <1>2, <1>m DEF DboGap, RecoverySet, GapBefore
<1>3. CASE DboStream(m)
  BY <1>3, <1>m, <1>s DEF DboStream
<1>4. CASE DboBuffer(m)
  <2>1. lastSeq' \in OptSeq /\ streak' \in 0 .. MinStreak
    BY <1>4, <1>m, <1>s DEF DboBuffer
  <2>0. m.sym \in Instruments /\ m.tid = 160
    BY <1>4 DEF DboBuffer
  <2>2. /\ buffer' \in [Instruments -> Seq(Message)]
        /\ \A k \in Instruments : BufferOK(k, buffer'[k])
    <3>1. CASE buffer' = [buffer EXCEPT ![m.sym] = Append(buffer[m.sym], m)]
               /\ m.seq # None /\ Len(buffer[m.sym]) < BufferLimit
      <4>1. BufferOK(m.sym, Append(buffer[m.sym], m))
        BY <2>0, <3>1, BufferAppend
      <4> QED BY <2>0, <3>1, <4>1, BufferExcept
    <3>2. CASE UNCHANGED buffer
      BY <3>2
    <3> QED BY <1>4, <3>1, <3>2 DEF DboBuffer, PushBack
  <2>3. overflowed' \in [Instruments -> BOOLEAN]
    <3>1. CASE overflowed' = [overflowed EXCEPT ![m.sym] = TRUE]
      BY <2>0, <3>1, BooleanExcept
    <3>2. CASE UNCHANGED overflowed
      BY <3>2
    <3> QED BY <1>4, <3>1, <3>2 DEF DboBuffer
  <2> QED BY <1>4, <2>1, <2>2, <2>3 DEF DboBuffer
<1>5. CASE SnapColdStart(m)
  <2>1. cmdq' \in [Instruments -> Seq(Command)] /\ \A j \in Instruments : Len(cmdq'[j]) <= CmdCap
    BY <1>5, SendType, CommandTypes DEF SnapColdStart
  <2>2. sent' \in SentType
    BY <1>5, NoteTypes DEF SnapColdStart
  <2>3. lastSeq' \in OptSeq
    BY <1>5, <1>m, <1>o DEF SnapColdStart
  <2>4. /\ buffer' \in [Instruments -> Seq(Message)]
        /\ \A k \in Instruments : BufferOK(k, buffer'[k])
    BY <1>5, BufferExcept, BufferEmpty DEF SnapColdStart
  <2>5. overflowed' \in [Instruments -> BOOLEAN]
    BY <1>5, BooleanExcept DEF SnapColdStart
  <2> QED BY <1>5, <2>1, <2>2, <2>3, <2>4, <2>5 DEF SnapColdStart
<1>6. CASE SnapColdStartFails(m) \/ Logout(m)
  BY <1>6 DEF SnapColdStartFails, Logout, Fail
<1>7. CASE SnapEntry(m)
  BY <1>7, <1>m, <1>o DEF SnapEntry
<1>8. CASE Sentinel(m)
  <2>1. todo' \in SUBSET Instruments
    BY <1>8 DEF Sentinel, LoadingSet
  <2>2. lastSeq' \in OptSeq
    BY <1>8, <1>m, <1>o DEF Sentinel
  <2> QED BY <1>8, <1>e, <2>1, <2>2 DEF Sentinel
<1>9. CASE SentinelStray(m)
  BY <1>9, <1>m, <1>o DEF SentinelStray
<1>10. CASE EndEvent(m)
  BY <1>10, <1>m, <1>o, <1>e DEF EndEvent, LoadingSet
<1>11. CASE SubscriptionAck(m)
  BY <1>11 DEF SubscriptionAck, OptSeq
<1> QED
  BY <1>1, <1>2, <1>3, <1>4, <1>5, <1>6, <1>7, <1>8, <1>9, <1>10, <1>11 DEF Receive

LEMMA ProceedType ==
  ASSUME TypeOK, HandlerInv, Proceed \/ RawClosed, wire' = wire
  PROVE  TypeOK'
<1> USE DEF TypeOK, SentType, Ended, tracker, loading, serving, channels
<1>1. ASSUME NEW i \in Instruments, RecoverClear(i) PROVE TypeOK'
  <2>1. cmdq' \in [Instruments -> Seq(Command)] /\ \A j \in Instruments : Len(cmdq'[j]) <= CmdCap
    BY <1>1, SendType, CommandTypes DEF RecoverClear
  <2>2. sent' \in SentType
    BY <1>1, NoteTypes DEF RecoverClear
  <2>3. /\ msg \in Message /\ msg.tid = 160 /\ msg.seq # None
    BY <1>1 DEF RecoverClear, HandlerInv
  <2>4. /\ buffer' \in [Instruments -> Seq(Message)]
        /\ \A k \in Instruments : BufferOK(k, buffer'[k])
    <3>1. BufferOK(i, IF i = msg.sym THEN <<msg>> ELSE <<>>)
      BY <2>3 DEF BufferOK
    <3> QED BY <1>1, <3>1, BufferExcept DEF RecoverClear
  <2>5. overflowed' \in [Instruments -> BOOLEAN]
    BY <1>1, BooleanExcept DEF RecoverClear
  <2> QED BY <1>1, <2>1, <2>2, <2>4, <2>5 DEF RecoverClear
<1>2. ASSUME NEW i \in Instruments, CompleteStart(i) PROVE TypeOK'
  <2>1. /\ buffer' \in [Instruments -> Seq(Message)]
        /\ \A k \in Instruments : BufferOK(k, buffer'[k])
    BY <1>2, BufferExcept, BufferEmpty DEF CompleteStart
  <2>2. overflowed' \in [Instruments -> BOOLEAN]
    BY <1>2, BooleanExcept DEF CompleteStart
  <2> QED BY <1>2, <2>1, <2>2 DEF CompleteStart
<1>3. CASE RecoverRequest
  <2>1. wsq' \in Seq(Instruments) /\ Len(wsq') <= WsCap
    BY <1>3 DEF RecoverRequest, HandlerInv
  <2> QED BY <1>3, <2>1 DEF RecoverRequest
<1>4. CASE SendEvent
  <2>1. /\ msg \in Message /\ cur \in Instruments /\ part + 1 \in 1 .. MaxEvents
        /\ msg.seq \in OptSeq
    BY <1>4, MessageFields DEF SendEvent, HandlerInv
  <2>2. cmdq' \in [Instruments -> Seq(Command)] /\ \A j \in Instruments : Len(cmdq'[j]) <= CmdCap
    BY <1>4, <2>1, SendType, CommandTypes DEF SendEvent
  <2>3. sent' \in SentType
    BY <1>4, <2>1, NoteTypes DEF SendEvent
  <2> QED BY <1>4, <2>1, <2>2, <2>3 DEF SendEvent
<1>5. CASE EventsDone
  BY <1>5 DEF EventsDone
<1>6. CASE ReplayDiscard \/ ReplayStart
  <2>1. /\ cur \in Instruments /\ buffer[cur] # <<>>
        /\ buffer' = [buffer EXCEPT ![cur] = Tail(buffer[cur])]
    BY <1>6 DEF ReplayDiscard, ReplayStart, HandlerInv
  <2>2. Head(buffer[cur]) \in Message /\ BufferOK(cur, Tail(buffer[cur]))
    BY <2>1, BufferTail
  <2>3. /\ buffer' \in [Instruments -> Seq(Message)]
        /\ \A k \in Instruments : BufferOK(k, buffer'[k])
    BY <2>1, <2>2, BufferExcept
  <2>4. CASE ReplayDiscard
    BY <2>3, <2>4 DEF ReplayDiscard
  <2>5. CASE ReplayStart
    BY <2>2, <2>3, <2>5 DEF ReplayStart
  <2> QED BY <1>6, <2>4, <2>5
<1>7. CASE ReplayNext
  BY <1>7, MessageFields DEF ReplayNext, HandlerInv
<1>8. CASE CompleteEnd
  <2>1. cmdq' \in [Instruments -> Seq(Command)] /\ \A j \in Instruments : Len(cmdq'[j]) <= CmdCap
    BY <1>8, SendType, CommandTypes DEF CompleteEnd, HandlerInv
  <2>2. sent' \in SentType
    BY <1>8, NoteTypes DEF CompleteEnd, HandlerInv
  <2> QED BY <1>8, <2>1, <2>2 DEF CompleteEnd, Seqs
<1>9. CASE SendFails \/ RawClosed
  BY <1>9 DEF SendFails, Fail, RawClosed
<1> QED
  BY <1>1, <1>2, <1>3, <1>4, <1>5, <1>6, <1>7, <1>8, <1>9 DEF Proceed

LEMMA ConsumersType ==
  ASSUME TypeOK, Consumers
  PROVE  TypeOK'
<1> USE DEF TypeOK, tracker, loading, serving
<1>1. ASSUME NEW i \in Instruments, PipelineTakes(i) PROVE TypeOK'
  BY <1>1 DEF PipelineTakes
<1>2. ASSUME NEW i \in Instruments, PipelineEnds(i) PROVE TypeOK'
  <2>1. rxOpen' \in [Instruments -> BOOLEAN]
    BY <1>2, BooleanExcept DEF PipelineEnds
  <2>2. /\ cmdq' \in [Instruments -> Seq(Command)]
        /\ \A j \in Instruments : Len(cmdq'[j]) <= CmdCap
    BY <1>2 DEF PipelineEnds
  <2> QED BY <1>2, <2>1, <2>2 DEF PipelineEnds
<1>3. CASE WriterTakes
  BY <1>3 DEF WriterTakes
<1>4. CASE WriterEnds
  <2>1. wsq' \in Seq(Instruments) /\ Len(wsq') <= WsCap
    <3>1. wsq' = <<>>
      BY <1>4 DEF WriterEnds
    <3> QED BY <3>1
  <2>2. wsOpen' \in BOOLEAN
    <3>1. wsOpen' = FALSE
      BY <1>4 DEF WriterEnds
    <3> QED BY <3>1
  <2> QED BY <1>4, <2>1, <2>2 DEF WriterEnds
<1>5. CASE \E i \in Instruments : PipelineTakes(i) \/ PipelineEnds(i)
  <2>1. PICK i \in Instruments : PipelineTakes(i) \/ PipelineEnds(i)
    BY <1>5
  <2> QED BY <1>1, <1>2, <2>1
<1> QED BY <1>3, <1>4, <1>5 DEF Consumers

-----------------------------------------------------------------------------
(* The inductive invariant. A received message moves wire, buffers an       *)
(* update or starts a handler.                                              *)

LEMMA ReceiveLoading ==
  ASSUME IInv, NEW m \in Message, Receive(m)
  PROVE  LoadingBookIsSnapshotOnly'
<1> USE DEF IInv, LoadingBookIsSnapshotOnly, loading, serving, channels
<1>1. CASE SnapColdStart(m)
  BY <1>1 DEF SnapColdStart, NoteCleared, TypeOK
<1>2. CASE UNCHANGED <<mode, sent>>
  BY <1>2
<1> QED
  BY <1>1, <1>2 DEF Receive, DboForeign, DboGap, DboStream, DboBuffer, SnapForeign,
     SnapColdStartFails, SnapEntry, Sentinel, SentinelStray, EndEvent, EndEventStray,
     SubscriptionAck, Other, Logout, Fail, dvars

LEMMA ProceedLoading ==
  ASSUME IInv, Proceed \/ RawClosed
  PROVE  LoadingBookIsSnapshotOnly'
<1> USE DEF IInv, LoadingBookIsSnapshotOnly, loading, serving, channels
<1>1. ASSUME NEW i \in Instruments, RecoverClear(i) PROVE LoadingBookIsSnapshotOnly'
  BY <1>1 DEF RecoverClear, NoteCleared, TypeOK
<1>2. ASSUME NEW i \in Instruments, CompleteStart(i) PROVE LoadingBookIsSnapshotOnly'
  BY <1>2 DEF CompleteStart, TypeOK
<1>3. CASE SendEvent
  <2>1. cur \in Instruments /\ msg \in Message
    BY <1>3 DEF SendEvent, HandlerInv, TypeOK
  <2>2. msg.tid = 160 => mode[cur] = "Streaming"
    BY <1>3 DEF SendEvent, HandlerInv, OrderInv, StreamOrder, ReplayOrder
  <2> QED BY <1>3, <2>1, <2>2 DEF SendEvent, NoteEvent, TypeOK
<1>4. CASE CompleteEnd
  <2>1. cur \in Instruments /\ mode[cur] = "Streaming"
    BY <1>4 DEF CompleteEnd, HandlerInv, TypeOK
  <2> QED BY <1>4, <2>1 DEF CompleteEnd, NoteComplete, TypeOK
<1>5. CASE UNCHANGED <<mode, sent>>
  BY <1>5
<1>6. CASE RecoverRequest \/ EventsDone \/ ReplayDiscard \/ ReplayStart \/ ReplayNext
             \/ SendFails \/ RawClosed
  BY <1>5, <1>6 DEF RecoverRequest, EventsDone, ReplayDiscard, ReplayStart, ReplayNext,
     SendFails, Fail, RawClosed
<1> QED BY <1>1, <1>2, <1>3, <1>4, <1>6 DEF Proceed

LEMMA ReceiveHandler ==
  ASSUME IInv, NEW m \in Message, m.tid = 160 /\ m.seq # None => m.seq > wire, Receive(m), wire' \in Seqs,
         wire' = IF m.tid = 160 /\ m.seq # None THEN m.seq ELSE wire
  PROVE  HandlerInv'
<1> USE DEF IInv, HandlerInv, Ended, loading, serving, channels
<1>m. m.tid \in Tids /\ m.sym \in Symbols /\ m.seq \in OptSeq
      /\ m.n \in 0 .. MaxEvents /\ m # None
  BY MessageFields
<1>1. CASE DboForeign(m) \/ SnapForeign(m) \/ EndEventStray(m) \/ Other(m)
             \/ DboBuffer(m) \/ SentinelStray(m) \/ SubscriptionAck(m)
  BY <1>1 DEF DboForeign, SnapForeign, EndEventStray, Other, dvars, DboBuffer,
     SentinelStray, SubscriptionAck
<1>2. CASE DboGap(m)
  <2>1. 0 < m.seq /\ m.seq <= wire' /\ m.tid = 160
    BY <1>2, <1>m DEF DboGap, GapBefore, TypeOK, Seqs, OptSeq
  <2> QED BY <1>2, <1>m, <2>1 DEF DboGap, RecoverySet, GapBefore
<1>3. CASE DboStream(m) \/ SnapColdStart(m) \/ SnapEntry(m)
  BY <1>3, <1>m DEF DboStream, SnapColdStart, SnapEntry
<1>4. CASE Sentinel(m) \/ EndEvent(m)
  BY <1>4 DEF Sentinel, EndEvent, LoadingSet
<1>5. CASE SnapColdStartFails(m) \/ Logout(m)
  BY <1>5 DEF SnapColdStartFails, Fail, Logout
<1> QED BY <1>1, <1>2, <1>3, <1>4, <1>5 DEF Receive

LEMMA ProceedHandler ==
  ASSUME IInv, Proceed \/ RawClosed, wire' = wire
  PROVE  HandlerInv'
<1> USE DEF IInv, HandlerInv, Ended, loading, serving, channels
<1>1. ASSUME NEW i \in Instruments, RecoverClear(i) PROVE HandlerInv'
  BY <1>1 DEF RecoverClear, TypeOK
<1>2. ASSUME NEW i \in Instruments, CompleteStart(i) PROVE HandlerInv'
  BY <1>2 DEF CompleteStart, TypeOK, LoadingBookIsSnapshotOnly
<1>3. CASE RecoverRequest
  BY <1>3 DEF RecoverRequest
<1>4. CASE SendEvent
  <2>1. cur \in Instruments /\ part + 1 <= msg.n /\ msg \in Message
    BY <1>4, MessageFields DEF SendEvent, TypeOK
  <2>2. sent'[cur].cleared = sent[cur].cleared
    BY <1>4, <2>1 DEF SendEvent, NoteEvent, TypeOK
  <2> QED BY <1>4, <2>1, <2>2 DEF SendEvent
<1>5. CASE EventsDone \/ CompleteEnd
  BY <1>5 DEF EventsDone, CompleteEnd, NoteComplete, TypeOK
<1>6. CASE ReplayDiscard
  BY <1>6 DEF ReplayDiscard
<1>7. CASE ReplayStart
  <2>1. Head(buffer[cur]) \in Message
    BY <1>7, TailFacts DEF ReplayStart, TypeOK
  <2> QED BY <1>7, <2>1, MessageFields DEF ReplayStart
<1>8. CASE ReplayNext
  BY <1>8 DEF ReplayNext
<1>9. CASE SendFails \/ RawClosed
  BY <1>9 DEF SendFails, Fail, RawClosed
<1> QED BY <1>1, <1>2, <1>3, <1>4, <1>5, <1>6, <1>7, <1>8, <1>9 DEF Proceed

(* The numbers the order invariant compares are numbers. *)
LEMMA OrderTypes ==
  ASSUME TypeOK
  PROVE  /\ wire \in Nat /\ endSeq \in Nat
         /\ \A i \in Instruments :
              /\ sent[i].high \in Nat
              /\ Len(buffer[i]) \in Nat
              /\ \A j \in 1 .. Len(buffer[i]) :
                   /\ buffer[i][j] \in Message /\ buffer[i][j].tid = 160
                   /\ buffer[i][j].seq \in Nat /\ buffer[i][j].seq # None
<1>1. wire \in Nat /\ endSeq \in Nat
  BY DEF TypeOK, Seqs
<1>2. ASSUME NEW i \in Instruments
      PROVE  sent[i].high \in Nat /\ Len(buffer[i]) \in Nat /\ BufferOK(i, buffer[i])
  BY DEF TypeOK, Seqs
<1>3. ASSUME NEW i \in Instruments, NEW j \in 1 .. Len(buffer[i])
      PROVE  /\ buffer[i][j] \in Message /\ buffer[i][j].tid = 160
             /\ buffer[i][j].seq \in Nat /\ buffer[i][j].seq # None
  <2>1. buffer[i] \in Seq(Message) /\ buffer[i][j].tid = 160 /\ buffer[i][j].seq # None
    BY <1>2, <1>3 DEF BufferOK
  <2>2. buffer[i][j] \in Message
    BY <2>1
  <2>3. buffer[i][j].seq \in OptSeq
    BY <2>2, MessageFields
  <2> QED BY <2>1, <2>2, <2>3 DEF OptSeq, Seqs
<1> QED BY <1>1, <1>2, <1>3

(* The order of what is buffered, being sent and already sent. *)

(* A later number may be appended to an ascending buffer. *)
LEMMA AppendOrder ==
  ASSUME NEW q \in Seq(Message), NEW m \in Message, NEW lo \in Nat, NEW hi \in Nat,
         m.seq \in Nat, lo <= hi, hi < m.seq,
         \A j \in 1 .. Len(q) : /\ q[j].seq \in Nat /\ lo < q[j].seq /\ q[j].seq <= hi
                               /\ \A h \in 1 .. j - 1 : q[h].seq < q[j].seq
  PROVE  \A j \in 1 .. Len(Append(q, m)) :
           /\ lo < Append(q, m)[j].seq /\ Append(q, m)[j].seq <= m.seq
           /\ \A h \in 1 .. j - 1 : Append(q, m)[h].seq < Append(q, m)[j].seq
<1> DEFINE r == Append(q, m)
<1>1. /\ Len(q) \in Nat /\ Len(r) = Len(q) + 1 /\ r[Len(q) + 1] = m
      /\ \A j \in 1 .. Len(q) : r[j] = q[j]
  BY AppendFacts
<1> HIDE DEF r
<1>2. ASSUME NEW j \in 1 .. Len(r), j <= Len(q)
      PROVE  /\ lo < r[j].seq /\ r[j].seq <= m.seq
             /\ \A h \in 1 .. j - 1 : r[h].seq < r[j].seq
  <2>1. j \in 1 .. Len(q) /\ r[j] = q[j]
    BY <1>1, <1>2
  <2>2. \A h \in 1 .. j - 1 : h \in 1 .. Len(q) /\ r[h] = q[h]
    BY <1>1, <2>1
  <2> QED BY <2>1, <2>2
<1>3. ASSUME NEW j \in 1 .. Len(r), j > Len(q)
      PROVE  /\ lo < r[j].seq /\ r[j].seq <= m.seq
             /\ \A h \in 1 .. j - 1 : r[h].seq < r[j].seq
  <2>1. r[j] = m /\ j - 1 = Len(q)
    BY <1>1, <1>3
  <2>2. \A h \in 1 .. j - 1 : h \in 1 .. Len(q) /\ r[h] = q[h]
    BY <1>1, <2>1
  <2> QED BY <2>1, <2>2
<1>4. \A j \in 1 .. Len(r) : j <= Len(q) \/ j > Len(q)
  BY <1>1
<1> QED BY <1>2, <1>3, <1>4 DEF r

LEMMA ReceiveOrder ==
  ASSUME IInv, NEW m \in Message, m.tid = 160 /\ m.seq # None => m.seq > wire, Receive(m), wire' \in Seqs,
         wire' = IF m.tid = 160 /\ m.seq # None THEN m.seq ELSE wire
  PROVE  OrderInv'
<1>i. /\ TypeOK /\ LoadingBookIsSnapshotOnly /\ HandlerInv
      /\ BufferOrder /\ Drained /\ StreamOrder /\ ReplayOrder
  BY DEF IInv, OrderInv
<1> SUFFICES BufferOrder' /\ Drained' /\ StreamOrder' /\ ReplayOrder'
  BY DEF OrderInv
<1> USE <1>i DEF Ended, loading, serving, channels
<1>m. m.tid \in Tids /\ m.sym \in Symbols /\ m.seq \in OptSeq
      /\ m.n \in 0 .. MaxEvents /\ m # None
  BY MessageFields
<1>t. /\ wire \in Nat /\ endSeq \in Nat
      /\ \A i \in Instruments : /\ sent[i].high \in Nat /\ Len(buffer[i]) \in Nat
           /\ \A j \in 1 .. Len(buffer[i]) : buffer[i][j].seq \in Nat /\ buffer[i][j].tid = 160
  BY OrderTypes
<1>w. wire <= wire' /\ (m.tid = 160 /\ m.seq # None => wire < m.seq /\ wire' = m.seq)
  BY <1>m DEF TypeOK, Seqs, OptSeq
<1>b. ASSUME UNCHANGED <<buffer, sent>> PROVE BufferOrder'
  BY <1>b, <1>w, <1>t DEF BufferOrder, Seqs
<1>1. CASE UNCHANGED <<mode, buffer, sent, pc>> /\ pc = "recv"
  BY <1>1, <1>b DEF Drained, StreamOrder, ReplayOrder
<1>2. CASE DboForeign(m) \/ SnapForeign(m) \/ EndEventStray(m) \/ Other(m)
             \/ SentinelStray(m) \/ SubscriptionAck(m)
  BY <1>1, <1>2 DEF DboForeign, SnapForeign, EndEventStray, Other, dvars,
     SentinelStray, SubscriptionAck
<1>3. CASE DboGap(m) \/ Sentinel(m) \/ EndEvent(m) \/ SnapColdStartFails(m) \/ Logout(m)
  BY <1>3, <1>b DEF Drained, StreamOrder, ReplayOrder, DboGap, Sentinel, EndEvent,
     SnapColdStartFails, Logout, Fail
<1>4. CASE DboStream(m)
  <2>1. mode[m.sym] = "Streaming" /\ m.sym \in Instruments /\ sent[m.sym].high <= wire
    BY <1>4 DEF DboStream, Streams, BufferOrder
  <2>2. StreamOrder'
    BY <1>4, <2>1, <1>w, <1>m DEF DboStream, StreamOrder, TypeOK, Seqs, OptSeq
  <2> QED BY <1>4, <1>b, <2>2 DEF DboStream, Drained, ReplayOrder
<1>5. CASE SnapEntry(m)
  BY <1>5, <1>b DEF SnapEntry, Drained, StreamOrder, ReplayOrder
<1>6. CASE SnapColdStart(m)
  <2>1. BufferOrder'
    BY <1>6, <1>w DEF SnapColdStart, NoteCleared, BufferOrder, TypeOK, BufferOK, Seqs, OptSeq
  <2>2. Drained'
    BY <1>6 DEF SnapColdStart, Drained, TypeOK
  <2> QED BY <1>6, <2>1, <2>2 DEF SnapColdStart, StreamOrder, ReplayOrder
<1>7. CASE DboBuffer(m)
  <2>1. BufferOrder'
    <3>1. CASE UNCHANGED buffer
      BY <1>7, <1>b, <3>1 DEF DboBuffer
    <3>2. CASE m.seq # None /\ buffer' = [buffer EXCEPT ![m.sym] = Append(buffer[m.sym], m)]
      <4>1. m.sym \in Instruments /\ m.tid = 160 /\ sent' = sent
        BY <1>7 DEF DboBuffer
      <4>2. \A i \in Instruments : i # m.sym => buffer'[i] = buffer[i]
        BY <3>2, <4>1 DEF TypeOK
      <4>3. /\ Len(buffer'[m.sym]) = Len(buffer[m.sym]) + 1
            /\ \A j \in 1 .. Len(buffer[m.sym]) : buffer'[m.sym][j] = buffer[m.sym][j]
            /\ buffer'[m.sym][Len(buffer[m.sym]) + 1] = m
        BY <3>2, <4>1, AppendFacts DEF TypeOK
      <4>4. m.seq \in Nat /\ wire < m.seq /\ wire' = m.seq
        BY <1>m, <1>w, <3>2, <4>1 DEF OptSeq, Seqs
      <4>5. ASSUME NEW i \in Instruments, i # m.sym
            PROVE  /\ sent'[i].high <= wire'
                   /\ \A j \in 1 .. Len(buffer'[i]) :
                        /\ sent'[i].high < buffer'[i][j].seq
                        /\ buffer'[i][j].seq <= wire'
                        /\ \A h \in 1 .. j - 1 : buffer'[i][h].seq < buffer'[i][j].seq
        <5>1. sent'[i] = sent[i] /\ buffer'[i] = buffer[i]
          BY <4>1, <4>2, <4>5
        <5>2. /\ sent[i].high <= wire /\ sent[i].high \in Nat /\ wire \in Nat
              /\ \A j \in 1 .. Len(buffer[i]) :
                   /\ sent[i].high < buffer[i][j].seq /\ buffer[i][j].seq \in Nat
                   /\ buffer[i][j].seq <= wire
                   /\ \A h \in 1 .. j - 1 : buffer[i][h].seq < buffer[i][j].seq
          BY <1>t DEF BufferOrder
        <5> HIDE <1>i
        <5> QED BY <4>4, <5>1, <5>2
      <4>6. \A j \in 1 .. Len(buffer'[m.sym]) :
              /\ sent'[m.sym].high < buffer'[m.sym][j].seq
              /\ buffer'[m.sym][j].seq <= wire'
              /\ \A h \in 1 .. j - 1 : buffer'[m.sym][h].seq < buffer'[m.sym][j].seq
        <5>1. buffer'[m.sym] = Append(buffer[m.sym], m) /\ buffer[m.sym] \in Seq(Message)
          BY <3>2, <4>1 DEF TypeOK
        <5>2. \A j \in 1 .. Len(buffer[m.sym]) :
                /\ buffer[m.sym][j].seq \in Nat
                /\ sent[m.sym].high < buffer[m.sym][j].seq
                /\ buffer[m.sym][j].seq <= wire
                /\ \A h \in 1 .. j - 1 : buffer[m.sym][h].seq < buffer[m.sym][j].seq
          BY <1>t, <4>1 DEF BufferOrder
        <5>3. sent[m.sym].high \in Nat /\ sent[m.sym].high <= wire /\ sent' = sent
          BY <1>t, <4>1 DEF BufferOrder
        <5>4. \A j \in 1 .. Len(Append(buffer[m.sym], m)) :
                /\ sent[m.sym].high < Append(buffer[m.sym], m)[j].seq
                /\ Append(buffer[m.sym], m)[j].seq <= m.seq
                /\ \A h \in 1 .. j - 1 :
                     Append(buffer[m.sym], m)[h].seq < Append(buffer[m.sym], m)[j].seq
          <6> DEFINE q == buffer[m.sym]
                     lo == sent[m.sym].high
          <6>1. q \in Seq(Message) /\ lo \in Nat /\ lo <= wire
            BY <5>1, <5>3
          <6>2. \A j \in 1 .. Len(q) :
                  /\ q[j].seq \in Nat /\ lo < q[j].seq /\ q[j].seq <= wire
                  /\ \A h \in 1 .. j - 1 : q[h].seq < q[j].seq
            BY <5>2
          <6> HIDE <1>i DEF q, lo
          <6>3. \A j \in 1 .. Len(Append(q, m)) :
                  /\ lo < Append(q, m)[j].seq /\ Append(q, m)[j].seq <= m.seq
                  /\ \A h \in 1 .. j - 1 : Append(q, m)[h].seq < Append(q, m)[j].seq
            BY <1>t, <4>4, <6>1, <6>2, AppendOrder
          <6> QED BY <6>3 DEF q, lo
        <5> HIDE <1>i
        <5> QED BY <4>4, <5>1, <5>3, <5>4
      <4>7. sent'[m.sym].high <= wire'
        BY <1>t, <4>1, <4>4 DEF BufferOrder
      <4> QED BY <4>5, <4>6, <4>7 DEF BufferOrder
    <3> QED BY <1>7, <3>1, <3>2 DEF DboBuffer, PushBack
  <2>2. Drained'
    BY <1>7 DEF DboBuffer, Drained, TypeOK, Streams
  <2> QED BY <1>7, <2>1, <2>2 DEF DboBuffer, StreamOrder, ReplayOrder
<1> QED BY <1>2, <1>3, <1>4, <1>5, <1>6, <1>7 DEF Receive

LEMMA ProceedOrder ==
  ASSUME IInv, Proceed \/ RawClosed, wire' = wire
  PROVE  OrderInv'
<1>i. /\ TypeOK /\ LoadingBookIsSnapshotOnly /\ HandlerInv
      /\ BufferOrder /\ Drained /\ StreamOrder /\ ReplayOrder
  BY DEF IInv, OrderInv
<1> SUFFICES BufferOrder' /\ Drained' /\ StreamOrder' /\ ReplayOrder'
  BY DEF OrderInv
<1> USE <1>i DEF Ended, loading, serving, channels
<1>t. /\ wire \in Nat /\ endSeq \in Nat
      /\ \A i \in Instruments : /\ sent[i].high \in Nat /\ Len(buffer[i]) \in Nat
           /\ \A j \in 1 .. Len(buffer[i]) : buffer[i][j].seq \in Nat /\ buffer[i][j].tid = 160
  BY OrderTypes
<1>b. ASSUME UNCHANGED <<buffer, sent>> PROVE BufferOrder'
  BY <1>b DEF BufferOrder
<1>1. ASSUME NEW i \in Instruments, RecoverClear(i) PROVE BufferOrder' /\ Drained' /\ StreamOrder' /\ ReplayOrder'
  <2>1. /\ msg.seq \in Nat /\ 0 < msg.seq /\ msg.seq <= wire
    BY <1>1 DEF RecoverClear, HandlerInv, TypeOK, Message, OptSeq, Seqs
  <2>2. buffer'[i] = <<msg>> \/ buffer'[i] = <<>>
    BY <1>1 DEF RecoverClear, TypeOK
  <2>3. \A k \in Instruments : k # i => buffer'[k] = buffer[k] /\ sent'[k] = sent[k]
    BY <1>1 DEF RecoverClear, NoteCleared, TypeOK
  <2>4. sent'[i].high = 0 /\ mode'[i] = "Loading" /\ pc' = "request"
    BY <1>1 DEF RecoverClear, NoteCleared, TypeOK
  <2>5. BufferOrder'
    BY <1>t, <2>1, <2>2, <2>3, <2>4 DEF BufferOrder
  <2>6. Drained'
    BY <1>1, <2>3, <2>4 DEF RecoverClear, Drained, TypeOK
  <2> QED BY <2>4, <2>5, <2>6 DEF StreamOrder, ReplayOrder
<1>2. ASSUME NEW i \in Instruments, CompleteStart(i) PROVE BufferOrder' /\ Drained' /\ StreamOrder' /\ ReplayOrder'
  <2>1. BufferOrder'
    BY <1>2, <1>t DEF CompleteStart, BufferOrder, TypeOK
  <2>2. Drained'
    BY <1>2 DEF CompleteStart, Drained, TypeOK
  <2> QED BY <1>2, <2>1, <2>2 DEF CompleteStart, StreamOrder, ReplayOrder
<1>3. CASE RecoverRequest
  BY <1>3, <1>b DEF RecoverRequest, Drained, StreamOrder, ReplayOrder
<1>4. CASE SendEvent
  <2>1. cur \in Instruments /\ msg \in Message /\ part \in Nat /\ part' = part + 1
        /\ msg.seq \in OptSeq
    BY <1>4, MessageFields DEF SendEvent, HandlerInv, TypeOK
  <2>2. \A k \in Instruments : k # cur => sent'[k] = sent[k]
    BY <1>4, <2>1 DEF SendEvent, NoteEvent, TypeOK
  <2>3. sent'[cur].high = IF msg.tid = 160 /\ msg.seq # None THEN msg.seq ELSE sent[cur].high
    BY <1>4, <2>1 DEF SendEvent, NoteEvent, TypeOK
  <2>4. UNCHANGED <<mode, buffer, pc, cur, msg>>
    BY <1>4 DEF SendEvent
  <2>5. pc = "replaying" \/ (pc = "events" /\ (msg.tid = 160 => buffer[cur] = <<>>))
    BY <1>4, <2>1 DEF SendEvent, StreamOrder, Drained
  <2>6. BufferOrder'
    <3>1. sent'[cur].high <= wire
      BY <1>t, <2>1, <2>3, <2>5 DEF BufferOrder, StreamOrder, ReplayOrder
    <3>2. \A j \in 1 .. Len(buffer[cur]) : sent'[cur].high < buffer[cur][j].seq
      BY <1>t, <2>1, <2>3, <2>5 DEF BufferOrder, ReplayOrder
    <3> QED BY <1>t, <2>1, <2>2, <2>4, <3>1, <3>2 DEF BufferOrder
  <2>7. Drained'
    BY <2>4 DEF Drained
  <2>8. StreamOrder'
    BY <2>1, <2>3, <2>4 DEF StreamOrder
  <2>9. ReplayOrder'
    BY <2>1, <2>3, <2>4 DEF ReplayOrder
  <2> QED BY <2>6, <2>7, <2>8, <2>9
<1>5. CASE EventsDone
  BY <1>5, <1>b DEF EventsDone, Drained, StreamOrder, ReplayOrder
<1>6. ASSUME pc = "replay", cur \in Instruments, buffer[cur] # <<>>,
             buffer' = [buffer EXCEPT ![cur] = Tail(buffer[cur])],
             UNCHANGED sent
      PROVE  /\ BufferOrder'
             /\ Head(buffer[cur]).seq <= wire /\ sent[cur].high < Head(buffer[cur]).seq
             /\ Head(buffer[cur]).seq \in Nat /\ Head(buffer[cur]).tid = 160
             /\ \A j \in 1 .. Len(buffer'[cur]) : Head(buffer[cur]).seq < buffer'[cur][j].seq
  <2>1. /\ Head(buffer[cur]) = buffer[cur][1] /\ Len(buffer'[cur]) = Len(buffer[cur]) - 1
        /\ Len(buffer[cur]) \in Nat \ {0}
        /\ \A j \in 1 .. Len(buffer'[cur]) : buffer'[cur][j] = buffer[cur][j + 1]
    BY <1>6, TailFacts DEF TypeOK
  <2>2. \A k \in Instruments : k # cur => buffer'[k] = buffer[k]
    BY <1>6 DEF TypeOK
  <2>3. BufferOrder'
    BY <1>6, <1>t, <2>1, <2>2 DEF BufferOrder
  <2>4. \A j \in 1 .. Len(buffer'[cur]) : buffer[cur][1].seq < buffer'[cur][j].seq
    BY <1>6, <1>t, <2>1 DEF BufferOrder
  <2>5. /\ buffer[cur][1].seq <= wire /\ sent[cur].high < buffer[cur][1].seq
        /\ buffer[cur][1].seq \in Nat /\ buffer[cur][1].tid = 160
    BY <1>6, <1>t, <2>1 DEF BufferOrder
  <2> QED BY <2>1, <2>3, <2>4, <2>5
<1>7. CASE ReplayDiscard
  <2>1. BufferOrder'
    BY <1>6, <1>7 DEF ReplayDiscard, HandlerInv, TypeOK
  <2>2. Drained'
    BY <1>7 DEF ReplayDiscard, Drained, HandlerInv, TypeOK
  <2> QED BY <1>7, <2>1, <2>2 DEF ReplayDiscard, StreamOrder, ReplayOrder
<1>8. CASE ReplayStart
  <2>0. cur \in Instruments
    BY <1>8 DEF ReplayStart, HandlerInv, TypeOK
  <2>1. /\ BufferOrder'
        /\ Head(buffer[cur]).seq <= wire /\ sent[cur].high < Head(buffer[cur]).seq
        /\ Head(buffer[cur]).seq \in Nat /\ Head(buffer[cur]).tid = 160
        /\ \A j \in 1 .. Len(buffer'[cur]) : Head(buffer[cur]).seq < buffer'[cur][j].seq
    BY <1>6, <1>8, <2>0 DEF ReplayStart
  <2>2. Drained'
    BY <1>8, <2>0 DEF ReplayStart, Drained, TypeOK
  <2>3. ReplayOrder'
    <3>1. /\ msg' = Head(buffer[cur]) /\ part' = 0 /\ cur' = cur /\ sent' = sent
      BY <1>8 DEF ReplayStart
    <3>2. Head(buffer[cur]).seq # None
      BY <2>1
    <3> QED BY <2>1, <3>1, <3>2 DEF ReplayOrder
  <2> QED BY <1>8, <2>1, <2>2, <2>3 DEF ReplayStart, StreamOrder
<1>9. CASE ReplayNext
  BY <1>9, <1>b DEF ReplayNext, Drained, StreamOrder, ReplayOrder
<1>10. CASE CompleteEnd
  <2>1. cur \in Instruments /\ buffer[cur] = <<>>
    BY <1>10 DEF CompleteEnd, HandlerInv, TypeOK
  <2>2. \A i \in Instruments : sent'[i].high = sent[i].high
    BY <1>10, <2>1 DEF CompleteEnd, NoteComplete, TypeOK
  <2>3. BufferOrder'
    BY <1>10, <2>2 DEF CompleteEnd, BufferOrder
  <2>4. Drained'
    BY <1>10, <2>1 DEF CompleteEnd, Drained
  <2> QED BY <1>10, <2>3, <2>4 DEF CompleteEnd, StreamOrder, ReplayOrder
<1>11. CASE SendFails \/ RawClosed
  BY <1>11, <1>b DEF SendFails, Fail, RawClosed, Drained, StreamOrder, ReplayOrder
<1> QED BY <1>1, <1>2, <1>3, <1>4, <1>5, <1>7, <1>8, <1>9, <1>10, <1>11 DEF Proceed

-----------------------------------------------------------------------------
(* The consumers and a stopped task only touch the channels. *)

LEMMA ConsumersKeep ==
  ASSUME IInv, Consumers \/ UNCHANGED vars
  PROVE  LoadingBookIsSnapshotOnly' /\ HandlerInv' /\ OrderInv'
<1>1. UNCHANGED <<mode, buffer, sent, pc, cur, msg, part, todo, wire>>
  BY DEF Consumers, PipelineTakes, PipelineEnds, WriterTakes, WriterEnds,
     vars, dvars, tracker, loading, serving
<1>2. LoadingBookIsSnapshotOnly'
  BY <1>1 DEF IInv, LoadingBookIsSnapshotOnly
<1>3. HandlerInv'
  BY <1>1 DEF IInv, HandlerInv
<1>4. BufferOrder' /\ Drained'
  BY <1>1 DEF IInv, OrderInv, BufferOrder, Drained
<1>5. StreamOrder' /\ ReplayOrder'
  BY <1>1 DEF IInv, OrderInv, StreamOrder, ReplayOrder
<1> QED BY <1>2, <1>3, <1>4, <1>5 DEF OrderInv

LEMMA InitIInv == Init => IInv
<1> SUFFICES ASSUME Init PROVE IInv
  OBVIOUS
<1> USE DEF Init, DInit, Ended
<1>1. TypeOK
  <2>1. /\ overflowed \in [Instruments -> BOOLEAN] /\ rxOpen \in [Instruments -> BOOLEAN]
        /\ wsOpen \in BOOLEAN
    OBVIOUS
  <2>2. /\ buffer \in [Instruments -> Seq(Message)]
        /\ \A i \in Instruments : BufferOK(i, buffer[i])
    BY BufferEmpty
  <2>3. /\ cmdq \in [Instruments -> Seq(Command)]
        /\ \A i \in Instruments : Len(cmdq[i]) <= CmdCap
        /\ wsq \in Seq(Instruments) /\ Len(wsq) <= WsCap
    OBVIOUS
  <2>4. sent \in [Instruments -> [cleared : BOOLEAN, high : Seqs]]
    BY DEF Seqs
  <2> QED BY <2>1, <2>2, <2>3, <2>4 DEF TypeOK, OptSeq, Seqs
<1>2. LoadingBookIsSnapshotOnly /\ HandlerInv
  BY DEF LoadingBookIsSnapshotOnly, HandlerInv
<1>3. BufferOrder /\ Drained /\ StreamOrder /\ ReplayOrder
  BY DEF BufferOrder, Drained, StreamOrder, ReplayOrder
<1> QED BY <1>1, <1>2, <1>3 DEF IInv, OrderInv

(* A step is a delivered message, a step of the task's own, a consumer's    *)
(* step or none.                                                            *)
LEMMA StepIInv == IInv /\ [Next]_vars => IInv'
<1> SUFFICES ASSUME IInv, [Next]_vars PROVE IInv'
  OBVIOUS
<1>t. TypeOK
  BY DEF IInv
<1>1. ASSUME NEW m \in Message, m.tid = 160 /\ m.seq # None => m.seq > wire, Receive(m),
             wire' = IF m.tid = 160 /\ m.seq # None THEN m.seq ELSE wire
      PROVE  IInv'
  <2>1. wire' \in Seqs
    BY <1>1, <1>t, MessageFields DEF TypeOK, OptSeq
  <2>2. TypeOK'
    BY <1>1, <1>t, <2>1, ReceiveType
  <2>3. LoadingBookIsSnapshotOnly'
    BY <1>1, ReceiveLoading
  <2>4. HandlerInv'
    BY <1>1, <2>1, ReceiveHandler
  <2>5. OrderInv'
    BY <1>1, <2>1, ReceiveOrder
  <2> QED BY <2>2, <2>3, <2>4, <2>5 DEF IInv
<1>2. CASE Task
  <2>1. (Proceed \/ RawClosed) /\ wire' = wire
    BY <1>2 DEF Task
  <2>2. HandlerInv
    BY DEF IInv
  <2> QED BY <1>t, <2>1, <2>2, ProceedType, ProceedLoading, ProceedHandler, ProceedOrder DEF IInv
<1>3. CASE Consumers
  BY <1>3, <1>t, ConsumersType, ConsumersKeep DEF IInv
<1>4. CASE UNCHANGED vars
  <2>1. TypeOK'
    BY <1>4, <1>t DEF TypeOK, vars, dvars
  <2> QED BY <1>4, <2>1, ConsumersKeep DEF IInv
<1> QED BY <1>1, <1>2, <1>3, <1>4 DEF Next, Deliver, Feed, Stopped

THEOREM Invariance == Spec => []IInv
BY InitIInv, StepIInv, PTL DEF Spec

(* Types and the bounds of the code: no channel, and no snapshot buffer,    *)
(* ever holds more than its capacity, and a buffer holds numbered updates   *)
(* of its own instrument only.                                              *)
THEOREM TypeCorrect == Spec => []TypeOK
<1>1. IInv => TypeOK
  BY DEF IInv
<1> QED BY <1>1, Invariance, PTL

(* A pipeline whose instrument loads was told to clear and has received     *)
(* snapshot entries only since, for any number of instruments and any       *)
(* order of messages.                                                       *)
THEOREM LoadingBook == Spec => []LoadingBookIsSnapshotOnly
<1>1. IInv => LoadingBookIsSnapshotOnly
  BY DEF IInv
<1> QED BY <1>1, Invariance, PTL

-----------------------------------------------------------------------------
(* The action properties. Only three kinds of step lengthen a channel.      *)

LEMMA SendLast ==
  ASSUME TypeOK, NEW j \in Instruments, NEW c \in Command, Send(j, c),
         NEW i \in Instruments, Len(cmdq'[i]) > Len(cmdq[i])
  PROVE  i = j /\ cmdq'[i][Len(cmdq'[i])] = c
<1>1. cmdq[i] \in Seq(Command) /\ Len(cmdq[i]) \in Nat
  BY DEF TypeOK
<1>2. cmdq' = [cmdq EXCEPT ![j] = Append(cmdq[j], c)] /\ cmdq \in [Instruments -> Seq(Command)]
  BY DEF Send, TypeOK
<1>3. i = j
  BY <1>1, <1>2
<1> QED BY <1>1, <1>2, <1>3

LEMMA WhoSends ==
  ASSUME IInv, [Next]_vars, NEW i \in Instruments, Len(cmdq'[i]) > Len(cmdq[i])
  PROVE  \/ cmdq'[i][Len(cmdq'[i])] = ClearBook
         \/ SendEvent /\ cur = i /\ cmdq'[i][Len(cmdq'[i])] = EventOf(msg, part + 1)
         \/ CompleteEnd /\ cur = i /\ cmdq'[i][Len(cmdq'[i])] = SnapshotComplete
<1>i. TypeOK /\ HandlerInv
  BY DEF IInv
<1>0. \A k \in Instruments : Len(cmdq[k]) \in Nat
  BY <1>i DEF TypeOK
<1>1. cmdq' # cmdq
  BY <1>0
<1>2. ASSUME NEW m \in Message, Receive(m) PROVE cmdq'[i][Len(cmdq'[i])] = ClearBook
  <2>1. SnapColdStart(m)
    BY <1>1, <1>2 DEF Receive, DboForeign, DboGap, DboStream, DboBuffer, SnapForeign,
       SnapColdStartFails, SnapEntry, Sentinel, SentinelStray, EndEvent, EndEventStray,
       SubscriptionAck, Other, Logout, Fail, dvars, channels
  <2> QED BY <1>i, <2>1, SendLast, CommandTypes DEF SnapColdStart
<1>3. CASE Proceed \/ RawClosed
  <2>1. ASSUME NEW k \in Instruments, RecoverClear(k) PROVE cmdq'[i][Len(cmdq'[i])] = ClearBook
    BY <1>i, <2>1, SendLast, CommandTypes DEF RecoverClear
  <2>2. CASE SendEvent
    <3>1. cur \in Instruments /\ EventOf(msg, part + 1) \in Command
      <4>1. msg \in Message /\ cur \in Instruments /\ part + 1 \in 1 .. MaxEvents
        BY <1>i, <2>2, MessageFields DEF SendEvent, HandlerInv, TypeOK
      <4> QED BY <4>1, CommandTypes
    <3> QED BY <1>i, <2>2, <3>1, SendLast DEF SendEvent
  <2>3. CASE CompleteEnd
    <3>1. cur \in Instruments
      BY <1>i, <2>3 DEF CompleteEnd, HandlerInv, TypeOK
    <3> QED BY <1>i, <2>3, <3>1, SendLast, CommandTypes DEF CompleteEnd
  <2>4. ASSUME NEW k \in Instruments, CompleteStart(k) PROVE FALSE
    BY <1>1, <2>4 DEF CompleteStart, channels
  <2>5. ~(RecoverRequest \/ EventsDone \/ ReplayDiscard \/ ReplayStart \/ ReplayNext
            \/ SendFails \/ RawClosed)
    BY <1>1 DEF RecoverRequest, EventsDone, ReplayDiscard, ReplayStart, ReplayNext,
       SendFails, Fail, RawClosed, channels
  <2> QED BY <1>3, <2>1, <2>2, <2>3, <2>4, <2>5 DEF Proceed
<1>4. ASSUME Consumers PROVE FALSE
  <2>1. ASSUME NEW k \in Instruments, PipelineTakes(k) PROVE FALSE
    <3>1. Len(Tail(cmdq[k])) = Len(cmdq[k]) - 1
      BY <1>i, <2>1, TailFacts DEF PipelineTakes, TypeOK
    <3>2. cmdq' = [cmdq EXCEPT ![k] = Tail(cmdq[k])] /\ cmdq \in [Instruments -> Seq(Command)]
      BY <1>i, <2>1 DEF PipelineTakes, TypeOK
    <3> QED BY <1>0, <3>1, <3>2
  <2>2. ASSUME NEW k \in Instruments, PipelineEnds(k) PROVE FALSE
    <3>1. cmdq' = [cmdq EXCEPT ![k] = <<>>] /\ cmdq \in [Instruments -> Seq(Command)]
      BY <1>i, <2>2 DEF PipelineEnds, TypeOK
    <3> QED BY <1>0, <3>1
  <2>3. ~WriterTakes /\ ~WriterEnds
    BY <1>1 DEF WriterTakes, WriterEnds
  <2> QED BY <1>4, <2>1, <2>2, <2>3 DEF Consumers
<1> QED BY <1>1, <1>2, <1>3, <1>4 DEF Next, Deliver, Feed, Task, Stopped, vars, dvars

(* A completion reaches a pipeline at most once per clear, even when the    *)
(* sentinel and the end event both close the load.                          *)
THEOREM CompletionOnce == Spec => CompletionClosesAClear
<1>1. ASSUME IInv, [Next]_vars, NEW i \in Instruments, Sends(i, "SnapshotComplete")
      PROVE  sent[i].cleared /\ ~sent'[i].cleared
  <2>1. CompleteEnd /\ cur = i
    BY <1>1, WhoSends DEF Sends, ClearBook, EventOf
  <2>2. sent[i].cleared
    BY <1>1, <2>1 DEF IInv, HandlerInv, CompleteEnd
  <2>3. ~sent'[i].cleared
    BY <1>1, <2>1 DEF IInv, TypeOK, CompleteEnd, NoteComplete
  <2> QED BY <2>2, <2>3
<1>2. IInv /\ [Next]_vars =>
        [\A i \in Instruments :
           Sends(i, "SnapshotComplete") => sent[i].cleared /\ ~sent'[i].cleared]_vars
  BY <1>1
<1> QED BY <1>2, Invariance, PTL DEF Spec, CompletionClosesAClear

(* A pipeline gets numbered updates in increasing order between two clears, *)
(* streamed or replayed, and none twice.                                    *)
THEOREM UpdateOrder == Spec => UpdatesInOrder
<1>1. ASSUME IInv, [Next]_vars, NEW i \in Instruments, Sends(i, "Event"),
             cmdq'[i][Len(cmdq'[i])].of.tid = 160,
             cmdq'[i][Len(cmdq'[i])].of.seq # None
      PROVE  \/ cmdq'[i][Len(cmdq'[i])].of.seq > sent[i].high
             \/ /\ cmdq'[i][Len(cmdq'[i])].of.seq = sent[i].high
                /\ cmdq'[i][Len(cmdq'[i])].pos > 1
  <2>1. SendEvent /\ cur = i /\ cmdq'[i][Len(cmdq'[i])] = EventOf(msg, part + 1)
    BY <1>1, WhoSends DEF Sends, ClearBook, SnapshotComplete
  <2>2. /\ cmdq'[i][Len(cmdq'[i])].of = msg
        /\ cmdq'[i][Len(cmdq'[i])].pos = part + 1
    BY <2>1 DEF EventOf
  <2>3. part \in Nat /\ msg.tid = 160 /\ msg.seq # None
    BY <1>1, <2>2 DEF IInv, TypeOK
  <2>4. /\ part = 0 => sent[i].high < msg.seq
        /\ part > 0 => sent[i].high = msg.seq
    BY <1>1, <2>1, <2>3 DEF IInv, OrderInv, StreamOrder, ReplayOrder, SendEvent
  <2>5. CASE part = 0
    <3>1. sent[i].high \in Nat /\ msg.seq \in Nat
      <4>1. sent[i].high \in Nat /\ msg \in Message
        BY <1>1, <2>1, OrderTypes DEF IInv, TypeOK, SendEvent, HandlerInv
      <4> QED BY <2>3, <4>1, MessageFields DEF OptSeq, Seqs
    <3> QED BY <2>2, <2>4, <2>5, <3>1
  <2>6. CASE part > 0
    BY <2>2, <2>3, <2>4, <2>6
  <2> QED BY <2>3, <2>5, <2>6
<1>2. IInv /\ [Next]_vars =>
        [\A i \in Instruments :
           Sends(i, "Event") =>
             LET e == cmdq'[i][Len(cmdq'[i])]
             IN  e.of.tid = 160 /\ e.of.seq # None =>
                   \/ e.of.seq > sent[i].high
                   \/ e.of.seq = sent[i].high /\ e.pos > 1]_vars
  BY <1>1
<1> QED BY <1>2, Invariance, PTL DEF Spec, UpdatesInOrder

(* A gap leaves no instrument streaming: when its loop is over all load.    *)
THEOREM GapRecovery == Spec => GapRecoversAll
<1>1. ASSUME IInv, [Next]_vars, pc = "request", pc' = "recv"
      PROVE  streak' = 0 /\ \A i \in Instruments : mode'[i] = "Loading"
  <2>1. RecoverRequest
    BY <1>1 DEF Next, Deliver, Task, Consumers, Stopped, vars, dvars, Receive, Proceed, Ended,
       DboForeign, DboGap, DboStream, DboBuffer, SnapForeign, SnapColdStart,
       SnapColdStartFails, SnapEntry, Sentinel, SentinelStray, EndEvent, EndEventStray,
       SubscriptionAck, Other, Logout, Fail, RecoverClear, CompleteStart, SendEvent,
       EventsDone, ReplayDiscard, ReplayStart, ReplayNext, CompleteEnd, SendFails, RawClosed,
       PipelineTakes, PipelineEnds, WriterTakes, WriterEnds
  <2> QED BY <1>1, <2>1 DEF IInv, HandlerInv, RecoverRequest, loading
<1>2. IInv /\ [Next]_vars =>
        [pc = "request" /\ pc' = "recv" =>
           streak' = 0 /\ \A i \in Instruments : mode'[i] = "Loading"]_vars
  BY <1>1
<1> QED BY <1>2, Invariance, PTL DEF Spec, GapRecoversAll

=============================================================================
