------------------------------ MODULE LiveFeed ------------------------------
(***************************************************************************)
(* The streaming tasks of one session put together (client.rs:201-379):    *)
(* the router reads the socket and demultiplexes to the dispatcher and the *)
(* BBO reader; both feed every pipeline, over its command channel and its  *)
(* BBO channel; the pipelines share the output channel. All channels are   *)
(* bounded and every send but the capture's waits, so back-pressure runs   *)
(* from the output to the socket; when a task returns, its receivers and   *)
(* senders go, and the others notice at their next send or receive.        *)
(***************************************************************************)
EXTENDS Dispatcher

CONSTANTS
  Tops, Times, RingSize, MaxRecoveries, OutCap,  (* see Pipeline            *)
  RawCap,   (* RAW_MSG_BUF (4096)                                           *)
  BboCap,   (* BBO_BUF (1024)                                               *)
  Wire,     (* what the socket may yield                                    *)
  MaxReads  (* bound: how many messages the socket yields                   *)

(* Quotes stand for BestBidOffer (151), trades for LastTrade (150), acks    *)
(* for ResponseMarketDataUpdate (101).                                      *)
BboMessage == [tid : {151, 150, 101}, sym : Symbols]

(* The tasks of a session besides the pipelines. *)
Workers == {"router", "writer", "dispatcher", "reader", "output"}

ASSUME LiveAssumption ==
  /\ Workers \cap Instruments = {}
  /\ Wire \subseteq Message \cup BboMessage
  /\ RawCap \in Nat \ {0} /\ BboCap \in Nat \ {0} /\ MaxReads \in Nat

VARIABLES
  rpc,     (* the router: "read", "send" or "ended"                         *)
  route,   (* what the router has still to hand over of the message it read *)
  reads,   (* how many messages the router read                             *)
  dboRaw,  (* the channel from the router to the dispatcher                 *)
  bboRaw,  (* the channel from the router to the BBO reader                 *)
  bpc,     (* the BBO reader: "recv", "send" or how it ended                *)
  bmsg,    (* the message it serves, None when idle                         *)
  bboq, outq, outOpen, ppc, gate, ring, event, check  (* see Pipeline       *)

routing   == <<rpc, route, reads>>
reader    == <<bpc, bmsg>>
pipelines == <<bboq, outq, outOpen, ppc, gate, ring, event, check>>
vars == <<dvars, routing, dboRaw, bboRaw, reader, pipelines>>

Producers == (IF pc \in Ended THEN {} ELSE {"dispatcher"})
               \cup (IF bpc \in Ended THEN {} ELSE {"bbo_reader"})

P == INSTANCE Pipeline WITH producers <- Producers

Init ==
  /\ DInit /\ P!PInit
  /\ rpc = "read" /\ route = <<>> /\ reads = 0
  /\ dboRaw = <<>> /\ bboRaw = <<>>
  /\ bpc = "recv" /\ bmsg = None

-----------------------------------------------------------------------------
(* The router. *)

(* Connection-level messages go to both readers, the dispatcher first.      *)
RouteFirst(m) ==  (* mutant: the dispatcher alone hears of them *)
  IF m.tid \in {151, 150, 101} THEN <<"bbo">> ELSE <<"dbo">>

Route(m) ==
  IF m.tid \in {151, 150, 101} THEN <<"bbo">>
  ELSE IF m.tid \in {19, 77} THEN <<"dbo", "bbo">>
  ELSE <<"dbo">>

Read(m) ==
  /\ rpc = "read" /\ reads < MaxReads
  /\ rpc' = "send"
  /\ route' = [k \in 1 .. Len(Route(m)) |-> <<Route(m)[k], m>>]
  /\ reads' = reads + 1
  /\ UNCHANGED <<dvars, dboRaw, bboRaw, reader, pipelines>>

SocketEnds ==
  /\ rpc = "read"
  /\ rpc' = "ended"
  /\ UNCHANGED <<dvars, route, reads, dboRaw, bboRaw, reader, pipelines>>

HandOver ==
  /\ rpc = "send"
  /\ route' = Tail(route)
  /\ rpc' = IF Len(route) = 1 THEN "read" ELSE "send"
  /\ \/ /\ route[1][1] = "dbo" /\ pc \notin Ended /\ Len(dboRaw) < RawCap
        /\ dboRaw' = Append(dboRaw, route[1][2])
        /\ UNCHANGED bboRaw
     \/ /\ route[1][1] = "bbo" /\ bpc \notin Ended /\ Len(bboRaw) < RawCap
        /\ bboRaw' = Append(bboRaw, route[1][2])
        /\ UNCHANGED dboRaw
  /\ UNCHANGED <<dvars, reads, reader, pipelines>>

RouterBreaksDbo ==  (* mutant: only the dispatcher's channel is looked at *)
  /\ rpc = "send"
  /\ route[1][1] = "dbo" /\ pc \in Ended
  /\ rpc' = "ended" /\ route' = <<>>
  /\ UNCHANGED <<dvars, reads, dboRaw, bboRaw, reader, pipelines>>

(* A reader that is gone breaks the loop. *)
RouterBreaks ==
  /\ rpc = "send"
  /\ \/ route[1][1] = "dbo" /\ pc \in Ended
     \/ route[1][1] = "bbo" /\ bpc \in Ended
  /\ rpc' = "ended" /\ route' = <<>>
  /\ UNCHANGED <<dvars, reads, dboRaw, bboRaw, reader, pipelines>>

Router == HandOver \/ RouterBreaks

-----------------------------------------------------------------------------
(* The dispatcher in its place. *)

Dispatch ==
  /\ \/ /\ pc = "recv" /\ dboRaw # <<>>
        /\ dboRaw' = Tail(dboRaw)
        /\ Receive(Head(dboRaw))
     \/ /\ Proceed
        /\ UNCHANGED dboRaw
     \/ /\ dboRaw = <<>> /\ rpc = "ended"
        /\ RawClosed
        /\ UNCHANGED dboRaw
  /\ UNCHANGED <<routing, bboRaw, reader, pipelines>>

-----------------------------------------------------------------------------
(* The BBO reader. *)

(* A message of a known symbol that is complete is passed on to its         *)
(* pipeline (an incomplete one is skipped like an unknown symbol).          *)
Forwarded(m) == m.tid \in {151, 150} /\ m.sym \in Instruments

BboReceive ==
  /\ bpc = "recv" /\ bboRaw # <<>>
  /\ LET m == Head(bboRaw)
     IN  \/ /\ Forwarded(m)
            /\ bpc' = "send" /\ bmsg' = m
         \/ /\ m.tid = 77
            /\ bpc' = "logout" /\ UNCHANGED bmsg
         \/ /\ ~Forwarded(m) /\ m.tid # 77
            /\ UNCHANGED reader
  /\ bboRaw' = Tail(bboRaw)
  /\ UNCHANGED <<dvars, routing, dboRaw, pipelines>>

TradeEvent(m) == [type |-> "Event", of |-> m, pos |-> 1, last |-> TRUE]

BboSend ==
  /\ bpc = "send"
  /\ \/ /\ bmsg.tid = 151
        /\ rxOpen[bmsg.sym] /\ Len(bboq[bmsg.sym]) < BboCap
        /\ \E u \in P!BBO : bboq' = [bboq EXCEPT ![bmsg.sym] = Append(@, u)]
        /\ UNCHANGED cmdq
     \/ /\ bmsg.tid = 150
        /\ CanSend(bmsg.sym)
        /\ Send(bmsg.sym, TradeEvent(bmsg))
        /\ UNCHANGED bboq
  /\ bpc' = "recv" /\ bmsg' = None
  /\ UNCHANGED <<tracker, loading, pc, serving, wsq, rxOpen, wsOpen, sent, routing,
                 dboRaw, bboRaw, outq, outOpen, ppc, gate, ring, event, check>>

BboSendFails ==
  /\ bpc = "send" /\ ~rxOpen[bmsg.sym]
  /\ bpc' = "channel" /\ bmsg' = None
  /\ UNCHANGED <<dvars, routing, dboRaw, bboRaw, pipelines>>

BboRawClosed ==
  /\ bpc = "recv" /\ bboRaw = <<>> /\ rpc = "ended"
  /\ bpc' = "ok"
  /\ UNCHANGED <<dvars, routing, dboRaw, bboRaw, bmsg, pipelines>>

BboReader == BboReceive \/ BboSend \/ BboSendFails \/ BboRawClosed

-----------------------------------------------------------------------------
(* The pipelines, the output task and the write task. *)

Elsewhere == UNCHANGED <<tracker, loading, pc, serving, wsq, wsOpen, sent, routing,
                         dboRaw, bboRaw, reader>>

PipelineBbo(i) == Elsewhere /\ P!BboBranch(i)

PipelineCmd(i) == Elsewhere /\ P!CmdBranch(i)

PipelineOut(i) == Elsewhere /\ P!Emit(i)

PrintLine ==
  /\ outOpen /\ outq # <<>>
  /\ outq' = Tail(outq)
  /\ UNCHANGED <<dvars, routing, dboRaw, bboRaw, reader, bboq, outOpen, ppc, gate, ring, event, check>>

OutputClosed ==
  /\ outOpen /\ outq = <<>> /\ \A i \in Instruments : ~rxOpen[i]
  /\ outOpen' = FALSE
  /\ UNCHANGED <<dvars, routing, dboRaw, bboRaw, reader, bboq, outq, ppc, gate, ring, event, check>>

Output == PrintLine \/ OutputClosed

(* println! panics when standard output is broken, and the task with it.    *)
PrintPanics ==
  /\ outOpen /\ outq # <<>>
  /\ outOpen' = FALSE /\ outq' = <<>>
  /\ UNCHANGED <<dvars, routing, dboRaw, bboRaw, reader, bboq, ppc, gate, ring, event, check>>

(* A heartbeat or a command that cannot be written ends the write task, and *)
(* so does the end of the dispatcher once its commands are written.         *)
WriterEnds ==
  /\ wsOpen
  /\ wsOpen' = FALSE /\ wsq' = <<>>
  /\ UNCHANGED <<tracker, loading, pc, serving, cmdq, rxOpen, sent, routing,
                 dboRaw, bboRaw, reader, pipelines>>

WriterTakes ==
  /\ wsOpen /\ wsq # <<>>
  /\ wsq' = Tail(wsq)
  /\ UNCHANGED <<tracker, loading, pc, serving, cmdq, rxOpen, wsOpen, sent, routing,
                 dboRaw, bboRaw, reader, pipelines>>

WriterStays == WriterTakes  (* mutant: a closed command channel goes unnoticed *)

Writer == WriterTakes \/ (pc \in Ended /\ wsq = <<>> /\ WriterEnds)

AllEnded ==
  /\ rpc = "ended" /\ pc \in Ended /\ bpc \in Ended /\ ~outOpen /\ ~wsOpen
  /\ \A i \in Instruments : ~rxOpen[i]

Stopped == AllEnded /\ UNCHANGED vars

Next ==
  \/ \E m \in Wire : Read(m)
  \/ SocketEnds \/ Router \/ Dispatch \/ BboReader \/ Output \/ PrintPanics
  \/ Writer \/ WriterEnds
  \/ \E i \in Instruments : PipelineBbo(i) \/ PipelineCmd(i) \/ PipelineOut(i)
  \/ Stopped

Spec == Init /\ [][Next]_vars

(* tokio polls every task whose await is ready, and select! polls its       *)
(* branches in random order. The socket may stay silent.                    *)
Fairness ==
  /\ WF_vars(Router) /\ WF_vars(Dispatch) /\ WF_vars(BboReader)
  /\ WF_vars(Output) /\ WF_vars(Writer)
  /\ \A i \in Instruments :
       SF_vars(PipelineBbo(i)) /\ SF_vars(PipelineCmd(i)) /\ WF_vars(PipelineOut(i))

FairSpec == Spec /\ Fairness

-----------------------------------------------------------------------------
(* While the dispatcher loads a snapshot, the pipeline of that instrument   *)
(* is in recovery, or will be once it has taken what is queued: no command  *)
(* in flight can end the recovery before the load ends.                     *)
GateAfter(q, complete) ==
  LET gating == {k \in DOMAIN q : q[k].type # "Event"}
  IN  IF gating = {} THEN complete
      ELSE \E k \in gating : q[k].type = "SnapshotComplete" /\ \A j \in gating : j <= k

CompleteAfter(i) == GateAfter(cmdq[i], gate[i].complete)

LoadingIsGated ==
  \A i \in Instruments :
    rxOpen[i] /\ pc \notin Ended =>
      /\ mode[i] = "Loading" => ~CompleteAfter(i)
      /\ ~CompleteAfter(i) /\ mode[i] = "Streaming" =>
           \/ ~gate[i].complete /\ ~sent[i].cleared
           \/ pc \in {"replay", "replaying"} /\ cur = i

(* The router never stays blocked: as long as the output is printed,        *)
(* whatever was read is handed over, however full the channels are and      *)
(* whichever task fails.                                                    *)
RouterReturns == []<>(rpc # "send")

(* The tasks live and die as TaskLife says.                                 *)
EndedAs(ended) == IF ended THEN "ended" ELSE "alive"

Status ==
  [t \in Workers \cup Instruments |->
     IF t \in Instruments
     THEN IF ppc[t] = "degraded" THEN "degraded" ELSE EndedAs(~rxOpen[t])
     ELSE EndedAs(CASE t = "router"     -> rpc = "ended"
                    [] t = "writer"     -> ~wsOpen
                    [] t = "dispatcher" -> pc \in Ended
                    [] t = "reader"     -> bpc \in Ended
                    [] t = "output"     -> ~outOpen)]

Life == INSTANCE TaskLife WITH Sessions <- {1}, status <- [s \in {1} |-> Status]

(* LiveFeed implements TaskLife: one task ends at a time, and a pipeline    *)
(* that did not give up only after the BBO reader or the output task, so    *)
(* never on its own while the select of run() watches it (client.rs:442).   *)
ImplementsTaskLife == Life!LifeSpec

(* When the tasks that feed a task are gone, it drains its channel and ends *)
(* too, however many sends of its own are blocked: from the end of the      *)
(* router to the last pipeline, the output task and the write task, nothing *)
(* keeps a session's task alive.                                            *)
NewsArrives == Life!NewsArrives

(* A logout ends both readers, not only the one that hears of it first.     *)
LogoutReaches == rpc = "send" /\ route[1][2].tid = 77 ~> pc \in Ended /\ bpc \in Ended
=============================================================================
