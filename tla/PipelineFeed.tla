---------------------------- MODULE PipelineFeed ----------------------------
(***************************************************************************)
(* The pipelines under any feed: the dispatcher and the BBO reader put any *)
(* commands and BBOs into the channels and may end, the output task prints *)
(* and may end.                                                            *)
(***************************************************************************)
EXTENDS Pipeline

CONSTANTS
  Payloads,  (* what distinguishes the events                               *)
  CmdCap,    (* PIPELINE_CMD_BUF (8192)                                     *)
  BboCap,    (* BBO_BUF (1024)                                              *)
  MaxClears  (* bound: how often a pipeline is told to clear                *)

ASSUME FeedAssumption ==
  /\ CmdCap \in Nat \ {0} /\ BboCap \in Nat \ {0} /\ MaxClears \in Nat

VARIABLES
  recent,  (* history: the last RingSize BBOs a pipeline took, oldest first *)
  fresh,   (* history: a pipeline took a BBO since its last clear           *)
  clears,  (* history: the ClearBooks sent to a pipeline                    *)
  open     (* history: a ClearBook was sent and not yet completed           *)

history == <<recent, fresh, clears, open>>
vars == <<pchannels, pstate, history>>

Command == [type : {"Event"}, of : Payloads, last : BOOLEAN]
             \cup [type : {"ClearBook", "SnapshotComplete"}]

Init ==
  /\ PInit
  /\ producers = {"dispatcher", "bbo_reader"}
  /\ cmdq = [i \in Instruments |-> <<>>]
  /\ rxOpen = [i \in Instruments |-> TRUE]
  /\ recent = [i \in Instruments |-> <<>>]
  /\ fresh = [i \in Instruments |-> FALSE]
  /\ clears = [i \in Instruments |-> 0]
  /\ open = [i \in Instruments |-> FALSE]

(* The dispatcher completes a clear once (Dispatcher, CompletionClosesAClear). *)
PutCommand(i, c) ==
  /\ rxOpen[i] /\ Len(cmdq[i]) < CmdCap
  /\ \/ c.type = "Event" /\ producers # {} /\ UNCHANGED <<clears, open>>
     \/ /\ c.type = "ClearBook" /\ "dispatcher" \in producers
        /\ clears[i] < MaxClears
        /\ clears' = [clears EXCEPT ![i] = @ + 1]
        /\ open' = [open EXCEPT ![i] = TRUE]
     \/ /\ c.type = "SnapshotComplete" /\ "dispatcher" \in producers
        /\ open[i]
        /\ open' = [open EXCEPT ![i] = FALSE]
        /\ UNCHANGED clears
  /\ cmdq' = [cmdq EXCEPT ![i] = Append(@, c)]
  /\ UNCHANGED <<producers, bboq, rxOpen, outq, outOpen, pstate, recent, fresh>>

PutBbo(i, u) ==
  /\ rxOpen[i] /\ Len(bboq[i]) < BboCap /\ "bbo_reader" \in producers
  /\ bboq' = [bboq EXCEPT ![i] = Append(@, u)]
  /\ UNCHANGED <<producers, cmdq, rxOpen, outq, outOpen, pstate, history>>

ProducerEnds(p) ==
  /\ p \in producers
  /\ producers' = producers \ {p}
  /\ UNCHANGED <<cmdq, bboq, rxOpen, outq, outOpen, pstate, history>>

PrintLine ==
  /\ outOpen /\ outq # <<>>
  /\ outq' = Tail(outq)
  /\ UNCHANGED <<producers, cmdq, bboq, rxOpen, outOpen, pstate, history>>

OutputEnds ==
  /\ outOpen
  /\ outOpen' = FALSE /\ outq' = <<>>
  /\ UNCHANGED <<producers, cmdq, bboq, rxOpen, pstate, history>>

LastOf(s, n) == IF Len(s) <= n THEN s ELSE SubSeq(s, Len(s) - n + 1, Len(s))

TakesBbo(i) == rxOpen'[i] /\ bboq[i] # <<>> /\ bboq'[i] = Tail(bboq[i])

Remember(i) ==
  IF TakesBbo(i)
  THEN /\ recent' = [recent EXCEPT ![i] = LastOf(Append(@, Head(bboq[i])), RingSize)]
       /\ fresh' = [fresh EXCEPT ![i] = TRUE]
  ELSE /\ UNCHANGED recent
       /\ fresh' = [fresh EXCEPT ![i] = @ /\ ~TakeClear(i)]

Pipelines ==
  \E i \in Instruments : PStep(i) /\ Remember(i) /\ UNCHANGED <<clears, open>>

(* Everything ended. *)
Stopped == producers = {} /\ outOpen = FALSE /\ (\A i \in Instruments : ~rxOpen[i]) /\ UNCHANGED vars

Feeds ==
  \/ \E i \in Instruments : \/ \E c \in Command : PutCommand(i, c)
                            \/ \E u \in BBO : PutBbo(i, u)
  \/ \E p \in producers : ProducerEnds(p)
  \/ PrintLine \/ OutputEnds

Next == Feeds \/ Pipelines \/ Stopped

Spec == Init /\ [][Next]_vars

-----------------------------------------------------------------------------
(* A recovery is over exactly when the completion and a BBO that came after *)
(* the clear are both there, in whichever order the select takes them       *)
(* (pipeline.rs:224-230 and 294-297 each handle one order).                 *)
GateJoins ==
  \A i \in Instruments :
    rxOpen[i] => (gate[i].inRecovery <=> ~(gate[i].complete /\ fresh[i]))

(* The ring holds the last BBOs, whatever the wrap-around: the slot before  *)
(* next is the newest.                                                      *)
Slot(r, back) == (r.next + RingSize - 1 - back) % RingSize

RingHoldsRecent ==
  \A i \in Instruments :
    LET n == Len(recent[i])
    IN  \A back \in 0 .. RingSize - 1 :
          ring[i].buf[Slot(ring[i], back)] = IF back < n THEN recent[i][n - back] ELSE None

(* A batch end is counted as a divergence only if none of the recent BBOs   *)
(* shows the book's prices, and as a match only if one does: the closest in *)
(* time never hides an exact one (pipeline.rs:139-167).                     *)
CheckIsRight ==
  \A i \in Instruments :
    ppc[i] = "output" /\ check[i] # None =>
      (check[i].verdict = "match"
         <=> \E k \in 1 .. Len(recent[i]) : recent[i][k].top = check[i].top)

(* A pipeline gives up after MaxRecoveries recoveries that followed the     *)
(* initial snapshot: the dispatcher must have cleared it once more than     *)
(* that (pipeline.rs:260-292).                                              *)
Degradation ==
  \A i \in Instruments :
    /\ ppc[i] = "degraded" => gate[i].recoveries = MaxRecoveries /\ clears[i] > MaxRecoveries
    /\ gate[i].recoveries = MaxRecoveries => ppc[i] = "degraded"

-----------------------------------------------------------------------------
(* What the invariants above rest on: types; a pipeline holds its receivers *)
(* until it returned; recovery_bbo_received says that a BBO came since the  *)
(* clear; the features of an event are sent with the ring it was checked    *)
(* against.                                                                 *)
Gates == [inRecovery : BOOLEAN, complete : BOOLEAN, bbo : BOOLEAN,
          initialDone : BOOLEAN, recoveries : Nat]

Rings == [buf : [0 .. RingSize - 1 -> BBO \cup {None}], next : 0 .. RingSize - 1]

Types ==
  /\ cmdq \in [Instruments -> Seq(Command)]
  /\ bboq \in [Instruments -> Seq(BBO)]
  /\ rxOpen \in [Instruments -> BOOLEAN]
  /\ ppc \in [Instruments -> {"select", "output", "closed", "degraded", "output_closed"}]
  /\ gate \in [Instruments -> Gates]
  /\ ring \in [Instruments -> Rings]
  /\ check \in [Instruments -> [top : Tops, verdict : {"match", "divergence"}] \cup {None}]
  /\ recent \in [Instruments -> Seq(BBO)]
  /\ fresh \in [Instruments -> BOOLEAN]

IInv ==
  /\ Types
  /\ \A i \in Instruments :
       /\ rxOpen[i] <=> ppc[i] \in {"select", "output"}
       /\ rxOpen[i] => (gate[i].bbo <=> fresh[i])
       /\ Len(recent[i]) <= RingSize
  /\ GateJoins
  /\ RingHoldsRecent
  /\ CheckIsRight
=============================================================================
