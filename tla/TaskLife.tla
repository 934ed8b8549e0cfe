------------------------------ MODULE TaskLife ------------------------------
(***************************************************************************)
(* The life of a session's tasks (client.rs:149-403), as the supervision   *)
(* above them sees it: which task can end, because of which others, and    *)
(* which must end once others have. Channels carry the news: a receiver    *)
(* learns that its senders are gone when the channel is drained, a sender  *)
(* that its receiver is gone when it sends. LiveFeed, where the channels   *)
(* and handlers are modelled, implements this module.                      *)
(***************************************************************************)
CONSTANTS
  Instruments,  (* one pipeline task each                                   *)
  Sessions      (* the sessions the process may run one after the other     *)

VARIABLE status  (* each task's status in each session                      *)

Workers == {"router", "writer", "dispatcher", "reader", "output"}
Tasks   == Workers \cup Instruments

ASSUME TaskAssumption == Workers \cap Instruments = {}

Statuses == {"none", "alive", "ended", "degraded"}

Gone(st, t) == st[t] \in {"ended", "degraded"}

AllNone  == [t \in Tasks |-> "none"]
AllAlive == [t \in Tasks |-> "alive"]

LifeInit == status \in [Sessions -> {AllNone, AllAlive}]

(* A pipeline that did not give up ended because a channel closed: its BBO  *)
(* channel, or the output. The others may fail on their own: the socket     *)
(* fails, the server logs out, standard output breaks.                      *)
MayEnd(st, t) == t \in Instruments => Gone(st, "reader") \/ Gone(st, "output")

(* What closes a channel for good ends the task that reads it.              *)
MustEndLeak(st, t) ==  (* mutant: run() keeps its own output_tx *)
  \/ t \in {"dispatcher", "reader"} /\ Gone(st, "router")
  \/ t \in Instruments /\ Gone(st, "reader")
  \/ t = "writer" /\ Gone(st, "dispatcher")

MustEnd(st, t) ==
  \/ t \in {"dispatcher", "reader"} /\ Gone(st, "router")
  \/ t \in Instruments /\ Gone(st, "reader")
  \/ t = "output" /\ \A i \in Instruments : Gone(st, i)
  \/ t = "writer" /\ Gone(st, "dispatcher")

Start(s) ==
  /\ status[s] = AllNone
  /\ status' = [status EXCEPT ![s] = AllAlive]

End(s, t) ==
  /\ status[s][t] = "alive" /\ MayEnd(status[s], t)
  /\ status' = [status EXCEPT ![s][t] = "ended"]

Degrade(s, i) ==
  /\ status[s][i] = "alive"
  /\ status' = [status EXCEPT ![s][i] = "degraded"]

LifeNext ==
  \E s \in Sessions :
    \/ Start(s)
    \/ \E t \in Tasks : End(s, t)
    \/ \E i \in Instruments : Degrade(s, i)

(* Every task that must end does.                                           *)
NewsArrives ==
  \A s \in Sessions, t \in Tasks :
    status[s][t] = "alive" /\ MustEnd(status[s], t) ~> status[s][t] # "alive"

LifeSpec == LifeInit /\ [][LifeNext]_status
=============================================================================
