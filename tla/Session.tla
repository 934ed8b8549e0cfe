------------------------------ MODULE Session ------------------------------
(***************************************************************************)
(* Supervision: RithmicClient::run selects over the tasks of a session and *)
(* returns at the first that ends (client.rs:405-516); the watchdog of     *)
(* rithmic-live runs sessions one after the other with an exponential      *)
(* back-off (main.rs:151-197); the write task declares a silent connection *)
(* dead (heartbeat.rs). The tasks are those of TaskLife; returning from    *)
(* run drops their handles, which detaches them and ends none.             *)
(***************************************************************************)
EXTENDS Authentication

CONSTANTS
  MaxSessions,  (* bound: sessions that get past authentication             *)
  MaxQueued     (* bound: messages of a session between router and readers  *)

ASSUME SessionAssumption ==
  /\ MaxSessions \in Nat \ {0} /\ Sessions = 1 .. MaxSessions
  /\ MaxQueued \in Nat

VARIABLES
  link,         (* each session's connection: "up", "silent" or "closed"    *)
  heard,        (* the liveness tracker holds an inbound time (last # 0)    *)
  queued,       (* messages the dispatcher or the BBO reader will record    *)
  silence,      (* heartbeat intervals since a message was last recorded    *)
  beats,        (* the write task's interval is not zero                    *)
  wpc,          (* the process: "start", the watchdog's "auth", "running"   *)
                (* and "backoff", "leave0" and "leave2" as it uploads the   *)
                (* health log, or how it ended                              *)
  now,          (* the session under way, the number of sessions started    *)
  attempt,      (* failures so far, up to the 5 the back-off tells apart    *)
  delay,        (* the last back-off in seconds                             *)
  handler,      (* a SIGINT handler is installed                            *)
  sigint,       (* a SIGINT waits for the select of run                     *)
  interrupted,  (* history: the user pressed Ctrl+C                         *)
  configured    (* history: the process had a configuration to work with    *)

conn     == <<link, heard, queued, silence, beats>>
signals  == <<handler, sigint, interrupted, configured>>
watchdog == <<wpc, now, attempt, delay, signals, avars>>
vars     == <<status, conn, watchdog>>

Exits   == {"exit0", "exit1", "exit2", "killed"}
Running == wpc \notin Exits
DeadAfter == 2  (* heartbeat intervals *)

Init ==
  /\ status = [s \in Sessions |-> AllNone]
  /\ link = [s \in Sessions |-> "up"]
  /\ heard = [s \in Sessions |-> FALSE]
  /\ queued = [s \in Sessions |-> 0]
  /\ silence = [s \in Sessions |-> 0]
  /\ beats = [s \in Sessions |-> TRUE]
  /\ AuthInit
  /\ wpc = "start" /\ now = 0
  /\ attempt = 0 /\ delay = 0
  /\ handler = FALSE /\ sigint = FALSE /\ interrupted = FALSE /\ configured = FALSE

-----------------------------------------------------------------------------
(* The connection of a session, and the heartbeat.                          *)

Alive(s, t) == status[s][t] = "alive"

LinkChanges(s) ==
  /\ Running /\ s <= now
  /\ \/ link[s] = "up" /\ link' = [link EXCEPT ![s] = "silent"]
     \/ link[s] = "silent" /\ link' = [link EXCEPT ![s] = "up"]
     \/ link[s] # "closed" /\ link' = [link EXCEPT ![s] = "closed"]
  /\ UNCHANGED <<status, heard, queued, silence, beats, watchdog>>

(* The router reads a message and records it; a binary one goes on.         *)
Inbound(s) ==
  /\ Running /\ link[s] = "up" /\ Alive(s, "router")
  /\ heard' = [heard EXCEPT ![s] = TRUE]
  /\ silence' = [silence EXCEPT ![s] = 0]
  /\ \E n \in {queued[s], queued[s] + 1} :
       n <= MaxQueued /\ queued' = [queued EXCEPT ![s] = n]
  /\ UNCHANGED <<status, link, beats, watchdog>>

(* Its reader records it again, however long ago it came.                   *)
Taken(s) ==
  /\ Running /\ queued[s] > 0
  /\ Alive(s, "dispatcher") \/ Alive(s, "reader")
  /\ queued' = [queued EXCEPT ![s] = @ - 1]
  /\ silence' = [silence EXCEPT ![s] = 0]
  /\ UNCHANGED <<status, link, heard, beats, watchdog>>

(* A heartbeat interval passes in which nothing is read from the socket.    *)
Unread(s) == link[s] = "silent" \/ ~Alive(s, "router")

Tick(s) ==
  /\ Running /\ Alive(s, "writer") /\ beats[s] /\ Unread(s) /\ link[s] # "closed"
  /\ silence[s] <= DeadAfter
  /\ silence' = [silence EXCEPT ![s] = @ + 1]
  /\ UNCHANGED <<status, link, heard, queued, beats, watchdog>>

NeverDead(s) == FALSE  (* mutant *)

IsDead(s) == heard[s] /\ silence[s] > DeadAfter

-----------------------------------------------------------------------------
(* The tasks. *)

(* What ends a task whatever arrives. The timer of a zero interval panics.  *)
Forced(s, t) ==
  \/ MustEnd(status[s], t)
  \/ t \in {"router", "writer"} /\ link[s] = "closed"
  \/ t = "writer" /\ (IsDead(s) \/ ~beats[s])

(* What may end it if a message comes: a logout, a send to a task that is   *)
(* gone, a broken standard output.                                          *)
Possible(s, t) ==
  /\ heard[s]
  /\ \/ t \in {"dispatcher", "reader"}
          /\ (link[s] = "up" \/ Gone(status[s], "writer") \/ \E i \in Instruments : Gone(status[s], i))
     \/ t = "router" /\ link[s] = "up"
          /\ (Gone(status[s], "dispatcher") \/ Gone(status[s], "reader"))
     \/ t \in Instruments /\ Gone(status[s], "output")
     \/ t = "output"

TaskEnds(s, t) ==
  /\ Running /\ Forced(s, t)
  /\ End(s, t)
  /\ UNCHANGED <<conn, watchdog>>

TaskFails(s, t) ==
  /\ Running /\ Possible(s, t)
  /\ End(s, t)
  /\ UNCHANGED <<conn, watchdog>>

PipelineDegrades(s, i) ==
  /\ Running /\ heard[s]
  /\ Degrade(s, i)
  /\ UNCHANGED <<conn, watchdog>>

-----------------------------------------------------------------------------
(* run() and the watchdog. *)

(* Args::parse ends the process itself: with 0 once it printed the help,    *)
(* with 2 on a usage error. A bad instrument specification or a missing     *)
(* variable of the environment ends it with 1.                              *)
Configure ==
  /\ wpc = "start"
  /\ \/ wpc' \in {"exit0", "exit1", "exit2"} /\ UNCHANGED <<preferred, configured>>
     \/ wpc' = "auth" /\ preferred' \in Systems \cup {NoSystem} /\ configured' = TRUE
  /\ UNCHANGED <<status, conn, now, attempt, delay, handler, sigint, interrupted, attempted>>

(* The first steps of run. No session is begun beyond the bound.            *)
AuthStep ==
  /\ wpc = "auth" /\ now < MaxSessions
  /\ Authenticate
  /\ UNCHANGED <<status, conn, wpc, now, attempt, delay, signals>>

(* Everything is sent: spawn, select. The first select installs the handler *)
(* of Ctrl+C, for the rest of the process.                                  *)
AuthOk ==
  /\ wpc = "auth" /\ phase = "ready"
  /\ now' = now + 1
  /\ wpc' = "running" /\ handler' = TRUE
  /\ beats' = [beats EXCEPT ![now + 1] = paced]
  /\ Start(now + 1)
  /\ Begin
  /\ UNCHANGED <<link, heard, queued, silence, attempt, delay, sigint, interrupted,
                 configured, preferred>>

(* min(1 << min(attempt, 5), 30) *)
Backoff(n) == IF 2 ^ n < 30 THEN 2 ^ n ELSE 30

(* The back-off, whose select installs a handler too, ignores a SIGINT that *)
(* came before.                                                             *)
Retry ==
  /\ attempt' = IF attempt < 5 THEN attempt + 1 ELSE 5
  /\ delay' = Backoff(attempt')
  /\ wpc' = "backoff" /\ handler' = TRUE /\ sigint' = FALSE
  /\ Begin
  /\ UNCHANGED <<status, conn, now, interrupted, configured, preferred>>

AuthFails == wpc = "auth" /\ phase = "failed" /\ Retry

(* The health log goes to the bucket, if there is one, before the end.      *)
Goto(where) ==
  /\ wpc' = where
  /\ UNCHANGED <<status, conn, now, attempt, delay, signals, avars>>

Left ==
  \/ wpc = "leave0" /\ Goto("exit0")
  \/ wpc = "leave2" /\ Goto("exit2")

RunReturnsAny ==  (* mutant: every pipeline error counts as degraded *)
  /\ wpc = "running"
  /\ \/ sigint /\ Goto("leave0")
     \/ (\E t \in Workers : status[now][t] = "ended") /\ Retry
     \/ (\E i \in Instruments : Gone(status[now], i)) /\ Goto("leave2")

(* select! takes any branch that is ready: which one, when several are, is  *)
(* random. A signal that loses is forgotten.                                *)
RunReturns ==
  /\ wpc = "running"
  /\ \/ sigint /\ Goto("leave0")
     \/ (\E t \in Tasks : status[now][t] = "ended") /\ Retry
     \/ (\E i \in Instruments : status[now][i] = "degraded") /\ Goto("leave2")

BackoffEnds ==
  /\ wpc = "backoff"
  /\ Goto("auth")

(* Waited for in run's select and in the back-off; elsewhere it kills until *)
(* a handler is installed and is lost afterwards.                           *)
CtrlC ==
  /\ Running /\ interrupted' = TRUE
  /\ \/ wpc = "running" /\ sigint' = TRUE /\ UNCHANGED wpc
     \/ wpc = "backoff" /\ wpc' = "leave0" /\ UNCHANGED sigint
     \/ /\ wpc \in {"start", "auth", "leave0", "leave2"}
        /\ wpc' = IF handler THEN wpc ELSE "killed"
        /\ UNCHANGED sigint
  /\ UNCHANGED <<status, conn, now, attempt, delay, handler, configured, avars>>

Supervise == RunReturns \/ BackoffEnds

Stopped == ~Running /\ UNCHANGED vars

Next ==
  \/ \E s \in Sessions :
       \/ LinkChanges(s) \/ Inbound(s) \/ Taken(s) \/ Tick(s)
       \/ \E t \in Tasks : TaskEnds(s, t) \/ TaskFails(s, t)
       \/ \E i \in Instruments : PipelineDegrades(s, i)
  \/ Configure \/ AuthStep \/ AuthOk \/ AuthFails
  \/ Supervise \/ Left \/ CtrlC \/ Stopped

Spec == Init /\ [][Next]_vars

(* Tasks whose end is due end, timers fire, and the select returns; nothing *)
(* is asked of the network, of the server or of authentication, which has   *)
(* no timeout. A task ends once, so one weak fairness serves all of them.   *)
Fairness ==
  /\ WF_vars(\E s \in Sessions, t \in Tasks : TaskEnds(s, t))
  /\ \A s \in Sessions : WF_vars(Tick(s))
  /\ WF_vars(Supervise)

FairSpec == Spec /\ Fairness

-----------------------------------------------------------------------------
(* Once there is a configuration to work with, the exit code says why the   *)
(* process ended: 2 only for a pipeline of the session under way that gave  *)
(* up, 0 only when the user asked, never 1 (main.rs:163-197). Before that a *)
(* process that ends has tried nothing, whatever its code: 2 is a usage     *)
(* error as well and 0 the help (main.rs:83, 93, 142).                      *)
ExitCodeIsHonest ==
  /\ configured =>
       /\ wpc = "exit2" => \E i \in Instruments : status[now][i] = "degraded"
       /\ wpc = "exit0" => interrupted
       /\ wpc # "exit1"
  /\ ~configured => now = 0 /\ attempt = 0

(* Tasks start only for a session that is Prepared, whatever attempts       *)
(* failed before and wherever (auth.rs:129-141, client.rs:118-142).         *)
StartsPrepared == [][now' > now => Prepared]_vars

(* A connection that falls silent after it delivered something is given up, *)
(* unless it comes back (heartbeat.rs:5-6).                                 *)
SilenceIsNoticed ==
  \A s \in Sessions :
    wpc = "running" /\ now = s /\ link[s] = "silent" /\ heard[s]
      ~> wpc # "running" \/ link[s] # "silent"

(* Once the socket of a session closed, all its tasks end, also those of a  *)
(* session that run() already gave up: no task keeps another alive.         *)
ClosedSessionEnds ==
  \A s \in Sessions :
    s <= now /\ link[s] = "closed"
      ~> ~Running \/ \A t \in Tasks : status[s][t] # "alive"
=============================================================================
