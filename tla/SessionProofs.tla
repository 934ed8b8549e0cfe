--------------------------- MODULE SessionProofs ---------------------------
(***************************************************************************)
(* What the exit code of rithmic-live says, and what a session may count   *)
(* on when its tasks start, for any instruments, systems, answers of the   *)
(* server and number of sessions. The invariant has three parts: Phases    *)
(* follows authentication, Script what it has sent, Causes remembers why   *)
(* the process is where it is.                                             *)
(***************************************************************************)
EXTENDS Session, FiniteSetTheorems, TLAPS

-----------------------------------------------------------------------------
(* The requests a session has sent are those of the instruments it is done  *)
(* with, three each, and the first ones of the instrument under way.        *)
Sent(out, order, n, k) ==
  /\ Len(out) = 3 * n + k
  /\ \A m \in 1 .. n :
       /\ out[3 * m - 2] = <<order[m], "market">>
       /\ out[3 * m - 1] = <<order[m], "updates">>
       /\ out[3 * m] = <<order[m], "snapshot">>
  /\ k > 0 => out[3 * n + 1] = <<order[n + 1], "market">>
  /\ k = 2 => out[3 * n + 2] = <<order[n + 1], "updates">>

Script(out) ==
  /\ out \in Seq(Instruments \X {"market", "updates", "snapshot"})
  /\ \E n \in Nat, k \in 0 .. 2 :
       \E order \in [1 .. (IF k = 0 THEN n ELSE n + 1) -> Instruments] :
         /\ Sent(out, order, n, k)
         /\ \A a, b \in DOMAIN order : order[a] = order[b] => a = b

Phases ==
  /\ phase \in {"systems", "gateways", "login", "subscribe", "ready", "failed"}
  /\ phase \in {"systems", "gateways", "login"} => sent = <<>>
  /\ phase \in {"gateways", "login", "subscribe", "ready"} =>
       system # NoSystem /\ preferred \in {NoSystem, system}
  /\ phase = "ready" => Len(sent) = 3 * Cardinality(Instruments)
  /\ wpc = "start" => phase = "systems"
  /\ phase # "systems" => now < MaxSessions

Causes ==
  /\ now \in 0 .. MaxSessions
  /\ status \in [Sessions -> [Tasks -> Statuses]]
  /\ configured \in BOOLEAN
  /\ ~configured => /\ now = 0 /\ attempt = 0 /\ sigint = FALSE
                    /\ wpc \in {"start", "exit0", "exit1", "exit2", "killed"}
  /\ configured =>
       /\ wpc \notin {"start", "exit1"}
       /\ wpc \in {"running", "leave2", "exit2"} => now \in Sessions
       /\ wpc \in {"leave2", "exit2"} => \E i \in Instruments : status[now][i] = "degraded"
       /\ wpc \in {"leave0", "exit0"} \/ sigint => interrupted

SessionInv == Phases /\ Script(sent) /\ Causes


-----------------------------------------------------------------------------
(* What is assumed of the constants.                                         *)
LEMMA Sizes ==
  /\ MaxSessions \in Nat \ {0} /\ Sessions = 1 .. MaxSessions
  /\ IsFiniteSet(Instruments) /\ Cardinality(Instruments) \in Nat
  /\ Workers \cap Instruments = {} /\ NoSystem \notin Systems
BY SessionAssumption, AuthAssumption, TaskAssumption, FS_CardinalityType

LEMMA Kinds == DOMAIN Requests = 1 .. 3
BY DEF Requests

-----------------------------------------------------------------------------
(* A session that sent nothing is done with no instrument.                  *)
LEMMA NothingSent == Script(<<>>)
<1> DEFINE order == [m \in 1 .. 0 |-> CHOOSE i \in Instruments : TRUE]
<1>1. order \in [1 .. (IF 0 = 0 THEN 0 ELSE 0 + 1) -> Instruments]
  OBVIOUS
<1>2. Sent(<<>>, order, 0, 0) /\ \A a, b \in DOMAIN order : order[a] = order[b] => a = b
  BY DEF Sent
<1>3. <<>> \in Seq(Instruments \X {"market", "updates", "snapshot"})
  OBVIOUS
<1>4. 0 \in Nat /\ 0 \in 0 .. 2
  OBVIOUS
<1> HIDE DEF order
<1> QED
  BY <1>1, <1>2, <1>3, <1>4, Zenon DEF Script

(* One more request continues the instrument under way or begins another.   *)
LEMMA SubscribeContinues == ASSUME Script(sent), Subscribe PROVE Script(sent')
<1> USE Kinds
<1>1. PICK n \in Nat, k \in 0 .. 2 :
        \E order \in [1 .. (IF k = 0 THEN n ELSE n + 1) -> Instruments] :
          /\ Sent(sent, order, n, k)
          /\ \A a, b \in DOMAIN order : order[a] = order[b] => a = b
  BY DEF Script
<1>2. PICK order \in [1 .. (IF k = 0 THEN n ELSE n + 1) -> Instruments] :
        /\ Sent(sent, order, n, k)
        /\ \A a, b \in DOMAIN order : order[a] = order[b] => a = b
  BY <1>1
<1>3. PICK i \in Instruments, q \in 1 .. 3 :
        /\ q = (Len(sent) % 3) + 1
        /\ IF q = 1 THEN <<i, Requests[1]>> \notin Named(sent) ELSE i = sent[Len(sent)][1]
        /\ sent' = Append(sent, <<i, Requests[q]>>)
  BY DEF Subscribe
<1>4. Len(sent) = 3 * n + k /\ q = k + 1
  <2>1. Len(sent) = 3 * n + k
    BY <1>2 DEF Sent
  <2>2. (3 * n + k) % 3 = k
    OBVIOUS
  <2> QED
    BY <2>1, <2>2, <1>3
<1>5. sent \in Seq(Instruments \X {"market", "updates", "snapshot"})
  BY DEF Script
<1>6. Requests[1] = "market" /\ Requests[2] = "updates" /\ Requests[3] = "snapshot"
  BY DEF Requests
<1>7. /\ sent' \in Seq(Instruments \X {"market", "updates", "snapshot"})
      /\ Len(sent') = Len(sent) + 1
      /\ sent'[Len(sent) + 1] = <<i, Requests[q]>>
      /\ \A j \in 1 .. Len(sent) : sent'[j] = sent[j]
  <2>1. <<i, Requests[q]>> \in Instruments \X {"market", "updates", "snapshot"}
    BY <1>3, <1>6
  <2> QED
    BY <1>3, <1>5, <2>1
<1> SUFFICES \E n2 \in Nat, k2 \in 0 .. 2 :
               \E order2 \in [1 .. (IF k2 = 0 THEN n2 ELSE n2 + 1) -> Instruments] :
                 /\ Sent(sent', order2, n2, k2)
                 /\ \A a, b \in DOMAIN order2 : order2[a] = order2[b] => a = b
  BY <1>7 DEF Script
<1>8. \A m \in 1 .. n :
        /\ sent'[3 * m - 2] = <<order[m], "market">>
        /\ sent'[3 * m - 1] = <<order[m], "updates">>
        /\ sent'[3 * m] = <<order[m], "snapshot">>
  <2> SUFFICES ASSUME NEW m \in 1 .. n
               PROVE  /\ sent'[3 * m - 2] = <<order[m], "market">>
                      /\ sent'[3 * m - 1] = <<order[m], "updates">>
                      /\ sent'[3 * m] = <<order[m], "snapshot">>
    OBVIOUS
  <2>1. 3 * m - 2 \in 1 .. Len(sent) /\ 3 * m - 1 \in 1 .. Len(sent) /\ 3 * m \in 1 .. Len(sent)
    BY <1>4
  <2> QED
    BY <2>1, <1>2, <1>7 DEF Sent
<1>9. CASE k = 0
  <2> DEFINE order2 == [m \in 1 .. (n + 1) |-> IF m = n + 1 THEN i ELSE order[m]]
  <2>1. order \in [1 .. n -> Instruments]
    BY <1>2, <1>9
  <2>2. order2 \in [1 .. (IF 1 = 0 THEN n ELSE n + 1) -> Instruments]
    BY <2>1
  <2>3. \A m \in 1 .. n : order[m] # i
    <3> SUFFICES ASSUME NEW m \in 1 .. n, order[m] = i PROVE FALSE
      OBVIOUS
    <3>1. 3 * m - 2 \in 1 .. Len(sent) /\ sent[3 * m - 2] = <<i, "market">>
      BY <1>2, <1>4 DEF Sent
    <3>2. 3 * m - 2 \in DOMAIN sent
      BY <3>1, <1>5
    <3> QED
      BY <3>1, <3>2, <1>3, <1>4, <1>6, <1>9 DEF Named
  <2>4. \A a, b \in DOMAIN order2 : order2[a] = order2[b] => a = b
    BY <1>2, <2>1, <2>3
  <2>5. Sent(sent', order2, n, 1)
    <3>1. Len(sent') = 3 * n + 1 /\ sent'[3 * n + 1] = <<i, "market">>
      BY <1>4, <1>6, <1>7, <1>9
    <3>2. order2[n + 1] = i /\ \A m \in 1 .. n : order2[m] = order[m]
      OBVIOUS
    <3> QED
      BY <3>1, <3>2, <1>8 DEF Sent
  <2> QED
    BY <2>2, <2>4, <2>5
<1>10. CASE k = 1
  <2>1. order \in [1 .. (n + 1) -> Instruments]
    BY <1>2, <1>10
  <2>2. sent[3 * n + 1] = <<order[n + 1], "market">> /\ i = sent[3 * n + 1][1]
    BY <1>2, <1>3, <1>4, <1>10 DEF Sent
  <2>3. i = order[n + 1]
    BY <2>2
  <2>4. Sent(sent', order, n, 2)
    <3>1. /\ sent'[3 * n + 1] = <<order[n + 1], "market">>
          /\ sent'[3 * n + 2] = <<order[n + 1], "updates">>
          /\ Len(sent') = 3 * n + 2
      BY <2>2, <2>3, <1>4, <1>6, <1>7, <1>10
    <3> QED
      BY <3>1, <1>8, Zenon DEF Sent
  <2> QED
    BY <2>1, <2>4, <1>2
<1>11. CASE k = 2
  <2>1. order \in [1 .. (n + 1) -> Instruments]
    BY <1>2, <1>11
  <2>2. /\ sent[3 * n + 1] = <<order[n + 1], "market">>
        /\ sent[3 * n + 2] = <<order[n + 1], "updates">> /\ i = sent[3 * n + 2][1]
    BY <1>2, <1>3, <1>4, <1>11 DEF Sent
  <2>3. i = order[n + 1]
    BY <2>2
  <2>4. /\ sent'[3 * n + 1] = <<order[n + 1], "market">>
        /\ sent'[3 * n + 2] = <<order[n + 1], "updates">>
        /\ sent'[3 * n + 3] = <<order[n + 1], "snapshot">>
        /\ Len(sent') = 3 * (n + 1)
    BY <2>2, <2>3, <1>4, <1>6, <1>7, <1>11
  <2>5. Sent(sent', order, n + 1, 0)
    <3> SUFFICES ASSUME NEW m \in 1 .. (n + 1)
                 PROVE  /\ sent'[3 * m - 2] = <<order[m], "market">>
                        /\ sent'[3 * m - 1] = <<order[m], "updates">>
                        /\ sent'[3 * m] = <<order[m], "snapshot">>
      <4>1. Len(sent') = 3 * (n + 1) + 0 /\ ~(0 > 0) /\ 0 # 2
        BY <2>4
      <4> QED
        BY <4>1, Zenon DEF Sent
    <3>1. CASE m \in 1 .. n
      BY <3>1, <1>8
    <3>2. CASE m = n + 1
      <4>1. 3 * m - 2 = 3 * n + 1 /\ 3 * m - 1 = 3 * n + 2 /\ 3 * m = 3 * n + 3
        BY <3>2
      <4> QED
        BY <4>1, <3>2, <2>4
    <3> QED
      BY <3>1, <3>2
  <2> QED
    BY <2>1, <2>5, <1>2
<1>12. k = 0 \/ k = 1 \/ k = 2
  BY <1>1
<1> QED
  BY <1>9, <1>10, <1>11, <1>12

(* When all requests are sent, every instrument is done with.               *)
LEMMA AllSent ==
  ASSUME Script(sent), Len(sent) = 3 * Cardinality(Instruments)
  PROVE  \A i \in Instruments :
           /\ \A k \in DOMAIN Requests : <<i, Requests[k]>> \in Named(sent)
           /\ At(<<i, "updates">>) < At(<<i, "snapshot">>)
<1>1. PICK n \in Nat, k \in 0 .. 2 :
        \E order \in [1 .. (IF k = 0 THEN n ELSE n + 1) -> Instruments] :
          /\ Sent(sent, order, n, k)
          /\ \A a, b \in DOMAIN order : order[a] = order[b] => a = b
  BY DEF Script
<1>2. PICK order \in [1 .. (IF k = 0 THEN n ELSE n + 1) -> Instruments] :
        /\ Sent(sent, order, n, k)
        /\ \A a, b \in DOMAIN order : order[a] = order[b] => a = b
  BY <1>1
<1>3. n = Cardinality(Instruments) /\ k = 0
  BY <1>2, Sizes DEF Sent
<1>4. order \in Injection(1 .. n, Instruments)
  BY <1>2, <1>3 DEF Injection, IsInjective
<1>5. order \in Surjection(1 .. n, Instruments)
  <2>1. Cardinality(1 .. n) = n
    BY FS_Interval
  <2> QED
    BY <2>1, <1>3, <1>4, Sizes, FS_Injection
<1>6. \A m \in 1 .. n :
        /\ sent[3 * m - 2] = <<order[m], "market">>
        /\ sent[3 * m - 1] = <<order[m], "updates">>
        /\ sent[3 * m] = <<order[m], "snapshot">>
  BY <1>2 DEF Sent
<1>7. DOMAIN sent = 1 .. 3 * n
  BY <1>3 DEF Script
<1> TAKE i \in Instruments
<1>8. PICK m \in 1 .. n : order[m] = i
  BY <1>5 DEF Surjection
<1>9. 3 * m - 2 \in DOMAIN sent /\ 3 * m - 1 \in DOMAIN sent /\ 3 * m \in DOMAIN sent
  BY <1>7
<1>10. \A q \in DOMAIN Requests : <<i, Requests[q]>> \in Named(sent)
  <2>1. /\ <<i, "market">> \in Named(sent) /\ <<i, "updates">> \in Named(sent)
        /\ <<i, "snapshot">> \in Named(sent)
    BY <1>6, <1>8, <1>9 DEF Named
  <2> QED
    <3>1. Requests[1] = "market" /\ Requests[2] = "updates" /\ Requests[3] = "snapshot"
      BY DEF Requests
    <3>2. \A q \in DOMAIN Requests : q = 1 \/ q = 2 \/ q = 3
      BY Kinds
    <3> QED
      BY <2>1, <3>1, <3>2
<1>11. \A j \in DOMAIN sent : \E a \in 1 .. n : j \in {3 * a - 2, 3 * a - 1, 3 * a}
  <2> SUFFICES ASSUME NEW j \in 1 .. 3 * n
               PROVE  \E a \in 1 .. n : j \in {3 * a - 2, 3 * a - 1, 3 * a}
    BY <1>7
  <2>1. (j + 2) \div 3 \in 1 .. n
    OBVIOUS
  <2>2. LET a == (j + 2) \div 3 IN j \in {3 * a - 2, 3 * a - 1, 3 * a}
    OBVIOUS
  <2> QED
    BY <2>1, <2>2
<1>12. ASSUME NEW j \in DOMAIN sent, NEW kind, sent[j] = <<i, kind>>
       PROVE  /\ kind = "updates" => j = 3 * m - 1
              /\ kind = "snapshot" => j = 3 * m
  <2>1. PICK a \in 1 .. n : j = 3 * a - 2 \/ j = 3 * a - 1 \/ j = 3 * a
    BY <1>11
  <2>2. CASE j = 3 * a - 2
    <3>1. sent[j] = <<order[a], "market">>
      BY <2>2, <1>6
    <3>2. kind = "market"
      BY <3>1, <1>12
    <3> QED
      BY <3>2
  <2>3. CASE j = 3 * a - 1
    <3>1. order[a] = i /\ kind = "updates"
      <4>1. sent[j] = <<order[a], "updates">>
        BY <2>3, <1>6
      <4> QED
        BY <4>1, <1>12
    <3>2. a = m
      BY <3>1, <1>2, <1>3, <1>8
    <3> QED
      BY <3>1, <3>2, <2>3
  <2>4. CASE j = 3 * a
    <3>1. order[a] = i /\ kind = "snapshot"
      <4>1. sent[j] = <<order[a], "snapshot">>
        BY <2>4, <1>6
      <4> QED
        BY <4>1, <1>12
    <3>2. a = m
      BY <3>1, <1>2, <1>3, <1>8
    <3> QED
      BY <3>1, <3>2, <2>4
  <2> QED
    BY <2>1, <2>2, <2>3, <2>4
<1>14. At(<<i, "updates">>) = 3 * m - 1
  BY <1>6, <1>8, <1>9, <1>12 DEF At
<1>15. At(<<i, "snapshot">>) = 3 * m
  BY <1>6, <1>8, <1>9, <1>12 DEF At
<1> QED
  BY <1>10, <1>14, <1>15

-----------------------------------------------------------------------------
(* Authentication. *)

LEMMA AuthStepKeeps == ASSUME SessionInv, AuthStep PROVE SessionInv'
<1>1. /\ wpc = "auth" /\ now < MaxSessions /\ wpc' = wpc /\ now' = now
      /\ UNCHANGED <<status, attempt, sigint, interrupted, configured>>
  BY DEF AuthStep, signals
<1>2. Causes'
  BY <1>1 DEF SessionInv, Causes
<1>3. ASSUME NEW names \in SystemLists, SystemNames(names) PROVE Phases' /\ Script(sent')
  <2>1. UNCHANGED sent /\ UNCHANGED preferred /\ sent = <<>>
    BY <1>3 DEF SystemNames, SessionInv, Phases
  <2>2. phase' = "gateways" => system' # NoSystem /\ preferred' \in {NoSystem, system'}
    BY <1>3 DEF SystemNames, ChosenSystem
  <2>3. phase' = "gateways" \/ phase' = "failed"
    BY <1>3 DEF SystemNames
  <2>4. Phases'
    BY <1>1, <2>1, <2>2, <2>3 DEF Phases
  <2> QED
    BY <2>1, <2>4 DEF SessionInv
<1>4. ASSUME NEW gateways \in GatewayLists, GatewayUris(gateways) PROVE Phases' /\ Script(sent')
  <2>1. UNCHANGED <<sent, preferred, system>> /\ phase = "gateways" /\ phase' = "login"
    BY <1>4 DEF GatewayUris
  <2> QED
    BY <1>1, <2>1 DEF SessionInv, Phases
<1>5. ASSUME LoginAccepted PROVE Phases' /\ Script(sent')
  <2>1. UNCHANGED <<sent, preferred, system>> /\ phase = "login" /\ phase' = "subscribe"
    BY <1>5 DEF LoginAccepted
  <2> QED
    BY <1>1, <2>1 DEF SessionInv, Phases
<1>6. ASSUME Subscribe PROVE Phases' /\ Script(sent')
  <2>1. /\ UNCHANGED <<preferred, system>> /\ phase = "subscribe"
        /\ phase' = IF Len(sent') = 3 * Cardinality(Instruments) THEN "ready" ELSE phase
    BY <1>6 DEF Subscribe
  <2>2. Phases'
    BY <1>1, <2>1 DEF SessionInv, Phases
  <2> QED
    BY <2>2, <1>6, SubscribeContinues DEF SessionInv
<1>7. ASSUME AuthError PROVE Phases' /\ Script(sent')
  <2>1. UNCHANGED <<sent, preferred, system>> /\ phase' = "failed"
    BY <1>7 DEF AuthError
  <2> QED
    BY <1>1, <2>1 DEF SessionInv, Phases
<1> QED
  BY <1>2, <1>3, <1>4, <1>5, <1>6, <1>7 DEF AuthStep, Authenticate, SessionInv

(* A new attempt begins with nothing.                                       *)
LEMMA BeginClears == ASSUME Begin, wpc' # "start" PROVE Phases' /\ Script(sent')
<1>1. phase' = "systems" /\ sent' = <<>>
  BY DEF Begin
<1>2. Phases'
  BY <1>1 DEF Phases
<1>3. Script(sent')
  BY <1>1, NothingSent
<1> QED
  BY <1>2, <1>3

-----------------------------------------------------------------------------
(* The tasks. A pipeline that degraded stays so.                            *)

LEMMA TasksKeep ==
  ASSUME SessionInv, UNCHANGED <<wpc, now, attempt, signals, avars>>,
         NEW s \in Sessions, NEW t \in Tasks, End(s, t) \/ (t \in Instruments /\ Degrade(s, t))
  PROVE  SessionInv'
<1> DEFINE new == IF End(s, t) THEN "ended" ELSE "degraded"
<1>1. /\ status[s][t] = "alive"
      /\ \E st \in {"ended", "degraded"} : status' = [status EXCEPT ![s][t] = st]
  BY DEF End, Degrade
<1>2. PICK st \in {"ended", "degraded"} : status' = [status EXCEPT ![s][t] = st]
  BY <1>1
<1>3. status \in [Sessions -> [Tasks -> Statuses]] /\ st \in Statuses
  BY DEF SessionInv, Causes, Statuses
<1>4. status' \in [Sessions -> [Tasks -> Statuses]]
  BY <1>2, <1>3
<1>5. \A r \in Sessions, i \in Tasks : status[r][i] = "degraded" => status'[r][i] = "degraded"
  BY <1>1, <1>2, <1>3
<1>6. Causes'
  BY <1>4, <1>5 DEF SessionInv, Causes, Tasks, signals
<1>7. Phases' /\ Script(sent')
  BY DEF SessionInv, Phases, avars, attempted
<1> QED
  BY <1>6, <1>7 DEF SessionInv

-----------------------------------------------------------------------------
LEMMA SessionInit == Init => SessionInv
<1> SUFFICES ASSUME Init PROVE SessionInv
  OBVIOUS
<1> USE DEF Init, AuthInit
<1>1. Script(sent)
  BY NothingSent
<1>2. Phases
  BY DEF Phases
<1>3. Causes
  <2>1. AllNone \in [Tasks -> Statuses]
    BY DEF AllNone, Statuses
  <2>2. status \in [Sessions -> [Tasks -> Statuses]]
    BY <2>1
  <2>3. configured \in BOOLEAN /\ ~configured
    BY Zenon
  <2> QED
    BY <2>2, <2>3, Sizes DEF Causes
<1> QED
  BY <1>1, <1>2, <1>3 DEF SessionInv

(* Every step of the process keeps the invariant. *)
LEMMA SessionStep == SessionInv /\ [Next]_vars => SessionInv'
<1> SUFFICES ASSUME SessionInv, [Next]_vars PROVE SessionInv'
  OBVIOUS
<1> USE Sizes
<1>1. ASSUME UNCHANGED <<status, watchdog>> PROVE SessionInv'
  BY <1>1 DEF SessionInv, Phases, Causes, watchdog, signals, avars, attempted
<1>2. ASSUME NEW s \in Sessions, LinkChanges(s) \/ Inbound(s) \/ Taken(s) \/ Tick(s) PROVE SessionInv'
  BY <1>1, <1>2 DEF LinkChanges, Inbound, Taken, Tick
<1>3. ASSUME NEW s \in Sessions, NEW t \in Tasks, TaskEnds(s, t) \/ TaskFails(s, t)
      PROVE  SessionInv'
  BY <1>3, TasksKeep DEF TaskEnds, TaskFails, watchdog
<1>4. ASSUME NEW s \in Sessions, NEW i \in Instruments, PipelineDegrades(s, i)
      PROVE  SessionInv'
  BY <1>4, TasksKeep DEF PipelineDegrades, watchdog, Tasks
<1>5. ASSUME Configure PROVE SessionInv'
  <2>1. /\ UNCHANGED <<status, now, attempt, sigint, interrupted, phase, system, sent>>
        /\ wpc = "start"
        /\ \/ wpc' \in {"exit0", "exit1", "exit2"} /\ configured' = configured
           \/ wpc' = "auth" /\ configured' = TRUE
    BY <1>5 DEF Configure, attempted
  <2>2. Phases'
    BY <2>1 DEF SessionInv, Phases
  <2>3. Script(sent')
    BY <2>1 DEF SessionInv
  <2>4. ~configured /\ sigint = FALSE
    BY <2>1 DEF SessionInv, Causes
  <2>5. \/ ~configured' /\ wpc' \in {"exit0", "exit1", "exit2"}
        \/ configured' /\ wpc' = "auth"
    BY <2>1, <2>4, Zenon
  <2>6. configured' \in BOOLEAN
    BY <2>1 DEF SessionInv, Causes
  <2>7. Causes'
    BY <2>1, <2>4, <2>5, <2>6 DEF SessionInv, Causes
  <2> QED
    BY <2>2, <2>3, <2>7 DEF SessionInv
<1>6. ASSUME AuthOk PROVE SessionInv'
  <2>1. /\ now' = now + 1 /\ now < MaxSessions /\ wpc' = "running"
        /\ UNCHANGED <<sigint, interrupted, configured>> /\ wpc = "auth"
    BY <1>6 DEF AuthOk, SessionInv, Phases
  <2>2. Phases' /\ Script(sent')
    BY <1>6, <2>1, BeginClears DEF AuthOk
  <2>3. now + 1 \in Sessions /\ now + 1 \in 0 .. MaxSessions
    BY <2>1 DEF SessionInv, Causes
  <2>4. status' \in [Sessions -> [Tasks -> Statuses]]
    <3>1. AllAlive \in [Tasks -> Statuses]
      BY DEF AllAlive, Statuses
    <3> QED
      BY <3>1, <2>3, <1>6 DEF AuthOk, Start, SessionInv, Causes
  <2>5. Causes'
    BY <2>1, <2>3, <2>4 DEF SessionInv, Causes
  <2> QED
    BY <2>2, <2>5 DEF SessionInv
<1>7. ASSUME Retry, wpc \in {"auth", "running"} PROVE SessionInv'
  <2>1. /\ UNCHANGED <<status, now, interrupted, configured>> /\ wpc' = "backoff" /\ sigint' = FALSE
    BY <1>7 DEF Retry, conn
  <2>2. Phases' /\ Script(sent')
    BY <1>7, <2>1, BeginClears DEF Retry
  <2>3. configured
    BY <1>7 DEF SessionInv, Causes
  <2>4. Causes'
    BY <2>1, <2>3 DEF SessionInv, Causes
  <2> QED
    BY <2>2, <2>4 DEF SessionInv
<1>8. ASSUME NEW where, Goto(where), configured, where # "start",
             where \in {"running", "leave2", "exit2"} =>
               now \in Sessions /\ \E i \in Instruments : status[now][i] = "degraded",
             where \in {"leave0", "exit0"} => interrupted, where # "exit1"
      PROVE  SessionInv'
  <2>1. /\ UNCHANGED <<status, now, attempt, sigint, interrupted, configured>>
        /\ UNCHANGED <<phase, system, sent, preferred>> /\ wpc' = where
    BY <1>8 DEF Goto, signals, avars, attempted
  <2>2. Phases'
    BY <1>8, <2>1 DEF SessionInv, Phases
  <2>3. Script(sent')
    BY <2>1 DEF SessionInv
  <2>4. Causes'
    BY <1>8, <2>1 DEF SessionInv, Causes
  <2> QED
    BY <2>2, <2>3, <2>4 DEF SessionInv
<1>9. ASSUME RunReturns PROVE SessionInv'
  <2>1. wpc = "running" /\ configured /\ now \in Sessions /\ (sigint => interrupted)
    BY <1>9 DEF RunReturns, SessionInv, Causes
  <2>2. CASE sigint /\ Goto("leave0")
    BY <2>1, <2>2, <1>8
  <2>3. CASE Retry
    BY <2>1, <2>3, <1>7
  <2>4. CASE (\E i \in Instruments : status[now][i] = "degraded") /\ Goto("leave2")
    BY <2>1, <2>4, <1>8
  <2> QED
    BY <1>9, <2>2, <2>3, <2>4 DEF RunReturns
<1>10. ASSUME Left PROVE SessionInv'
  <2>1. CASE wpc = "leave0" /\ Goto("exit0")
    <3>1. configured /\ interrupted
      BY <2>1 DEF SessionInv, Causes
    <3> QED
      BY <2>1, <3>1, <1>8
  <2>2. CASE wpc = "leave2" /\ Goto("exit2")
    <3>1. configured /\ now \in Sessions /\ \E i \in Instruments : status[now][i] = "degraded"
      BY <2>2 DEF SessionInv, Causes
    <3> QED
      BY <2>2, <3>1, <1>8
  <2> QED
    BY <1>10, <2>1, <2>2 DEF Left
<1>11. ASSUME BackoffEnds PROVE SessionInv'
  <2>1. configured
    BY <1>11 DEF BackoffEnds, SessionInv, Causes
  <2> QED
    BY <2>1, <1>8, <1>11 DEF BackoffEnds
<1>12. ASSUME CtrlC PROVE SessionInv'
  <2>1. /\ UNCHANGED <<status, now, attempt, configured, phase, system, sent, preferred>>
        /\ interrupted' = TRUE /\ (wpc' # wpc => wpc' \in {"leave0", "killed"})
        /\ wpc = "start" => sigint' = sigint /\ wpc' # "leave0"
        /\ wpc # "start" => configured
    BY <1>12 DEF CtrlC, avars, attempted, Running, Exits, SessionInv, Causes
  <2>2. Phases'
    BY <2>1 DEF SessionInv, Phases
  <2>3. Script(sent')
    BY <2>1 DEF SessionInv
  <2>4. Causes'
    BY <2>1 DEF SessionInv, Causes
  <2> QED
    BY <2>2, <2>3, <2>4 DEF SessionInv
<1>13. CASE UNCHANGED vars
  BY <1>1, <1>13 DEF vars
<1>14. ASSUME AuthFails PROVE SessionInv'
  BY <1>7, <1>14 DEF AuthFails
<1> QED
  BY <1>2, <1>3, <1>4, <1>5, <1>6, <1>9, <1>10, <1>11, <1>12, <1>13, <1>14, AuthStepKeeps
  DEF Next, Supervise, Stopped

LEMMA SessionIsInvariant == Spec => []SessionInv
BY SessionInit, SessionStep, PTL DEF Spec

-----------------------------------------------------------------------------
(* The exit code of a process that had a configuration never lies: 2 is a   *)
(* pipeline that gave up in the session under way, 0 a user who asked, 1 is *)
(* never used (main.rs:163-197), whatever ended, failed or came in between. *)
(* Only a process that tried nothing ends with 2 on a usage error, 1 on a   *)
(* bad configuration or 0 for the help (main.rs:83, 93, 142).               *)
THEOREM ExitsAreHonest == Spec => []ExitCodeIsHonest
<1>1. SessionInv => ExitCodeIsHonest
  BY DEF SessionInv, Causes, ExitCodeIsHonest
<1> QED
  BY <1>1, SessionIsInvariant, PTL

(* However often authentication failed, and after which of its steps, the   *)
(* tasks of a session start only when it is logged in to the right system   *)
(* and every instrument was asked for in order (auth.rs:129-141,            *)
(* client.rs:118-142).                                                      *)
THEOREM SessionsStartPrepared == Spec => StartsPrepared
<1>1. SessionInv /\ [Next]_vars => [now' > now => Prepared]_vars
  <2> SUFFICES ASSUME SessionInv, Next, now' > now PROVE Prepared
    OBVIOUS
  <2>1. now \in Nat
    BY Sizes DEF SessionInv, Causes
  <2>2. now' = now => FALSE
    BY <2>1
  <2>3. AuthOk
    BY <2>2
    DEF Next, LinkChanges, Inbound, Taken, Tick, TaskEnds, TaskFails, PipelineDegrades, Configure,
        AuthStep, AuthFails, Retry, Supervise, RunReturns, BackoffEnds, Goto, Left, CtrlC,
        Stopped, vars, conn, watchdog
  <2>4. phase = "ready"
    BY <2>3 DEF AuthOk
  <2>5. system # NoSystem /\ preferred \in {NoSystem, system}
    BY <2>4 DEF SessionInv, Phases
  <2>6. Script(sent) /\ Len(sent) = 3 * Cardinality(Instruments)
    BY <2>4 DEF SessionInv, Phases
  <2> QED
    BY <2>5, <2>6, AllSent DEF Prepared
<1> QED
  BY <1>1, SessionIsInvariant, PTL DEF Spec, StartsPrepared
=============================================================================
