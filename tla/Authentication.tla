--------------------------- MODULE Authentication ---------------------------
(***************************************************************************)
(* How a session gets to its first message (auth.rs:114-237, client.rs:    *)
(* 98-142): ask one connection for the names of the systems, a second for  *)
(* the gateways of the chosen one, log in on a third, and send on it the   *)
(* three requests of every instrument. No step has a timeout.              *)
(***************************************************************************)
EXTENDS Naturals, Sequences, FiniteSets, TaskLife

CONSTANTS
  Systems,      (* the systems the server may name                          *)
  NoSystem,     (* none chosen, none preferred                              *)
  SystemLists,  (* bound: the lists of names the server answers with        *)
  GatewayLists  (* bound: the lists of gateways it answers with, by kind    *)

ASSUME AuthAssumption ==
  /\ IsFiniteSet(Instruments)  (* those of the command line *)
  /\ NoSystem \notin Systems
  /\ SystemLists \subseteq Seq(Systems)
  /\ GatewayLists \subseteq Seq({"ticker", "other"})

VARIABLES
  preferred,  (* RITHMIC_SYSTEM, NoSystem when unset                        *)
  phase,      (* what is waited for: a step's answer, or how it all ended   *)
  system,     (* the system chosen                                          *)
  plant,      (* the plant to log in to: "original" is the configured URI   *)
  paced,      (* the login's heartbeat interval is at least a second        *)
  sent        (* the requests sent after the login, in order                *)

attempted == <<phase, system, plant, paced, sent>>
avars     == <<preferred, attempted>>

Begin ==
  /\ phase' = "systems" /\ system' = NoSystem /\ plant' = "none"
  /\ paced' = TRUE /\ sent' = <<>>

AuthInit ==
  /\ preferred = NoSystem /\ paced = TRUE
  /\ phase = "systems" /\ system = NoSystem /\ plant = "none" /\ sent = <<>>

Named(names) == {names[k] : k \in DOMAIN names}

(* The preferred system or none; without a preference the first.            *)
ChosenSystem(names) ==
  IF preferred \in Named(names) THEN preferred
  ELSE IF preferred = NoSystem /\ names # <<>> THEN names[1]
  ELSE NoSystem

SystemNames(names) ==
  /\ phase = "systems"
  /\ system' = ChosenSystem(names)
  /\ phase' = IF system' = NoSystem THEN "failed" ELSE "gateways"
  /\ UNCHANGED <<preferred, plant, paced, sent>>

(* The gateway called 1, ticker or market, else the first; a server that    *)
(* closes without an answer leaves the configured URI.                      *)
PlantUri(gateways) ==
  IF "ticker" \in Named(gateways) THEN "ticker"
  ELSE IF gateways = <<>> THEN "original" ELSE "other"

GatewayUris(gateways) ==
  /\ phase = "gateways"
  /\ plant' = PlantUri(gateways) /\ phase' = "login"
  /\ UNCHANGED <<preferred, system, paced, sent>>

(* rp_code holds a "0". The interval goes from a float to whole seconds.    *)
LoginAccepted ==
  /\ phase = "login"
  /\ phase' = "subscribe" /\ paced' \in BOOLEAN
  /\ UNCHANGED <<preferred, system, plant, sent>>

RequestsLate == <<"market", "snapshot", "updates">>  (* mutant *)

Requests == <<"market", "updates", "snapshot">>

(* One send: an instrument is finished before the next.                     *)
Subscribe ==
  /\ phase = "subscribe"
  /\ \E i \in Instruments, k \in DOMAIN Requests :
       /\ k = (Len(sent) % 3) + 1
       /\ IF k = 1 THEN <<i, Requests[1]>> \notin Named(sent) ELSE i = sent[Len(sent)][1]
       /\ sent' = Append(sent, <<i, Requests[k]>>)
  /\ phase' = IF Len(sent') = 3 * Cardinality(Instruments) THEN "ready" ELSE phase
  /\ UNCHANGED <<preferred, system, plant, paced>>

(* A connection refused or lost, a closed stream, a rejected login, an      *)
(* answer that does not decode, a send that fails.                          *)
AuthError ==
  /\ phase \in {"systems", "gateways", "login", "subscribe"}
  /\ phase' = "failed"
  /\ UNCHANGED <<preferred, system, plant, paced, sent>>

Authenticate ==
  \/ \E names \in SystemLists : SystemNames(names)
  \/ \E gateways \in GatewayLists : GatewayUris(gateways)
  \/ LoginAccepted \/ Subscribe \/ AuthError

At(request) == CHOOSE k \in DOMAIN sent : sent[k] = request

(* What a session may count on when its tasks start: it is logged in to the *)
(* system the configuration asks for, and each instrument's updates were    *)
(* subscribed to before its snapshot was asked for, once each, so that no   *)
(* update can fall between the two.                                         *)
Prepared ==
  /\ system # NoSystem /\ preferred \in {NoSystem, system}
  /\ \A i \in Instruments :
       /\ \A k \in DOMAIN Requests : <<i, Requests[k]>> \in Named(sent)
       /\ At(<<i, "updates">>) < At(<<i, "snapshot">>)
=============================================================================
