------------------------------- MODULE Labels -------------------------------
(***************************************************************************)
(* Labels of a day (crates/event-labels/src/lib.rs, tools/event-export):   *)
(* for each committed state and each geometry, which barrier the mid price *)
(* touches first, and when.                                                *)
(*                                                                         *)
(* A committed state has a bid and an ask in ticks; mids, entries and      *)
(* moves are in half ticks. A state whose book has one side is left out    *)
(* here as it is there. All commits are evaluated, features are left out,  *)
(* but for the sign and the strength of the order-flow imbalance.          *)
(***************************************************************************)
EXTENDS Integers, Sequences, FiniteSetsExt

CONSTANTS
  Geometries,  (* a sequence of [target, stop] in ticks                     *)
  Horizon      (* max_horizon_ns                                            *)

ASSUME LabelAssumption ==
  /\ Geometries \in Seq([target : Nat \ {0}, stop : Nat \ {0}]) /\ Geometries # <<>>
  /\ Horizon \in Nat

(* A committed state, and a day of them, sorted by time as simulate_barrier *)
(* asks for (lib.rs:81).                                                    *)
States == [ts : Nat, bid : Int, ask : Int, side : {1, -1}, strong : BOOLEAN]

Days == {day \in Seq(States) : \A i, j \in DOMAIN day : i <= j => day[i].ts <= day[j].ts}

(* A long enters at the ask, a short at the bid. *)
Long(state)       == state.side = 1
EntryPrice(state) == IF Long(state) THEN 2 * state.ask ELSE 2 * state.bid
Mid(state)        == state.bid + state.ask

(* simulate_barrier: the first later tick that is past the horizon or at a  *)
(* barrier decides; with none, the last tick is the exit.                   *)
SimulateStopAsTarget(day, i, g) ==  (* mutant: the stop as wide as the target *)
  LET Move(k)   == (Mid(day[k]) - EntryPrice(day[i])) * day[i].side
      Ended(k)  == day[k].ts > day[i].ts + Horizon
      Target(k) == Move(k) >= 2 * g.target
      Stop(k)   == Move(k) <= -2 * g.target
      exits     == {k \in DOMAIN day : day[k].ts > day[i].ts /\ (Ended(k) \/ Target(k) \/ Stop(k))}
      first     == Min(exits)
  IN  IF exits = {} THEN [outcome |-> -1, exit |-> day[Len(day)].ts]
      ELSE [outcome |-> IF Ended(first) THEN -1 ELSE IF Target(first) THEN 1 ELSE 0,
            exit |-> day[first].ts]

SimulateBarrier(day, i, g) ==
  LET Move(k)   == (Mid(day[k]) - EntryPrice(day[i])) * day[i].side
      Ended(k)  == day[k].ts > day[i].ts + Horizon
      Target(k) == Move(k) >= 2 * g.target
      Stop(k)   == Move(k) <= -2 * g.stop
      exits     == {k \in DOMAIN day : day[k].ts > day[i].ts /\ (Ended(k) \/ Target(k) \/ Stop(k))}
      first     == Min(exits)
  IN  IF exits = {} THEN [outcome |-> -1, exit |-> day[Len(day)].ts]
      ELSE [outcome |-> IF Ended(first) THEN -1 ELSE IF Target(first) THEN 1 ELSE 0,
            exit |-> day[first].ts]

(* The rows of a day's file: every state with every geometry, in order.     *)
Row(day, i, g) ==
  LET label == SimulateBarrier(day, i, g)
  IN  [ts |-> day[i].ts, geometry |-> g, strong |-> day[i].strong,
       outcome |-> label.outcome, exit |-> label.exit]

StateOf(k)    == ((k - 1) \div Len(Geometries)) + 1
GeometryOf(k) == Geometries[((k - 1) % Len(Geometries)) + 1]

ExportDay(day) ==
  [k \in 1 .. Len(day) * Len(Geometries) |-> Row(day, StateOf(k), GeometryOf(k))]
=============================================================================
