---------------------------- MODULE BookFollower ----------------------------
(***************************************************************************)
(* What the live client promises of each instrument's book: at any time it *)
(* is either admitted to be stale or reflects a prefix of the updates the  *)
(* exchange published for that instrument, with no hole, no duplicate and  *)
(* no update applied out of order. It may be invalidated at any time and   *)
(* brought back at any prefix; while valid it moves one update at a time.  *)
(***************************************************************************)
EXTENDS Naturals

CONSTANTS
  Instruments,  (* the instruments                                          *)
  Updates,      (* the numbers that tell the order of the updates           *)
  Stale         (* the view of a book that is being rebuilt                 *)

VARIABLES
  published,  (* the updates of each instrument, by their numbers           *)
  view        (* the updates each book reflects, or Stale                   *)

avars == <<published, view>>

Prefix(U, k) == {u \in U : u <= k}

AInit ==
  /\ published = [i \in Instruments |-> {}]
  /\ view = [i \in Instruments |-> Stale]

Publish(i) ==
  /\ \E u \in Updates :
       /\ \A v \in published[i] : v < u
       /\ published' = [published EXCEPT ![i] = @ \cup {u}]
  /\ UNCHANGED view

Invalidate(i) ==
  /\ view' = [view EXCEPT ![i] = Stale]
  /\ UNCHANGED published

Resync(i) ==
  /\ view[i] = Stale
  /\ \E k \in Updates : view' = [view EXCEPT ![i] = Prefix(published[i], k)]
  /\ UNCHANGED published

(* The next update, the first the book does not reflect. *)
Apply(i) ==
  /\ view[i] # Stale
  /\ \E u \in published[i] \ view[i] :
       /\ \A v \in published[i] \ view[i] : u <= v
       /\ view' = [view EXCEPT ![i] = @ \cup {u}]
  /\ UNCHANGED published

ANext == \E i \in Instruments : Publish(i) \/ Invalidate(i) \/ Resync(i) \/ Apply(i)

ASpec == AInit /\ [][ANext]_avars
=============================================================================
