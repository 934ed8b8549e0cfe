-------------------------- MODULE MCDispatcherFeed --------------------------
(* Instances of DispatcherFeed for TLC. *)
EXTENDS DispatcherFeed, TLC

CONSTANTS i1, i2, b

MCInstruments == {i1, i2}
MCOne == {i1}
MCBodies == {b}
MCSnapSeqs == {None, 2}
Perms == Permutations(MCInstruments)
=============================================================================
