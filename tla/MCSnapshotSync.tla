--------------------------- MODULE MCSnapshotSync ---------------------------
(* Instances of SnapshotSync for TLC. *)
EXTENDS SnapshotSync, TLC

CONSTANTS i1, i2

MCInstruments == {i1, i2}
MCBodies == {None} \cup [at : 0 .. MaxSeq, piece : 1 .. Pieces]
Perms == Permutations(MCInstruments)
=============================================================================
