----------------------------- MODULE MCLiveFeed -----------------------------
(* Instances of LiveFeed for TLC. *)
EXTENDS LiveFeed

CONSTANTS i1, i2, t1, b

MCOne == {i1}
MCTwo == {i1, i2}
MCTops == {t1}
MCBodies == {b}

Plain(t, i, s, z, k) ==
  [tid |-> t, sym |-> i, seq |-> s, sentinel |-> z, n |-> k, body |-> b]

MCUpdates  == {Plain(160, i, s, FALSE, 1) : i \in Instruments, s \in {1, MaxSeq}}
MCEntries  == {Plain(116, i, None, FALSE, 1) : i \in Instruments}
MCClosing  == {Plain(116, i, None, TRUE, 0) : i \in Instruments}
MCLogout   == {Plain(77, Foreign, None, FALSE, 0)}
MCQuotes   == {[tid |-> t, sym |-> i] : t \in {150, 151}, i \in Instruments}
MCWire == MCUpdates \cup MCEntries \cup MCClosing \cup MCLogout \cup MCQuotes
=============================================================================
