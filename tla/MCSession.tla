----------------------------- MODULE MCSession -----------------------------
(* Instances of Session for TLC. *)
EXTENDS Session

CONSTANTS i1, i2, s1, s2

MCOne      == {i1}
MCTwo      == {i1, i2}
MCSessions == 1 .. MaxSessions
MCSystems  == {s1, s2}
MCLists    == {<<>>, <<s1>>, <<s1, s2>>}
MCGateways == {<<>>, <<"other">>, <<"other", "ticker">>}
=============================================================================
