--------------------------- MODULE MCClientSession ---------------------------
(* ClientSession for TLC: one client of another server, owned by user u1.   *)
EXTENDS ClientSession
CONSTANTS u1, u2, r1
\* Connections are alike, so it is enough to let the first be u1's.
FirstIsU1 == [s \in Socks |-> IF s = 1 THEN {u1} ELSE Users]
OneRemote == {r1}
OwnedByU1 == [e \in {r1} |-> u1]
=============================================================================
