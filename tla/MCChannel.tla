----------------------------- MODULE MCChannel -----------------------------
(***************************************************************************)
(* Values for the constants of Channel that a configuration file cannot    *)
(* write, and the symmetry of the runs.                                    *)
(***************************************************************************)
EXTENDS Channel, TLC

CONSTANTS c1, c2, c3, k1, k2

\* c1 and c2 have the same public key, c3 has one of its own.
SharedPublicKey == [c \in Clients |-> IF c = c3 THEN k2 ELSE k1]
SharedPrivateKeys == [c \in Clients |-> {SharedPublicKey[c]}]

\* c1 can sign with both keys.
TwoPrivateKeys ==
    [c \in Clients |-> IF c = c1 THEN {k1, k2} ELSE {SharedPublicKey[c]}]

\* Clients with the same key may be exchanged.
SameKeyClients == Permutations({c1, c2})

=============================================================================
