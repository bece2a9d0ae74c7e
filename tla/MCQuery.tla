------------------------------ MODULE MCQuery ------------------------------
(***************************************************************************)
(* Commands for the runs of Query: a query by IDs for two clients, a query *)
(* for one of them by ID or by nickname from another connection, and an    *)
(* INVITE of a client.                                                     *)
(***************************************************************************)
EXTENDS Query

CONSTANTS r1, r2, inv, a, b, t1, t2

KindById == [r \in Requests |-> IF r = inv THEN "invite" ELSE "ids"]
KindByNick ==
    [r \in Requests |-> IF r = inv THEN "invite" ELSE IF r = r2 THEN "nick" ELSE "ids"]

CallerOf == [r \in Requests |-> IF r = r1 THEN a ELSE b]

TargetsOf == [r \in Requests |-> IF r = r1 THEN Clients ELSE {t2}]
TargetsByNick == [r \in Requests |-> IF r = inv THEN {t2} ELSE Clients]

NoRenames == {}
RenamesBoth == {<<t1, t2>>, <<t2, t1>>}

=============================================================================
