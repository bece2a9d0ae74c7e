--------------------------- MODULE MCCellChannel ---------------------------
EXTENDS CellChannel

CONSTANTS s1, s2, c1, c2, c3, c4

MCHome == (c1 :> s1) @@ (c2 :> s1) @@ (c3 :> s2) @@ (c4 :> R)

\* The first member is the founder, or there is none; the last may be an
\* operator.
MCInitUsers ==
    {NoUsers, c1 :> Founder,
     (c1 :> Founder) @@ (c2 :> {}) @@ (c3 :> {"op"}),
     (c1 :> {"op"}) @@ (c3 :> {}) @@ (c4 :> {"op"})}
=============================================================================
