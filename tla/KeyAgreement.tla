---------------------------- MODULE KeyAgreement ----------------------------
(***************************************************************************)
(* What the key exchange promises its two ends, whatever happens to the    *)
(* packets: each end takes a sequence of key materials into use, and the   *)
(* two sequences are the same one, read at most one material apart.  A     *)
(* material never comes back.                                              *)
(***************************************************************************)
EXTENDS Naturals, Sequences, SequencesExt

CONSTANTS Ends, Materials
VARIABLE hist      \* hist[e]: the materials end e has taken into use

Init == hist = [e \in Ends |-> <<>>]

\* e takes the material the other end took before it.
Follow(e) ==
    \E f \in Ends :
        /\ IsStrictPrefix(hist[e], hist[f])
        /\ hist' = [hist EXCEPT ![e] = Append(@, hist[f][Len(@) + 1])]

\* e is the first to take a new material, from the point both have reached.
Lead(e) ==
    /\ \A f \in Ends : hist[f] = hist[e]
    /\ \E m \in Materials :
        /\ \A i \in DOMAIN hist[e] : hist[e][i] # m
        /\ hist' = [hist EXCEPT ![e] = Append(@, m)]

Next == \E e \in Ends : Follow(e) \/ Lead(e)

Spec == Init /\ [][Next]_hist
=============================================================================
