--------------------------- MODULE MCKeyExchange ----------------------------
(* Connections for TLC: over TCP and UDP, with and without PFS and mutual  *)
(* authentication, and ones whose proposal, keys or signatures fail.       *)
EXTENDS KeyExchange

Yes == [e \in Ends |-> TRUE]
Base ==
    [udp |-> FALSE, flags |-> {"MUTUAL"}, required |-> {},
     offer |-> [c \in ClassNames |-> <<"a", "b">>],
     supported |-> [c \in ClassNames |-> {"b"}],
     accepts |-> Yes, signs |-> Yes, version |-> Yes]

MCConfigs ==
    {Base,
     [Base EXCEPT !.flags = {"IV"}, !.required = {"PFS", "MUTUAL"}],
     [Base EXCEPT !.offer["PKCS"] = <<"a">>, !.offer["HASH"] = <<"b">>],
     [Base EXCEPT !.offer["HASH"] = <<"a">>],
     [Base EXCEPT !.supported["CIPHER"] = {}],
     [Base EXCEPT !.offer["HMAC"] = <<>>],
     [Base EXCEPT !.accepts["i"] = FALSE],
     [Base EXCEPT !.accepts["r"] = FALSE],
     [Base EXCEPT !.signs["i"] = FALSE],
     [Base EXCEPT !.version["i"] = FALSE],
     [Base EXCEPT !.version["r"] = FALSE],
     [Base EXCEPT !.udp = TRUE],
     [Base EXCEPT !.udp = TRUE, !.accepts["i"] = FALSE]}

\* The responder's signature cannot be computed.
MCNoSignature == {[Base EXCEPT !.signs["r"] = FALSE]}
=============================================================================
