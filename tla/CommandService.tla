--------------------------- MODULE CommandService ---------------------------
(***************************************************************************)
(* What a server promises to the connections that send it commands: a      *)
(* command that was accepted is answered exactly once, or given up if its  *)
(* caller has gone away in the meantime, and one of the two does happen.   *)
(***************************************************************************)
CONSTANTS
    Requests,       \* the commands that may be sent, each of them once
    Connections,
    Caller          \* the connection a command comes from

VARIABLES
    status,         \* "idle", "running", "answered" or "dropped"
    valid           \* the connections that are up

vars == <<status, valid>>

Init ==
    /\ status = [r \in Requests |-> "idle"]
    /\ valid = Connections

\* The command arrives, and may be answered at once.
Accept(r) ==
    /\ status[r] = "idle"
    /\ Caller[r] \in valid
    /\ \E s \in {"running", "answered"} : status' = [status EXCEPT ![r] = s]
    /\ UNCHANGED valid

Answer(r) ==
    /\ status[r] = "running"
    /\ Caller[r] \in valid
    /\ status' = [status EXCEPT ![r] = "answered"]
    /\ UNCHANGED valid

Drop(r) ==
    /\ status[r] = "running"
    /\ Caller[r] \notin valid
    /\ status' = [status EXCEPT ![r] = "dropped"]
    /\ UNCHANGED valid

Disconnect(c) ==
    /\ c \in valid
    /\ valid' = valid \ {c}
    /\ UNCHANGED status

Next ==
    \/ \E r \in Requests : Accept(r) \/ Answer(r) \/ Drop(r)
    \/ \E c \in Connections : Disconnect(c)

Safe == Init /\ [][Next]_vars

Spec == Safe /\ \A r \in Requests : WF_vars(Answer(r) \/ Drop(r))

=============================================================================
