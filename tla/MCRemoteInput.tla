---------------------------- MODULE MCRemoteInput ----------------------------
(* Finite instances of RemoteInput.                                         *)
EXTENDS RemoteInput, TLC

CONSTANTS first, second  \* the sessions

\* The Hosts of both sessions allow control, the first may be changing its policy, and
\* the room has named the endpoints, whose branches are up: states that commands and
\* packets lead to from Init.  Starting there spends MaxChanges on what happens afterwards.
Admitting(policy, change, home) ==
    /\ desk = [owner |-> NoSession, grant |-> [c \in Endpoints |-> FALSE],
               suspended |-> [c \in Endpoints |-> FALSE], held |-> [c \in Endpoints |-> {}],
               pad |-> [c \in Endpoints |-> "none"], padFailed |-> [c \in Endpoints |-> FALSE],
               down |-> {}, debt |-> {}, faults |-> 0]
    /\ peer = [c \in Endpoints |-> [Unbound EXCEPT !.home = home[c], !.link = "up"]]
    /\ share = [s \in Sessions |-> [NewShare EXCEPT !.picture = TRUE, !.mode = policy[s].mode,
                                      !.coPlay = policy[s].coPlay,
                                      !.simultaneous = policy[s].simultaneous,
                                      !.change = IF s = first THEN change ELSE NoChange]]
    /\ opening = "none" /\ closed = FALSE
    /\ allowed = [s \in Sessions |-> {policy[s].mode} \cup
                    IF s = first /\ change # NoChange THEN {change.mode} ELSE {}]
    /\ changes = 0

\* One Host asks or admits, one player, several in turn or several at once; the other
\* Host admits one.
Policy(m, n) ==
    [s \in Sessions |->
        IF s = first THEN [mode |-> m, coPlay |-> n > 0, simultaneous |-> n > 1]
        ELSE [mode |-> "room", coPlay |-> FALSE, simultaneous |-> FALSE]]
\* Whose viewers the endpoints are.
Joint == [c \in Endpoints |-> first]
Apart == [c \in Endpoints |-> IF c = (CHOOSE e \in Endpoints : TRUE) THEN first ELSE second]
\* A change whose permission is being asked.
Pending == [mode |-> "room", coPlay |-> TRUE]

AdmittedSpec ==
    /\ \/ Admitting(Policy("ask", 0), NoChange, Apart)
       \/ Admitting(Policy("room", 1), NoChange, Joint)
       \/ Admitting(Policy("ask", 2), Pending, Joint)
    /\ [][Next]_vars /\ Fairness
=============================================================================
