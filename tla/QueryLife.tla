------------------------------ MODULE QueryLife ------------------------------
(***************************************************************************)
(* What the rest of the system may rely on when it reads a query that a    *)
(* request is working on: it is not there until it has a final status, and *)
(* the answer in the chat follows it.  QueryWorkflow implements it.        *)
(***************************************************************************)

VARIABLES
    status,     \* queries.status, as committed
    answered    \* the assistant's message is in the chat

vars == <<status, answered>>

Final == {"success", "blocked", "clarification_required"}

Init == status = "absent" /\ ~answered

Settle ==
    /\ status = "absent"
    /\ status' \in Final
    /\ answered' = answered

Reply ==
    /\ status \in Final
    /\ ~answered
    /\ answered'
    /\ status' = status

Next == Settle \/ Reply

Spec == Init /\ [][Next]_vars

=============================================================================
