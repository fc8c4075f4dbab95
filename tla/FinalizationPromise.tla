-------------------------- MODULE FinalizationPromise --------------------------
(***************************************************************************)
(* What durable finalization promises to the rest of the backend, without  *)
(* leases, queues or sweeps: a conversation that is admitted is open until *)
(* it settles, it settles at most once, and it is reported as a success    *)
(* only after its external effects were dealt with.                        *)
(***************************************************************************)
CONSTANT Conversations

VARIABLES
    phase,    \* "none", "open", or how the conversation settled
    handled   \* its external effects were delivered or deliberately left out

Init ==
    /\ phase = [c \in Conversations |-> "none"]
    /\ handled = [c \in Conversations |-> FALSE]

Admit(c) ==
    /\ phase[c] = "none"
    /\ phase' = [phase EXCEPT ![c] = "open"]
    /\ UNCHANGED handled

\* A superseded worker may still be the one that reaches the integrations.
Handle(c) ==
    /\ phase[c] # "none"
    /\ handled' = [handled EXCEPT ![c] = TRUE]
    /\ UNCHANGED phase

Settle(c, outcome) ==
    /\ phase[c] = "open"
    /\ outcome = "success" => handled[c]
    /\ phase' = [phase EXCEPT ![c] = outcome]
    /\ UNCHANGED handled

Next ==
    \E c \in Conversations :
        \/ Admit(c)
        \/ Handle(c)
        \/ \E outcome \in {"success", "stale", "failure"} : Settle(c, outcome)

Spec == Init /\ [][Next]_<<phase, handled>>
=============================================================================
