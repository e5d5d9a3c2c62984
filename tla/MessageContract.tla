-------------------------- MODULE MessageContract --------------------------
(***************************************************************************)
(* What a session promises about the messages written to it, whatever the  *)
(* host and its containers go through: a message waits, is taken by one    *)
(* container at a time, and from there is finished, put back, or given up. *)
(* Finished and given up are final.                                        *)
(***************************************************************************)
CONSTANT Msgs

VARIABLE stage

Move(S, from, to) ==
    /\ S # {}
    /\ \A m \in S : stage[m] = from
    /\ stage' = [m \in Msgs |-> IF m \in S THEN to ELSE stage[m]]

Init == stage = [m \in Msgs |-> "unsent"]

Arrive(m) == Move({m}, "unsent", "waiting")
Take(S)   == Move(S, "waiting", "taken")
Finish(S) == Move(S, "taken", "done")
PutBack(S) == Move(S, "taken", "waiting")
GiveUp(S) == Move(S, "taken", "dead")

Next ==
    \/ \E m \in Msgs : Arrive(m)
    \/ \E S \in SUBSET Msgs : Take(S) \/ Finish(S) \/ PutBack(S) \/ GiveUp(S)

Spec == Init /\ [][Next]_stage

=============================================================================
