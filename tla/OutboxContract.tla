--------------------------- MODULE OutboxContract ---------------------------
(***************************************************************************)
(* What outbound delivery promises about a row: it is written once, handed *)
(* to the platform any number of times while it has no outcome, and gets   *)
(* one outcome, for good.                                                  *)
(***************************************************************************)
EXTENDS Naturals

CONSTANT Rows

VARIABLES outcome, sends

vars == <<outcome, sends>>

Init ==
    /\ outcome = [r \in Rows |-> "unwritten"]
    /\ sends = [r \in Rows |-> 0]

Write(r) ==
    /\ outcome[r] = "unwritten"
    /\ outcome' = [outcome EXCEPT ![r] = "none"]
    /\ UNCHANGED sends

Send(r) ==
    /\ outcome[r] = "none"
    /\ sends' = [sends EXCEPT ![r] = @ + 1]
    /\ UNCHANGED outcome

Settle(r) ==
    /\ outcome[r] = "none"
    /\ \E o \in {"delivered", "failed"} : outcome' = [outcome EXCEPT ![r] = o]
    /\ UNCHANGED sends

Next == \E r \in Rows : Write(r) \/ Send(r) \/ Settle(r)

Spec == Init /\ [][Next]_vars

=============================================================================
