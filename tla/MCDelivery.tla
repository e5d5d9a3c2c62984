----------------------------- MODULE MCDelivery -----------------------------
EXTENDS Delivery, TLC

\* Two rows of one session, one of them on the coda channel, and one of another.
TwoSessions == (1 :> "s1") @@ (2 :> "s1") @@ (3 :> "s2")

\* One row of each session.
OneEach == (1 :> "s1") @@ (2 :> "s2")

=============================================================================
