------------------------- MODULE MCSessionLifecycle -------------------------
EXTENDS SessionLifecycle

\* A plain message, and one stored as context under the accumulate policy.
Chat    == [kind |-> "chat", trigger |-> 1]
Context == [kind |-> "chat", trigger |-> 0]
Clear   == [kind |-> "clear", trigger |-> 1]
Task    == [kind |-> "task", trigger |-> 1]

ChatOnly == {Chat}

\* Task rows behave as chat rows do and may have a script to run first.
Working  == {Task, Clear, Context}

=============================================================================
