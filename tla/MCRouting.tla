---------------------------- MODULE MCRouting -------------------------------
(* Two agents on one chat, one ordinary sender, an admin and an anonymous    *)
(* one; wirings and messages chosen so that each gate is decisive somewhere. *)
EXTENDS Routing

\* The fan-out visits a1 first.
Order == [a \in Agents |-> IF a = "a1" THEN 1 ELSE 2]

W(mode, scope, ignored) == [mode |-> mode, scope |-> scope, ignored |-> ignored]

\* No wiring yet; both agents engaged by all; a listener beside a mention agent
\* that keeps context; an agent with its own sender scope before a listener.
Wirings ==
    LET none == Unwired
    IN  {[a \in Agents |-> none],
         [a \in Agents |-> W("always", "all", "drop")],
         [a \in Agents |-> IF a = "a1" THEN W("pattern", "all", "drop")
                                       ELSE W("mention", "all", "accumulate")],
         [a \in Agents |-> IF a = "a1" THEN W("always", "known", "drop")
                                       ELSE W("pattern", "all", "drop")]}

M(user, mention, matches, text) ==
    [user |-> user, mention |-> mention, matches |-> matches, text |-> text, thread |-> "t1"]

Incoming ==
    {M("u", TRUE, TRUE, "plain"), M("u", FALSE, FALSE, "plain"),
     M("admin", TRUE, FALSE, "admin"), M("nobody", TRUE, FALSE, "plain"),
     M("u", TRUE, TRUE, "admin"), M("admin", FALSE, TRUE, "filtered")}
=============================================================================
