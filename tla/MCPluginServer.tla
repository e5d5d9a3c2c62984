--------------------------- MODULE MCPluginServer ---------------------------
EXTENDS PluginServer

TwoSenders == [m \in Messages |-> IF m = "m1" THEN "s1" ELSE "s2"]
=============================================================================
