----------------------------- MODULE MCOperations -----------------------------
EXTENDS Operations

CONSTANTS w1, w2, j1

MCWeb == {w1, w2}
MCWorkers == {j1}
MCNoWorkers == {}

First == [instruments |-> {"EUR_USD"}, flags |-> {"ALERTS_ENABLED"}, strategies |-> {"v1"}]
(* The second release adds a flag with its strategy, the third a strategy  *)
(* only, as CONTRIBUTING.md has it.                                        *)
Second == [First EXCEPT !.flags = @ \cup {"NEW_FLAG"}, !.strategies = @ \cup {"v2"}]
MCReleases == <<First, Second, [Second EXCEPT !.strategies = @ \cup {"v3"}]>>
===============================================================================
