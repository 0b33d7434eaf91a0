------------------------------ MODULE MCNewsRisk ------------------------------
(* Every calendar of up to two events, at times on and around the bounds of  *)
(* the windows a clock of 5 minute steps meets.                              *)
EXTENDS NewsRisk

MCEvents == [time : {20, 40, 65, 100}, importance : {"low", "medium", "high"}, keyword : BOOLEAN]
MCCalendars == {{a, b} : a \in MCEvents, b \in MCEvents} \cup {{}}
=============================================================================
