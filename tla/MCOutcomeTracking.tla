-------------------------- MODULE MCOutcomeTracking --------------------------
EXTENDS OutcomeTracking, TLC

CONSTANTS t1, t2, s1, s2

MCTwo == {t1, t2}
MCOne == {t1}
MCIds == {s1, s2}
MCId == {s1}

Long == [direction |-> "long", stop |-> -1, tp1 |-> 2, tp2 |-> 3]
Short == [direction |-> "short", stop |-> 1, tp1 |-> -3, tp2 |-> -4]
NoDirection == [direction |-> "none", stop |-> 0, tp1 |-> 0, tp2 |-> 0]
MCPlans == {Long, Short}
MCFew == {Long, NoDirection}

(* Nothing; the long's stop and first target; its second target and the    *)
(* short's stop; the long's stop and the short's first target.             *)
MCRanges ==
    {[low |-> 0, high |-> 0], [low |-> -1, high |-> 2], [low |-> 0, high |-> 3],
     [low |-> -3, high |-> 0]}
MCPlain == {[low |-> 0, high |-> 0], [low |-> 0, high |-> 2]}

MCManual == {"sl_hit"}
MCNoManual == {}

Symmetric == Permutations(MCTwo) \cup Permutations(MCIds)
=============================================================================
