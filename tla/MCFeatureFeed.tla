----------------------------- MODULE MCFeatureFeed -----------------------------
EXTENDS FeatureFeed

Bar(low, high, close) == [low |-> low, high |-> high, close |-> close]

(* A wide bar that closes at its high, a narrow one inside, and one that    *)
(* opens far above.                                                        *)
MCCandles == {Bar(0, 2, 2), Bar(1, 1, 1), Bar(5, 5, 5)}

(* Wide and narrow bars around one close. *)
MCChoppy == {Bar(0, 2, 1), Bar(1, 1, 1)}
=============================================================================
