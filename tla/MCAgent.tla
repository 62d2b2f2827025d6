------------------------------ MODULE MCAgent -------------------------------
(* Two models, one whose window the reported tokens exceed only just.      *)
EXTENDS Agent, TLC

CONSTANTS c1, c2, m1, m2

TwoIds == {c1, c2}
TwoModels == {m1, m2}
\* At 50 percent: a threshold of 5, and of 6 for the other model.
Sizes == (m1 :> 11) @@ (m2 :> 12)
=============================================================================
