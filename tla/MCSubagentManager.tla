------------------------- MODULE MCSubagentManager --------------------------
(* Two names and three registrations: the second name is registered again. *)
EXTENDS SubagentManager, TLC

CONSTANTS q1, q2, q3,      \* registrations
          n1, n2,          \* names
          a1, a2, a3,      \* agents
          b1, b2, b3,      \* boxes
          t1, t2,          \* runs
          f1, f2           \* feedbacks

MCRegs == {q1, q2, q3}
TwoRegs == {q1, q2}
MCNames == {n1, n2}
MCAgents == {a1, a2, a3}
MCBoxes == {b1, b2, b3}
TwoRuns == {t1, t2}
MCFeedbacks == {f1, f2}
MCNameOf == (q1 :> n1) @@ (q2 :> n2) @@ (q3 :> n2)
OneName == (q1 :> n1) @@ (q2 :> n1)
MCAgentOf == (q1 :> a1) @@ (q2 :> a2) @@ (q3 :> a3)
MCBoxOf == (q1 :> b1) @@ (q2 :> b2) @@ (q3 :> b3)
TwoDistinct == (q1 :> a1) @@ (q2 :> a2)
TwoBoxes == (q1 :> b1) @@ (q2 :> b2)
=============================================================================
