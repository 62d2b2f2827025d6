------------------------------ MODULE Positions ------------------------------
(***************************************************************************)
(* What a reader has taken from a stream, told by where it was sent: a     *)
(* piece by its position, a piece of a piece by a pair of positions.       *)
(***************************************************************************)
EXTENDS Naturals, Sequences

(* Everything that was sent at the positions S, once and in order.         *)
Lists(s, S) ==
  /\ S = {s[i] : i \in 1..Len(s)}
  /\ \A i, j \in 1..Len(s) : i < j => s[i] < s[j]

Before(p, q) == p[1] < q[1] \/ (p[1] = q[1] /\ p[2] < q[2])

ListsPairs(s, S) ==
  /\ S = {s[i] : i \in 1..Len(s)}
  /\ \A i, j \in 1..Len(s) : i < j => Before(s[i], s[j])

(* The last of the positions S, or none where there are none.              *)
LatestOf(p, S, none) ==
  IF S = {} THEN p = none ELSE p \in S /\ \A q \in S : q = p \/ Before(q, p)
=============================================================================
