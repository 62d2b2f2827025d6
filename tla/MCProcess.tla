----------------------------- MODULE MCProcess ------------------------------
(* A caller of Close beside the reader, which also calls it, two Writes,   *)
(* and a child that may outlive the process.                               *)
EXTENDS Process

CONSTANTS c1, w1, w2

OneCaller == {c1}
MCWriters == {w1, w2}
=============================================================================
