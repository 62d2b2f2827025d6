-------------------------- MODULE MCPendingRequest --------------------------
(* Two calls and two progress goroutines.                                  *)
EXTENDS PendingRequest

CONSTANTS k1, k2, g1, g2

MCCalls == {k1, k2}
MCResetters == {g1, g2}
=============================================================================
