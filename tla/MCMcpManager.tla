---------------------------- MODULE MCMcpManager ----------------------------
(* Two callers, two servers and one tool box.  The second server is        *)
(* registered without a prefix, and its one tool has the name of a tool    *)
(* of the first.                                                           *)
EXTENDS McpServers, TLC

CONSTANTS c1, c2, n1, n2, t1, both

MCCallers == {c1, c2}
MCNames == {n1, n2}
MCToolNames == {t1, both}
MCToolsOf == (n1 :> {t1, both}) @@ (n2 :> {both})
MCNoPrefix == {n2}
=============================================================================
