---------------------------- MODULE MCMcpClient -----------------------------
(* Instances of McpClient for TLC: a server with four tools, one          *)
(* goroutine per notification, and another user of the tool box who wants  *)
(* one of the same names.                                                  *)
EXTENDS McpClient, TLC

CONSTANTS s1, s2, s3, s4,       \* tools the server may publish
          p, q, e, h1, h2, h3, h4,  \* tool names: plain ones, the empty one, hashed ones
          r1, r2, c1, c2        \* goroutines

MCNames == {p, q, e, h1, h2, h3, h4}
MCValidNames == MCNames \ {e}
MCServerTools == {s1, s2, s3, s4}
MCHashedName == (s1 :> h1) @@ (s2 :> h2) @@ (s3 :> h3) @@ (s4 :> h4)

\* Two names collide once sanitized, one is empty and so refused by the box.
MCPlainName == (s1 :> p) @@ (s2 :> p) @@ (s3 :> e) @@ (s4 :> q)

\* Lists that collide, that hold an excluded tool, that cannot be registered.
MCListings == {<<s1, s2>>, <<s4, s2>>, <<s2, s3>>}
ShortListings == {<<s1>>, <<s4>>}
OneCloser == {c1}
TwoRefreshers == {r1, r2}
=============================================================================
