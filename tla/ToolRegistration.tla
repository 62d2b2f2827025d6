-------------------------- MODULE ToolRegistration --------------------------
(***************************************************************************)
(* What an MCP client promises about the tools it registers, without       *)
(* threads, locks or a tool box: while it is live it offers nothing or one *)
(* catalog the server really published, a catalog is withdrawn before the  *)
(* next one replaces it, and once the client has ended it offers nothing   *)
(* ever again.                                                             *)
(***************************************************************************)

CONSTANT Catalogs  (* the sets of names one published list registers       *)

VARIABLES live, catalog

vars == <<live, catalog>>

Init == live = TRUE /\ catalog = {}

Withdraw == catalog # {} /\ catalog' = {} /\ UNCHANGED live

Offer == live /\ catalog = {} /\ catalog' \in Catalogs /\ UNCHANGED live

End == live /\ live' = FALSE /\ catalog' = {}

Next == Withdraw \/ Offer \/ End

Spec == Init /\ [][Next]_vars
=============================================================================
