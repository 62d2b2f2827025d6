------------------------------- MODULE MCChat --------------------------------
(* Three callers, one of whose chats is streamed, two models the client    *)
(* may be switched between and one it may not; one caller has no deadline. *)
EXTENDS Chat

CONSTANTS a, b, d, m1, m2, m3, e1, bad

MCCallers == {a, b, d}
MCModels == {m1, m2, m3}
MCConfigured == {m2}
MCEfforts == {e1}
MCPatient == {d}
=============================================================================
