----------------------------- MODULE IdleReader -----------------------------
(***************************************************************************)
(* rest.WithIdleTimeout (src/internal/rest/stream.go): the body of a       *)
(* streamed reply, read by one goroutine, and a timer that closes it.      *)
(*                                                                         *)
(* Time passes in ticks, also between two Reads, while the consumer works  *)
(* on what it has read.  The timer's function runs in a goroutine of its   *)
(* own: it may start late, and anything may happen between its two lines.  *)
(***************************************************************************)
EXTENDS Integers

CONSTANTS
  Timeout,     (* WithIdleTimeout's timeout, in ticks                      *)
  MaxChunks    (* bound: what the server sends                             *)

VARIABLES
  sent, pending,  (* chunks sent, not read yet                             *)
  ended,       (* "no", "eof" or "broken": how the body ends               *)
  body,        (* the wrapped body: "open", "closed"                       *)
  rpc,         (* the reading goroutine                                    *)
  got, res,    (* what body.Read returned; what Read returned last         *)
  timer, left, (* "armed" or "off", and the ticks until it is due          *)
  fire,        (* the timer's function: "none", "store", "close"           *)
  expired

serverVars == <<sent, pending, ended>>
readVars   == <<rpc, got, res>>
timerVars  == <<timer, left>>
vars == <<serverVars, body, readVars, timerVars, fire, expired>>

Init ==
  /\ sent = 0 /\ pending = 0 /\ ended = "no"
  /\ body = "open"
  /\ rpc = "idle" /\ got = "none" /\ res = "none"
  /\ timer = "armed" /\ left = Timeout
  /\ fire = "none" /\ expired = FALSE

-----------------------------------------------------------------------------
(* The server, and time.                                                   *)

Send ==
  /\ ended = "no" /\ sent < MaxChunks
  /\ sent' = sent + 1 /\ pending' = pending + 1
  /\ UNCHANGED <<ended, body, readVars, timerVars, fire, expired>>

(* The server is done, or the connection breaks; a context that ends       *)
(* breaks it too.                                                          *)
End ==
  /\ ended = "no"
  /\ ended' \in {"eof", "broken"}
  /\ UNCHANGED <<sent, pending, body, readVars, timerVars, fire, expired>>

Tick ==
  /\ timer = "armed" /\ left > 0
  /\ left' = left - 1
  /\ UNCHANGED <<serverVars, body, readVars, timer, fire, expired>>

-----------------------------------------------------------------------------
(* Read.                                                                   *)

BeginRead ==
  /\ rpc = "idle" /\ res \in {"none", "data"}
  /\ rpc' = "reading"
  /\ UNCHANGED <<serverVars, body, got, res, timerVars, fire, expired>>

(* body.Read: data, the end of the body, the error of a connection that    *)
(* broke, with or without what it had sent, or that of a closed body.      *)
BodyRead ==
  /\ rpc = "reading"
  /\ \/ body = "open" /\ pending > 0 /\ pending' = pending - 1 /\ got' = "data"
     \/ body = "open" /\ pending = 0 /\ ended = "eof" /\ got' = "eof" /\ UNCHANGED pending
     \/ body = "open" /\ ended = "broken" /\ got' = "broken" /\ UNCHANGED pending
     \/ body = "closed" /\ got' = "error" /\ UNCHANGED pending
  /\ rpc' = "check"
  /\ UNCHANGED <<sent, ended, body, res, timerVars, fire, expired>>

CheckExpired ==
  /\ rpc = "check"
  /\ IF expired THEN rpc' = "idle" /\ res' = "timeout" /\ got' = "none"
                ELSE rpc' = "reset" /\ UNCHANGED <<res, got>>
  /\ UNCHANGED <<serverVars, body, timerVars, fire, expired>>

(* timer.Reset, which also arms a timer that has fired meanwhile.          *)
ResetTimer ==
  /\ rpc = "reset"
  /\ timer' = "armed" /\ left' = Timeout
  /\ rpc' = "idle" /\ res' = got /\ got' = "none"
  /\ UNCHANGED <<serverVars, body, fire, expired>>

-----------------------------------------------------------------------------
(* The function of the timer.                                              *)

(* Mutant of Fire: the timer is created, and never armed.                  *)
FireNever == FALSE /\ UNCHANGED vars

Fire ==
  /\ timer = "armed" /\ left = 0 /\ fire = "none"
  /\ timer' = "off" /\ fire' = "store"
  /\ UNCHANGED <<serverVars, body, readVars, left, expired>>

(* Mutant of Expire: the body is closed before expired is stored.          *)
ExpireSwapped ==
  /\ \/ fire = "store" /\ body' = "closed" /\ fire' = "close" /\ UNCHANGED expired
     \/ fire = "close" /\ expired' = TRUE /\ fire' = "none" /\ UNCHANGED body
  /\ UNCHANGED <<serverVars, readVars, timerVars>>

Expire ==
  /\ \/ fire = "store" /\ expired' = TRUE /\ fire' = "close" /\ UNCHANGED body
     \/ fire = "close" /\ body' = "closed" /\ fire' = "none" /\ UNCHANGED expired
  /\ UNCHANGED <<serverVars, readVars, timerVars>>

-----------------------------------------------------------------------------
(* Close, which the reading goroutine defers.                              *)

(* Mutant of StopTimer: Close closes the body only.                        *)
StopTimerSkipped ==
  /\ rpc = "idle"
  /\ rpc' = "closing"
  /\ UNCHANGED <<serverVars, body, got, res, timerVars, fire, expired>>

StopTimer ==
  /\ rpc = "idle"
  /\ timer' = "off" /\ left' = 0 /\ rpc' = "closing"
  /\ UNCHANGED <<serverVars, body, got, res, fire, expired>>

CloseBody ==
  /\ rpc = "closing"
  /\ body' = "closed" /\ rpc' = "closed"
  /\ UNCHANGED <<serverVars, got, res, timerVars, fire, expired>>

-----------------------------------------------------------------------------
Reading == BodyRead \/ CheckExpired \/ ResetTimer \/ CloseBody

Next == Send \/ End \/ Tick \/ BeginRead \/ Reading \/ Fire \/ Expire \/ StopTimer

Spec == Init /\ [][Next]_vars

-----------------------------------------------------------------------------
(* What must hold.                                                         *)

(* The type invariant: every variable of the body, the reader and the      *)
(* timer keeps to its type.                                                *)
TypeOK ==
  /\ sent \in 0..MaxChunks /\ pending \in 0..sent /\ ended \in {"no", "eof", "broken"}
  /\ body \in {"open", "closed"}
  /\ rpc \in {"idle", "reading", "check", "reset", "closing", "closed"}
  /\ got \in {"none", "data", "eof", "broken", "error"}
  /\ res \in {"none", "data", "eof", "broken", "error", "timeout"}
  /\ timer \in {"armed", "off"} /\ left \in 0..Timeout
  /\ fire \in {"none", "store", "close"} /\ expired \in BOOLEAN

(* A Read that the timer cut short says so: the caller never sees the bare *)
(* error of a closed body, which would read like a connection that broke.  *)
StallReported == res # "error"

(* A closed reader holds neither its body nor a timer that would run on    *)
(* for minutes.                                                            *)
ClosedIsReleased == rpc = "closed" => body = "closed" /\ timer = "off"

(* Nothing closes the body of an open reader but a timer that has stored   *)
(* expired first, so whoever is refused by the body finds expired stored,  *)
(* and never resets the timer; and a reader that closes has stopped it.    *)
TimerInv ==
  /\ fire = "close" \/ (body = "closed" /\ rpc # "closed") => expired
  /\ got = "error" => expired /\ rpc # "reset"
  /\ rpc = "closing" => timer = "off"

(* The inductive invariant: the types, the properties and the part that    *)
(* makes them inductive, which every step keeps.                           *)
IInv == TypeOK /\ TimerInv /\ StallReported /\ ClosedIsReleased
=============================================================================
