--------------------------- MODULE PendingRequest ---------------------------
(***************************************************************************)
(* The idle timeout of MCP tool calls (src/mcp/pending.go), used by        *)
(* Client.makeHandler: every call has a resettable timer that cancels its  *)
(* context, progress notifications restart the timer from goroutines of    *)
(* their own, and the end of the call stops it.                            *)
(*                                                                         *)
(* A call is identified with its request token, which token.New draws      *)
(* afresh for every call.  Time passes in ticks; left[c] counts down what  *)
(* remains of a timer.  The runtime may fire a timer late, never early.    *)
(***************************************************************************)
EXTENDS Integers

CONSTANTS
  Calls,        (* tool calls, by their token                              *)
  Resetters,    (* goroutines running onProgress                           *)
  NoCall, NoOne,
  Timeout,      (* ClientConfig.ToolCallTimeout, in ticks                  *)
  MaxProgress   (* bound: progress notifications                           *)

Lockers == Calls \cup Resetters

ASSUME PendingAssumption ==
  /\ Timeout \in Nat \ {0} /\ MaxProgress \in Nat
  /\ Calls \cap Resetters = {}
  /\ NoOne \notin Lockers /\ NoCall \notin Calls

VARIABLES
  pc,        (* the goroutine of each call                                 *)
  requests,  (* pendingRequest.requests: the tokens in the map             *)
  timer,     (* resettableTimeout.timer: "unset", "armed", "stopped", "fired" *)
  left,      (* ticks until an armed timer is due                          *)
  firing,    (* the timer's function has been started and has not run yet  *)
  cause,     (* why the call's context ended, or "none"                    *)
  rmu,       (* who holds resettableTimeout.mu                             *)
  rpc, rcall,(* each resetter: where it is, and the token it was given     *)
  progress,  (* notifications so far                                       *)
  quiet      (* history: ticks since the call began or was last restarted  *)

callVars  == <<pc, requests>>
timerVars == <<timer, left, firing, quiet>>
resetVars == <<rpc, rcall, progress>>
vars == <<callVars, timerVars, resetVars, cause, rmu>>

Init ==
  /\ pc = [c \in Calls |-> "idle"]
  /\ requests = {}
  /\ timer = [c \in Calls |-> "unset"]
  /\ left = [c \in Calls |-> 0] /\ quiet = [c \in Calls |-> 0]
  /\ firing = [c \in Calls |-> FALSE]
  /\ cause = [c \in Calls |-> "none"]
  /\ rmu = [c \in Calls |-> NoOne]
  /\ rpc = [g \in Resetters |-> "idle"] /\ rcall = [g \in Resetters |-> NoCall]
  /\ progress = 0

-----------------------------------------------------------------------------
(* The call: makeHandler around sdkClient.execute.                         *)

Goto(c, to) == pc' = [pc EXCEPT ![c] = to]

(* context.CancelCauseFunc: the first cause stays.                         *)
Cancel(c, why) ==
  cause' = [cause EXCEPT ![c] = IF @ = "none" THEN why ELSE @]

(* newResettableTimeout, all of it under pendingRequest.mu.                *)
Begin(c) ==
  /\ pc[c] = "idle"
  /\ requests' = requests \cup {c}
  /\ timer' = [timer EXCEPT ![c] = "armed"]
  /\ left' = [left EXCEPT ![c] = Timeout]
  /\ quiet' = [quiet EXCEPT ![c] = 0]
  /\ Goto(c, "executing")
  /\ UNCHANGED <<firing, resetVars, cause, rmu>>

(* The server answers, the session breaks, or the context is done; either  *)
(* way execute returns and the deferred stop runs.                         *)
Answered(c) ==
  /\ pc[c] = "executing"
  /\ Goto(c, "stop")
  /\ UNCHANGED <<requests, timerVars, resetVars, cause, rmu>>

Cancelled(c) ==
  /\ pc[c] = "executing" /\ cause[c] # "none"
  /\ Goto(c, "stop")
  /\ UNCHANGED <<requests, timerVars, resetVars, cause, rmu>>

(* stop: take the token out of the map ...                                 *)
StopLookup(c) ==
  /\ pc[c] = "stop"
  /\ requests' = requests \ {c}
  /\ Goto(c, IF c \in requests THEN "stopLock" ELSE "done")
  /\ UNCHANGED <<timerVars, resetVars, cause, rmu>>

(* ... then lock the timeout, stop its timer ...                           *)
StopLock(c) ==
  /\ pc[c] = "stopLock" /\ rmu[c] = NoOne
  /\ rmu' = [rmu EXCEPT ![c] = c]
  /\ Goto(c, "stopTimer")
  /\ UNCHANGED <<requests, timerVars, resetVars, cause>>

(* time.Timer.Stop disarms a timer that has not fired yet.                 *)
Disarmed(state) == IF state = "armed" THEN "stopped" ELSE state

StopTimer(c) ==
  /\ pc[c] = "stopTimer"
  /\ timer' = [timer EXCEPT ![c] = Disarmed(@)]
  /\ Goto(c, "stopCancel")
  /\ UNCHANGED <<requests, left, firing, quiet, resetVars, cause, rmu>>

(* ... and cancel the context, unlocking.                                  *)
StopCancel(c) ==
  /\ pc[c] = "stopCancel"
  /\ Cancel(c, "canceled")
  /\ rmu' = [rmu EXCEPT ![c] = NoOne]
  /\ Goto(c, "done")
  /\ UNCHANGED <<requests, timerVars, resetVars>>

-----------------------------------------------------------------------------
(* reset, on a goroutine started by progressNotification.                  *)

Resets(g, to) == rpc' = [rpc EXCEPT ![g] = to]

(* The token names a call the client made, maybe one that is over.         *)
Notify(g, c) ==
  /\ rpc[g] = "idle" /\ progress < MaxProgress /\ pc[c] # "idle"
  /\ rcall' = [rcall EXCEPT ![g] = c]
  /\ progress' = progress + 1
  /\ Resets(g, "lookup")
  /\ UNCHANGED <<callVars, timerVars, cause, rmu>>

(* The map is read under pendingRequest.mu and released at once.           *)
ResetLookup(g) ==
  /\ rpc[g] = "lookup"
  /\ Resets(g, IF rcall[g] \in requests THEN "lock" ELSE "idle")
  /\ UNCHANGED <<callVars, timerVars, rcall, progress, cause, rmu>>

(* Mutant of ResetLock: the timeout's own mutex is not taken.              *)
ResetLockFree(g) ==
  /\ rpc[g] = "lock"
  /\ Resets(g, "stop")
  /\ UNCHANGED <<callVars, timerVars, rcall, progress, cause, rmu>>

ResetLock(g) ==
  /\ rpc[g] = "lock" /\ rmu[rcall[g]] = NoOne
  /\ rmu' = [rmu EXCEPT ![rcall[g]] = g]
  /\ Resets(g, "stop")
  /\ UNCHANGED <<callVars, timerVars, rcall, progress, cause>>

(* Mutant of ResetStop: the result of timer.Stop is ignored.               *)
ResetStopIgnored(g) ==
  /\ rpc[g] = "stop"
  /\ timer' = [timer EXCEPT ![rcall[g]] = Disarmed(@)]
  /\ Resets(g, "restart")
  /\ UNCHANGED <<callVars, left, firing, quiet, rcall, progress, cause, rmu>>

(* timer.Stop() reports whether it disarmed the timer; if it did not, the  *)
(* timer fired or the call is over, and it is left alone.                  *)
ResetStop(g) ==
  LET c == rcall[g] IN
  /\ rpc[g] = "stop"
  /\ timer' = [timer EXCEPT ![c] = Disarmed(@)]
  /\ \/ timer[c] = "armed" /\ Resets(g, "restart") /\ UNCHANGED rmu
     \/ /\ timer[c] # "armed" /\ Resets(g, "idle")
        /\ rmu' = [rmu EXCEPT ![c] = NoOne]
  /\ UNCHANGED <<callVars, left, firing, quiet, rcall, progress, cause>>

(* Mutant of ResetRestart: the timer goes on where it was stopped.         *)
ResetResume(g) ==
  LET c == rcall[g] IN
  /\ rpc[g] = "restart"
  /\ timer' = [timer EXCEPT ![c] = "armed"]
  /\ quiet' = [quiet EXCEPT ![c] = 0]
  /\ rmu' = [rmu EXCEPT ![c] = NoOne]
  /\ Resets(g, "idle")
  /\ UNCHANGED <<callVars, left, firing, rcall, progress, cause>>

(* timer.Reset(r.timeout), and unlock.                                     *)
ResetRestart(g) ==
  LET c == rcall[g] IN
  /\ rpc[g] = "restart"
  /\ timer' = [timer EXCEPT ![c] = "armed"]
  /\ left' = [left EXCEPT ![c] = Timeout]
  /\ quiet' = [quiet EXCEPT ![c] = 0]
  /\ rmu' = [rmu EXCEPT ![c] = NoOne]
  /\ Resets(g, "idle")
  /\ UNCHANGED <<callVars, firing, rcall, progress, cause>>

-----------------------------------------------------------------------------
(* The runtime and the caller's own context.                               *)

Tick ==
  /\ \E c \in Calls : timer[c] = "armed" /\ left[c] > 0
  /\ left' = [c \in Calls |->
               IF timer[c] = "armed" /\ left[c] > 0 THEN left[c] - 1 ELSE left[c]]
  /\ quiet' = [c \in Calls |->
               IF timer[c] = "armed" /\ left[c] > 0 THEN quiet[c] + 1 ELSE quiet[c]]
  /\ UNCHANGED <<callVars, timer, firing, resetVars, cause, rmu>>

(* The timer is due: from now on Stop reports false, and its function runs *)
(* on a goroutine of its own.                                              *)
Fire(c) ==
  /\ timer[c] = "armed" /\ left[c] = 0
  /\ timer' = [timer EXCEPT ![c] = "fired"]
  /\ firing' = [firing EXCEPT ![c] = TRUE]
  /\ UNCHANGED <<callVars, left, quiet, resetVars, cause, rmu>>

(* Mutant of FireCancel: the function of the timer does nothing.           *)
FireIgnored(c) ==
  /\ firing[c]
  /\ firing' = [firing EXCEPT ![c] = FALSE]
  /\ UNCHANGED <<callVars, timer, left, quiet, resetVars, cause, rmu>>

FireCancel(c) ==
  /\ firing[c]
  /\ firing' = [firing EXCEPT ![c] = FALSE]
  /\ Cancel(c, "timeout")
  /\ UNCHANGED <<callVars, timer, left, quiet, resetVars, rmu>>

(* The caller's context ends, which ends the derived one.                  *)
ParentCancels(c) ==
  /\ pc[c] # "idle" /\ cause[c] = "none"
  /\ Cancel(c, "parent")
  /\ UNCHANGED <<callVars, timerVars, resetVars, rmu>>

-----------------------------------------------------------------------------
CallStep(c) ==
  StopLookup(c) \/ StopLock(c) \/ StopTimer(c) \/ StopCancel(c) \/ Cancelled(c)

ResetStep(g) ==
  ResetLookup(g) \/ ResetLock(g) \/ ResetStop(g) \/ ResetRestart(g)

TimerStep(c) == Fire(c) \/ FireCancel(c)

Finished ==
  /\ \A c \in Calls : pc[c] = "done" /\ ~firing[c]
  /\ \A g \in Resetters : rpc[g] = "idle"
  /\ UNCHANGED vars

Next ==
  \/ \E c \in Calls :
       Begin(c) \/ Answered(c) \/ CallStep(c) \/ TimerStep(c) \/ ParentCancels(c)
  \/ \E g \in Resetters : ResetStep(g) \/ \E c \in Calls : Notify(g, c)
  \/ Tick \/ Finished

(* Time passes, due timers fire and goroutines run; a server is never      *)
(* obliged to answer, nor a caller to cancel.                              *)
Fairness ==
  /\ WF_vars(Tick)
  /\ \A c \in Calls : WF_vars(CallStep(c)) /\ WF_vars(TimerStep(c))
  /\ \A g \in Resetters : WF_vars(ResetStep(g))

Spec == Init /\ [][Next]_vars
FairSpec == Spec /\ Fairness

-----------------------------------------------------------------------------
(* What must hold.                                                         *)

(* The type invariant: every variable of the calls, timers and locks keeps *)
(* to its type.                                                            *)
TypeOK ==
  /\ pc \in [Calls -> {"idle", "executing", "stop", "stopLock", "stopTimer",
                       "stopCancel", "done"}]
  /\ requests \subseteq Calls
  /\ timer \in [Calls -> {"unset", "armed", "stopped", "fired"}]
  /\ left \in [Calls -> Nat] /\ quiet \in [Calls -> Nat]
  /\ firing \in [Calls -> BOOLEAN]
  /\ cause \in [Calls -> {"none", "timeout", "canceled", "parent"}]
  /\ rmu \in [Calls -> Lockers \cup {NoOne}]
  /\ rpc \in [Resetters -> {"idle", "lookup", "lock", "stop", "restart"}]
  /\ rcall \in [Resetters -> Calls \cup {NoCall}]
  /\ \A g \in Resetters : rpc[g] # "idle" => rcall[g] \in Calls
  /\ progress \in Nat

(* A resetter between timer.Stop and timer.Reset, and a call inside stop,  *)
(* exclude one another: the mutex of the timeout belongs to who is inside. *)
InCall(c) == pc[c] \in {"stopTimer", "stopCancel"}
InReset(g) == rpc[g] \in {"stop", "restart"}

MutexInv ==
  /\ \A c \in Calls : InCall(c) <=> rmu[c] = c
  /\ \A g \in Resetters, c \in Calls :
       rmu[c] = g <=> InReset(g) /\ rcall[g] = c

(* Once stop has disarmed the timer of a call nothing arms it again.       *)
DisarmedInv ==
  \A c \in Calls :
    /\ pc[c] = "idle" => timer[c] = "unset"
    /\ pc[c] \in {"stopCancel", "done"} => timer[c] # "armed"
    /\ \A g \in Resetters : rpc[g] = "restart" /\ rcall[g] = c =>
         /\ timer[c] = "stopped"
         /\ pc[c] \notin {"idle", "stopTimer", "stopCancel", "done"}

(* The map holds exactly the calls that have not begun to stop.            *)
RequestsInv ==
  \A c \in Calls : c \in requests <=> pc[c] \in {"executing", "stop"}

(* What has passed and what is left of an armed timer make up the timeout, *)
(* and nothing but a fired timer ends a call with a timeout.               *)
QuietInv ==
  \A c \in Calls :
    /\ timer[c] = "armed" => left[c] + quiet[c] = Timeout
    /\ timer[c] = "fired" => quiet[c] = Timeout
    /\ firing[c] \/ cause[c] = "timeout" => timer[c] = "fired"

(* The inductive invariant: the types and the parts named above, which     *)
(* every step keeps.                                                       *)
IInv == TypeOK /\ MutexInv /\ DisarmedInv /\ RequestsInv /\ QuietInv

(* A call that returned leaves no armed timer behind, although a progress  *)
(* notification may be restarting it at that very moment.                  *)
NoTimerAfterReturn == \A c \in Calls : pc[c] = "done" => timer[c] # "armed"

(* "It is an idle timeout: each progress notification from the server      *)
(* restarts it": a timer that fires has seen a whole Timeout pass since    *)
(* the last restart, and only such a timer ends a call with a timeout.     *)
TimeoutMeansQuiet ==
  \A c \in Calls :
    (timer[c] = "fired" \/ cause[c] = "timeout") => quiet[c] = Timeout

(* A fired timer is never armed again: ErrRequestTimeout is on its way, so *)
(* a restart now could only cancel the call a second time.                 *)
FiredStaysFired ==
  [][\A c \in Calls : timer[c] = "fired" => timer'[c] = "fired"]_vars

(* A call returns even when the server goes silent, and leaves the map.    *)
CallsReturn == \A c \in Calls : pc[c] = "executing" ~> pc[c] = "done" /\ c \notin requests
=============================================================================
