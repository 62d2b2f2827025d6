-------------------------------- MODULE Run ---------------------------------
(***************************************************************************)
(* command.Run (src/internal/command/run.go) on top of Process: it starts  *)
(* a process without a stdin, which may fail, collects its output until    *)
(* the output ends, the limit is passed or the context ends, and waits for *)
(* the exit that OnExit reports.  Run is the process's one consumer and    *)
(* its one caller of Close, which it defers.  Output is measured in lines  *)
(* of equal size.                                                          *)
(***************************************************************************)
EXTENDS Process

CONSTANTS
  Runner,     (* the goroutine of Run: of Callers, the only one that acts  *)
  MaxOutput   (* MaxOutputBytes, in lines; 0 is no limit                   *)

ASSUME RunAssumption == Runner \in Callers /\ MaxOutput \in Nat

VARIABLES
  rpc,        (* "start", "collect", "truncate", "await", "defer",         *)
              (* "returned"                                                *)
  truncated,  (* of the RunResult                                          *)
  res,        (* how the command of the RunResult ended, or the error:     *)
              (* "unstarted", "canceled", "failed" for a wait that failed  *)
  ctxDone

runVars == <<rpc, truncated, res, ctxDone>>
vars == <<processVars, runVars>>

RunInit ==
  /\ Init
  /\ rpc = "start" /\ truncated = FALSE /\ res = "none" /\ ctxDone = FALSE

(* NewProcess, without a stdin, whether the context has ended or not: an   *)
(* error is returned, and nothing is deferred yet.                         *)
Start ==
  /\ rpc = "start"
  /\ \/ NewProcess /\ writer' = "off" /\ rpc' = "collect" /\ UNCHANGED res
     \/ rpc' = "returned" /\ res' = "unstarted" /\ UNCHANGED processVars
  /\ UNCHANGED <<truncated, ctxDone>>

CtxEnds == ~ctxDone /\ ctxDone' = TRUE /\ UNCHANGED <<processVars, rpc, truncated, res>>

(* The deferred process.Close(), which is also what a truncation calls.    *)
StartClose == cpc' = [cpc EXCEPT ![Runner] = "enter"]

closeRest == <<procVars, reapVars, closing, owner, onceDone, inputVars>>

(* collect receives a line; the one that passes the limit is kept.         *)
TakeLine ==
  /\ rpc = "collect" /\ reader = "send"
  /\ reader' = "scan" /\ delivered' = delivered + 1
  /\ IF MaxOutput > 0 /\ delivered' > MaxOutput
     THEN truncated' = TRUE /\ rpc' = "truncate" /\ StartClose
     ELSE UNCHANGED <<truncated, rpc, cpc>>
  /\ UNCHANGED <<closeRest, written, buffered, res, ctxDone>>

(* Close, called by collect, has returned.                                 *)
Truncated ==
  /\ rpc = "truncate" /\ cpc[Runner] = "returned"
  /\ rpc' = "await"
  /\ UNCHANGED <<processVars, truncated, res, ctxDone>>

(* Mutant of OutputEnds: the exit is taken for the end of the output.      *)
OutputEndsAtExit ==
  /\ rpc = "collect" /\ exited
  /\ rpc' = "await"
  /\ UNCHANGED <<processVars, truncated, res, ctxDone>>

OutputEnds ==
  /\ rpc = "collect" /\ reader = "done"
  /\ rpc' = "await"
  /\ UNCHANGED <<processVars, truncated, res, ctxDone>>

(* Mutant of Canceled: the error is returned without the deferred Close.   *)
CanceledUnclosed ==
  /\ rpc \in {"collect", "await"} /\ ctxDone
  /\ rpc' = "returned" /\ res' = "canceled"
  /\ UNCHANGED <<processVars, truncated, ctxDone>>

(* The context ends, in collect or while Run waits for the exit.           *)
Canceled ==
  /\ rpc \in {"collect", "await"} /\ ctxDone
  /\ rpc' = "defer" /\ res' = "canceled" /\ StartClose
  /\ UNCHANGED <<closeRest, outVars, reader, truncated, ctxDone>>

(* OnExit has put the exit in the buffered channel: a status, or the error *)
(* of a wait that could not tell one.                                      *)
Exited ==
  /\ rpc = "await" /\ notified > 0
  /\ rpc' = "defer" /\ res' \in {how, "failed"} /\ StartClose
  /\ UNCHANGED <<closeRest, outVars, reader, truncated, ctxDone>>

Returns ==
  /\ rpc = "defer" /\ cpc[Runner] = "returned"
  /\ rpc' = "returned"
  /\ UNCHANGED <<processVars, truncated, res, ctxDone>>

RunStep == Start \/ TakeLine \/ Truncated \/ OutputEnds \/ Canceled \/ Exited \/ Returns

RunNext == \/ RunStep \/ CtxEnds
           \/ (Goroutines \/ World) /\ UNCHANGED runVars

RunSpec == RunInit /\ [][RunNext]_vars
-----------------------------------------------------------------------------
(* A result that is not truncated holds all the output there will ever be, *)
(* also that of a child which outlives the command.                        *)
ResultIsWhole ==
  res \in {"own", "signal"} /\ ~truncated => delivered = written /\ holders = {}

(* Whatever way Run returns, with a result or with one of its errors, the  *)
(* command is no longer running; only one that never started is not reaped *)
(* either.                                                                 *)
NothingLeftRunning ==
  rpc = "returned" => ~alive /\ (exited \/ how = "unstarted")

=============================================================================
