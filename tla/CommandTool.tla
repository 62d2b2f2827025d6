----------------------------- MODULE CommandTool -----------------------------
(***************************************************************************)
(* The tools that run a command, on top of Run: shell_run                  *)
(* (src/packs/shell.go) and the execution of a skill's script              *)
(* (src/skills/tools.go).  Each gives the command a context derived from   *)
(* the caller's, and turns what Run returns into what the model is told.   *)
(* shell_run always adds the timeout of the call; a script gets the        *)
(* collection's, but only when the caller has set no deadline              *)
(* (src/internal/context).                                                 *)
(***************************************************************************)
EXTENDS Run

VARIABLES
  tool,        (* "shell" or "skill"                                       *)
  deadline,    (* does the caller's context carry a deadline?              *)
  callerDone,  (* the caller's context has ended                           *)
  cause,       (* what ended the command's context: "none", "timeout",     *)
               (* "caller"                                                 *)
  answer       (* "none" yet, "output", "timed_out" or "error"             *)

callVars == <<tool, deadline>>
toolVars == <<callVars, callerDone, cause, answer>>

ToolInit ==
  /\ RunInit
  /\ tool \in {"shell", "skill"} /\ deadline \in BOOLEAN
  /\ callerDone = FALSE /\ cause = "none" /\ answer = "none"

(* runCtx ends once, for the first of its two reasons.                     *)
ContextEndsFor(reason) ==
  IF ctxDone THEN UNCHANGED <<ctxDone, cause>> ELSE ctxDone' = TRUE /\ cause' = reason

CallerEnds ==
  /\ answer = "none" /\ ~callerDone /\ callerDone' = TRUE
  /\ ContextEndsFor("caller")
  /\ UNCHANGED <<processVars, rpc, truncated, res, callVars, answer>>

(* Mutant of HasTimeout: a script runs under the caller's context alone.   *)
ShellHasTimeout == tool = "shell"

HasTimeout == tool = "shell" \/ ~deadline

TimeoutPasses ==
  /\ HasTimeout /\ answer = "none" /\ ~ctxDone
  /\ ContextEndsFor("timeout")
  /\ UNCHANGED <<processVars, rpc, truncated, res, callVars, callerDone, answer>>

(* An argument is missing, of the wrong type or out of range, the skill or *)
(* its file is unknown: the call fails before it has a context or a Run.   *)
Refuse ==
  /\ rpc = "start" /\ answer = "none" /\ cause # "timeout"
  /\ answer' = "error"
  /\ UNCHANGED <<processVars, runVars, callVars, callerDone, cause>>

(* Mutant of Answer: any error of Run under a live caller is a timeout.    *)
AnswerAnyError ==
  /\ rpc = "returned" /\ answer = "none"
  /\ answer' = IF res \in {"own", "signal"} THEN "output"
               ELSE IF ~callerDone THEN "timed_out"
               ELSE "error"
  /\ UNCHANGED <<processVars, runVars, callVars, callerDone, cause>>

(* An error of Run is a timeout when it is the context's deadline; the     *)
(* caller's context is looked at after Run has returned.                   *)
Answer ==
  /\ rpc = "returned" /\ answer = "none"
  /\ answer' = IF res \in {"own", "signal"} THEN "output"
               ELSE IF res = "canceled" /\ ~callerDone /\ cause = "timeout" THEN "timed_out"
               ELSE "error"
  /\ UNCHANGED <<processVars, runVars, callVars, callerDone, cause>>

(* A step of Run, called once the call is admitted.                        *)
ToolRuns == answer = "none" /\ RunStep

ToolNext ==
  \/ Refuse \/ Answer \/ CallerEnds \/ TimeoutPasses
  \/ (ToolRuns \/ ((Goroutines \/ World) /\ UNCHANGED runVars)) /\ UNCHANGED toolVars

ToolSpec == ToolInit /\ [][ToolNext]_<<vars, toolVars>>

(* Timeouts and deadlines pass; a caller without a deadline may wait on.   *)
FairToolSpec ==
  /\ ToolSpec /\ ProcessFairness /\ WF_vars(ToolRuns)
  /\ WF_toolVars(Answer) /\ WF_toolVars(TimeoutPasses)
  /\ WF_toolVars(deadline /\ CallerEnds)

-----------------------------------------------------------------------------
(* What the model is told is true, and when it is told, no command of the  *)
(* call runs: a retry never runs beside the command it retries.            *)
(*   - "timed out" means that the timeout, not the caller and not an error *)
(*     of the command, ended a command that had started;                   *)
(*   - output is of a command that has ended and, unless it is marked as   *)
(*     truncated, lacks no line;                                           *)
(*   - an error means that the caller gave up, also while the timeout was  *)
(*     stopping the command, that the command was never started (refused   *)
(*     arguments, NewProcess failed), or that waiting for it failed: a     *)
(*     status other than zero is no error.                                 *)
AnswerIsTrue ==
  /\ answer # "none" => ~alive /\ (exited \/ how = "unstarted")
  /\ answer = "timed_out" => exited /\ cause = "timeout"
  /\ answer = "output" => exited /\ (~truncated => delivered = written)
  /\ answer = "error" => callerDone \/ how = "unstarted" \/ res = "failed"

(* Every call of a tool answers, whatever the command does and however     *)
(* patient the caller is: a command that never ends is stopped, one that   *)
(* ignores SIGTERM is killed.  "A command that runs past its timeout is    *)
(* stopped and the model is told so; that is not an error".                *)
EveryCallAnswers == <>(answer # "none")
=============================================================================
