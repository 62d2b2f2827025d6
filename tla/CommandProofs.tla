---------------------------- MODULE CommandProofs ----------------------------
(***************************************************************************)
(* Proofs about Process, Run and CommandTool: for any number of callers of *)
(* Close and Write, any amount of output, any limit on it, and with or     *)
(* without a child that keeps the output.                                  *)
(***************************************************************************)
EXTENDS CommandTool, TLAPS

USE ProcessAssumption, RunAssumption DEF Closers

-----------------------------------------------------------------------------
(* The process.                                                            *)

(* The initial state satisfies the invariant.                              *)
LEMMA InitInv == Init => IInv
<1> SUFFICES ASSUME Init PROVE IInv
  OBVIOUS
<1>1. holders \subseteq {"process", "child"}
  BY DEF Init
<1>2. TypeOK
  BY <1>1 DEF Init, TypeOK
<1>3. StartInv /\ ReapInv /\ OnceInv
  BY DEF Init, StartInv, ReapInv, OnceInv
<1>4. LinesInv
  BY DEF Init, LinesInv
<1> QED
  BY <1>2, <1>3, <1>4 DEF IInv

(* NewProcess finds nothing that waits, reads or is closed.                *)
LEMMA NewProcessStep ==
  ASSUME IInv, NewProcess
  PROVE  IInv'
<1> USE DEF IInv, TypeOK, StartInv, NewProcess, outVars, closeVars
<1>1. reader = "off" /\ reaper = "off" /\ how = "unstarted"
  OBVIOUS
<1>2. {"process"} \cup (IF Inherits THEN {"child"} ELSE {}) \subseteq {"process", "child"}
  OBVIOUS
<1>3. (TypeOK /\ StartInv)'
  BY <1>1, <1>2
<1>4. ReapInv'
  BY <1>1 DEF ReapInv
<1>5. OnceInv'
  BY DEF OnceInv
<1>6. LinesInv'
  BY <1>1 DEF LinesInv
<1> QED
  BY <1>3, <1>4, <1>5, <1>6

(* What the process, its child and reap do.                                *)
LEMMA ProcessSteps ==
  ASSUME IInv, World \/ ReapStep
  PROVE  IInv'
<1> USE DEF IInv, TypeOK, StartInv, ReapInv, OnceInv, LinesInv,
            procVars, outVars, reapVars, closeVars, inputVars
<1>1. CASE WriteLine
  <2>1. TypeOK'
    BY <1>1 DEF WriteLine
  <2>2. (StartInv /\ ReapInv /\ OnceInv)'
    BY <1>1 DEF WriteLine
  <2>3. /\ written' = written + 1 /\ buffered' = buffered + 1
        /\ delivered' = delivered /\ reader' = reader /\ closing' = closing
        /\ written \in Nat /\ buffered \in Nat /\ delivered \in Nat
        /\ ~(reader = "done" /\ ~closing)
    BY <1>1 DEF WriteLine
  <2>4. LinesInv'
    <3> HIDE DEF IInv, TypeOK, StartInv, ReapInv, OnceInv
    <3>1. LinesInv
      BY DEF IInv
    <3>2. CASE reader = "send"
      BY <2>3, <3>1, <3>2
    <3>3. CASE reader # "send"
      BY <2>3, <3>1, <3>3
    <3> QED
      BY <3>2, <3>3
  <2> QED
    BY <2>1, <2>2, <2>4
<1>2. CASE CloseOutput
  BY <1>2 DEF CloseOutput
<1>3. CASE Exit("own")
  BY <1>3 DEF Exit
<1>4. CASE Signalled
  BY <1>4 DEF Signalled, Exit
<1>5. CASE ChildEnds
  BY <1>5 DEF ChildEnds
<1>6. CASE ReadInput \/ InputClosed
  <2>1. /\ UNCHANGED <<procVars, outVars, reader, reapVars, closeVars, wpc>>
        /\ writer' \in {"select", "done"}
    BY <1>6 DEF ReadInput, InputClosed
  <2>2. TypeOK'
    BY <2>1
  <2>3. (StartInv /\ ReapInv /\ OnceInv)'
    BY <2>1
  <2>4. LinesInv'
    BY <2>1
  <2> QED
    BY <2>2, <2>3, <2>4
<1>7. CASE ReapStep
  <2>1. UNCHANGED <<procVars, outVars, reader, closeVars, inputVars>> /\ ~alive
    BY <1>7 DEF ReapStep
  <2>2. LinesInv'
    BY <2>1
  <2>3. TypeOK'
    <3> HIDE DEF IInv, StartInv, ReapInv, OnceInv, LinesInv
    <3>1. reaper' \in {"off", "wait", "notify", "close", "done"}
      BY <1>7 DEF ReapStep, IInv
    <3>2. exited' \in BOOLEAN
      BY <1>7 DEF ReapStep, IInv
    <3>3. notified' \in Nat
      BY <1>7 DEF ReapStep, IInv
    <3> QED
      BY <2>1, <3>1, <3>2, <3>3 DEF IInv
  <2>4. exited => exited'
    BY <1>7 DEF ReapStep
  <2>5. OnceInv'
    <3> HIDE DEF IInv, TypeOK, StartInv, ReapInv, LinesInv
    <3>1. OnceInv
      BY DEF IInv
    <3> QED
      BY <2>1, <2>4, <3>1
  <2>6. (StartInv /\ ReapInv)'
    BY <1>7, <2>1 DEF ReapStep
  <2> QED
    BY <2>2, <2>3, <2>5, <2>6
<1> HIDE DEF IInv
<1> QED
  BY <1>1, <1>2, <1>3, <1>4, <1>5, <1>6, <1>7 DEF World

(* What readLoop and its consumer do.                                      *)
LEMMA ReadSteps ==
  ASSUME IInv, ReadStep \/ Receive
  PROVE  IInv'
<1> USE DEF IInv, TypeOK, StartInv, ReapInv, OnceInv, LinesInv,
            procVars, outVars, reapVars, closeVars, inputVars
<1>1. CASE Scan
  BY <1>1 DEF Scan
<1>2. CASE Receive
  BY <1>2 DEF Receive
<1>3. CASE SendAborted
  BY <1>3 DEF SendAborted
<1>4. CASE EndOfOutput
  <2>1. \A c \in Closers : cpc'[c] = cpc[c] \/ cpc'[c] = "enter"
    BY <1>4 DEF EndOfOutput
  <2>2. cpc' \in [Closers -> {"idle", "enter", "term", "kill", "reap", "returned"}]
    BY <1>4 DEF EndOfOutput
  <2> QED
    BY <1>4, <2>1, <2>2 DEF EndOfOutput
<1> QED
  BY <1>1, <1>2, <1>3, <1>4 DEF ReadStep

(* What the callers of Close do.                                           *)
LEMMA CloseSteps ==
  ASSUME IInv, NEW c \in Closers, CallClose(c) \/ CloseStep(c)
  PROVE  IInv'
<1> USE DEF IInv, TypeOK, StartInv, ReapInv, OnceInv, LinesInv,
            procVars, outVars, reapVars, inputVars
<1>1. CASE CallClose(c)
  BY <1>1 DEF CallClose
<1>2. CASE EnterOnce(c)
  <2>1. TypeOK'
    BY <1>2 DEF EnterOnce
  <2>2. (StartInv /\ ReapInv /\ OnceInv)'
    BY <1>2 DEF EnterOnce
  <2>3. LinesInv'
    BY <1>2 DEF EnterOnce
  <2> QED
    BY <2>1, <2>2, <2>3
<1>3. CASE ExitSeen(c)
  BY <1>3 DEF ExitSeen
<1>4. CASE GraceOver(c)
  BY <1>4 DEF GraceOver
<1>5. CASE Reaped(c)
  BY <1>5 DEF Reaped
<1> QED
  BY <1>1, <1>2, <1>3, <1>4, <1>5 DEF CloseStep

(* What writeLoop and the callers of Write do.                             *)
LEMMA InputSteps ==
  ASSUME IInv,
         WriteLoopEnds \/ \E w \in Writers : Take(w) \/ Refused(w) \/ Reject(w)
                                             \/ Write(w) \/ ContextEnds(w)
  PROVE  IInv'
<1> USE DEF procVars, outVars, reapVars, closeVars
<1>1. UNCHANGED <<procVars, outVars, reader, reapVars, closeVars>>
  BY DEF WriteLoopEnds, Take, Refused, Reject, Write, ContextEnds
<1>2. (StartInv /\ ReapInv /\ OnceInv /\ LinesInv)'
  BY <1>1 DEF IInv, StartInv, ReapInv, OnceInv, LinesInv
<1>3. /\ writer' \in {"off", "select", "write", "done"}
      /\ wpc' \in [Writers -> {"idle", "rejected", "select", "sent", "canceled", "closed"}]
  BY DEF IInv, TypeOK, WriteLoopEnds, Take, Refused, Reject, Write, ContextEnds
<1> QED
  BY <1>1, <1>2, <1>3 DEF IInv, TypeOK

(* The invariant holds of every reachable state.                           *)
THEOREM Invariance == Spec => []IInv
<1>1. IInv /\ [Next]_processVars => IInv'
  <2> SUFFICES ASSUME IInv, [Next]_processVars PROVE IInv'
    OBVIOUS
  <2>1. CASE UNCHANGED processVars
    BY <2>1 DEF processVars, procVars, outVars, reapVars, closeVars, inputVars,
                IInv, TypeOK, StartInv, ReapInv, OnceInv, LinesInv
  <2> QED
    BY <2>1, NewProcessStep, ProcessSteps, ReadSteps, CloseSteps, InputSteps
       DEF Next, Goroutines
<1> QED
  BY <1>1, InitInv, PTL DEF Spec

(* Close returns to nobody before the process is reaped and OnExit called. *)
THEOREM CloseWaits == Spec => []CloseReaps
<1>1. IInv => CloseReaps
  BY DEF IInv, TypeOK, ReapInv, OnceInv, CloseReaps
<1> QED
  BY <1>1, Invariance, PTL

(* Output that ends before Close is called is complete.                    *)
THEOREM NothingMissing == Spec => []OutputComplete
<1>1. IInv => OutputComplete
  BY DEF IInv, TypeOK, LinesInv, OutputComplete
<1> QED
  BY <1>1, Invariance, PTL
-----------------------------------------------------------------------------
(* Run: it leaves no process behind, and its result is whole.              *)

(* Run has returned only after its deferred Close has, unless there was    *)
(* nothing to close.                                                       *)
RunInv ==
  /\ IInv /\ (rpc = "start" => how = "unstarted" /\ res = "none")
  /\ rpc = "returned" => onceDone \/ how = "unstarted"

(* Every step of Run keeps the invariant of the process.                   *)
LEMMA RunKeepsProcess ==
  ASSUME IInv, RunStep
  PROVE  IInv'
<1>1. CASE TakeLine
  <2>1. /\ UNCHANGED closeRest /\ UNCHANGED <<written, buffered>>
        /\ reader = "send" /\ reader' = "scan" /\ delivered' = delivered + 1
        /\ cpc' = cpc \/ cpc' = [cpc EXCEPT ![Runner] = "enter"]
    BY <1>1 DEF TakeLine, StartClose, closeRest
  <2> USE <2>1 DEF IInv, StartInv, closeRest, procVars, reapVars, inputVars
  <2>2. LinesInv'
    BY DEF TypeOK, LinesInv
  <2>3. TypeOK'
    BY DEF TypeOK
  <2>4. (StartInv /\ ReapInv /\ OnceInv)'
    BY DEF TypeOK, ReapInv, OnceInv
  <2> QED
    BY <2>2, <2>3, <2>4
<1>2. CASE Canceled \/ Exited
  <2>1. /\ UNCHANGED <<alive, how, sig, holders, reaper, exited, notified>>
        /\ UNCHANGED <<closing, owner, onceDone, writer, wpc>>
        /\ UNCHANGED <<written, buffered, delivered, reader>>
        /\ cpc' = [cpc EXCEPT ![Runner] = "enter"]
    BY <1>2 DEF Canceled, Exited, StartClose, closeRest, procVars, outVars, reapVars,
                inputVars
  <2>2. (StartInv /\ ReapInv)'
    BY <2>1 DEF IInv, StartInv, ReapInv
  <2>5. LinesInv'
    BY <2>1 DEF IInv, LinesInv
  <2>3. TypeOK'
    BY <2>1 DEF IInv, TypeOK
  <2>4. OnceInv'
    BY <2>1 DEF IInv, TypeOK, OnceInv
  <2> QED
    BY <2>2, <2>3, <2>4, <2>5 DEF IInv
<1>3. CASE Start /\ NewProcess
  BY <1>3, NewProcessStep
<1>4. CASE (Start /\ UNCHANGED processVars) \/ Truncated \/ OutputEnds \/ Returns
  <2>1. UNCHANGED processVars
    BY <1>4 DEF Truncated, OutputEnds, Returns
  <2> QED
    BY <2>1 DEF processVars, procVars, outVars, reapVars, closeVars, inputVars,
                IInv, TypeOK, StartInv, ReapInv, OnceInv, LinesInv
<1> QED
  BY <1>1, <1>2, <1>3, <1>4 DEF RunStep, Start

(* closeOnce is never taken back, and nothing is started after Run.        *)
LEMMA OnceIsForever ==
  ASSUME IInv, [RunNext]_vars
  PROVE  /\ onceDone => onceDone'
         /\ how = "unstarted" /\ rpc # "start" => how' = "unstarted"
<1> USE DEF closeVars, closeRest, processVars, procVars, IInv, ReapInv
<1>1. CASE RunStep
  BY <1>1 DEF RunStep, Start, NewProcess, TakeLine, Truncated, OutputEnds, Canceled, Exited, Returns
<1>2. CASE CtxEnds \/ UNCHANGED vars
  BY <1>2 DEF CtxEnds, vars
<1>3. CASE Goroutines
  BY <1>3 DEF Goroutines, ReapStep, ReadStep, Scan, SendAborted, EndOfOutput,
              WriteLoopEnds, CloseStep, EnterOnce, ExitSeen, GraceOver, Reaped, Take, Refused
<1>4. CASE World
  BY <1>4 DEF World, WriteLine, CloseOutput, Exit, Signalled, ChildEnds, ReadInput,
              InputClosed
<1> QED
  BY <1>1, <1>2, <1>3, <1>4 DEF RunNext

(* The invariant of the process holds while Run uses it.                   *)
LEMMA RunStepInv ==
  ASSUME IInv, [RunNext]_vars
  PROVE  IInv'
<1>1. CASE UNCHANGED processVars
  BY <1>1 DEF processVars, procVars, outVars, reapVars, closeVars, inputVars,
              IInv, TypeOK, StartInv, ReapInv, OnceInv, LinesInv
<1>2. CASE RunStep
  BY <1>2, RunKeepsProcess
<1>3. CASE Goroutines
  BY <1>3, ProcessSteps, ReadSteps, CloseSteps, InputSteps DEF Goroutines
<1>4. CASE World
  BY <1>4, ProcessSteps
<1>5. CASE CtxEnds \/ UNCHANGED vars
  BY <1>1, <1>5 DEF CtxEnds, vars
<1> QED
  BY <1>2, <1>3, <1>4, <1>5 DEF RunNext

(* However Run returns, the command is dead and reaped, or never started.  *)
THEOREM RunLeavesNothing == RunSpec => []NothingLeftRunning
<1>1. RunInit => RunInv
  BY InitInv DEF RunInit, Init, RunInv
<1>2. RunInv /\ [RunNext]_vars => RunInv'
  <2> SUFFICES ASSUME RunInv, [RunNext]_vars PROVE RunInv'
    OBVIOUS
  <2> USE DEF RunInv
  <2>1. IInv'
    BY RunStepInv
  <2>2. CASE RunStep
    <3>1. CASE Start
      BY <2>1, <3>1 DEF Start, processVars, procVars
    <3>2. CASE Returns
      BY <2>1, <3>2 DEF Returns, IInv, OnceInv, processVars, closeVars
    <3>3. rpc' \notin {"start", "returned"} \/ Start \/ Returns
      BY <2>2 DEF RunStep, TakeLine, Truncated, OutputEnds, Canceled, Exited
    <3> QED
      BY <2>1, <3>1, <3>2, <3>3
  <2>3. CASE UNCHANGED <<rpc, res>>
    <3>1. rpc = "start" => how' = "unstarted"
      <4>1. CASE rpc = "start" /\ (Goroutines \/ World)
        BY <4>1 DEF Goroutines, ReapStep, ReadStep, Scan, SendAborted, EndOfOutput,
              WriteLoopEnds, CloseStep, EnterOnce, ExitSeen, GraceOver, Reaped, Take, Refused,
              World, WriteLine, CloseOutput, Exit, Signalled, ChildEnds, ReadInput, InputClosed,
              IInv, ReapInv, procVars
      <4>2. CASE RunStep
        BY <2>3, <4>2 DEF RunStep, Start, TakeLine, Truncated, OutputEnds, Canceled, Exited,
                          Returns
      <4>3. CASE CtxEnds \/ UNCHANGED vars
        BY <4>3 DEF CtxEnds, vars, processVars, procVars
      <4> QED
        BY <4>1, <4>2, <4>3 DEF RunNext
    <3> QED
      BY <2>1, <2>3, <3>1, OnceIsForever
  <2> QED
    BY <2>2, <2>3 DEF RunNext, CtxEnds, vars, runVars
<1>3. RunInv => NothingLeftRunning
  BY DEF RunInv, IInv, ReapInv, OnceInv, NothingLeftRunning
<1> QED
  BY <1>1, <1>2, <1>3, PTL DEF RunSpec

(* While Run collects, nobody closes before the output has ended; once it  *)
(* has ended nobody writes any more, and every line is delivered.          *)
WholeInv ==
  /\ rpc \in {"start", "collect", "truncate", "await", "defer", "returned"}
  /\ rpc \in {"start", "collect", "truncate", "await"} => res = "none"
  /\ rpc = "truncate" => truncated
  /\ \A c \in Callers : (c = Runner /\ rpc \notin {"start", "collect"}) \/ cpc[c] = "idle"
  /\ rpc \in {"start", "collect"} => ~truncated
  /\ rpc \in {"start", "collect"} /\ reader # "done" => ~closing /\ cpc[Reader] = "idle"
  /\ rpc = "start" => reader = "off"
  /\ \/ rpc = "collect" /\ reader = "done"
     \/ rpc \notin {"start", "collect"} /\ ~truncated /\ res \notin {"canceled", "unstarted"}
     => reader = "done" /\ delivered = written /\ holders = {}

(* What does not touch the output, the closers and Run keeps it.           *)
LEMMA WholeStutter ==
  ASSUME WholeInv, UNCHANGED <<written, delivered, holders, reader, closing, cpc>>,
         UNCHANGED <<rpc, truncated, res>>
  PROVE  WholeInv'
BY DEF WholeInv

(* Steps of Run.                                                           *)
LEMMA RunKeepsWhole ==
  ASSUME IInv, WholeInv, RunStep
  PROVE  WholeInv'
<1> USE DEF WholeInv, IInv, TypeOK, LinesInv, OnceInv, processVars, procVars, outVars, closeVars,
            reapVars, inputVars, closeRest, StartClose
<1>1. CASE TakeLine
  BY <1>1 DEF TakeLine
<1>2. CASE Truncated
  BY <1>2 DEF Truncated
<1>3. CASE OutputEnds
  BY <1>3 DEF OutputEnds
<1>4. CASE Canceled
  BY <1>4 DEF Canceled
<1>5. CASE Exited
  BY <1>5 DEF Exited
<1>6. CASE Returns
  BY <1>6 DEF Returns
<1>7. CASE Start
  BY <1>7 DEF Start, NewProcess
<1> QED
  BY <1>1, <1>2, <1>3, <1>4, <1>5, <1>6, <1>7 DEF RunStep

(* Steps of the goroutines and of the world.                               *)
LEMMA ProcessKeepsWhole ==
  ASSUME IInv, WholeInv, Goroutines \/ World, UNCHANGED runVars
  PROVE  WholeInv'
<1> USE DEF WholeInv, IInv, TypeOK, LinesInv, OnceInv, procVars, outVars, closeVars, reapVars,
            inputVars, runVars
<1>1. CASE ReapStep \/ WriteLoopEnds \/ \E w \in Writers : Take(w) \/ Refused(w)
  <2>1. UNCHANGED <<written, delivered, holders, reader, closing, cpc>>
    BY <1>1 DEF ReapStep, WriteLoopEnds, Take, Refused
  <2> QED
    BY <2>1, WholeStutter
<1>2. CASE Scan
  BY <1>2 DEF Scan
<1>3. CASE SendAborted
  BY <1>3 DEF SendAborted
<1>4. CASE EndOfOutput
  BY <1>4 DEF EndOfOutput
<1>5. ASSUME NEW c \in Closers, CloseStep(c) PROVE WholeInv'
  <2>1. /\ UNCHANGED <<written, buffered, delivered, reader, holders>>
        /\ cpc[c] # "idle"
        /\ \A d \in Closers : d # c => cpc'[d] = cpc[d]
    BY <1>5 DEF CloseStep, EnterOnce, ExitSeen, GraceOver, Reaped
  <2>2. rpc \in {"start", "collect"} => c = Reader /\ reader = "done"
    BY <2>1
  <2> QED
    BY <2>1, <2>2
<1>6. CASE World
  <2>1. /\ UNCHANGED <<delivered, reader, closing, cpc>>
        /\ holders' \subseteq holders
        /\ written' = written \/ holders # {}
    BY <1>6 DEF World, WriteLine, CloseOutput, Exit, Signalled, ChildEnds, ReadInput,
                InputClosed
  <2> QED
    BY <2>1
<1> QED
  BY <1>1, <1>2, <1>3, <1>4, <1>5, <1>6 DEF Goroutines, ReadStep

(* A result that is not truncated holds all the output there will ever be. *)
THEOREM WholeResults == RunSpec => []ResultIsWhole
<1>1. RunInit => IInv /\ WholeInv
  BY InitInv DEF RunInit, Init, WholeInv
<1>2. IInv /\ WholeInv /\ [RunNext]_vars => (IInv /\ WholeInv)'
  <2> SUFFICES ASSUME IInv, WholeInv, [RunNext]_vars PROVE (IInv /\ WholeInv)'
    OBVIOUS
  <2>1. IInv'
    BY RunStepInv
  <2>2. CASE CtxEnds \/ UNCHANGED vars
    <3>1. UNCHANGED processVars /\ UNCHANGED <<rpc, truncated, res>>
      BY <2>2 DEF CtxEnds, vars, runVars
    <3>2. UNCHANGED <<written, delivered, holders, reader, closing, cpc>>
      BY <3>1 DEF processVars, procVars, outVars, closeVars
    <3> QED
      BY <2>1, <3>1, <3>2, WholeStutter
  <2> QED
    BY <2>1, <2>2, RunKeepsWhole, ProcessKeepsWhole DEF RunNext
<1>3. WholeInv => ResultIsWhole
  BY DEF WholeInv, ResultIsWhole
<1> QED
  BY <1>1, <1>2, <1>3, PTL DEF RunSpec

-----------------------------------------------------------------------------
(* The tools that run a command: each call is a run, and what it answers   *)
(* is true.                                                                *)

(* A step of a tool is a step of Run, or leaves Run alone.                 *)
LEMMA ToolStepIsRun ==
  ASSUME [ToolNext]_<<vars, toolVars>>
  PROVE  [RunNext]_vars
BY DEF ToolNext, ToolRuns, Refuse, Answer, CallerEnds, TimeoutPasses, ContextEndsFor, RunNext,
       CtxEnds, vars, runVars

(* A call of a tool runs its command as Run says, or not at all.           *)
THEOREM ToolsImplementRun == ToolSpec => RunSpec
<1>1. ToolInit => RunInit
  BY DEF ToolInit
<1>2. [ToolNext]_<<vars, toolVars>> => [RunNext]_vars
  BY ToolStepIsRun
<1> QED
  BY <1>1, <1>2, PTL DEF ToolSpec, RunSpec

(* What ended the context is known, and Run gives up only for that.  An    *)
(* answer is given where Run has returned or is never called, and says     *)
(* what became of the command.                                             *)
ToolInv ==
  /\ res \in {"none", "own", "signal", "unstarted", "canceled", "failed"}
  /\ rpc = "start" => how = "unstarted" /\ res = "none"
  /\ how = "unstarted" => rpc = "start" \/ res = "unstarted"
  /\ rpc \in {"defer", "returned"} => res # "none"
  /\ ctxDone <=> cause # "none"
  /\ cause \in {"none", "timeout", "caller"}
  /\ cause = "caller" => callerDone
  /\ res = "canceled" => ctxDone
  /\ res = "unstarted" => how = "unstarted" /\ rpc = "returned"
  /\ answer = "none" \/ rpc = "returned" \/ (rpc = "start" /\ answer = "error")
  /\ answer = "timed_out" => cause = "timeout" /\ res = "canceled"
  /\ answer = "output" => res \in {"own", "signal"}
  /\ answer = "error" => callerDone \/ how = "unstarted" \/ res = "failed"

(* Every step keeps it.                                                    *)
LEMMA ToolStep ==
  ASSUME IInv, ToolInv, [ToolNext]_<<vars, toolVars>>
  PROVE  ToolInv'
<1> USE DEF ToolInv, runVars, toolVars, callVars, processVars, procVars
<1>1. CASE Refuse
  BY <1>1 DEF Refuse
<1>2. CASE Answer
  BY <1>2 DEF Answer
<1>3. CASE CallerEnds \/ TimeoutPasses
  BY <1>3 DEF CallerEnds, TimeoutPasses, ContextEndsFor
<1>4. CASE Start /\ ToolRuns /\ UNCHANGED toolVars
  BY <1>4 DEF Start, ToolRuns, NewProcess
<1>5. CASE RunStep /\ ~Start /\ ToolRuns /\ UNCHANGED toolVars
  <2>1. /\ UNCHANGED <<how, ctxDone, toolVars>>
        /\ rpc \notin {"start", "returned"} /\ rpc' # "start" /\ answer = "none"
        /\ \/ res' = res /\ rpc' # "defer" /\ (rpc' = "returned" => rpc = "defer")
           \/ res' \in {how, "failed"} /\ notified > 0
           \/ ctxDone /\ res' = "canceled"
    BY <1>5 DEF RunStep, ToolRuns, TakeLine, Truncated, OutputEnds, Canceled, Exited, Returns,
                closeRest
  <2>2. /\ how \in {"none", "own", "signal", "unstarted"}
        /\ notified > 0 => how # "none"
    BY DEF IInv, TypeOK, ReapInv
  <2> QED
    BY <2>1, <2>2
<1>6. CASE (Goroutines \/ World) /\ UNCHANGED <<runVars, toolVars>>
  <2>1. (how = "unstarted") <=> (how' = "unstarted")
    BY <1>6 DEF Goroutines, ReapStep, ReadStep, Scan, SendAborted, EndOfOutput,
                WriteLoopEnds, CloseStep, EnterOnce, ExitSeen, GraceOver, Reaped, Take, Refused,
                World, WriteLine, CloseOutput, Exit, Signalled, ChildEnds, ReadInput,
                InputClosed, IInv, ReapInv
  <2> QED
    BY <1>6, <2>1
<1>7. CASE UNCHANGED <<vars, toolVars>>
  BY <1>7 DEF vars
<1> QED
  BY <1>1, <1>2, <1>3, <1>4, <1>5, <1>6, <1>7 DEF ToolNext, ToolRuns

(* What the model is told of a call is true: after any answer no command   *)
(* of the call runs, a timeout is the timeout's, output lacks no line, and *)
(* an error is one of the caller's context, of the start or of the wait.   *)
THEOREM AnswersAreTrue == ToolSpec => []AnswerIsTrue
<1>1. ToolInit => IInv /\ ToolInv
  <2>1. ToolInit => IInv
    BY InitInv DEF ToolInit, RunInit
  <2>2. ToolInit => ToolInv
    BY DEF ToolInit, RunInit, Init, ToolInv
  <2> QED
    BY <2>1, <2>2
<1>2. [ToolNext]_<<vars, toolVars>> => [RunNext]_vars
  BY ToolStepIsRun
<1>3. IInv /\ ToolInv /\ [ToolNext]_<<vars, toolVars>> => (IInv /\ ToolInv)'
  BY <1>2, ToolStep, RunStepInv
<1>4. IInv /\ ToolInv /\ NothingLeftRunning /\ ResultIsWhole => AnswerIsTrue
  BY DEF IInv, ReapInv, ToolInv, NothingLeftRunning, ResultIsWhole, AnswerIsTrue
<1> QED
  BY <1>1, <1>3, <1>4, ToolsImplementRun, RunLeavesNothing, WholeResults, PTL DEF ToolSpec

=============================================================================
