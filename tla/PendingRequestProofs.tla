------------------------ MODULE PendingRequestProofs ------------------------
(***************************************************************************)
(* Proofs about PendingRequest, for any set of calls and goroutines, any   *)
(* timeout and any number of progress notifications.                       *)
(***************************************************************************)
EXTENDS PendingRequest, TLAPS

USE PendingAssumption DEF Lockers, Goto, Resets, Cancel, Disarmed

(* The initial state satisfies the invariant.                              *)
LEMMA InitInv == Init => IInv
  BY DEF Init, IInv, TypeOK, MutexInv, DisarmedInv, RequestsInv, QuietInv, InCall, InReset

(* Steps of a call.                                                        *)
LEMMA CallSteps ==
  ASSUME IInv, NEW c \in Calls, Begin(c) \/ Answered(c) \/ CallStep(c)
  PROVE  IInv'
<1> USE DEF IInv, MutexInv, DisarmedInv, RequestsInv, QuietInv, InCall, InReset
<1>1. CASE Begin(c)
  BY <1>1 DEF Begin, TypeOK, resetVars
<1>2. CASE Answered(c)
  BY <1>2 DEF Answered, TypeOK, resetVars, timerVars
<1>3. CASE Cancelled(c)
  BY <1>3 DEF Cancelled, TypeOK, resetVars, timerVars
<1>4. CASE StopLookup(c)
  BY <1>4 DEF StopLookup, TypeOK, resetVars, timerVars
<1>5. CASE StopLock(c)
  <2>1. TypeOK'
    BY <1>5 DEF StopLock, TypeOK, resetVars, timerVars
  <2>2. \A g \in Resetters : ~(InReset(g) /\ rcall[g] = c)
    BY <1>5 DEF StopLock, TypeOK
  <2>3. MutexInv'
    BY <1>5, <2>2 DEF StopLock, TypeOK, resetVars, timerVars
  <2>4. (DisarmedInv /\ RequestsInv /\ QuietInv)'
    BY <1>5, <2>2 DEF StopLock, TypeOK, resetVars, timerVars
  <2> QED
    BY <2>1, <2>3, <2>4
<1>6. CASE StopTimer(c)
  BY <1>6 DEF StopTimer, TypeOK, resetVars
<1>7. CASE StopCancel(c)
  BY <1>7 DEF StopCancel, TypeOK, resetVars, timerVars
<1> QED
  BY <1>1, <1>2, <1>3, <1>4, <1>5, <1>6, <1>7 DEF CallStep

(* Steps of a progress goroutine.                                          *)
LEMMA ResetSteps ==
  ASSUME IInv, NEW g \in Resetters, ResetStep(g) \/ \E c \in Calls : Notify(g, c)
  PROVE  IInv'
<1> USE DEF IInv, MutexInv, DisarmedInv, RequestsInv, QuietInv, InCall, InReset
<1>1. ASSUME NEW c \in Calls, Notify(g, c) PROVE IInv'
  BY <1>1 DEF Notify, TypeOK, callVars, timerVars
<1>2. CASE ResetLookup(g)
  BY <1>2 DEF ResetLookup, TypeOK, callVars, timerVars
<1>3. CASE ResetLock(g)
  BY <1>3 DEF ResetLock, TypeOK, callVars, timerVars
<1>4. CASE ResetStop(g)
  <2>1. rcall[g] \in Calls /\ rmu[rcall[g]] = g
    BY <1>4 DEF ResetStop, TypeOK
  <2>2. TypeOK'
    BY <1>4, <2>1 DEF ResetStop, TypeOK, callVars
  <2>3. (MutexInv /\ RequestsInv /\ QuietInv)'
    BY <1>4, <2>1 DEF ResetStop, TypeOK, callVars
  <2>4. DisarmedInv'
    BY <1>4, <2>1 DEF ResetStop, TypeOK, callVars
  <2> QED
    BY <2>2, <2>3, <2>4
<1>5. CASE ResetRestart(g)
  <2>1. rcall[g] \in Calls /\ rmu[rcall[g]] = g
    BY <1>5 DEF ResetRestart, TypeOK
  <2>2. TypeOK'
    BY <1>5, <2>1 DEF ResetRestart, TypeOK, callVars
  <2>3. (MutexInv /\ RequestsInv /\ DisarmedInv /\ QuietInv)'
    BY <1>5, <2>1 DEF ResetRestart, TypeOK, callVars
  <2> QED
    BY <2>2, <2>3
<1> QED
  BY <1>1, <1>2, <1>3, <1>4, <1>5 DEF ResetStep

(* Steps of the runtime and of the caller's context.                       *)
LEMMA RuntimeSteps ==
  ASSUME IInv, Tick \/ \E c \in Calls : TimerStep(c) \/ ParentCancels(c)
  PROVE  IInv'
<1> USE DEF IInv, MutexInv, DisarmedInv, RequestsInv, QuietInv, InCall, InReset
<1>1. CASE Tick
  BY <1>1 DEF Tick, TypeOK, callVars, resetVars
<1>2. ASSUME NEW c \in Calls, Fire(c) PROVE IInv'
  BY <1>2 DEF Fire, TypeOK, callVars, resetVars
<1>3. ASSUME NEW c \in Calls, FireCancel(c) PROVE IInv'
  BY <1>3 DEF FireCancel, TypeOK, callVars, resetVars
<1>4. ASSUME NEW c \in Calls, ParentCancels(c) PROVE IInv'
  BY <1>4 DEF ParentCancels, TypeOK, callVars, timerVars, resetVars
<1> QED
  BY <1>1, <1>2, <1>3, <1>4 DEF TimerStep

(* The mutex of every timeout excludes, and the map and the timers follow  *)
(* the calls, in every reachable state.                                    *)
THEOREM Invariance == Spec => []IInv
<1>1. IInv /\ [Next]_vars => IInv'
  <2> SUFFICES ASSUME IInv, [Next]_vars PROVE IInv'
    OBVIOUS
  <2>1. CASE UNCHANGED vars
    BY <2>1 DEF vars, callVars, timerVars, resetVars, IInv, TypeOK, MutexInv,
                DisarmedInv, RequestsInv, QuietInv, InCall, InReset
  <2> QED
    BY <2>1, CallSteps, ResetSteps, RuntimeSteps DEF Next, Finished
<1> QED
  BY <1>1, InitInv, PTL DEF Spec

(* No call that returned leaves an armed timer behind, whatever progress   *)
(* notifications are in flight.                                            *)
THEOREM ReturnDisarms == Spec => []NoTimerAfterReturn
<1>1. IInv => NoTimerAfterReturn
  BY DEF IInv, DisarmedInv, NoTimerAfterReturn
<1> QED
  BY <1>1, Invariance, PTL

(* Only a call that saw a whole idle timeout pass ends with a timeout.     *)
THEOREM TimeoutsAreIdle == Spec => []TimeoutMeansQuiet
<1>1. IInv => TimeoutMeansQuiet
  BY DEF IInv, QuietInv, TimeoutMeansQuiet
<1> QED
  BY <1>1, Invariance, PTL

(* A timer that has fired is never armed again.                            *)
THEOREM NoRevival == Spec => FiredStaysFired
<1>1. IInv /\ IInv' /\ [Next]_vars =>
        \A c \in Calls : timer[c] = "fired" => timer'[c] = "fired"
  <2> SUFFICES ASSUME IInv, [Next]_vars, NEW c \in Calls, timer[c] = "fired"
               PROVE  timer'[c] = "fired"
    OBVIOUS
  <2> USE DEF IInv, DisarmedInv, TypeOK
  <2>1. CASE UNCHANGED vars
    BY <2>1 DEF vars, timerVars
  <2>2. ASSUME NEW d \in Calls,
               Begin(d) \/ Answered(d) \/ CallStep(d) \/ TimerStep(d) \/ ParentCancels(d)
        PROVE  timer'[c] = "fired"
    BY <2>2 DEF Begin, Answered, CallStep, Cancelled, StopLookup, StopLock, StopTimer,
                StopCancel, TimerStep, Fire, FireCancel, ParentCancels, timerVars
  <2>3. ASSUME NEW g \in Resetters, ResetStep(g) \/ \E d \in Calls : Notify(g, d)
        PROVE  timer'[c] = "fired"
    BY <2>3 DEF ResetStep, ResetLookup, ResetLock, ResetStop, ResetRestart, Notify,
                timerVars
  <2>4. CASE Tick
    BY <2>4 DEF Tick
  <2> QED
    BY <2>1, <2>2, <2>3, <2>4 DEF Next, Finished
<1> QED
  BY <1>1, Invariance, PTL DEF Spec, FiredStaysFired
=============================================================================
