----------------------- MODULE SubagentManagerProofs ------------------------
(***************************************************************************)
(* Proofs about SubagentManager, for any number of runs, names and         *)
(* registrations, under NothingShared: no two registrations share an agent *)
(* or a tool box.                                                          *)
(***************************************************************************)
EXTENDS SubagentManager, TLAPS

USE DEF Move, Tell, ItsAgent, InProgress, InSession

(* The steps outside Run change no run and no agent.                       *)
LEMMA ManagerSteps ==
  ASSUME IInv,
         \/ UNCHANGED vars
         \/ \E r \in Regs : Register(r)
         \/ \E f \in Feedbacks : SetFeedback(f)
  PROVE  IInv'
<1>1. UNCHANGED <<busy, pc, name, reg, runFb, session, sessionReg, agentFb,
                  skillsIn, told>>
  BY DEF Register, SetFeedback, vars, managerVars, runVars, agentVars
<1>2. TypeOK'
  BY <1>1, RegsAssumption DEF IInv, TypeOK, Register, SetFeedback, vars, managerVars
<1> QED
  BY <1>1, <1>2
  DEF IInv, OneRunPerRegistration, BusyMeansRunning, RunsIsolated, OwnSession,
      QuietInv, Quiet, FeedbackInv

(* What a step of Run does to the locks: who is in progress, and busy.     *)
LEMMA LockSteps ==
  ASSUME IInv, NEW t \in Runs, RunStep(t) \/ ProcessEvent(t) \/ \E n \in Names : Call(t, n)
  PROVE  (TypeOK /\ OneRunPerRegistration /\ BusyMeansRunning)'
<1> USE RegsAssumption DEF IInv, TypeOK, OneRunPerRegistration, BusyMeansRunning
<1>1. ASSUME NEW n \in Names, Call(t, n)
      PROVE  (TypeOK /\ OneRunPerRegistration /\ BusyMeansRunning)'
  BY <1>1 DEF Call, managerVars, agentVars
<1>2. CASE Acquire(t)
  BY <1>2 DEF Acquire, managerVars, agentVars
<1>3. CASE Refuse(t)
  BY <1>3 DEF Refuse, managerVars, agentVars
<1>4. CASE Started(t)
  BY <1>4 DEF Started, managerVars
<1>5. CASE StartSession(t)
  BY <1>5 DEF StartSession, SkillsOut, managerVars
<1>6. CASE ProcessEnds(t)
  BY <1>6 DEF ProcessEnds, managerVars, agentVars
<1>7. CASE Finished(t)
  BY <1>7 DEF Finished, managerVars, agentVars
<1>8. CASE Close(t)
  BY <1>8 DEF Close, SkillsOut, managerVars
<1>9. CASE Release(t)
  BY <1>9 DEF Release, managerVars, agentVars
<1>10. CASE ProcessEvent(t)
  BY <1>10 DEF ProcessEvent, managerVars, runVars, agentVars
<1> QED
  BY <1>1, <1>2, <1>3, <1>4, <1>5, <1>6, <1>7, <1>8, <1>9, <1>10 DEF RunStep

(* What a step of Run does to the sessions.  The agent and the box of a    *)
(* run in progress are nobody else's.                                      *)
LEMMA SessionSteps ==
  ASSUME NothingShared, IInv, NEW t \in Runs,
         RunStep(t) \/ ProcessEvent(t) \/ \E n \in Names : Call(t, n)
  PROVE  (RunsIsolated /\ QuietInv /\ FeedbackInv)'
<1> USE RegsAssumption
    DEF IInv, TypeOK, OneRunPerRegistration, RunsIsolated, OwnSession, QuietInv,
        Quiet, FeedbackInv, NothingShared
<1>1. ASSUME NEW n \in Names, Call(t, n)
      PROVE  (RunsIsolated /\ QuietInv /\ FeedbackInv)'
  BY <1>1 DEF Call, agentVars
<1>2. CASE Acquire(t)
  BY <1>2 DEF Acquire, agentVars
<1>3. CASE Refuse(t)
  BY <1>3 DEF Refuse, agentVars
<1>4. CASE Started(t)
  BY <1>4 DEF Started
<1>5. CASE StartSession(t)
  <2>1. Quiet(reg[t]) /\ reg[t] \in Regs
    BY <1>5 DEF StartSession
  <2>2. skillsIn' = IF reg[t] \in WithSkills
                    THEN [skillsIn EXCEPT ![BoxOf[reg[t]]] = t] ELSE skillsIn
    BY <1>5, <2>1 DEF StartSession, SkillsOut
  <2> QED
    BY <1>5, <2>1, <2>2 DEF StartSession
<1>6. CASE ProcessEnds(t)
  BY <1>6 DEF ProcessEnds, agentVars
<1>7. CASE Finished(t)
  BY <1>7 DEF Finished, agentVars
<1>8. CASE Close(t)
  <2>1. OwnSession(t) /\ reg[t] \in Regs
    BY <1>8 DEF Close
  <2>2. skillsIn' = IF reg[t] \in WithSkills
                    THEN [skillsIn EXCEPT ![BoxOf[reg[t]]] = NoRun] ELSE skillsIn
    BY <1>8, <2>1 DEF Close, SkillsOut
  <2> QED
    BY <1>8, <2>1, <2>2 DEF Close
<1>9. CASE Release(t)
  BY <1>9 DEF Release, agentVars
<1>10. CASE ProcessEvent(t)
  BY <1>10 DEF ProcessEvent, runVars, agentVars
<1> QED
  BY <1>1, <1>2, <1>3, <1>4, <1>5, <1>6, <1>7, <1>8, <1>9, <1>10 DEF RunStep

(* The invariant holds in every reachable state.                           *)
THEOREM Invariance ==
  ASSUME NothingShared PROVE Spec => []IInv
<1>1. Init => IInv
  BY RegsAssumption
  DEF Init, IInv, TypeOK, OneRunPerRegistration, BusyMeansRunning, RunsIsolated,
      QuietInv, Quiet, FeedbackInv
<1>2. IInv /\ [Next]_vars => IInv'
  <2> SUFFICES ASSUME IInv, [Next]_vars PROVE IInv'
    OBVIOUS
  <2>1. ASSUME NEW t \in Runs,
               RunStep(t) \/ ProcessEvent(t) \/ \E n \in Names : Call(t, n)
        PROVE  IInv'
    BY <2>1, LockSteps, SessionSteps DEF IInv
  <2> QED
    BY <2>1, ManagerSteps DEF Next
<1> QED
  BY <1>1, <1>2, PTL DEF Spec

(* Runs that share no agent and no box are isolated from one another.      *)
THEOREM Isolation ==
  ASSUME NothingShared PROVE Spec => []RunsIsolated
<1>1. IInv => RunsIsolated
  BY DEF IInv
<1> QED
  BY <1>1, Invariance, PTL

(* A registration that is not busy keeps no conversation and no tools.     *)
THEOREM NothingOutlives ==
  ASSUME NothingShared PROVE Spec => []NoSessionOutlives
<1>1. IInv => NoSessionOutlives
  BY DEF IInv, NoSessionOutlives, BusyMeansRunning, QuietInv, Quiet
<1> QED
  BY <1>1, Invariance, PTL
=============================================================================
