-------------------------- MODULE SubagentManager ---------------------------
(***************************************************************************)
(* subagent.Manager (src/subagent/manager.go): concurrent runs of the      *)
(* registered sub-agents, while names are registered again and the         *)
(* feedback is replaced.                                                   *)
(*                                                                         *)
(* A registration is one call of Register; it owns the channel that admits *)
(* one run at a time.  The agent it brings (src/agent/agent.go) is seen    *)
(* here through the calls Run makes on it: the session it holds, the       *)
(* feedback it reports to and the skill tools it keeps in a tool box.      *)
(***************************************************************************)

CONSTANTS
  Regs,      (* calls of Register, each a registration of its own          *)
  Names,     (* sub-agent names                                            *)
  Agents, Boxes,             (* agent.Agents and tools.ToolBoxes           *)
  NameOf, AgentOf, BoxOf,    (* what each registration brings              *)
  WithSkills,                (* registrations whose catalog is not empty   *)
  Runs,      (* goroutines calling Run                                     *)
  Feedbacks, FirstFeedback,  (* what SetFeedback may install               *)
  NoReg, NoRun

ASSUME RegsAssumption ==
  /\ NameOf \in [Regs -> Names] /\ AgentOf \in [Regs -> Agents]
  /\ BoxOf \in [Regs -> Boxes] /\ WithSkills \subseteq Regs
  /\ NoReg \notin Regs /\ NoRun \notin Runs /\ FirstFeedback \in Feedbacks

VARIABLES
  agents,    (* Manager.agents: the current registration of each name      *)
  used,      (* registrations made so far                                  *)
  fb,        (* Manager.fb                                                 *)
  busy,      (* the registrations whose channel is full                    *)
  pc, name, reg, runFb,  (* each run: where it is, its argument, its copies *)
  session, sessionReg,   (* each agent: whose conversation it holds        *)
  agentFb,               (* each agent: the run its childFeedback is for   *)
  skillsIn,              (* each box: whose session put skill tools there  *)
  told                   (* history: the feedbacks each run's events went to *)

managerVars == <<agents, used, fb>>
runVars     == <<pc, name, reg, runFb>>
agentVars   == <<session, sessionReg, agentFb, skillsIn>>
vars == <<managerVars, busy, runVars, agentVars, told>>

Init ==
  /\ agents = [n \in Names |-> NoReg] /\ used = {}
  /\ fb = FirstFeedback /\ busy = {}
  /\ pc = [t \in Runs |-> "idle"]
  /\ name \in [Runs -> Names] /\ reg = [t \in Runs |-> NoReg]
  /\ runFb = [t \in Runs |-> FirstFeedback]
  /\ session = [a \in Agents |-> NoRun] /\ sessionReg = [a \in Agents |-> NoReg]
  /\ agentFb = [a \in Agents |-> NoRun]
  /\ skillsIn = [b \in Boxes |-> NoRun]
  /\ told = [t \in Runs |-> {}]

Move(t, to) == pc' = [pc EXCEPT ![t] = to]

(* A feedback hears about run t.                                           *)
Tell(t, f) == told' = [told EXCEPT ![t] = @ \cup {f}]

ItsAgent(t) == AgentOf[reg[t]]

-----------------------------------------------------------------------------
(* Register and SetFeedback, each under the manager's mutex.               *)

Register(r) ==
  /\ r \notin used
  /\ used' = used \cup {r}
  /\ agents' = [agents EXCEPT ![NameOf[r]] = r]
  /\ UNCHANGED <<fb, busy, runVars, agentVars, told>>

SetFeedback(f) ==
  /\ fb' = f
  /\ UNCHANGED <<agents, used, busy, runVars, agentVars, told>>

-----------------------------------------------------------------------------
(* Run, step by step.                                                      *)

(* Run is called with a prompt and copies what it needs under the read     *)
(* lock; an empty prompt and an unknown name change nothing.               *)
Call(t, n) ==
  /\ pc[t] = "idle" /\ agents[n] # NoReg
  /\ name' = [name EXCEPT ![t] = n]
  /\ reg' = [reg EXCEPT ![t] = agents[n]]
  /\ runFb' = [runFb EXCEPT ![t] = fb]
  /\ told' = [told EXCEPT ![t] = {}]
  /\ Move(t, "acquire")
  /\ UNCHANGED <<managerVars, busy, agentVars>>

(* The send on busy succeeds only when the channel is empty.               *)
Acquire(t) ==
  /\ pc[t] = "acquire" /\ reg[t] \notin busy
  /\ busy' = busy \cup {reg[t]}
  /\ Move(t, "feedback")
  /\ UNCHANGED <<managerVars, name, reg, runFb, agentVars, told>>

(* Mutant of Refuse: the send on busy blocks instead.                      *)
RefuseNever(t) == pc[t] = "acquire" /\ reg[t] \in busy /\ UNCHANGED vars

(* ErrAgentBusy.                                                           *)
Refuse(t) ==
  /\ pc[t] = "acquire" /\ reg[t] \in busy
  /\ Move(t, "idle")
  /\ UNCHANGED <<managerVars, busy, name, reg, runFb, agentVars, told>>

(* child.SetFeedback, then SubagentStarted.                                *)
Started(t) ==
  /\ pc[t] = "feedback"
  /\ agentFb' = [agentFb EXCEPT ![ItsAgent(t)] = t]
  /\ Tell(t, runFb[t])
  /\ Move(t, "start")
  /\ UNCHANGED <<managerVars, busy, name, reg, runFb, session, sessionReg, skillsIn>>

(* The boxes once the agent's session has taken its skill tools out.       *)
SkillsOut(a) ==
  IF sessionReg[a] \in WithSkills
  THEN [skillsIn EXCEPT ![BoxOf[sessionReg[a]]] = NoRun]
  ELSE skillsIn

(* StartSession replaces whatever session the agent held, and registers    *)
(* the skill tools.                                                        *)
StartSession(t) ==
  /\ pc[t] = "start"
  /\ session' = [session EXCEPT ![ItsAgent(t)] = t]
  /\ sessionReg' = [sessionReg EXCEPT ![ItsAgent(t)] = reg[t]]
  /\ skillsIn' = IF reg[t] \in WithSkills
                 THEN [SkillsOut(ItsAgent(t)) EXCEPT ![BoxOf[reg[t]]] = t]
                 ELSE SkillsOut(ItsAgent(t))
  /\ Move(t, "process")
  /\ UNCHANGED <<managerVars, busy, name, reg, runFb, agentFb, told>>

(* While Process runs, the agent reports its tool calls and tokens through *)
(* the feedback installed in it.                                           *)
ProcessEvent(t) ==
  /\ pc[t] = "process" /\ agentFb[ItsAgent(t)] # NoRun
  /\ LET to == agentFb[ItsAgent(t)] IN Tell(t, runFb[to])
  /\ UNCHANGED <<managerVars, busy, runVars, agentVars>>

(* Process returns an answer or an error; an answer's tokens are reported. *)
ProcessEnds(t) ==
  /\ pc[t] = "process"
  /\ Tell(t, runFb[t]) \/ UNCHANGED told
  /\ Move(t, "finish")
  /\ UNCHANGED <<managerVars, busy, name, reg, runFb, agentVars>>

(* Mutant of Finished: the deferred calls are in the other order, so the   *)
(* registration is free before the agent is closed.                        *)
FinishedReleasing(t) ==
  /\ pc[t] = "finish"
  /\ Tell(t, runFb[t])
  /\ busy' = busy \ {reg[t]}
  /\ Move(t, "close")
  /\ UNCHANGED <<managerVars, name, reg, runFb, agentVars>>

(* The debugger sees the agent's messages, then SubagentFinished fires.    *)
Finished(t) ==
  /\ pc[t] = "finish"
  /\ Tell(t, runFb[t])
  /\ Move(t, "close")
  /\ UNCHANGED <<managerVars, busy, name, reg, runFb, agentVars>>

(* Mutant of Close: the agent keeps its conversation and its skill tools.  *)
CloseSkipped(t) ==
  /\ pc[t] = "close"
  /\ Move(t, "release")
  /\ UNCHANGED <<managerVars, busy, name, reg, runFb, agentVars, told>>

(* The deferred child.Close() runs first ...                               *)
Close(t) ==
  /\ pc[t] = "close"
  /\ session' = [session EXCEPT ![ItsAgent(t)] = NoRun]
  /\ sessionReg' = [sessionReg EXCEPT ![ItsAgent(t)] = NoReg]
  /\ skillsIn' = SkillsOut(ItsAgent(t))
  /\ Move(t, "release")
  /\ UNCHANGED <<managerVars, busy, name, reg, runFb, agentFb, told>>

(* ... and the deferred receive from busy last.                            *)
Release(t) ==
  /\ pc[t] = "release"
  /\ busy' = busy \ {reg[t]}
  /\ Move(t, "idle")
  /\ UNCHANGED <<managerVars, name, reg, runFb, agentVars, told>>

-----------------------------------------------------------------------------
RunStep(t) ==
  \/ Acquire(t) \/ Refuse(t) \/ Started(t) \/ StartSession(t)
  \/ ProcessEnds(t) \/ Finished(t) \/ Close(t) \/ Release(t)

Next ==
  \/ \E r \in Regs : Register(r)
  \/ \E f \in Feedbacks : SetFeedback(f)
  \/ \E t \in Runs : RunStep(t) \/ ProcessEvent(t) \/ \E n \in Names : Call(t, n)

(* A run that was called keeps going: its model and tools answer.          *)
Fairness == \A t \in Runs : WF_vars(RunStep(t))

Spec == Init /\ [][Next]_vars
FairSpec == Spec /\ Fairness

-----------------------------------------------------------------------------
(* What must hold.                                                         *)

(* A run that was admitted and has not let go of its registration yet.     *)
InProgress(t) ==
  pc[t] \in {"feedback", "start", "process", "finish", "close", "release"}

InSession(t) == pc[t] \in {"process", "finish", "close"}

(* The type invariant: every variable of the manager, its runs and their   *)
(* agents keeps to its type.                                               *)
TypeOK ==
  /\ agents \in [Names -> Regs \cup {NoReg}] /\ used \subseteq Regs
  /\ fb \in Feedbacks /\ busy \subseteq Regs
  /\ pc \in [Runs -> {"idle", "acquire", "feedback", "start", "process", "finish",
                      "close", "release"}]
  /\ name \in [Runs -> Names] /\ reg \in [Runs -> Regs \cup {NoReg}]
  /\ \A t \in Runs : pc[t] # "idle" => reg[t] \in Regs
  /\ runFb \in [Runs -> Feedbacks]
  /\ session \in [Agents -> Runs \cup {NoRun}]
  /\ sessionReg \in [Agents -> Regs \cup {NoReg}]
  /\ agentFb \in [Agents -> Runs \cup {NoRun}]
  /\ skillsIn \in [Boxes -> Runs \cup {NoRun}]
  /\ told \in [Runs -> SUBSET Feedbacks]

(* Two runs of one registration are never in progress together.            *)
OneRunPerRegistration ==
  \A s, t \in Runs : s # t /\ InProgress(s) /\ InProgress(t) => reg[s] # reg[t]

(* A registration is busy exactly while some run of it is in progress: an  *)
(* ErrAgentBusy always has a run to blame, and no error path keeps a sub-  *)
(* agent busy for good.                                                    *)
BusyMeansRunning == busy = {reg[t] : t \in {u \in Runs : InProgress(u)}}

(* The agent of run t holds t's conversation and reports to t's feedback,  *)
(* which is the only one that has heard of t.                              *)
OwnSession(t) ==
  /\ session[ItsAgent(t)] = t /\ sessionReg[ItsAgent(t)] = reg[t]
  /\ agentFb[ItsAgent(t)] = t /\ told[t] \subseteq {runFb[t]}
  /\ reg[t] \in WithSkills => skillsIn[BoxOf[reg[t]]] = t

(* During a run its agent holds this run's conversation, its skill tools   *)
(* and its feedback, whatever other runs do meanwhile; and all events of   *)
(* the run went to that feedback, although SetFeedback replaces it: "a run *)
(* in progress keeps the Feedback it started with".                        *)
RunsIsolated == \A t \in Runs : InSession(t) => OwnSession(t)

(* "no conversation outlives the call": when no run of a registration is   *)
(* in progress its agent holds no session and its box no skill tools.      *)
NoSessionOutlives ==
  \A r \in Regs \ busy :
    session[AgentOf[r]] = NoRun /\ (r \in WithSkills => skillsIn[BoxOf[r]] = NoRun)

(* What the sub-agents must bring for their runs to be kept apart: the     *)
(* manager "cannot see two names that share one agent" (subagent/doc.go).  *)
NothingShared ==
  \A r, s \in Regs : (AgentOf[r] = AgentOf[s] \/ BoxOf[r] = BoxOf[s]) => r = s

(* The inductive invariant: nothing of a registration is set up outside    *)
(* the session of a run of it.                                             *)
Quiet(r) ==
  /\ session[AgentOf[r]] = NoRun /\ sessionReg[AgentOf[r]] = NoReg
  /\ r \in WithSkills => skillsIn[BoxOf[r]] = NoRun

QuietInv ==
  \A r \in Regs : (\A t \in Runs : reg[t] = r => ~InSession(t)) => Quiet(r)

FeedbackInv ==
  \A t \in Runs :
    /\ pc[t] = "start" => agentFb[ItsAgent(t)] = t
    /\ pc[t] # "idle" => told[t] \subseteq {runFb[t]}

(* The inductive invariant: the parts above; an agent without a run in its *)
(* session is clean, and a run about to start has set its feedback.        *)
IInv ==
  /\ TypeOK /\ OneRunPerRegistration /\ BusyMeansRunning
  /\ RunsIsolated /\ QuietInv /\ FeedbackInv

(* README: "Only one run of a sub-agent can be in progress at a time.      *)
(* While it runs, Run returns ErrAgentBusy for the same name."             *)
OneRunPerName ==
  \A s, t \in Runs : s # t /\ InProgress(s) /\ InProgress(t) => name[s] # name[t]

(* Every call returns, and every registration becomes free again.          *)
RunsReturn == \A t \in Runs : pc[t] = "acquire" ~> pc[t] = "idle"
=============================================================================
