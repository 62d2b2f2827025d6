------------------------------- MODULE Agent --------------------------------
(***************************************************************************)
(* agent.Agent (src/agent/agent.go, src/agent/compaction.go): the          *)
(* tool-calling loop, the conversation it builds, the compaction of that   *)
(* conversation, the cached model limits, and the skill tools a session    *)
(* keeps in its tool box.                                                  *)
(*                                                                         *)
(* An Agent is used by one goroutine.  What interleaves with it is the     *)
(* outside: replies and failures of the model, tool results, and another   *)
(* owner of the same tool box.  A message is its role and, for tool calls, *)
(* the ids that pair a call with its result; texts are left out.           *)
(***************************************************************************)
EXTENDS Integers, Sequences, FiniteSets, FiniteSetsExt

CONSTANTS
  CallIds,            (* ids of tool calls within one reply                *)
  Models, FirstModel, NoModel,
  ContextSize,        (* each model's context window, in tokens            *)
  ThresholdPercent,   (* Config.CompactionThresholdPercent                 *)
  TokenCounts,        (* the totals a reply may report                     *)
  MaxIterations,      (* Config.MaxIterations; 0 is no limit               *)
  MaxMessages,        (* bound: messages in a conversation                 *)
  EmptyFirstInput,    (* may Process be called without input before any    *)
                      (* user message is in the conversation?              *)
  SharedBox           (* does another owner use the session's tool box?    *)

ASSUME AgentAssumption ==
  /\ FirstModel \in Models /\ NoModel \notin Models
  /\ ContextSize \in [Models -> Nat] /\ TokenCounts \subseteq Nat
  /\ ThresholdPercent \in 0..100 /\ MaxIterations \in Nat /\ MaxMessages \in Nat
  /\ EmptyFirstInput \in BOOLEAN /\ SharedBox \in BOOLEAN

VARIABLES
  messages,   (* Agent.messages; empty when there is no session            *)
  pc,         (* where the call in progress is, "idle" between calls       *)
  iteration,  (* Process's iteration                                       *)
  pending,    (* the calls of the last reply still to execute              *)
  tokens,     (* Stats.TotalTokens of the last reply                       *)
  model,      (* the model the LLM is on                                   *)
  info,       (* Agent.modelInfo: the model it describes, or NoModel       *)
  threshold,  (* Agent.compactThreshold                                    *)
  skills,     (* Agent.skills: "none", "empty" catalog, "full" catalog     *)
  skillTools, (* whose skill tools are in the tool box: "none", "mine", "other" *)
  start,      (* messages before the round in progress, or the last one    *)
  callCount,  (* Process's callCount                                       *)
  response,   (* the Metadata of the last Response, or NoResponse          *)
  heard       (* what a Feedback handler knows that keeps count of events  *)

roundVars == <<iteration, pending, tokens, start, callCount, response>>
modelVars == <<model, info, threshold>>
skillVars == <<skills, skillTools>>
vars == <<messages, pc, roundVars, modelVars, skillVars, heard>>

-----------------------------------------------------------------------------
(* Messages.                                                               *)

System == [role |-> "system", calls |-> <<>>]
User == [role |-> "user", calls |-> <<>>]
(* The summary travels as a user message, so it counts as a turn.          *)
Summary == [role |-> "summary", calls |-> <<>>]
Assistant(ids) == [role |-> "assistant", calls |-> ids]
ToolResult(id) == [role |-> "tool", calls |-> <<id>>]

IsUser(m) == m.role \in {"user", "summary"}

UserTurns(msgs) == {i \in 1..Len(msgs) : IsUser(msgs[i])}

(* The call lists a reply may carry.                                       *)
CallLists == {<<id>> : id \in CallIds} \cup {<<id, other>> : id, other \in CallIds}

(* Mutant of KeepFrom: one turn is kept instead of two.                    *)
KeepFromOneTurn(msgs) ==
  LET turns == UserTurns(msgs)
  IN  IF turns = {} THEN Len(msgs) ELSE Max(turns)

(* indexOfTheBeginningOfTurnToKeep, counting messages from 1.              *)
KeepFrom(msgs) ==
  LET turns == UserTurns(msgs)
  IN  IF turns = {} THEN Len(msgs)
      ELSE IF Cardinality(turns) = 1 THEN Max(turns)
      ELSE Max(turns \ {Max(turns)})

CanCompact(msgs) == KeepFrom(msgs) > 2

Compacted(msgs) ==
  <<msgs[1], Summary>> \o SubSeq(msgs, KeepFrom(msgs), Len(msgs))

(* compactionThreshold *)
CompactionThreshold(size) ==
  (size * (IF ThresholdPercent = 0 THEN 85 ELSE ThresholdPercent)) \div 100

-----------------------------------------------------------------------------
(* Feedback.  A handler is told of sessions and compactions; whoever       *)
(* installs it and calls Process counts from there the replies that ask    *)
(* for tools, and the calls of tools and their returns.                    *)

NoResponse == [iterations |-> -1, toolCalls |-> -1]

NothingHeard ==
  [session |-> "unknown", compacted |-> FALSE, counting |-> FALSE,
   asked |-> 0, called |-> 0, returned |-> 0]

HearSession(s) == heard' = [heard EXCEPT !.session = s, !.compacted = FALSE]

HearRound ==
  heard' = [heard EXCEPT !.counting = TRUE, !.asked = 0, !.called = 0, !.returned = 0]

Hear(event) == heard' = [heard EXCEPT ![event] = @ + 1]

-----------------------------------------------------------------------------
Init ==
  /\ messages = <<>> /\ pc = "idle"
  /\ iteration = 0 /\ pending = <<>> /\ tokens = 0
  /\ model = FirstModel /\ info = NoModel /\ threshold = 0
  /\ skills = "none" /\ skillTools = "none"
  /\ start = 0 /\ callCount = 0 /\ response = NoResponse
  /\ heard = NothingHeard

(* unregisterSkills removes the three names, whoever registered them, and  *)
(* also when the collection was empty and never registered anything.       *)
Unregistered == IF skills = "none" THEN skillTools ELSE "none"

(* The messages of a saved conversation but those of the system.           *)
Restored(history) ==
  LET kept[i \in 0..Len(history)] ==
        IF i = 0 THEN <<>>
        ELSE IF history[i].role = "system" THEN kept[i - 1]
        ELSE Append(kept[i - 1], history[i])
  IN  kept[Len(history)]

(* StartSession: a new conversation, or a saved one after the new prompt.  *)
(* A program resumes what Messages() returned at some point; resuming a    *)
(* conversation as it is now covers every such point.                      *)
StartSession(collection, history) ==
  /\ pc = "idle"
  /\ messages' = <<System>> \o Restored(history)
  /\ skills' = collection
  /\ skillTools' = IF collection = "full" THEN "mine" ELSE Unregistered
  /\ HearSession("open")
  /\ UNCHANGED <<pc, roundVars, modelVars>>

ResetSession ==
  /\ pc = "idle" /\ messages # <<>>
  /\ messages' = SubSeq(messages, 1, 1)
  /\ HearSession("open")
  /\ UNCHANGED <<pc, roundVars, modelVars, skillVars>>

Close ==
  /\ pc = "idle"
  /\ messages' = <<>>
  /\ skills' = "none" /\ skillTools' = Unregistered
  /\ HearSession("closed")
  /\ UNCHANGED <<pc, roundVars, modelVars>>

(* SetFeedback ignores nil.                                                *)
SetFeedback ==
  /\ pc = "idle"
  /\ heard' = NothingHeard
  /\ UNCHANGED <<messages, pc, roundVars, modelVars, skillVars>>

-----------------------------------------------------------------------------
(* Process.                                                                *)

(* Without a session Process returns ErrNoSession and changes nothing.     *)
Process(hasInput) ==
  /\ pc = "idle" /\ messages # <<>>
  /\ Len(messages) < MaxMessages
  /\ hasInput \/ EmptyFirstInput \/ UserTurns(messages) # {}
  /\ messages' = IF hasInput THEN Append(messages, User) ELSE messages
  /\ iteration' = 0 /\ callCount' = 0 /\ response' = NoResponse
  /\ start' = Len(messages)
  /\ HearRound
  /\ pc' = "check"
  /\ UNCHANGED <<pending, tokens, modelVars, skillVars>>

(* The head of the loop: ErrMaxIterations, or another model call.          *)
Check ==
  /\ pc = "check"
  /\ pc' = IF MaxIterations # 0 /\ iteration >= MaxIterations THEN "idle" ELSE "chat"
  /\ UNCHANGED <<messages, roundVars, modelVars, skillVars, heard>>

(* The model fails: the round ends, what was appended stays.               *)
ChatFails ==
  /\ pc = "chat"
  /\ pc' = "idle"
  /\ UNCHANGED <<messages, roundVars, modelVars, skillVars, heard>>

(* The model replies without tool calls: the round is over but for the     *)
(* compaction.  No event tells of the reply, it is in the Response.        *)
FinalReply(total) ==
  /\ pc = "chat"
  /\ messages' = Append(messages, Assistant(<<>>))
  /\ tokens' = total
  /\ response' = [iterations |-> iteration, toolCalls |-> callCount]
  /\ pc' = "limits"
  /\ UNCHANGED <<iteration, pending, start, callCount, modelVars, skillVars, heard>>

(* The model asks for tools: InterimTextReceived if it also has text, and  *)
(* TokensUsed.                                                             *)
ToolReply(ids, total) ==
  /\ pc = "chat" /\ Len(messages) + Len(ids) < MaxMessages
  /\ messages' = Append(messages, Assistant(ids))
  /\ tokens' = total /\ pending' = ids
  /\ Hear("asked")
  /\ pc' = "tools"
  /\ UNCHANGED <<iteration, start, callCount, response, modelVars, skillVars>>

(* ToolCalled, and the tool begins.                                        *)
CallTool ==
  /\ pc = "tools" /\ pending # <<>>
  /\ Hear("called")
  /\ pc' = "running"
  /\ UNCHANGED <<messages, roundVars, modelVars, skillVars>>

(* Mutant of ExecuteTool: a failing tool leaves no message.                *)
ExecuteToolDropped ==
  /\ pc = "running"
  /\ messages' \in {messages, Append(messages, ToolResult(Head(pending)))}
  /\ pending' = Tail(pending) /\ callCount' = callCount + 1
  /\ Hear("returned")
  /\ pc' = "tools"
  /\ UNCHANGED <<iteration, tokens, start, response, modelVars, skillVars>>

(* Mutant of ExecuteTool: the handler is not told of a failing tool.       *)
ExecuteToolUnheard ==
  /\ pc = "running"
  /\ messages' = Append(messages, ToolResult(Head(pending)))
  /\ pending' = Tail(pending) /\ callCount' = callCount + 1
  /\ Hear("returned") \/ UNCHANGED heard
  /\ pc' = "tools"
  /\ UNCHANGED <<iteration, tokens, start, response, modelVars, skillVars>>

(* Execute returns a result or an error (an unknown tool, a refusal, a     *)
(* failure); either way ToolReturned fires and the call gets its message.  *)
ExecuteTool ==
  /\ pc = "running"
  /\ messages' = Append(messages, ToolResult(Head(pending)))
  /\ pending' = Tail(pending) /\ callCount' = callCount + 1
  /\ Hear("returned")
  /\ pc' = "tools"
  /\ UNCHANGED <<iteration, tokens, start, response, modelVars, skillVars>>

NextIteration ==
  /\ pc = "tools" /\ pending = <<>>
  /\ iteration' = iteration + 1
  /\ pc' = "check"
  /\ UNCHANGED <<messages, pending, tokens, start, callCount, response, modelVars, skillVars,
                 heard>>

-----------------------------------------------------------------------------
(* Compaction and model limits.                                            *)

(* loadModelLimits: nothing if the limits are known; they may be           *)
(* unavailable, and then stay unknown until the next attempt.              *)
LoadLimits ==
  \/ UNCHANGED <<info, threshold>>
  \/ /\ info = NoModel
     /\ info' = model
     /\ threshold' = CompactionThreshold(ContextSize[model])

(* compactIfNeeded at the end of a round.                                  *)
CompactIfNeeded ==
  /\ pc = "limits"
  /\ LoadLimits
  /\ pc' = IF threshold' # 0 /\ tokens > threshold' /\ CanCompact(messages)
           THEN "summarize" ELSE "idle"
  /\ UNCHANGED <<messages, roundVars, model, skillVars, heard>>

(* CompactContext called by the program.                                   *)
CompactContext ==
  /\ pc = "idle" /\ CanCompact(messages)
  /\ pc' = "summarize"
  /\ UNCHANGED <<messages, roundVars, modelVars, skillVars, heard>>

(* The model is asked for a summary of what lies before the kept turns.    *)
Summarized ==
  /\ pc = "summarize"
  /\ messages' = Compacted(messages)
  /\ heard' = [heard EXCEPT !.compacted = TRUE]
  /\ pc' = "idle"
  /\ UNCHANGED <<roundVars, modelVars, skillVars>>

(* ContextCompactionFailed: the conversation stays as it is.               *)
SummaryFails ==
  /\ pc = "summarize"
  /\ pc' = "idle"
  /\ UNCHANGED <<messages, roundVars, modelVars, skillVars, heard>>

(* Agent.ModelInfo *)
ModelInfo ==
  /\ pc = "idle"
  /\ LoadLimits
  /\ UNCHANGED <<messages, pc, roundVars, model, skillVars, heard>>

(* Mutant of ChangeModel: the cached limits survive the change.            *)
ChangeModelKeepingLimits(m) ==
  /\ pc = "idle"
  /\ model' = m
  /\ UNCHANGED <<messages, pc, roundVars, info, threshold, skillVars, heard>>

(* ChangeModel; a model the client refuses changes nothing.                *)
ChangeModel(m) ==
  /\ pc = "idle"
  /\ model' = m
  /\ info' = NoModel /\ threshold' = 0
  /\ UNCHANGED <<messages, pc, roundVars, skillVars, heard>>

(* Another owner of the tool box registers or removes its skill tools.     *)
OtherSkills ==
  /\ SharedBox /\ skillTools # "mine"
  /\ skillTools' = IF skillTools = "none" THEN "other" ELSE "none"
  /\ UNCHANGED <<messages, pc, roundVars, modelVars, skills, heard>>

-----------------------------------------------------------------------------
Sessions ==
  \/ \E collection \in {"none", "empty", "full"}, history \in {<<>>, messages} :
       StartSession(collection, history)
  \/ ResetSession \/ Close \/ SetFeedback

Round ==
  \/ Check \/ ChatFails \/ \E total \in TokenCounts :
       FinalReply(total) \/ \E ids \in CallLists : ToolReply(ids, total)
  \/ CallTool \/ ExecuteTool \/ NextIteration
  \/ CompactIfNeeded \/ Summarized \/ SummaryFails

Next ==
  \/ Sessions \/ Round
  \/ \E hasInput \in BOOLEAN : Process(hasInput)
  \/ CompactContext \/ ModelInfo
  \/ \E m \in Models : ChangeModel(m)
  \/ OtherSkills

Spec == Init /\ [][Next]_vars

-----------------------------------------------------------------------------
(* What must hold.                                                         *)

(* The type invariant: a conversation is a sequence of messages, and what  *)
(* is left to execute are calls of its last reply.                         *)
Message ==
  {System, User, Summary} \cup {Assistant(ids) : ids \in CallLists \cup {<<>>}}
  \cup {ToolResult(id) : id \in CallIds}

TypeOK ==
  /\ messages \in Seq(Message) /\ pending \in Seq(CallIds)
  /\ pc \in {"idle", "check", "chat", "tools", "running", "limits", "summarize"}
  /\ iteration \in Nat /\ callCount \in Nat /\ start \in Nat /\ tokens \in Nat
  /\ model \in Models /\ info \in Models \cup {NoModel} /\ threshold \in Nat
  /\ skills \in {"none", "empty", "full"} /\ skillTools \in {"none", "mine", "other"}
  /\ response \in [iterations : Int, toolCalls : Int]
  /\ heard \in [session : {"unknown", "open", "closed"}, compacted : BOOLEAN,
                counting : BOOLEAN, asked : Nat, called : Nat, returned : Nat]

(* What a provider accepts: one system message, first; each tool result    *)
(* answers, in order, a call of the reply it follows; and each call of     *)
(* each reply is answered before anything else is said.                    *)
Answered(msgs, j, n) ==
  \A k \in 1..n : j + k <= Len(msgs) /\ msgs[j + k] = ToolResult(msgs[j].calls[k])

Fits(msgs, i) ==
  /\ msgs[i].role = "system" <=> i = 1
  /\ msgs[i].role = "assistant" => Answered(msgs, i, Len(msgs[i].calls))
  /\ msgs[i].role = "tool" =>
       \E j \in 1..i-1 : msgs[j].role = "assistant" /\ i - j <= Len(msgs[j].calls)

WellFormed(msgs) == \A i \in 1..Len(msgs) : Fits(msgs, i)

(* Whatever fails and however often the conversation is compacted, reset   *)
(* or resumed, the model is never shown, and Messages never returns, a     *)
(* conversation with a call left open or a result that answers nothing.    *)
ConversationWellFormed == pc \notin {"tools", "running"} => WellFormed(messages)

(* "keeping the system message and the last two turns as they are": a      *)
(* compaction replaces exactly a stretch of messages after the system      *)
(* message with the summary, and the last two turns are not part of it.    *)
RealTurns(msgs) == {i \in 1..Len(msgs) : msgs[i].role = "user"}

KeepsTurns(before, after) ==
  \E k \in 2..Len(before) :
    /\ after = <<before[1], Summary>> \o SubSeq(before, k, Len(before))
    /\ \A i \in RealTurns(before) :
         Cardinality({j \in RealTurns(before) : j > i}) < 2 => i >= k

(* CompactContext keeps the system message and the last two turns as they  *)
(* are: it leaves the messages alone or cuts before those turns.           *)
CompactionKeepsTurns ==
  [][pc = "summarize" => messages' = messages \/ KeepsTurns(messages, messages')]_vars

(* The threshold in force is the one of the model in use, or there is none *)
(* until its limits are known: never that of a model used before.          *)
LimitsMatchModel ==
  /\ info \in {NoModel, model}
  /\ threshold = IF info = NoModel THEN 0 ELSE CompactionThreshold(ContextSize[info])

(* A handler that counts is never wrong about the round: a tool runs just  *)
(* when one more call than return was heard; every call of every reply of  *)
(* the round has been told of or is still to come, and each return put one *)
(* result before the model; the Response counts the same.  And it knows    *)
(* whether there is a session, and of every compaction of it.              *)
InRound == {"check", "chat", "tools", "running"}
Since(role) == {i \in start + 1..Len(messages) : messages[i].role = role}
CallsSince == UNION {{i} \X DOMAIN messages[i].calls : i \in Since("assistant")}

SessionTold ==
  /\ heard.session = "open" => messages # <<>>
  /\ heard.session = "closed" => messages = <<>>
  /\ heard.compacted => messages # <<>> /\ Len(messages) > 1 /\ messages[2] = Summary

CountsTold ==
  /\ heard.called = heard.returned + (IF pc = "running" THEN 1 ELSE 0)
  /\ pc \in InRound =>
       /\ heard.asked = Cardinality(Since("assistant"))
       /\ heard.returned = Cardinality(Since("tool"))
       /\ heard.returned + Len(pending) = Cardinality(CallsSince)
  /\ response # NoResponse => response = [iterations |-> heard.asked, toolCalls |-> heard.returned]

FeedbackTells == SessionTold /\ (heard.counting => CountsTold)

(* A closed agent leaves no skill tools of its own in the tool box, and a  *)
(* session with skills has them there.                                     *)
SkillToolsFollowSession ==
  /\ skillTools = "mine" <=> skills = "full"
  /\ messages = <<>> => skills = "none"

(* What an agent keeps beside the conversation is of the model and of the  *)
(* session it has now: nothing of an earlier one survives a change of the  *)
(* model, a failing request for its limits, a session started over another *)
(* one, a reset or a Close, also when another owner offers the same tools. *)
NothingStale == LimitsMatchModel /\ SkillToolsFollowSession

-----------------------------------------------------------------------------
(* What makes these inductive.                                             *)

(* Calls are left to execute only between a reply and the next iteration;  *)
(* there is a session while anything happens; a conversation is compacted  *)
(* only where the cut is after the message the summary replaces.           *)
PhaseInv ==
  /\ pending # <<>> => pc \in {"tools", "running"}
  /\ pc = "running" => pending # <<>>
  /\ messages = <<>> => pc = "idle"
  /\ pc = "summarize" => CanCompact(messages)

(* The system message comes first and a summary can only come next.        *)
Shaped(msgs) ==
  \A i \in 1..Len(msgs) :
    /\ msgs[i].role = "system" <=> i = 1
    /\ msgs[i].role = "summary" => i = 2

ShapeInv == Shaped(messages)

(* The conversation as it will be when the open calls are answered.        *)
Results(ids) == [k \in 1..Len(ids) |-> ToolResult(ids[k])]
PairingInv == WellFormed(messages \o Results(pending))

(* There is a turn of the user to go back to.                              *)
TurnInv == Len(messages) > 1 \/ pc # "idle" => UserTurns(messages) # {}

(* What Process counts for itself and what was heard are the same.         *)
CountInv ==
  pc \in InRound =>
    /\ heard.counting /\ response = NoResponse /\ start <= Len(messages)
    /\ callCount = heard.returned
    /\ heard.asked = iteration + (IF pc \in {"tools", "running"} THEN 1 ELSE 0)
=============================================================================
