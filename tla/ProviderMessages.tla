-------------------------- MODULE ProviderMessages --------------------------
(***************************************************************************)
(* How a conversation becomes a request of each provider, and how a reply  *)
(* becomes a message of the conversation (src/llm/anthropic_mapping.go,    *)
(* openrouter_mapping.go, ollama_mapping.go).                              *)
(*                                                                         *)
(* The mappings are pure; the state machine only grows the conversations   *)
(* they are applied to, the way agent.Process does: a user message or      *)
(* none, a reply, and one tool message per call of the reply.  A text is a *)
(* sequence of pieces, so that "" is <<>> and concatenation is \o.         *)
(***************************************************************************)
EXTENDS Integers, Sequences, SequencesExt

CONSTANTS
  Makers,       (* the providers whose replies the conversation holds      *)
  MaxBlocks,    (* bound: blocks of a reply                                *)
  MaxMessages   (* bound: messages of a conversation                       *)

VARIABLES
  messages,    (* the conversation                                         *)
  pending,     (* the calls of the last reply without a result yet         *)
  responses    (* history: the content of every reply of Anthropic         *)

vars == <<messages, pending, responses>>

Tools == {"a", "b"}
NoID == <<>>

-----------------------------------------------------------------------------
(* Messages of the conversation; raw is the provider's own reply.          *)

NoRaw == [ok |-> FALSE, blocks |-> <<>>]
Text(role, text) == [role |-> role, text |-> text]
AssistantMessage(text, calls, raw) ==
  [role |-> "assistant", text |-> text, calls |-> calls, raw |-> raw]
ToolMessage(call) ==
  [role |-> "tool", id |-> call.id, name |-> call.name, text |-> <<call.args>>]

(* Blocks of an Anthropic message.                                         *)
TextBlock(text) == [type |-> "text", text |-> text]
UseBlock(call) == [type |-> "tool_use", call |-> call]
ResultBlock(id, text) == [type |-> "tool_result", id |-> id, text |-> text]

(* The text of a message, and the calls it makes.                          *)
TextIn(block) == IF block.type = "text" THEN block.text ELSE <<>>
TextsIn(blocks) == FlattenSeq([i \in 1..Len(blocks) |-> TextIn(blocks[i])])
CallIn(block) == IF block.type = "tool_use" THEN <<block.call>> ELSE <<>>
CallsIn(blocks) == FlattenSeq([i \in 1..Len(blocks) |-> CallIn(blocks[i])])

-----------------------------------------------------------------------------
(* Anthropic.                                                              *)

(* Mutant of AppendBlocks: every message of the conversation stays one.    *)
AppendBlocksApart(result, role, blocks) ==
  Append(result, [role |-> role, content |-> blocks])

(* Blocks join the message before when that has the same role.             *)
AppendBlocks(result, role, blocks) ==
  IF result # <<>> /\ Last(result).role = role
  THEN [result EXCEPT ![Len(result)].content = @ \o blocks]
  ELSE Append(result, [role |-> role, content |-> blocks])

(* A reply of Anthropic goes back as it came, any other is rebuilt.        *)
Rebuilt(text, calls) ==
  (IF text = <<>> THEN <<>> ELSE <<TextBlock(text)>>)
    \o [i \in 1..Len(calls) |-> UseBlock(calls[i])]
AssistantBlocks(m) == IF m.raw.ok THEN m.raw.blocks ELSE Rebuilt(m.text, m.calls)

AddMessage(result, m) ==
  CASE m.role = "user" -> AppendBlocks(result, "user", <<TextBlock(m.text)>>)
    [] m.role = "assistant" -> AppendBlocks(result, "assistant", AssistantBlocks(m))
    [] m.role = "tool" -> AppendBlocks(result, "user", <<ResultBlock(m.id, m.text)>>)
    [] m.role = "system" -> result

ToAnthropicMessages(msgs) ==
  LET result[k \in 0..Len(msgs)] ==
        IF k = 0 THEN <<>> ELSE AddMessage(result[k - 1], msgs[k])
  IN  result[Len(msgs)]

FromAnthropic(content) ==
  AssistantMessage(TextsIn(content), CallsIn(content), [ok |-> TRUE, blocks |-> content])

-----------------------------------------------------------------------------
(* OpenRouter and Ollama: one message each; Ollama has no ids.             *)

(* Mutant of ToORMessage: a reply that calls tools loses its text.         *)
ToORMessageCallsOnly(m) ==
  CASE m.role = "assistant" ->
         [role |-> m.role, content |-> IF m.calls = <<>> THEN m.text ELSE <<>>,
          tool_calls |-> m.calls]
    [] m.role = "tool" -> [role |-> m.role, content |-> m.text, tool_call_id |-> m.id]
    [] OTHER -> [role |-> m.role, content |-> m.text]

ToORMessage(m) ==
  CASE m.role = "assistant" ->
         [role |-> m.role, content |-> m.text, tool_calls |-> m.calls]
    [] m.role = "tool" -> [role |-> m.role, content |-> m.text, tool_call_id |-> m.id]
    [] OTHER -> [role |-> m.role, content |-> m.text]

OllamaCall(call) == [name |-> call.name, args |-> call.args]

ToOllamaMessage(m) ==
  CASE m.role = "assistant" ->
         [role |-> m.role, content |-> m.text,
          tool_calls |-> [i \in 1..Len(m.calls) |-> OllamaCall(m.calls[i])]]
    [] m.role = "tool" -> [role |-> m.role, content |-> m.text, tool_name |-> m.name]
    [] OTHER -> [role |-> m.role, content |-> m.text]

ToORMessages(msgs) == [i \in 1..Len(msgs) |-> ToORMessage(msgs[i])]
ToOllamaMessages(msgs) == [i \in 1..Len(msgs) |-> ToOllamaMessage(msgs[i])]

FromOpenRouter(text, calls) == AssistantMessage(text, calls, NoRaw)

FromOllama(text, calls) ==
  AssistantMessage(text, [i \in 1..Len(calls) |-> [calls[i] EXCEPT !.id = NoID]], NoRaw)

-----------------------------------------------------------------------------
(* Conversations.                                                          *)

Init ==
  /\ messages \in {<<>>, <<Text("system", << <<0>> >>)>>}
  /\ pending = <<>> /\ responses = <<>>

Here == Len(messages) + 1

User ==
  /\ pending = <<>> /\ Here <= MaxMessages
  /\ messages' = Append(messages, Text("user", << <<Here>> >>))
  /\ UNCHANGED <<pending, responses>>

(* What a model says, in order: pieces of thought and text, and calls.     *)
Says == UNION {[1..n -> Tools \cup {"text", "thinking"}] : n \in 0..MaxBlocks}

(* Pieces and ids are told apart by their place in the conversation.       *)
Content(says) ==
  [i \in 1..Len(says) |->
     IF says[i] = "text" THEN TextBlock(<< <<Here, i>> >>)
     ELSE IF says[i] = "thinking" THEN [type |-> "thinking", text |-> << <<Here, i>> >>]
     ELSE UseBlock([id |-> <<Here, i>>, name |-> says[i], args |-> <<Here, i>>])]

Reply(maker, says) ==
  /\ pending = <<>> /\ Here <= MaxMessages
  /\ messages # <<>> /\ Last(messages).role # "system"
  /\ LET said == FromAnthropic(Content(says))
         reply == CASE maker = "anthropic" -> said
                    [] maker = "openrouter" -> FromOpenRouter(said.text, said.calls)
                    [] maker = "ollama" -> FromOllama(said.text, said.calls)
     IN  /\ messages' = Append(messages, reply)
         /\ pending' = reply.calls
  /\ responses' = IF maker = "anthropic" THEN Append(responses, Content(says)) ELSE responses

(* Process runs the calls in order; a result stands for what was asked.    *)
Result ==
  /\ pending # <<>>
  /\ messages' = Append(messages, ToolMessage(Head(pending)))
  /\ pending' = Tail(pending)
  /\ UNCHANGED responses

Next == User \/ Result \/ \E maker \in Makers, says \in Says : Reply(maker, says)

Spec == Init /\ [][Next]_vars

-----------------------------------------------------------------------------
(* What must hold of the request sent when nothing is pending.             *)

Anthropic == ToAnthropicMessages(messages)
OpenRouter == ToORMessages(messages)
Ollama == ToOllamaMessages(messages)

(* The message starts with the results of the calls, in order, and has no  *)
(* other result.                                                           *)
Answers(content, calls) ==
  /\ Len(calls) <= Len(content)
  /\ \A k \in 1..Len(content) : content[k].type = "tool_result" <=> k <= Len(calls)
  /\ \A k \in 1..Len(calls) : content[k].id = calls[k].id

(* Anthropic refuses a request unless roles alternate and the message that *)
(* follows calls starts with their results, all of them: also when two     *)
(* calls were made at once, when the user speaks right after the results,  *)
(* and when the model was asked to go on without anything said in between. *)
ResultsAnswerCalls ==
  LET request == Anthropic IN
  pending = <<>> =>
    \A i \in 1..Len(request) :
      /\ i < Len(request) => request[i].role # request[i + 1].role
      /\ LET calls == CallsIn(request[i].content) IN
         calls # <<>> => i < Len(request) /\ Answers(request[i + 1].content, calls)

(* Every reply of Anthropic is sent back whole, unchanged and in one       *)
(* message of the assistant, its thoughts between its texts and calls.     *)
Echoed(reply, request) ==
  \E i \in 1..Len(request) :
    /\ request[i].role = "assistant"
    /\ \E skip \in 0..Len(request[i].content) - Len(reply) :
         \A k \in 1..Len(reply) : request[i].content[skip + k] = reply[k]

RepliesEchoed ==
  LET request == Anthropic IN
  \A r \in 1..Len(responses) : Echoed(responses[r], request)

(* The texts, and the calls and results, of a request.                     *)
TextOf(m) == IF m.role \in {"user", "assistant"} THEN m.content ELSE <<>>
CallsOf(m) ==
  CASE m.role = "assistant" ->
         [i \in 1..Len(m.tool_calls) |-> <<"call", m.tool_calls[i].args>>]
    [] m.role = "tool" -> << <<"result", m.content[1]>> >>
    [] OTHER -> <<>>
TextsOf(request) == FlattenSeq([i \in 1..Len(request) |-> TextOf(request[i])])
AllCallsOf(request) == FlattenSeq([i \in 1..Len(request) |-> CallsOf(request[i])])

CallOrResult(b) ==
  CASE b.type = "tool_use" -> << <<"call", b.call.args>> >>
    [] b.type = "tool_result" -> << <<"result", b.text[1]>> >>
    [] OTHER -> <<>>
CallsAndResults(blocks) ==
  FlattenSeq([i \in 1..Len(blocks) |-> CallOrResult(blocks[i])])
BlocksOf(request) == FlattenSeq([i \in 1..Len(request) |-> request[i].content])

(* Whatever the provider, it is shown the same conversation: the same      *)
(* texts, and the same calls with the same results, in the same order.     *)
SameConversation ==
  LET texts == TextsIn(BlocksOf(Anthropic))
      calls == CallsAndResults(BlocksOf(Anthropic))
  IN  /\ TextsOf(OpenRouter) = texts /\ TextsOf(Ollama) = texts
      /\ AllCallsOf(OpenRouter) = calls /\ AllCallsOf(Ollama) = calls

(* Ollama knows no ids: the results of a reply's calls follow it, in the   *)
(* order of the calls and under their names, also when one reply calls a   *)
(* tool twice.                                                             *)
ResultsByName ==
  pending = <<>> =>
    \A i \in 1..Len(Ollama) : Ollama[i].role = "assistant" =>
      \A k \in 1..Len(Ollama[i].tool_calls) :
        LET call == Ollama[i].tool_calls[k] IN
        /\ i + k <= Len(Ollama)
        /\ Ollama[i + k] =
             [role |-> "tool", content |-> <<call.args>>, tool_name |-> call.name]

-----------------------------------------------------------------------------
(* The inductive invariant.                                                *)

Texts == Seq(Seq(Nat))
Calls == [id : Seq(Nat), name : Tools, args : Seq(Nat)]
SaidBlocks ==
  [type : {"text", "thinking"}, text : Texts] \cup [type : {"tool_use"}, call : Calls]
Blocks ==
  SaidBlocks \cup [type : {"tool_result"}, id : Seq(Nat), text : [1..1 -> Seq(Nat)]]
Requests == [role : {"user", "assistant"}, content : Seq(Blocks)]
Replies ==
  [role : {"assistant"}, text : Texts, calls : Seq(Calls),
   raw : {NoRaw} \cup [ok : {TRUE}, blocks : Seq(SaidBlocks)]]
Messages ==
  [role : {"user", "system"}, text : Texts]
    \cup Replies
    \cup [role : {"tool"}, id : Seq(Nat), name : Tools, text : [1..1 -> Seq(Nat)]]

(* Calls d+1, d+2, ... are the ones left.                                  *)
Rest(calls, d, left) ==
  Len(calls) = d + Len(left) /\ \A k \in 1..Len(left) : calls[d + k] = left[k]

(* A request that may go on: roles alternate, the user calls nothing, and  *)
(* the calls of a message are answered by the next one, but those of the   *)
(* last two messages only where none is left.                              *)
Alternate(request) ==
  \A i \in 1..Len(request) : i < Len(request) => request[i].role # request[i + 1].role
UserCallsNothing(request) ==
  \A i \in 1..Len(request) : request[i].role = "user" => CallsIn(request[i].content) = <<>>
Answered(request, left) ==
  \A i \in 1..Len(request) :
    CallsIn(request[i].content) # <<>> /\ (left = <<>> \/ i + 1 < Len(request)) =>
      i < Len(request) /\ Answers(request[i + 1].content, CallsIn(request[i].content))

(* What is left are the last calls of the last message, or of the one      *)
(* before where the last one is their results so far.                      *)
AllLeft(request, left) ==
  /\ request[Len(request)].role = "assistant"
  /\ Rest(CallsIn(request[Len(request)].content), 0, left)
SomeLeft(request, left) ==
  LET n == Len(request)
      results == request[n].content
      calls == CallsIn(request[n - 1].content)
  IN  /\ n > 1 /\ request[n].role = "user"
      /\ Rest(calls, Len(results), left)
      /\ \A k \in 1..Len(results) :
           results[k].type = "tool_result" /\ results[k].id = calls[k].id

RequestInv(request, left) ==
  /\ Alternate(request) /\ UserCallsNothing(request) /\ Answered(request, left)
  /\ left # <<>> =>
       Len(request) > 0 /\ (AllLeft(request, left) \/ SomeLeft(request, left))

(* The same of the conversation itself.                                    *)
Followed(msgs, i, results) ==
  \A k \in 1..results :
    i + k <= Len(msgs) /\ msgs[i + k] = ToolMessage(msgs[i].calls[k])
InOrder(msgs, i, left) ==
  \/ Followed(msgs, i, Len(msgs[i].calls))
  \/ /\ left # <<>> /\ Rest(msgs[i].calls, Len(msgs) - i, left)
     /\ Followed(msgs, i, Len(msgs) - i)
OrderInv(msgs, left) ==
  \A i \in 1..Len(msgs) : msgs[i].role = "assistant" => InOrder(msgs, i, left)

ConversationInv ==
  /\ messages \in Seq(Messages) /\ pending \in Seq(Calls)
  /\ responses \in Seq(Seq(SaidBlocks))
  /\ Anthropic \in Seq(Requests)
  /\ RequestInv(Anthropic, pending)
  /\ RepliesEchoed /\ OrderInv(messages, pending) /\ SameConversation
=============================================================================
