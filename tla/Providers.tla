------------------------------ MODULE Providers ------------------------------
(***************************************************************************)
(* What llm.LLM relies on in a provider (src/llm/provider.go): that it     *)
(* reads a streamed reply whole or not at all, and that the request it     *)
(* makes of a conversation says what the conversation says.                *)
(*                                                                         *)
(* A client has one provider, chosen by New; the readers never meet, so    *)
(* they share the variables they have in common.  "none" is a client that  *)
(* is not reading: it is between two chats, and the conversation grows.    *)
(* "events" is what stands before two of the readers: the body cut up into *)
(* the events they read.                                                   *)
(***************************************************************************)
EXTENDS Naturals

CONSTANTS
  MaxEvents, MaxBlocks,                 (* bounds: AnthropicStream         *)
  MaxChoices, MaxFragments, MaxIndex,   (* bounds: OpenRouterStream        *)
  MaxParts, MaxCalls,                   (* bounds: OllamaStream            *)
  MaxBody,                              (* bound: EventStream              *)
  Makers, MaxSaid, MaxMessages          (* bounds: ProviderMessages        *)

ASSUME ProvidersAssumption ==
  /\ MaxEvents \in Nat /\ MaxBlocks \in Nat \ {0}
  /\ MaxChoices \in Nat /\ MaxFragments \in Nat /\ MaxIndex \in Nat
  /\ MaxParts \in Nat /\ MaxCalls \in Nat /\ MaxBody \in Nat
  /\ Makers \subseteq {"anthropic", "openrouter", "ollama"} /\ Makers # {}
  /\ MaxSaid \in Nat /\ MaxMessages \in Nat

VARIABLES
  provider,                              (* whose reply is read, or "none" *)
  stream, content, toolCalls, outcome,   (* of every reader                *)
  parts, stopReason,                     (* of Anthropic's                 *)
  finishReason, usage, sawChoice,        (* of OpenRouter's                *)
  messages, unanswered, responses        (* the conversation               *)

common == <<stream, content, toolCalls, outcome>>
ofAnthropic == <<parts, stopReason>>
ofOpenRouter == <<finishReason, usage, sawChoice>>
conversation == <<messages, unanswered, responses>>
providerVars == <<provider, common, ofAnthropic, ofOpenRouter, conversation>>

Anthropic == INSTANCE AnthropicStream WITH events <- stream
OpenRouter == INSTANCE OpenRouterStream WITH MaxEvents <- MaxChoices
Ollama == INSTANCE OllamaStream WITH MaxChunks <- MaxParts
Events == INSTANCE EventStream WITH lines <- stream, data <- parts, events <- content
Messages == INSTANCE ProviderMessages WITH
  MaxBlocks <- MaxSaid, pending <- unanswered

ProvidersInit ==
  /\ provider \in {"anthropic", "openrouter", "ollama", "events", "none"}
  /\ Anthropic!Init /\ OpenRouter!Init /\ Ollama!Init /\ Events!Init
  /\ IF provider = "none" THEN Messages!Init
     ELSE messages = <<>> /\ unanswered = <<>> /\ responses = <<>>

ProvidersNext ==
  /\ UNCHANGED provider
  /\ \/ /\ provider = "anthropic" /\ Anthropic!Next
        /\ UNCHANGED <<toolCalls, ofOpenRouter, conversation>>
     \/ /\ provider = "openrouter" /\ OpenRouter!Next
        /\ UNCHANGED <<ofAnthropic, conversation>>
     \/ /\ provider = "ollama" /\ Ollama!Next
        /\ UNCHANGED <<ofAnthropic, ofOpenRouter, conversation>>
     \/ /\ provider = "events" /\ Events!Next
        /\ UNCHANGED <<toolCalls, stopReason, ofOpenRouter, conversation>>
     \/ /\ provider = "none" /\ Messages!Next
        /\ UNCHANGED <<common, ofAnthropic, ofOpenRouter>>

ProvidersSpec == ProvidersInit /\ [][ProvidersNext]_providerVars

-----------------------------------------------------------------------------
(* What must hold.                                                         *)

(* A reply is the whole of what the server streamed or it is an error: the *)
(* events of its lines, every delta under its block or call, also when the *)
(* server interleaves them, no call nobody asked for, the last finish      *)
(* reason, and nothing of a stream that breaks off, skips an index or      *)
(* reports an error.  That no delta of Anthropic's is missing supposes     *)
(* that each block was stopped, once and after its deltas: one still open  *)
(* at message_stop stays as it was announced, and is no error.             *)
RepliesAreWhole ==
  /\ provider = "anthropic" =>
       Anthropic!ReplyIsWhole /\ Anthropic!BlocksInOrder /\ Anthropic!NoPartialReply
  /\ provider = "openrouter" =>
       /\ OpenRouter!ReplyIsWhole /\ OpenRouter!NoPhantomCall
       /\ OpenRouter!LastReasonWins /\ OpenRouter!NoPartialReply
  /\ provider = "events" => Events!EventsAreWhole
  /\ provider = "ollama" => Ollama!ReplyIsWhole /\ Ollama!NoPartialReply

(* The inductive invariant: that of the reader whose reply is read.        *)
RepliesInv ==
  /\ provider \in {"anthropic", "openrouter", "ollama", "events", "none"}
  /\ provider = "anthropic" => Anthropic!StreamInv
  /\ provider = "openrouter" => OpenRouter!StreamInv
  /\ provider = "ollama" => Ollama!StreamInv
  /\ provider = "events" => Events!EventsInv

(* Anthropic accepts the request: roles alternate and results follow their *)
(* calls, also those of a conversation that other providers took part in.  *)
ResultsAnswerCalls == Messages!ResultsAnswerCalls

(* The three providers are shown the same texts, calls and results;        *)
(* Anthropic's replies go back to it whole and unchanged, and Ollama,      *)
(* which knows no call ids, is told the tool of every result.              *)
SameConversation ==
  Messages!SameConversation /\ Messages!RepliesEchoed /\ Messages!ResultsByName
=============================================================================
