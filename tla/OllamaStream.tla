---------------------------- MODULE OllamaStream ----------------------------
(***************************************************************************)
(* Reading a streamed reply of Ollama (src/llm/ollama.go): JSON chunks     *)
(* with text and whole tool calls, the last of them marked done.           *)
(*                                                                         *)
(* A text is told apart by the position of its chunk, a tool call by that  *)
(* and its place in it.                                                    *)
(***************************************************************************)
EXTENDS Naturals, Sequences, Positions

CONSTANTS
  MaxChunks,   (* bound: chunks of a stream                                *)
  MaxCalls     (* bound: tool calls of a chunk                             *)

Chunks == [text : BOOLEAN, calls : 0..MaxCalls, done : BOOLEAN, fails : BOOLEAN]

VARIABLES
  stream,      (* history: the chunks read so far                          *)
  content,
  toolCalls,
  outcome      (* "reading", "reply", "error"                              *)

vars == <<stream, content, toolCalls, outcome>>

Init ==
  stream = <<>> /\ content = <<>> /\ toolCalls = <<>> /\ outcome = "reading"

Read(chunk) ==
  /\ outcome = "reading" /\ Len(stream) < MaxChunks
  /\ stream' = Append(stream, chunk)

CallsOf(k) == [j \in 1..stream'[k].calls |-> <<k, j>>]

Chunk(chunk) ==
  /\ ~chunk.fails
  /\ Read(chunk)
  /\ content' = IF chunk.text THEN Append(content, Len(stream')) ELSE content
  /\ toolCalls' = toolCalls \o CallsOf(Len(stream'))
  /\ outcome' = IF chunk.done THEN "reply" ELSE "reading"

(* A chunk that reports an error, whatever else it carries.                *)
ChunkFails(chunk) ==
  /\ chunk.fails
  /\ Read(chunk)
  /\ outcome' = "error"
  /\ UNCHANGED <<content, toolCalls>>

(* The body ends before a chunk marked done, or cannot be decoded.         *)
BodyEnds ==
  /\ outcome = "reading"
  /\ outcome' = "error"
  /\ UNCHANGED <<stream, content, toolCalls>>

Next == (\E chunk \in Chunks : Chunk(chunk) \/ ChunkFails(chunk)) \/ BodyEnds

Spec == Init /\ [][Next]_vars

-----------------------------------------------------------------------------
(* What must hold.                                                         *)

Texts == {k \in 1..Len(stream) : stream[k].text}
Calls == UNION {{<<k, j>> : j \in 1..stream[k].calls} : k \in 1..Len(stream)}

(* A reply holds the text and the tool calls of every chunk, also of those *)
(* before the last, in the order sent.                                     *)
ReplyIsWhole ==
  outcome = "reply" => Lists(content, Texts) /\ ListsPairs(toolCalls, Calls)

(* A stream that breaks off or reports an error is never a shorter reply,  *)
(* and nothing after the chunk marked done is read.                        *)
NoPartialReply ==
  /\ outcome = "reply" => stream # <<>> /\ stream[Len(stream)].done
  /\ \A k \in 1..Len(stream) : stream[k].done /\ ~stream[k].fails => k = Len(stream)

(* The inductive invariant: what is read is whole until there is an error, *)
(* and while there is more to read no chunk was marked done.               *)
StreamInv ==
  /\ stream \in Seq(Chunks) /\ content \in Seq(Nat) /\ toolCalls \in Seq(Nat \X Nat)
  /\ outcome \in {"reading", "reply", "error"}
  /\ outcome # "error" => Lists(content, Texts) /\ ListsPairs(toolCalls, Calls)
  /\ outcome = "reading" => \A k \in 1..Len(stream) : ~stream[k].done
  /\ NoPartialReply
=============================================================================
