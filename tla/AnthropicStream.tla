-------------------------- MODULE AnthropicStream ---------------------------
(***************************************************************************)
(* Reading a streamed reply of Anthropic (src/llm/anthropic.go): content   *)
(* blocks are announced, filled by deltas that name their block, finished, *)
(* and the reply is complete at message_stop, or it is an error.           *)
(*                                                                         *)
(* A delta stands for its text; deltas are told apart by the position of   *)
(* their event in the stream.  The server may send any events in any order.*)
(***************************************************************************)
EXTENDS Integers, Sequences, Positions

CONSTANTS
  MaxEvents,   (* bound: events of a stream                                *)
  MaxBlocks    (* bound: indexes the server uses are 0..MaxBlocks          *)

Types == {"text", "tool_use"}
Indexes == -1..MaxBlocks

VARIABLES
  events,      (* history: the events read so far                          *)
  content,     (* response.Content: blocks, from index 0                   *)
  parts,       (* the builder of each block                                *)
  stopReason,  (* position of the message_delta the response shows, or 0   *)
  outcome      (* "reading", "reply", "error"                              *)

vars == <<events, content, parts, stopReason, outcome>>

Init ==
  /\ events = <<>> /\ content = <<>> /\ parts = <<>> /\ stopReason = 0
  /\ outcome = "reading"

Block(i) == i + 1
Started(i) == i >= 0 /\ i < Len(content)

Event(kind, i) == [kind |-> kind, index |-> i]

Read(kind, i) ==
  /\ outcome = "reading" /\ Len(events) < MaxEvents
  /\ events' = Append(events, Event(kind, i))

Fail(kind, i) ==
  /\ Read(kind, i)
  /\ outcome' = "error"
  /\ UNCHANGED <<content, parts, stopReason>>

-----------------------------------------------------------------------------
(* apply, one action per type of event.                                    *)

BlockStart(i, type) ==
  /\ i = Len(content)
  /\ Read("start", i)
  /\ content' = Append(content, [type |-> type, out |-> <<>>])
  /\ parts' = Append(parts, <<>>)
  /\ UNCHANGED <<stopReason, outcome>>

BlockDelta(i) ==
  /\ Started(i)
  /\ Read("delta", i)
  /\ parts' = [parts EXCEPT ![Block(i)] = Append(@, Len(events'))]
  /\ UNCHANGED <<content, stopReason, outcome>>

(* finishBlock: text gets what the builder holds, and a tool's input is    *)
(* replaced by it, unless there is none.                                   *)
BlockStop(i) ==
  /\ Started(i)
  /\ Read("stop", i)
  /\ LET b == Block(i) IN
     content' = [content EXCEPT ![b].out =
                   IF content[b].type = "text" THEN @ \o parts[b]
                   ELSE IF parts[b] = <<>> THEN @ ELSE parts[b]]
  /\ UNCHANGED <<parts, stopReason, outcome>>

(* The input of a tool does not decode: JSON that is not whole never does. *)
BadInput(i) ==
  /\ Started(i) /\ content[Block(i)].type = "tool_use" /\ parts[Block(i)] # <<>>
  /\ Fail("stop", i)

OutOfOrder(i) ==
  \/ i # Len(content) /\ Fail("start", i)
  \/ ~Started(i) /\ (Fail("delta", i) \/ Fail("stop", i))

MessageDelta ==
  /\ Read("message", 0)
  /\ stopReason' = Len(events')
  /\ UNCHANGED <<content, parts, outcome>>

MessageStop ==
  /\ Read("end", 0)
  /\ outcome' = "reply"
  /\ UNCHANGED <<content, parts, stopReason>>

(* An error event, an event that is not JSON, a body that ends or fails.   *)
StreamFails == Fail("error", 0) \/ Fail("eof", 0)

Next ==
  \/ \E i \in Indexes :
       \/ \E type \in Types : BlockStart(i, type)
       \/ BlockDelta(i) \/ BlockStop(i) \/ BadInput(i) \/ OutOfOrder(i)
  \/ MessageDelta \/ MessageStop \/ StreamFails

Spec == Init /\ [][Next]_vars

-----------------------------------------------------------------------------
(* What must hold.                                                         *)

(* Where the events of a kind for an index are.                            *)
Sent(kind, i) == {k \in 1..Len(events) : events[k] = Event(kind, i)}

(* A stream as the provider documents it: every block is stopped once, and *)
(* after its last delta.                                                   *)
WellFormed ==
  \A b \in 1..Len(content) : \E stop \in 1..Len(events) :
    /\ Sent("stop", b - 1) = {stop}
    /\ \A k \in Sent("delta", b - 1) : k < stop

(* The reply of such a stream holds, block by block, every delta that was  *)
(* sent for the block and nothing else, in the order sent, also when       *)
(* blocks are interleaved.                                                 *)
ReplyIsWhole ==
  outcome = "reply" /\ WellFormed =>
    \A b \in 1..Len(content) : Lists(content[b].out, Sent("delta", b - 1))

(* The blocks of a reply are the announced ones, in the order of their     *)
(* indexes; a stream that skips or repeats an index is no reply.           *)
BlocksInOrder ==
  LET starts == {k \in 1..Len(events) : events[k].kind = "start"} IN
  outcome # "error" =>
    /\ {events[k].index : k \in starts} = 0..Len(content) - 1
    /\ \A j, k \in starts : j < k => events[j].index < events[k].index

(* A stream that breaks off is an error, never a shorter reply.            *)
NoPartialReply == outcome = "reply" => events[Len(events)].kind = "end"

(* The inductive invariant: a builder holds the deltas of its block, and a *)
(* block that was stopped once what its builder held then.                 *)
BlocksInv ==
  /\ \A k \in 1..Len(events) :
       events[k].kind \in {"delta", "stop"} => Started(events[k].index)
  /\ Len(parts) = Len(content)
  /\ \A b \in 1..Len(content) :
       /\ Lists(parts[b], Sent("delta", b - 1))
       /\ Sent("stop", b - 1) = {} => content[b].out = <<>>
       /\ \A stop \in 1..Len(events) : Sent("stop", b - 1) = {stop} =>
            Lists(content[b].out, {k \in Sent("delta", b - 1) : k < stop})

EventKinds == {"start", "delta", "stop", "message", "end", "error", "eof"}

StreamInv ==
  /\ events \in Seq([kind : EventKinds, index : Int])
  /\ content \in Seq([type : Types, out : Seq(Nat)]) /\ parts \in Seq(Seq(Nat))
  /\ outcome \in {"reading", "reply", "error"}
  /\ outcome # "error" => BlocksInv
  /\ BlocksInOrder /\ NoPartialReply
=============================================================================
