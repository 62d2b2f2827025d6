-------------------------- MODULE OpenRouterStream --------------------------
(***************************************************************************)
(* Reading a streamed reply of OpenRouter (src/llm/openrouter.go): each    *)
(* chunk carries choices, and a choice carries text and fragments of tool  *)
(* calls, which are merged by their index.  [DONE] completes the reply.    *)
(*                                                                         *)
(* Text and arguments are told apart by where they were sent: a text by    *)
(* the position of its choice, a fragment by that and its own place in it. *)
(***************************************************************************)
EXTENDS Integers, Sequences, FiniteSets, Positions

CONSTANTS
  MaxEvents,      (* bound: choices and other events of a stream           *)
  MaxFragments,   (* bound: fragments of a stream                          *)
  MaxIndex        (* bound: indexes the server uses are -1..MaxIndex       *)

(* A fragment: the tool call it names, whether it carries the call's id    *)
(* and name, and whether it carries a piece of the arguments.              *)
Fragments == [index : -1..MaxIndex, named : BOOLEAN, args : BOOLEAN]

(* A choice of a chunk: its text, if any, its fragments, and whether it    *)
(* carries a finish reason.  The fragments of a choice may interleave.     *)
Choices(fragments) ==
  [kind : {"choice"}, text : BOOLEAN,
   fragments : UNION {[1..n -> Fragments] : n \in 0..fragments}, finish : BOOLEAN]

Other(kind) == [kind |-> kind]

VARIABLES
  stream,        (* history: the events read so far                        *)
  content,       (* content: the texts written to it                       *)
  toolCalls,     (* toolCalls: name is where the name came from, or none   *)
  finishReason,  (* where finishReason came from, or 0                     *)
  usage,         (* where usage came from, or 0                            *)
  sawChoice,
  outcome        (* "reading", "reply", "error"                            *)

vars ==
  <<stream, content, toolCalls, finishReason, usage, sawChoice, outcome>>

None == <<0, 0>>

Init ==
  /\ stream = <<>> /\ content = <<>> /\ toolCalls = <<>>
  /\ finishReason = 0 /\ usage = 0 /\ sawChoice = FALSE
  /\ outcome = "reading"

Read(event) ==
  /\ outcome = "reading" /\ Len(stream) < MaxEvents
  /\ stream' = Append(stream, event)

-----------------------------------------------------------------------------
(* mergeORToolCalls, on the fragments of the choice at position at.        *)

InOrder(calls, i) == 0 <= i /\ i <= Len(calls)

NewCall == [name |-> None, args |-> <<>>]

Grown(calls, i) ==
  calls \o [k \in 1..(i + 1 - Len(calls)) |-> NewCall]

(* Mutant of MergeOne: a fragment goes to the newest tool call.            *)
MergeLast(calls, f, where) ==
  LET grown == Grown(calls, f.index) IN
  [grown EXCEPT
     ![Len(grown)].name = IF f.named THEN where ELSE @,
     ![Len(grown)].args = IF f.args THEN Append(@, where) ELSE @]

MergeOne(calls, f, where) ==
  [Grown(calls, f.index) EXCEPT
     ![f.index + 1].name = IF f.named THEN where ELSE @,
     ![f.index + 1].args = IF f.args THEN Append(@, where) ELSE @]

(* The tool calls after each of the fragments of a choice, in order.       *)
Merged(calls, fragments, at) ==
  LET merged[k \in 0..Len(fragments)] ==
        IF k = 0 THEN calls ELSE MergeOne(merged[k - 1], fragments[k], <<at, k>>)
  IN  merged

Mergeable(calls, fragments, at) ==
  \A k \in 1..Len(fragments) :
    InOrder(Merged(calls, fragments, at)[k - 1], fragments[k].index)

-----------------------------------------------------------------------------
(* readORStream, one action per kind of event.                             *)

Choice(c) ==
  LET at == Len(stream) + 1 IN
  /\ Mergeable(toolCalls, c.fragments, at)
  /\ Read(c)
  /\ sawChoice' = TRUE
  /\ content' = IF c.text THEN Append(content, at) ELSE content
  /\ finishReason' = IF c.finish THEN at ELSE finishReason
  /\ toolCalls' = Merged(toolCalls, c.fragments, at)[Len(c.fragments)]
  /\ UNCHANGED <<usage, outcome>>

OutOfOrder(c) ==
  /\ ~Mergeable(toolCalls, c.fragments, Len(stream) + 1)
  /\ Read(c)
  /\ outcome' = "error"
  /\ UNCHANGED <<content, toolCalls, finishReason, usage, sawChoice>>

(* A chunk that carries usage and no choice.                               *)
Usage ==
  /\ Read(Other("usage"))
  /\ usage' = Len(stream')
  /\ UNCHANGED <<content, toolCalls, finishReason, sawChoice, outcome>>

(* The arguments of a call are decoded when the reply is complete, and a   *)
(* reply with arguments that do not decode is an error.                    *)
Done ==
  /\ Read(Other("done"))
  /\ outcome' \in
       IF ~sawChoice THEN {"error"}
       ELSE IF \E i \in 1..Len(toolCalls) : toolCalls[i].args # <<>>
            THEN {"reply", "error"}
            ELSE {"reply"}
  /\ UNCHANGED <<content, toolCalls, finishReason, usage, sawChoice>>

(* A chunk that reports an error, one that is not JSON, or a body that     *)
(* ends or fails before [DONE].                                            *)
StreamFails ==
  /\ \E e \in {"api error", "bad chunk", "eof"} : Read(Other(e))
  /\ outcome' = "error"
  /\ UNCHANGED <<content, toolCalls, finishReason, usage, sawChoice>>

Sent == {k \in 1..Len(stream) : stream[k].kind = "choice"}
Places == UNION {{<<k, j>> : j \in 1..Len(stream[k].fragments)} : k \in Sent}

Next ==
  \/ \E c \in Choices(MaxFragments - Cardinality(Places)) : Choice(c) \/ OutOfOrder(c)
  \/ Usage \/ Done \/ StreamFails

Spec == Init /\ [][Next]_vars

-----------------------------------------------------------------------------
(* What must hold.                                                         *)

Texts == {k \in Sent : stream[k].text}
At(s, p) == s[p[1]].fragments[p[2]]

(* Each of the calls has what was sent at the places that name its index:  *)
(* every piece of the arguments, in order, and the last of its names.      *)
TellWhatWasSent(calls, s, places) ==
  \A i \in 1..Len(calls) :
    LET mine == {p \in places : At(s, p).index = i - 1} IN
    /\ ListsPairs(calls[i].args, {p \in mine : At(s, p).args})
    /\ LatestOf(calls[i].name, {p \in mine : At(s, p).named}, None)

(* A reply holds all of the text and, tool call by tool call, every piece  *)
(* of arguments sent under the call's index, in the order sent and nothing *)
(* else, also when the server interleaves the calls; its name is the last  *)
(* one sent for that index.                                                *)
ReplyIsWhole ==
  outcome = "reply" => Lists(content, Texts) /\ TellWhatWasSent(toolCalls, stream, Places)

CallsOf(s, places) == {At(s, p).index : p \in places}

(* The calls of a reply are those the server sent fragments for, none      *)
(* missing and none invented: an index that skips one is an error.         *)
NoPhantomCall ==
  outcome = "reply" => CallsOf(stream, Places) = 0..Len(toolCalls) - 1

IsLastReason(reason) ==
  LET finishes == {k \in Sent : stream[k].finish} IN
  reason \in finishes \cup {0} /\ \A k \in finishes : k <= reason

(* The reply shows the last finish reason sent: a provider that sends one  *)
(* per chunk ends with the one that counts.                                *)
LastReasonWins == outcome = "reply" => IsLastReason(finishReason)

(* A stream that breaks off before [DONE], or that reports an error after  *)
(* text was sent, is an error and never a shorter reply.                   *)
NoPartialReply ==
  outcome = "reply" => stream[Len(stream)].kind = "done" /\ Sent # {}

(* The inductive invariant: what was read is whole until there is an error.*)
Events ==
  [kind : {"choice"}, text : BOOLEAN, fragments : Seq(Fragments), finish : BOOLEAN]
    \cup [kind : {"usage", "done", "api error", "bad chunk", "eof"}]
Calls == [name : Nat \X Nat, args : Seq(Nat \X Nat)]

StreamInv ==
  /\ stream \in Seq(Events) /\ content \in Seq(Nat) /\ toolCalls \in Seq(Calls)
  /\ outcome \in {"reading", "reply", "error"} /\ sawChoice \in BOOLEAN
  /\ outcome # "error" =>
       /\ Lists(content, Texts) /\ TellWhatWasSent(toolCalls, stream, Places)
       /\ CallsOf(stream, Places) = 0..Len(toolCalls) - 1
       /\ IsLastReason(finishReason)
       /\ sawChoice => Sent # {}
  /\ NoPartialReply
=============================================================================
