-------------------------------- MODULE Chat ---------------------------------
(***************************************************************************)
(* A client of a model whose replies are streamed: LLM, with the answer of *)
(* one caller's chat read through an IdleReader, as every provider's chat  *)
(* does (src/llm/ollama.go, anthropic.go, openrouter.go).  The read lock   *)
(* is held until the body is closed, so that what a provider does between  *)
(* two pieces of a reply decides when a change of the model gets through.  *)
(*                                                                         *)
(* The requests of the other callers are answered in one step: a body of   *)
(* theirs would be a reader of its own, like this one.                     *)
(***************************************************************************)
EXTENDS LLM

CONSTANTS
  Streamer,    (* the caller that chats; the others ask about the model    *)
  Patient,     (* those of the others whose context has no deadline        *)
  Timeout,     (* rest.IdleTimeout, in ticks                               *)
  MaxChunks    (* bound: pieces of one reply                               *)

ASSUME ChatAssumption ==
  /\ Streamer \in Callers /\ Patient \subseteq Callers \ {Streamer}
  /\ Timeout \in Nat \ {0} /\ MaxChunks \in Nat

VARIABLES chunks, unread, ended, body, rpc, got, res, timer, left, fire, expired

bodyVars == <<chunks, unread, ended, body, rpc, got, res, timer, left, fire, expired>>

Reply == INSTANCE IdleReader WITH sent <- chunks, pending <- unread

ChatInit == Init /\ Reply!Init

(* Between the headers of the reply and the return of chat.                *)
Streaming == pc[Streamer] = "answer"

(* The provider, the timer and the goroutine that reads the reply.         *)
Stream(step) == Streaming /\ step /\ UNCHANGED vars

(* chat returns after its deferred Close, and the next chat has a body and *)
(* a timer of its own: whatever is left of this timer's function can reach *)
(* only the body that is closed.                                           *)
ChatReturns ==
  /\ Streaming /\ rpc = "closed"
  /\ Answer(Streamer)
  /\ chunks' = 0 /\ unread' = 0 /\ ended' = "no" /\ body' = "open"
  /\ rpc' = "idle" /\ got' = "none" /\ res' = "none"
  /\ timer' = "armed" /\ left' = Timeout /\ fire' = "none" /\ expired' = FALSE

(* No headers come in time, or the retries are used up: there is no body.  *)
ChatFails == Reply!Init /\ Streaming /\ Answer(Streamer)

(* ModelInfo's answer is read in one step; an error of the request, and    *)
(* the end of its context, release the lock like an answer.                *)
PlainAnswer(c) == c # Streamer /\ Answer(c)

Client(c) ==
  \/ Request(c, IF c = Streamer THEN "Chat" ELSE "ModelInfo") \/ BeginChange(c)
  \/ RLock(c) \/ Send(c) \/ PlainAnswer(c) \/ Announce(c)
  \/ Lock(c) \/ Change(c)

ChatNext ==
  \/ (ChatFails \/ \E c \in Callers : Client(c)) /\ UNCHANGED bodyVars
  \/ Stream(Reply!Next)
  \/ ChatReturns

ChatSpec == ChatInit /\ [][ChatNext]_<<vars, bodyVars>>

(* Every caller runs.  A request for the model's info ends with its        *)
(* context; the headers of any answer are awaited for minutes, but reading *)
(* the body of this one has no deadline, so a patient caller's need never  *)
(* end.  sync.RWMutex hands the lock of a writer to the writers that wait  *)
(* for it in turn, so none is passed over for ever.                        *)
ClientFairness ==
  /\ \A c \in Callers :
       /\ WF_vars(RLock(c)) /\ WF_vars(Send(c))
       /\ SF_vars(Announce(c)) /\ WF_vars(Lock(c)) /\ WF_vars(Change(c))
  /\ \A c \in Callers \ Patient : WF_vars(PlainAnswer(c))

(* Time passes, timers fire, the chat reads on or gives up, and returns.   *)
(* The provider owes nothing: neither a piece of the reply nor its end.    *)
StreamFairness ==
  /\ WF_bodyVars(Stream(Reply!Tick)) /\ WF_bodyVars(Stream(Reply!Fire))
  /\ WF_bodyVars(Stream(Reply!Expire)) /\ WF_bodyVars(Stream(Reply!Reading))
  /\ WF_bodyVars(Stream(Reply!BeginRead \/ Reply!StopTimer))
  /\ WF_bodyVars(ChatReturns)

FairChatSpec == ChatSpec /\ ClientFairness /\ StreamFairness

-----------------------------------------------------------------------------
(* What must hold.                                                         *)

(* A Read that the timer cut short says so: a chat never takes a provider  *)
(* that stalls for a connection that broke.                                *)
StallReported == Reply!StallReported

(* A chat that has closed its body leaves neither the connection nor a     *)
(* timer of minutes behind.                                                *)
ClosedIsReleased == Reply!ClosedIsReleased

(* The inductive invariant: the lock's and, whatever becomes of the reply, *)
(* the reader's.                                                           *)
ChatIInv == IInv /\ Reply!IInv

(* A chat whose request is sent returns, whatever the other callers do and *)
(* wherever its provider falls silent or ends a reply of finite length:    *)
(* silence holds the read lock no longer than the timer lets it. With no   *)
(* request for the model's info that hangs for ever, every operation of    *)
(* the client returns: a change is not put off for ever by callers that    *)
(* keep chatting, nor a chat by changes. One request that does hang holds  *)
(* the read lock, and with it the first change and everybody after that.   *)
OperationsReturn ==
  /\ pc[Streamer] = "answer" ~> pc[Streamer] = "idle"
  /\ (\A p \in Patient : []<>(pc[p] # "answer"))
       => \A c \in Callers : pc[c] # "idle" ~> pc[c] = "idle"
=============================================================================
