----------------------------- MODULE LlmProofs -----------------------------
(***************************************************************************)
(* Proofs about the package llm: about Chat, a client and the reply it     *)
(* reads, and about Providers, the readers of a streamed reply and the     *)
(* requests made of a conversation.  They hold for any number of callers,  *)
(* any models and efforts, every idle timeout, and streams and             *)
(* conversations of any length.                                            *)
(***************************************************************************)
EXTENDS Chat, Providers, Positions, SequenceTheorems, WellFoundedInduction, TLAPS

-----------------------------------------------------------------------------
(* The client and its lock.                                                *)

(* The initial state satisfies the invariant of the lock.                  *)
LEMMA LockInit == Init => IInv
BY LLMAssumption DEF Init, IInv, TypeOK, LockInv, ArgInv, RequestsSeeOneConfig,
                     Operations, Requests, Configs, FirstConfig

(* A request is begun, sent and answered; the configuration stays.         *)
LEMMA RequestSteps ==
  ASSUME IInv, NEW c \in Callers,
         \/ \E o \in Requests : Request(c, o)
         \/ RLock(c) \/ Send(c) \/ Answer(c)
  PROVE  IInv'
<1> USE DEF IInv, TypeOK, LockInv, ArgInv, RequestsSeeOneConfig, Operations
<1>1. ASSUME NEW o \in Requests, Request(c, o) PROVE IInv'
  BY <1>1 DEF Request
<1>2. CASE RLock(c)
  BY <1>2 DEF RLock
<1>3. CASE Send(c)
  BY <1>3 DEF Send
<1>4. CASE Answer(c)
  BY <1>4, LLMAssumption DEF Answer, FirstConfig, Configs, Requests
<1> QED
  BY <1>1, <1>2, <1>3, <1>4

(* A change is asked for, waits for the lock, and takes place: while a     *)
(* writer holds the lock nobody has a request under way.                   *)
LEMMA ChangeSteps ==
  ASSUME IInv, NEW c \in Callers,
         BeginChange(c) \/ Announce(c) \/ Lock(c) \/ Change(c)
  PROVE  IInv'
<1> USE DEF IInv, TypeOK, LockInv, ArgInv, RequestsSeeOneConfig, Operations
<1>1. ASSUME NEW m \in Models, ChangeModel(c, m) PROVE IInv'
  BY <1>1 DEF ChangeModel
<1>2. ASSUME NEW e \in Efforts \union {BadEffort}, ChangeEffort(c, e) PROVE IInv'
  BY <1>2 DEF ChangeEffort
<1>3. CASE Announce(c)
  BY <1>3 DEF Announce
<1>4. CASE Lock(c)
  BY <1>4 DEF Lock
<1>5. CASE Change(c)
  <2>1. readers = {} /\ pending = {} /\ \A d \in Callers : pc[d] # "answer"
    BY <1>5 DEF Change
  <2>2. config' \in Configs
    BY <1>5 DEF Change, Configs
  <2>3. TypeOK'
    BY <1>5, <2>2, LLMAssumption DEF Change, Requests
  <2>4. (LockInv /\ ArgInv)'
    BY <1>5, <2>1, LLMAssumption DEF Change
  <2>5. RequestsSeeOneConfig'
    BY <1>5, <2>1 DEF Change
  <2> QED
    BY <2>3, <2>4, <2>5
<1> QED
  BY <1>1, <1>2, <1>3, <1>4, <1>5 DEF BeginChange

-----------------------------------------------------------------------------
(* The reader of the reply.                                                *)

(* Where the counters of a new reply begin.                                *)
LEMMA ReplyBounds ==
  0 \in 0..MaxChunks /\ 0 \in 0..0 /\ Timeout \in 0..Timeout
BY ChatAssumption

(* A new body and a new timer satisfy the invariant of the reader.         *)
LEMMA ReplyInit == Reply!Init => Reply!IInv
<1> SUFFICES ASSUME Reply!Init PROVE Reply!IInv
  OBVIOUS
<1>1. Reply!TypeOK
  BY ReplyBounds DEF Reply!Init, Reply!TypeOK
<1>2. Reply!TimerInv /\ Reply!StallReported /\ Reply!ClosedIsReleased
  BY DEF Reply!Init, Reply!TimerInv, Reply!StallReported, Reply!ClosedIsReleased
<1> QED
  BY <1>1, <1>2 DEF Reply!IInv

(* The server, time, the timer's goroutine and the reading one: whatever   *)
(* comes between the two lines of the timer's function, the reader is told *)
(* of it before it meets the closed body.                                  *)
LEMMA ReplySteps == Reply!IInv /\ Reply!Next => Reply!IInv'
<1> SUFFICES ASSUME Reply!IInv, Reply!Next PROVE Reply!IInv'
  OBVIOUS
<1> USE ChatAssumption
    DEF Reply!IInv, Reply!TypeOK, Reply!TimerInv, Reply!StallReported,
        Reply!ClosedIsReleased, Reply!serverVars, Reply!readVars, Reply!timerVars
<1>1. CASE Reply!Send
  BY <1>1 DEF Reply!Send
<1>6. CASE Reply!End
  BY <1>6 DEF Reply!End
<1>7. CASE Reply!Tick
  BY <1>7 DEF Reply!Tick
<1>2. CASE Reply!BeginRead \/ Reply!StopTimer
  BY <1>2 DEF Reply!BeginRead, Reply!StopTimer
<1>3. CASE Reply!BodyRead
  BY <1>3 DEF Reply!BodyRead
<1>4. CASE Reply!CheckExpired
  BY <1>4 DEF Reply!CheckExpired
<1>9. CASE Reply!ResetTimer
  BY <1>9 DEF Reply!ResetTimer
<1>10. CASE Reply!CloseBody
  BY <1>10 DEF Reply!CloseBody
<1>5. CASE Reply!Fire
  BY <1>5 DEF Reply!Fire
<1>8. CASE Reply!Expire
  <2>1. CASE fire = "store"
    BY <1>8, <2>1 DEF Reply!Expire
  <2>2. CASE fire = "close"
    BY <1>8, <2>2 DEF Reply!Expire
  <2> QED
    BY <1>8, <2>1, <2>2 DEF Reply!Expire
<1> QED
  BY <1>1, <1>2, <1>3, <1>4, <1>5, <1>6, <1>7, <1>8, <1>9, <1>10
  DEF Reply!Next, Reply!Reading

-----------------------------------------------------------------------------
(* The chat.                                                               *)

(* The invariant of the lock and of the reader always holds: a chat reads  *)
(* on under the lock, and its successor begins with a body of its own.     *)
THEOREM Invariance == ChatSpec => []ChatIInv
<1>1. ChatInit => ChatIInv
  BY LockInit, ReplyInit DEF ChatInit, ChatIInv
<1>2. ChatIInv /\ [ChatNext]_<<vars, bodyVars>> => ChatIInv'
  <2> SUFFICES ASSUME ChatIInv, [ChatNext]_<<vars, bodyVars>> PROVE ChatIInv'
    OBVIOUS
  <2>1. UNCHANGED vars => IInv'
    BY DEF ChatIInv, vars, IInv, TypeOK, LockInv, ArgInv, RequestsSeeOneConfig
  <2>2. UNCHANGED bodyVars => Reply!IInv'
    BY DEF ChatIInv, bodyVars, Reply!IInv, Reply!TypeOK, Reply!TimerInv,
           Reply!StallReported, Reply!ClosedIsReleased
  <2>3. ASSUME NEW c \in Callers, Client(c) PROVE IInv'
    BY <2>3, RequestSteps, ChangeSteps DEF Client, PlainAnswer, ChatIInv, Requests
  <2>6. ASSUME ChatFails PROVE IInv'
    BY <2>6, RequestSteps, ChatAssumption DEF ChatFails, ChatIInv
  <2>4. CASE Stream(Reply!Next)
    BY <2>1, <2>4, ReplySteps DEF Stream, ChatIInv
  <2>5. CASE ChatReturns
    <3>1. IInv'
      BY <2>5, RequestSteps, ChatAssumption DEF ChatReturns, ChatIInv
    <3>2. Reply!IInv'
      <4>1. Reply!TypeOK'
        BY <2>5, ReplyBounds DEF ChatReturns, Reply!TypeOK
      <4>2. (Reply!TimerInv /\ Reply!StallReported /\ Reply!ClosedIsReleased)'
        BY <2>5 DEF ChatReturns, Reply!TimerInv, Reply!StallReported,
                    Reply!ClosedIsReleased
      <4> QED
        BY <4>1, <4>2 DEF Reply!IInv
    <3> QED
      BY <3>1, <3>2 DEF ChatIInv
  <2> QED
    BY <2>1, <2>2, <2>3, <2>4, <2>5, <2>6 DEF ChatNext, ChatIInv
<1> QED
  BY <1>1, <1>2, PTL DEF ChatSpec

(* No change of the model or the effort takes place in the middle of a     *)
(* request, however many callers there are.                                *)
THEOREM OneConfig == ChatSpec => []RequestsSeeOneConfig
<1>1. ChatIInv => RequestsSeeOneConfig
  BY DEF ChatIInv, IInv
<1> QED
  BY <1>1, Invariance, PTL

(* A provider that stalls is never taken for a connection that broke, for  *)
(* every timeout and wherever the timer fires.                             *)
THEOREM StallsAreTold == ChatSpec => []StallReported
<1>1. ChatIInv => StallReported
  BY DEF ChatIInv, Reply!IInv, StallReported
<1> QED
  BY <1>1, Invariance, PTL

(* A chat that has closed its body leaves neither connection nor timer.    *)
THEOREM ClosedReleases == ChatSpec => []ClosedIsReleased
<1>1. ChatIInv => ClosedIsReleased
  BY DEF ChatIInv, Reply!IInv, ClosedIsReleased
<1> QED
  BY <1>1, Invariance, PTL

-----------------------------------------------------------------------------
(* Sequences that list what was sent.                                      *)

(* Nothing lists nothing.                                                  *)
LEMMA NothingListed == Lists(<<>>, {}) /\ ListsPairs(<<>>, {})
  BY DEF Lists, ListsPairs

(* What is sent next is listed last.                                       *)
LEMMA ListsAppend ==
  ASSUME NEW s \in Seq(Nat), NEW S, Lists(s, S), NEW x \in Nat, \A y \in S : y < x
  PROVE  Append(s, x) \in Seq(Nat) /\ Lists(Append(s, x), S \cup {x})
<1> DEFINE t == Append(s, x)
           n == Len(s)
<1>1. n \in Nat /\ \A i \in 1..n : s[i] \in Nat
  BY LenProperties, ElementOfSeq
<1>2. t \in Seq(Nat) /\ Len(t) = n + 1 /\ t[n + 1] = x /\ \A i \in 1..n : t[i] = s[i]
  BY AppendProperties
<1>3. S = {s[i] : i \in 1..n} /\ \A i, j \in 1..n : i < j => s[i] < s[j]
  BY DEF Lists
<1> HIDE DEF t, n
<1>4. S \cup {x} = {t[i] : i \in 1..n+1}
  BY <1>1, <1>2, <1>3
<1>5. ASSUME NEW i \in 1..n+1, NEW j \in 1..n+1, i < j PROVE t[i] < t[j]
  <2>1. i \in 1..n /\ s[i] \in S /\ t[i] = s[i]
    BY <1>1, <1>2, <1>3, <1>5
  <2>2. CASE j = n + 1
    BY <1>2, <2>1, <2>2
  <2>3. CASE j \in 1..n
    BY <1>2, <1>3, <1>5, <2>1, <2>3
  <2> QED
    BY <1>1, <2>2, <2>3
<1>6. Lists(t, S \cup {x})
  BY <1>2, <1>4, <1>5 DEF Lists
<1> QED
  BY <1>2, <1>6 DEF t

(* Likewise of pieces of pieces, and of several of them.                   *)
LEMMA PairsJoin ==
  ASSUME NEW s \in Seq(Nat \X Nat), NEW S, ListsPairs(s, S),
         NEW t \in Seq(Nat \X Nat), NEW T, ListsPairs(t, T),
         \A p \in S, q \in T : Before(p, q)
  PROVE  s \o t \in Seq(Nat \X Nat) /\ ListsPairs(s \o t, S \cup T)
<1> DEFINE u == s \o t
           n == Len(s)
           m == Len(t)
<1>1. n \in Nat /\ m \in Nat
  BY LenProperties
<1>2. /\ u \in Seq(Nat \X Nat) /\ Len(u) = n + m
      /\ \A i \in 1..n : u[i] = s[i]
      /\ \A i \in n+1..n+m : u[i] = t[i - n]
  BY ConcatProperties
<1>3. /\ S = {s[i] : i \in 1..n} /\ \A i, j \in 1..n : i < j => Before(s[i], s[j])
      /\ T = {t[i] : i \in 1..m} /\ \A i, j \in 1..m : i < j => Before(t[i], t[j])
      /\ \A i \in 1..n : s[i] \in S
      /\ \A i \in 1..m : t[i] \in T
  BY DEF ListsPairs
<1> HIDE DEF u, n, m
<1>4. ASSUME NEW i \in 1..n+m
      PROVE  \/ i \in 1..n /\ u[i] = s[i] /\ u[i] \in S
             \/ i \notin 1..n /\ i - n \in 1..m /\ u[i] = t[i - n] /\ u[i] \in T
  <2>1. CASE i \in 1..n
    BY <1>2, <1>3, <2>1
  <2>2. CASE i \notin 1..n
    <3>1. i \in n+1..n+m /\ i - n \in 1..m
      BY <1>1, <2>2
    <3> QED
      BY <1>2, <1>3, <2>2, <3>1
  <2> QED
    BY <2>1, <2>2
<1>5. S \cup T = {u[i] : i \in 1..n+m}
  <2>1. \A i \in 1..n+m : u[i] \in S \cup T
    BY <1>4
  <2>2. ASSUME NEW p \in S PROVE p \in {u[i] : i \in 1..n+m}
    <3>1. PICK i \in 1..n : p = s[i]
      BY <1>3
    <3>2. i \in 1..n+m
      BY <1>1
    <3> QED
      BY <1>2, <3>1, <3>2
  <2>3. ASSUME NEW q \in T PROVE q \in {u[i] : i \in 1..n+m}
    <3>1. PICK i \in 1..m : q = t[i]
      BY <1>3
    <3>2. n + i \in n+1..n+m /\ (n + i) - n = i /\ n + i \in 1..n+m
      BY <1>1
    <3> QED
      BY <1>2, <3>1, <3>2
  <2> QED
    BY <2>1, <2>2, <2>3
<1>6. ASSUME NEW i \in 1..n+m, NEW j \in 1..n+m, i < j PROVE Before(u[i], u[j])
  <2>1. CASE j <= n
    BY <1>1, <1>2, <1>3, <1>6, <2>1
  <2>2. CASE i <= n /\ ~(j <= n)
    <3>1. i \in 1..n /\ j \notin 1..n
      BY <1>1, <2>2
    <3>2. u[i] \in S /\ u[j] \in T
      BY <1>4, <3>1
    <3> QED
      BY <3>2
  <2>3. CASE ~(i <= n)
    <3>1. i - n \in 1..m /\ j - n \in 1..m /\ i - n < j - n
      BY <1>1, <1>6, <2>3
    <3>2. u[i] = t[i - n] /\ u[j] = t[j - n]
      BY <1>1, <1>4, <1>6, <2>3
    <3> QED
      BY <1>3, <3>1, <3>2
  <2> QED
    BY <1>1, <2>1, <2>2, <2>3
<1>7. ListsPairs(u, S \cup T)
  BY <1>2, <1>5, <1>6 DEF ListsPairs
<1> QED
  BY <1>2, <1>7 DEF u

(* The modules of the readers mean the same by a list.                     *)
LEMMA OneListing ==
  ASSUME NEW s, NEW S
  PROVE  /\ Anthropic!Lists(s, S) <=> Lists(s, S)
         /\ Events!Lists(s, S) <=> Lists(s, S)
         /\ OpenRouter!Lists(s, S) <=> Lists(s, S)
         /\ OpenRouter!ListsPairs(s, S) <=> ListsPairs(s, S)
         /\ Ollama!Lists(s, S) <=> Lists(s, S)
         /\ Ollama!ListsPairs(s, S) <=> ListsPairs(s, S)
  BY DEF Anthropic!Lists, Events!Lists, OpenRouter!Lists, OpenRouter!ListsPairs,
         Ollama!Lists, Ollama!ListsPairs, OpenRouter!Before, Ollama!Before,
         Lists, ListsPairs, Before

(* A function over the first numbers is a sequence.                        *)
LEMMA IsSequence ==
  ASSUME NEW n \in Nat, NEW S, NEW f \in [1..n -> S]
  PROVE  f \in Seq(S) /\ Len(f) = n
  OBVIOUS

(* A piece that is read comes after those read before.                     *)
LEMMA OneMore ==
  ASSUME NEW X, NEW s \in Seq(X), NEW x \in X, NEW t, t = Append(s, x)
  PROVE  /\ t \in Seq(X) /\ Len(s) \in Nat /\ Len(t) = Len(s) + 1
         /\ t[Len(s) + 1] = x /\ \A i \in 1..Len(s) : t[i] = s[i] /\ t[i] \in X
         /\ 1..Len(t) = 1..Len(s) \cup {Len(s) + 1}
<1>1. /\ Len(s) \in Nat /\ t \in Seq(X) /\ Len(t) = Len(s) + 1 /\ t[Len(s) + 1] = x
      /\ \A i \in 1..Len(s) : t[i] = s[i]
  BY AppendProperties, LenProperties
<1>2. \A i \in 1..Len(s) : t[i] \in X
  BY <1>1, ElementOfSeq
<1>3. \A n \in Nat : 1..(n + 1) = 1..n \cup {n + 1}
  OBVIOUS
<1> QED
  BY <1>1, <1>2, <1>3

-----------------------------------------------------------------------------
(* Ollama's reader.                                                        *)

(* Nothing is read of a new reply.                                         *)
LEMMA OllamaInit == Ollama!Init => Ollama!StreamInv
<1> SUFFICES ASSUME Ollama!Init PROVE Ollama!StreamInv
  OBVIOUS
<1> USE DEF Ollama!Init
<1>1. Ollama!Texts = {} /\ Ollama!Calls = {}
  BY DEF Ollama!Texts, Ollama!Calls
<1>2. Ollama!Lists(content, {}) /\ Ollama!ListsPairs(toolCalls, {})
  BY NothingListed, OneListing
<1> QED
  BY <1>1, <1>2, EmptySeq DEF Ollama!StreamInv, Ollama!NoPartialReply

(* A chunk adds its text and its calls to what is listed.                  *)
LEMMA ChunkIsListed ==
  ASSUME Ollama!StreamInv, NEW chunk \in Ollama!Chunks, Ollama!Chunk(chunk)
  PROVE  Ollama!StreamInv'
<1> DEFINE n == Len(stream)
           new == {<<n + 1, j>> : j \in 1..chunk.calls}
<1> USE DEF Ollama!Chunk, Ollama!Read
<1>1. /\ stream \in Seq(Ollama!Chunks) /\ content \in Seq(Nat)
      /\ toolCalls \in Seq(Nat \X Nat) /\ outcome = "reading"
      /\ Lists(content, Ollama!Texts) /\ ListsPairs(toolCalls, Ollama!Calls)
      /\ \A k \in 1..n : ~stream[k].done
  BY OneListing DEF Ollama!StreamInv
<1>2. /\ stream' \in Seq(Ollama!Chunks) /\ n \in Nat /\ Len(stream') = n + 1
      /\ stream'[n + 1] = chunk /\ \A i \in 1..n : stream'[i] = stream[i]
      /\ 1..Len(stream') = 1..n \cup {n + 1}
  BY <1>1, OneMore
<1>3. chunk.text \in BOOLEAN /\ chunk.calls \in Nat
  BY ProvidersAssumption DEF Ollama!Chunks
<1> HIDE DEF n
<1>4. content' \in Seq(Nat) /\ Lists(content', Ollama!Texts')
  <2>1. \A k \in Ollama!Texts : k < n + 1
    BY <1>2 DEF Ollama!Texts, n
  <2>2. Ollama!Texts' = IF chunk.text THEN Ollama!Texts \cup {n + 1} ELSE Ollama!Texts
    BY <1>2, <1>3 DEF Ollama!Texts, n
  <2>3. CASE chunk.text
    <3>1. content' = Append(content, n + 1) /\ n + 1 \in Nat
      BY <1>2, <2>3
    <3> QED
      BY <1>1, <2>1, <2>2, <2>3, <3>1, ListsAppend
  <2>4. CASE ~chunk.text
    BY <1>1, <2>2, <2>4
  <2> QED
    BY <2>3, <2>4
<1>5. toolCalls' \in Seq(Nat \X Nat) /\ ListsPairs(toolCalls', Ollama!Calls')
  <2> DEFINE t == [j \in 1..chunk.calls |-> <<n + 1, j>>]
  <2>1. toolCalls' = toolCalls \o t
    BY <1>2 DEF Ollama!CallsOf
  <2>2. t \in Seq(Nat \X Nat) /\ Len(t) = chunk.calls
    <3>1. \A j \in 1..chunk.calls : <<n + 1, j>> \in Nat \X Nat
      BY <1>2, <1>3
    <3>2. t \in [1..chunk.calls -> Nat \X Nat]
      BY <3>1
    <3> HIDE DEF t
    <3> QED
      BY <1>3, <3>2, IsSequence
  <2>3. ListsPairs(t, new)
    BY <1>2, <1>3, <2>2 DEF ListsPairs, Before
  <2>4. \A p \in Ollama!Calls, q \in new : Before(p, q)
    BY <1>2, <1>3 DEF Ollama!Calls, Before, n
  <2>5. Ollama!Calls' = Ollama!Calls \cup new
    BY <1>2 DEF Ollama!Calls, n
  <2> HIDE DEF t, new
  <2>6. toolCalls \o t \in Seq(Nat \X Nat)
        /\ ListsPairs(toolCalls \o t, Ollama!Calls \cup new)
    BY <1>1, <2>2, <2>3, <2>4, PairsJoin
  <2> QED
    BY <2>1, <2>5, <2>6
<1>6. /\ outcome' \in {"reading", "reply", "error"}
      /\ outcome' = "reading" => \A k \in 1..Len(stream') : ~stream'[k].done
  BY <1>1, <1>2 DEF n
<1>7. Ollama!NoPartialReply'
  BY <1>1, <1>2 DEF Ollama!NoPartialReply, n
<1>8. Ollama!Lists(content, Ollama!Texts)' /\ Ollama!ListsPairs(toolCalls, Ollama!Calls)'
  BY <1>4, <1>5, OneListing
<1> QED
  BY <1>2, <1>4, <1>5, <1>6, <1>7, <1>8 DEF Ollama!StreamInv

(* Every step of the reader keeps what it has whole.                       *)
LEMMA OllamaSteps == Ollama!StreamInv /\ Ollama!Next => Ollama!StreamInv'
<1> SUFFICES ASSUME Ollama!StreamInv, Ollama!Next PROVE Ollama!StreamInv'
  OBVIOUS
<1>1. ASSUME NEW chunk \in Ollama!Chunks, Ollama!ChunkFails(chunk) PROVE Ollama!StreamInv'
  BY <1>1, OneMore
  DEF Ollama!StreamInv, Ollama!ChunkFails, Ollama!Read, Ollama!NoPartialReply
<1>2. CASE Ollama!BodyEnds
  BY <1>2 DEF Ollama!StreamInv, Ollama!BodyEnds, Ollama!NoPartialReply
<1> QED
  BY <1>1, <1>2, ChunkIsListed DEF Ollama!Next

-----------------------------------------------------------------------------
(* Anthropic's reader.                                                     *)

AnthropicEvents == [kind : Anthropic!EventKinds, index : Int]

(* Nothing is read of a new reply.                                         *)
LEMMA AnthropicInit == Anthropic!Init => Anthropic!StreamInv
<1> SUFFICES ASSUME Anthropic!Init PROVE Anthropic!StreamInv
  OBVIOUS
<1> USE DEF Anthropic!Init
<1>1. Len(stream) = 0 /\ Len(content) = 0 /\ Len(parts) = 0
  BY EmptySeq
<1>2. Anthropic!BlocksInv
  BY <1>1 DEF Anthropic!BlocksInv
<1>3. Anthropic!BlocksInOrder /\ Anthropic!NoPartialReply
  BY <1>1 DEF Anthropic!BlocksInOrder, Anthropic!NoPartialReply
<1> QED
  BY <1>2, <1>3, EmptySeq DEF Anthropic!StreamInv

(* An event that is read is the last of the stream, and of its kind and    *)
(* index.                                                                  *)
AnthropicReads(kind, i, n) ==
  /\ outcome = "reading" /\ n \in Nat
  /\ stream' \in Seq(AnthropicEvents) /\ Len(stream') = n + 1
  /\ stream'[n + 1] = Anthropic!Event(kind, i)
  /\ \A k \in 1..n : stream'[k] = stream[k]
  /\ 1..Len(stream') = 1..n \cup {n + 1}
  /\ \A kd, ix : Anthropic!Sent(kd, ix) \subseteq 1..n
  /\ \A kd, ix : Anthropic!Sent(kd, ix)' =
       Anthropic!Sent(kd, ix) \cup {k \in {n + 1} : kd = kind /\ ix = i}

LEMMA AnthropicRead ==
  ASSUME Anthropic!StreamInv, NEW kind \in Anthropic!EventKinds, NEW i \in Int,
         Anthropic!Read(kind, i)
  PROVE  AnthropicReads(kind, i, Len(stream))
<1> DEFINE n == Len(stream)
<1>1. /\ stream \in Seq(AnthropicEvents) /\ outcome = "reading"
      /\ stream' = Append(stream, Anthropic!Event(kind, i))
      /\ Anthropic!Event(kind, i) \in AnthropicEvents
  BY DEF Anthropic!StreamInv, Anthropic!Read, Anthropic!Event, AnthropicEvents
<1>2. /\ stream' \in Seq(AnthropicEvents) /\ n \in Nat /\ Len(stream') = n + 1
      /\ stream'[n + 1] = Anthropic!Event(kind, i) /\ \A k \in 1..n : stream'[k] = stream[k]
      /\ 1..Len(stream') = 1..n \cup {n + 1}
  BY <1>1, OneMore
<1>3. ASSUME NEW kd, NEW ix
      PROVE  /\ Anthropic!Sent(kd, ix) \subseteq 1..n
             /\ Anthropic!Sent(kd, ix)' =
                  Anthropic!Sent(kd, ix) \cup {k \in {n + 1} : kd = kind /\ ix = i}
  BY <1>2 DEF Anthropic!Sent, Anthropic!Event
<1> QED
  BY <1>1, <1>2, <1>3 DEF AnthropicReads

(* An event that ends the stream with an error keeps what is told of it.   *)
LEMMA AnthropicFails ==
  ASSUME Anthropic!StreamInv, NEW kind \in Anthropic!EventKinds, NEW i \in Int,
         Anthropic!Fail(kind, i)
  PROVE  Anthropic!StreamInv'
<1>1. stream' \in Seq(AnthropicEvents) /\ outcome' = "error" /\ UNCHANGED <<content, parts>>
  BY AnthropicRead DEF Anthropic!Fail, AnthropicReads
<1> QED
  BY <1>1 DEF Anthropic!StreamInv, Anthropic!BlocksInOrder, Anthropic!NoPartialReply,
              AnthropicEvents

(* Only the announcement of a block is counted as one.                     *)
LEMMA StartsStay ==
  ASSUME Anthropic!BlocksInOrder, NEW kind \in Anthropic!EventKinds, NEW i,
         AnthropicReads(kind, i, Len(stream)), kind # "start", Len(content') = Len(content)
  PROVE  Anthropic!BlocksInOrder'
<1> DEFINE S == {k \in 1..Len(stream) : stream[k].kind = "start"}
<1> USE DEF AnthropicReads
<1>1. {k \in 1..Len(stream') : stream'[k].kind = "start"} = S
  BY DEF Anthropic!Event
<1>2. /\ {stream[k].index : k \in S} = 0..Len(content) - 1
      /\ \A j, k \in S : j < k => stream[j].index < stream[k].index
  BY DEF Anthropic!BlocksInOrder
<1>3. \A k \in S : stream'[k] = stream[k]
  OBVIOUS
<1> HIDE DEF S, AnthropicReads
<1>4. {stream'[k].index : k \in S} = {stream[k].index : k \in S}
  BY <1>3
<1>5. \A j, k \in S : j < k => stream'[j].index < stream'[k].index
  BY <1>2, <1>3
<1> DEFINE T == {k \in 1..Len(stream') : stream'[k].kind = "start"}
<1>6. /\ {stream'[k].index : k \in T} = 0..Len(content') - 1
      /\ \A j, k \in T : j < k => stream'[j].index < stream'[k].index
  <2>1. T = S
    BY <1>1
  <2> HIDE DEF T
  <2> QED
    BY <1>2, <1>4, <1>5, <2>1
<1> QED
  BY <1>6, Zenon DEF Anthropic!BlocksInOrder

(* An event of no block touches none.                                      *)
LEMMA NoBlockTouched ==
  ASSUME Anthropic!StreamInv, NEW kind \in {"message", "end"},
         Anthropic!Read(kind, 0), UNCHANGED <<content, parts>>,
         outcome' \in {"reading", "reply"}, outcome' = "reply" => kind = "end"
  PROVE  Anthropic!StreamInv'
<1> DEFINE n == Len(stream)
<1>1. kind \in Anthropic!EventKinds /\ 0 \in Int
  BY DEF Anthropic!EventKinds
<1>2. AnthropicReads(kind, 0, n)
  BY <1>1, AnthropicRead
<1> USE DEF AnthropicReads
<1>3. stream'[n + 1].kind = kind
  BY <1>2 DEF Anthropic!Event
<1>4. Anthropic!BlocksInv /\ Anthropic!BlocksInOrder
  BY <1>2 DEF Anthropic!StreamInv
<1>5. \A ix : Anthropic!Sent("stop", ix)' = Anthropic!Sent("stop", ix)
              /\ Anthropic!Sent("delta", ix)' = Anthropic!Sent("delta", ix)
  BY <1>2
<1>6. Anthropic!BlocksInv'
  <2>1. \A b \in 1..Len(content), stop \in 1..Len(stream') :
          Anthropic!Sent("stop", b - 1) = {stop} => stop \in 1..n
    BY <1>2
  <2>2. (\A k \in 1..Len(stream) : stream[k].kind \in {"delta", "stop"}
           => Anthropic!Started(stream[k].index))'
    BY <1>2, <1>3, <1>4 DEF Anthropic!BlocksInv, Anthropic!Started
  <2> QED
    BY <1>4, <1>5, <2>1, <2>2 DEF Anthropic!BlocksInv
<1>7. Anthropic!BlocksInOrder'
  BY <1>1, <1>2, <1>3, <1>4, StartsStay
<1>8. Anthropic!NoPartialReply'
  BY <1>2, <1>3 DEF Anthropic!NoPartialReply
<1> QED
  BY <1>2, <1>6, <1>7, <1>8 DEF Anthropic!StreamInv, AnthropicEvents

(* A block that is announced begins empty: no delta came before it.        *)
LEMMA BlockStarts ==
  ASSUME Anthropic!StreamInv, NEW i \in Int, NEW type \in Anthropic!Types,
         Anthropic!BlockStart(i, type)
  PROVE  Anthropic!StreamInv'
<1> DEFINE n == Len(stream)
           m == Len(content)
           new == [type |-> type, out |-> <<>>]
<1>1. AnthropicReads("start", i, n) /\ outcome' = "reading"
  BY AnthropicRead DEF Anthropic!BlockStart, Anthropic!EventKinds, AnthropicReads
<1> USE DEF AnthropicReads
<1>2. Anthropic!BlocksInv /\ Anthropic!BlocksInOrder
  BY <1>1 DEF Anthropic!StreamInv
<1>3. /\ content \in Seq([type : Anthropic!Types, out : Seq(Nat)])
      /\ parts \in Seq(Seq(Nat)) /\ Len(parts) = m /\ m \in Nat /\ i = m
      /\ content' = Append(content, new) /\ parts' = Append(parts, <<>>)
  BY <1>2, LenProperties
  DEF Anthropic!StreamInv, Anthropic!BlocksInv, Anthropic!BlockStart
<1>4. new \in [type : Anthropic!Types, out : Seq(Nat)] /\ <<>> \in Seq(Nat)
  BY EmptySeq
<1>5. /\ content' \in Seq([type : Anthropic!Types, out : Seq(Nat)]) /\ Len(content') = m + 1
      /\ content'[m + 1] = new /\ \A b \in 1..m : content'[b] = content[b]
      /\ 1..Len(content') = 1..m \cup {m + 1}
  BY <1>3, <1>4, OneMore
<1>6. /\ parts' \in Seq(Seq(Nat)) /\ Len(parts') = m + 1
      /\ parts'[m + 1] = <<>> /\ \A b \in 1..m : parts'[b] = parts[b]
  BY <1>3, <1>4, OneMore
<1>7. stream'[n + 1].kind = "start" /\ stream'[n + 1].index = m
  BY <1>1, <1>3 DEF Anthropic!Event
<1>8. \A ix : Anthropic!Sent("stop", ix)' = Anthropic!Sent("stop", ix)
              /\ Anthropic!Sent("delta", ix)' = Anthropic!Sent("delta", ix)
  BY <1>1
<1>9. Anthropic!Sent("stop", i) = {} /\ Anthropic!Sent("delta", i) = {}
  <2>1. ASSUME NEW k \in 1..n, stream[k].kind \in {"delta", "stop"}
        PROVE  stream[k].index # i
    BY <1>2, <1>3, <2>1 DEF Anthropic!BlocksInv, Anthropic!Started
  <2>2. ASSUME NEW kind \in {"delta", "stop"} PROVE Anthropic!Sent(kind, i) = {}
    <3>1. ASSUME NEW k \in 1..n PROVE stream[k] # Anthropic!Event(kind, i)
      <4>1. /\ Anthropic!Event(kind, i).kind = kind
            /\ Anthropic!Event(kind, i).index = i
        BY DEF Anthropic!Event
      <4> QED
        BY <2>1, <4>1
    <3> QED
      BY <3>1 DEF Anthropic!Sent
  <2> QED
    BY <2>2
<1> HIDE DEF new, m, n
<1>10. Anthropic!BlocksInv'
  <2>1. (\A k \in 1..Len(stream) : stream[k].kind \in {"delta", "stop"}
           => Anthropic!Started(stream[k].index))'
    <3>1. \A k \in 1..n : stream[k].kind \in {"delta", "stop"}
             => stream[k].index >= 0 /\ stream[k].index < m
      BY <1>2 DEF Anthropic!BlocksInv, Anthropic!Started, n, m
    <3>2. \A k \in 1..n : stream[k] \in AnthropicEvents
      BY ElementOfSeq DEF Anthropic!StreamInv, AnthropicEvents, n
    <3> SUFFICES ASSUME NEW k \in 1..n + 1, stream'[k].kind \in {"delta", "stop"}
                 PROVE  stream'[k].index >= 0 /\ stream'[k].index < m + 1
      BY <1>1, <1>5 DEF Anthropic!Started
    <3>3. k \in 1..n /\ stream'[k] = stream[k]
      BY <1>1, <1>7
    <3>4. stream[k].index \in Int
      BY <3>2, <3>3 DEF AnthropicEvents
    <3> QED
      BY <1>3, <3>1, <3>3, <3>4
  <2>2. ASSUME NEW b \in 1..m
        PROVE  /\ Anthropic!Lists(parts'[b], Anthropic!Sent("delta", b - 1)')
               /\ Anthropic!Sent("stop", b - 1)' = {} => content'[b].out = <<>>
               /\ \A stop \in 1..Len(stream') : Anthropic!Sent("stop", b - 1)' = {stop} =>
                    Anthropic!Lists(content'[b].out,
                                    {k \in Anthropic!Sent("delta", b - 1)' : k < stop})
    <3>1. \A stop : Anthropic!Sent("stop", b - 1) = {stop} => stop \in 1..n
      BY <1>1
    <3> QED
      BY <1>2, <1>5, <1>6, <1>8, <3>1 DEF Anthropic!BlocksInv, n, m
  <2>3. /\ Anthropic!Lists(parts'[m + 1], Anthropic!Sent("delta", i)')
        /\ content'[m + 1].out = <<>> /\ Anthropic!Sent("stop", i)' = {}
    <3>1. Anthropic!Sent("delta", i)' = {} /\ Anthropic!Sent("stop", i)' = {}
      BY <1>8, <1>9
    <3>2. Anthropic!Lists(<<>>, {})
      BY NothingListed, OneListing
    <3>3. Anthropic!Lists(parts'[m + 1], {})
      BY <1>6, <3>2
    <3>4. content'[m + 1].out = <<>>
      BY <1>5 DEF new
    <3> QED
      BY <3>1, <3>3, <3>4
  <2>4. (m + 1) - 1 = i
    BY <1>3
  <2>5. ASSUME NEW b \in 1..Len(content')
        PROVE  /\ Anthropic!Lists(parts'[b], Anthropic!Sent("delta", b - 1)')
               /\ Anthropic!Sent("stop", b - 1)' = {} => content'[b].out = <<>>
               /\ \A stop \in 1..Len(stream') : Anthropic!Sent("stop", b - 1)' = {stop} =>
                    Anthropic!Lists(content'[b].out,
                                    {k \in Anthropic!Sent("delta", b - 1)' : k < stop})
    <3>1. CASE b \in 1..m
      BY <2>2, <3>1
    <3>2. CASE b = m + 1
      BY <2>3, <2>4, <3>2
    <3> QED
      BY <1>5, <3>1, <3>2
  <2> QED
    BY <1>5, <1>6, <2>1, <2>5 DEF Anthropic!BlocksInv
<1>11. Anthropic!BlocksInOrder'
  <2> DEFINE S == {k \in 1..n : stream[k].kind = "start"}
  <2>1. {k \in 1..Len(stream') : stream'[k].kind = "start"} = S \cup {n + 1}
    BY <1>1, <1>7
  <2>2. /\ {stream[k].index : k \in S} = 0..m - 1
        /\ \A j, k \in S : j < k => stream[j].index < stream[k].index
    BY <1>1, <1>2 DEF Anthropic!BlocksInOrder, n, m
  <2>3. \A k \in S : k \in 1..n /\ stream'[k] = stream[k] /\ stream[k].index \in 0..m-1
    BY <1>1, <2>2
  <2> HIDE DEF S
  <2>4. {stream'[k].index : k \in S \cup {n + 1}} = 0..m
    <3>1. {stream'[k].index : k \in S \cup {n + 1}} = {stream[k].index : k \in S} \cup {m}
      BY <1>7, <2>3
    <3>2. (0..m-1) \cup {m} = 0..m
      BY <1>3
    <3> QED
      BY <2>2, <3>1, <3>2
  <2>5. \A j, k \in S \cup {n + 1} : j < k => stream'[j].index < stream'[k].index
    <3> SUFFICES ASSUME NEW j \in S \cup {n + 1}, NEW k \in S \cup {n + 1}, j < k
                 PROVE  stream'[j].index < stream'[k].index
      OBVIOUS
    <3>1. j \in S
      BY <1>1, <2>3
    <3>2. CASE k \in S
      BY <2>2, <2>3, <3>1, <3>2
    <3>3. CASE k = n + 1
      <4>1. stream'[k].index = m /\ stream'[j].index \in 0..m-1
        BY <1>7, <2>3, <3>1, <3>3
      <4> QED
        BY <1>3, <4>1
    <3> QED
      BY <3>2, <3>3
  <2>6. 0..Len(content') - 1 = 0..m
    BY <1>3, <1>5
  <2> QED
    BY <2>1, <2>4, <2>5, <2>6 DEF Anthropic!BlocksInOrder
<1> QED
  BY <1>1, <1>5, <1>6, <1>10, <1>11
  DEF Anthropic!StreamInv, Anthropic!NoPartialReply, AnthropicEvents

(* A delta goes to the builder of its block, and to no other.              *)
LEMMA DeltaIsListed ==
  ASSUME Anthropic!StreamInv, NEW i \in Int, Anthropic!BlockDelta(i)
  PROVE  Anthropic!StreamInv'
<1> DEFINE n == Len(stream)
           m == Len(content)
           b0 == i + 1
           deltas(b) == Anthropic!Sent("delta", b - 1)
           stops(b) == Anthropic!Sent("stop", b - 1)
<1>1. AnthropicReads("delta", i, n) /\ outcome' = "reading"
  BY AnthropicRead DEF Anthropic!BlockDelta, Anthropic!EventKinds, AnthropicReads
<1> USE DEF AnthropicReads
<1>2. Anthropic!BlocksInv /\ Anthropic!BlocksInOrder
  BY <1>1 DEF Anthropic!StreamInv
<1>3. /\ content \in Seq([type : Anthropic!Types, out : Seq(Nat)]) /\ content' = content
      /\ parts \in Seq(Seq(Nat)) /\ Len(parts) = m /\ m \in Nat /\ b0 \in 1..m
      /\ parts[b0] \in Seq(Nat)
      /\ parts' = [parts EXCEPT ![b0] = Append(parts[b0], n + 1)]
  BY <1>1, <1>2, LenProperties, ElementOfSeq
  DEF Anthropic!StreamInv, Anthropic!BlocksInv, Anthropic!BlockDelta, Anthropic!Started,
      Anthropic!Block
<1>4. stream'[n + 1].kind = "delta" /\ stream'[n + 1].index = i
  BY <1>1 DEF Anthropic!Event
<1>5. /\ \A ix : Anthropic!Sent("stop", ix)' = Anthropic!Sent("stop", ix)
      /\ \A ix : ix # i => Anthropic!Sent("delta", ix)' = Anthropic!Sent("delta", ix)
      /\ Anthropic!Sent("delta", i)' = Anthropic!Sent("delta", i) \cup {n + 1}
      /\ \A k \in Anthropic!Sent("delta", i) : k \in Nat /\ k < n + 1
  <2>1. Anthropic!Sent("delta", i) \subseteq 1..n /\ n \in Nat
    BY <1>1
  <2>2. \A k \in Anthropic!Sent("delta", i) : k \in Nat /\ k < n + 1
    BY <2>1
  <2> QED
    BY <1>1, <2>2
<1>6. /\ Append(parts[b0], n + 1) \in Seq(Nat)
      /\ Lists(Append(parts[b0], n + 1), Anthropic!Sent("delta", i) \cup {n + 1})
  <2>1. Lists(parts[b0], Anthropic!Sent("delta", i))
    <3>1. b0 - 1 = i
      OBVIOUS
    <3> QED
      BY <1>2, <1>3, <3>1, OneListing DEF Anthropic!BlocksInv
  <2>2. n + 1 \in Nat
    BY <1>1
  <2> QED
    BY <1>3, <1>5, <2>1, <2>2, ListsAppend
<1>7. /\ parts' \in Seq(Seq(Nat)) /\ Len(parts') = m
      /\ \A b \in 1..m : parts'[b] = IF b = b0 THEN Append(parts[b0], n + 1) ELSE parts[b]
  BY <1>3, <1>6, ExceptSeq
<1>8. Anthropic!BlocksInv'
  <2>1. (\A k \in 1..Len(stream) : stream[k].kind \in {"delta", "stop"}
           => Anthropic!Started(stream[k].index))'
    BY <1>1, <1>2, <1>3, <1>4
    DEF Anthropic!BlocksInv, Anthropic!Started, Anthropic!BlockDelta
  <2>2. ASSUME NEW b \in 1..m
        PROVE  /\ Anthropic!Lists(parts'[b], deltas(b)')
               /\ stops(b)' = {} => content'[b].out = <<>>
               /\ \A stop \in 1..Len(stream') : stops(b)' = {stop} =>
                    Anthropic!Lists(content'[b].out, {k \in deltas(b)' : k < stop})
    <3>1. /\ Anthropic!Lists(parts[b], deltas(b))
          /\ stops(b) = {} => content[b].out = <<>>
          /\ \A stop \in 1..n : stops(b) = {stop} =>
               Anthropic!Lists(content[b].out, {k \in deltas(b) : k < stop})
      BY <1>2 DEF Anthropic!BlocksInv
    <3>2. stops(b)' = stops(b) /\ \A stop : stops(b) = {stop} => stop \in 1..n
      BY <1>1, <1>5
    <3>3. ASSUME NEW stop \in 1..n PROVE {k \in deltas(b)' : k < stop} = {k \in deltas(b) : k < stop}
      BY <1>1
    <3>4. Anthropic!Lists(parts'[b], deltas(b)')
      <4>1. CASE b = b0
        <5>1. b - 1 = i
          BY <4>1
        <5> QED
          BY <1>5, <1>6, <1>7, <4>1, <5>1, OneListing
      <4>2. CASE b # b0
        <5>1. b - 1 # i
          BY <4>2
        <5> QED
          BY <1>5, <1>7, <3>1, <4>2, <5>1
      <4> QED
        BY <4>1, <4>2
    <3> QED
      BY <1>3, <3>1, <3>2, <3>3, <3>4
  <2> QED
    BY <1>3, <1>7, <2>1, <2>2 DEF Anthropic!BlocksInv
<1>9. Anthropic!BlocksInOrder'
  BY <1>1, <1>2, <1>3, StartsStay DEF Anthropic!EventKinds
<1> QED
  BY <1>1, <1>3, <1>7, <1>8, <1>9
  DEF Anthropic!StreamInv, Anthropic!NoPartialReply, AnthropicEvents

(* A block that is stopped gets what its builder holds: all deltas so far. *)
LEMMA BlockStops ==
  ASSUME Anthropic!StreamInv, NEW i \in Int, Anthropic!BlockStop(i)
  PROVE  Anthropic!StreamInv'
<1> DEFINE n == Len(stream)
           m == Len(content)
           b0 == i + 1
           deltas(b) == Anthropic!Sent("delta", b - 1)
           stops(b) == Anthropic!Sent("stop", b - 1)
           out == IF content[b0].type = "text" THEN content[b0].out \o parts[b0]
                  ELSE IF parts[b0] = <<>> THEN content[b0].out ELSE parts[b0]
           Block == [type : Anthropic!Types, out : Seq(Nat)]
<1>1. AnthropicReads("stop", i, n) /\ outcome' = "reading"
  BY AnthropicRead DEF Anthropic!BlockStop, Anthropic!EventKinds, AnthropicReads
<1> USE DEF AnthropicReads
<1>2. Anthropic!BlocksInv /\ Anthropic!BlocksInOrder
  BY <1>1 DEF Anthropic!StreamInv
<1>3. /\ content \in Seq(Block) /\ parts \in Seq(Seq(Nat)) /\ parts' = parts
      /\ Len(parts) = m /\ m \in Nat /\ b0 \in 1..m
      /\ parts[b0] \in Seq(Nat) /\ content[b0] \in Block
      /\ content' = [content EXCEPT ![b0].out = out]
  <2>1. content \in Seq(Block) /\ parts \in Seq(Seq(Nat)) /\ parts' = parts /\ Len(parts) = m
    BY <1>2 DEF Anthropic!StreamInv, Anthropic!BlocksInv, Anthropic!BlockStop
  <2>2. m \in Nat
    BY <2>1, LenProperties
  <2>3. b0 \in 1..m
    BY <2>2 DEF Anthropic!BlockStop, Anthropic!Started
  <2>4. content' = [content EXCEPT ![b0].out = out]
    BY Zenon DEF Anthropic!BlockStop, Anthropic!Block
  <2> QED
    BY <2>1, <2>2, <2>3, <2>4, ElementOfSeq
<1>4. stream'[n + 1].kind = "stop" /\ stream'[n + 1].index = i
  BY <1>1 DEF Anthropic!Event
<1>5. out \in Seq(Nat)
  BY <1>3, ConcatProperties
<1>6. /\ content' \in Seq(Block) /\ Len(content') = m
      /\ \A b \in 1..m : content'[b].out = IF b = b0 THEN out ELSE content[b].out
  <2>1. content' = [content EXCEPT ![b0] = [content[b0] EXCEPT !.out = out]]
    BY <1>3, LenProperties
  <2>2. [content[b0] EXCEPT !.out = out] \in Block
    BY <1>3, <1>5
  <2> QED
    BY <1>3, <2>1, <2>2, ExceptSeq
<1>7. /\ \A ix : Anthropic!Sent("delta", ix)' = Anthropic!Sent("delta", ix)
      /\ \A ix : ix # i => Anthropic!Sent("stop", ix)' = Anthropic!Sent("stop", ix)
      /\ Anthropic!Sent("stop", i)' = Anthropic!Sent("stop", i) \cup {n + 1}
  BY <1>1
<1>8. Anthropic!BlocksInv'
  <2>1. (\A k \in 1..Len(stream) : stream[k].kind \in {"delta", "stop"}
           => Anthropic!Started(stream[k].index))'
    BY <1>1, <1>2, <1>4, <1>6
    DEF Anthropic!BlocksInv, Anthropic!Started, Anthropic!BlockStop
  <2>2. ASSUME NEW b \in 1..m
        PROVE  /\ Anthropic!Lists(parts'[b], deltas(b)')
               /\ stops(b)' = {} => content'[b].out = <<>>
               /\ \A stop \in 1..Len(stream') : stops(b)' = {stop} =>
                    Anthropic!Lists(content'[b].out, {k \in deltas(b)' : k < stop})
    <3>1. /\ Anthropic!Lists(parts[b], deltas(b))
          /\ stops(b) = {} => content[b].out = <<>>
          /\ \A stop \in 1..n : stops(b) = {stop} =>
               Anthropic!Lists(content[b].out, {k \in deltas(b) : k < stop})
      BY <1>2 DEF Anthropic!BlocksInv
    <3>2. deltas(b)' = deltas(b) /\ deltas(b) \subseteq 1..n /\ stops(b) \subseteq 1..n
      BY <1>1, <1>7
    <3>3. CASE b = b0
      <4>1. b - 1 = i
        BY <3>3
      <4>2. stops(b)' = stops(b) \cup {n + 1}
        BY <1>7, <4>1
      <4>3. ASSUME NEW stop, stops(b)' = {stop} PROVE stop = n + 1 /\ stops(b) = {}
        BY <1>1, <3>2, <4>2, <4>3
      <4>4. ASSUME stops(b) = {} PROVE content'[b].out = parts[b]
        <5>1. content[b0].out = <<>>
          BY <3>1, <3>3, <4>4
        <5>2. out = parts[b0]
          BY <1>3, <5>1, ConcatEmptySeq
        <5> QED
          BY <1>6, <3>3, <5>2
      <4>5. {k \in deltas(b)' : k < n + 1} = deltas(b)
        BY <1>1, <3>2
      <4>6. Anthropic!Lists(parts'[b], deltas(b)')
        BY <1>3, <3>1, <3>2
      <4>7. stops(b)' # {}
        BY <4>2
      <4> HIDE DEF deltas, stops
      <4>8. ASSUME NEW stop \in 1..Len(stream'), stops(b)' = {stop}
            PROVE  Anthropic!Lists(content'[b].out, {k \in deltas(b)' : k < stop})
        <5>1. stop = n + 1 /\ content'[b].out = parts[b]
          BY <4>3, <4>4, <4>8
        <5>2. Anthropic!Lists(content'[b].out, deltas(b))
          BY <3>1, <5>1
        <5> QED
          BY <4>5, <5>1, <5>2
      <4> QED
        BY <4>6, <4>7, <4>8
    <3>4. CASE b # b0
      <4>1. b - 1 # i
        BY <3>4
      <4>2. stops(b)' = stops(b) /\ content'[b].out = content[b].out
        BY <1>6, <1>7, <3>4, <4>1
      <4>3. \A stop : stops(b) = {stop} => stop \in 1..n
        BY <3>2
      <4> QED
        BY <1>3, <3>1, <3>2, <4>2, <4>3
    <3> QED
      BY <3>3, <3>4
  <2> QED
    BY <1>3, <1>6, <2>1, <2>2 DEF Anthropic!BlocksInv
<1>9. Anthropic!BlocksInOrder'
  BY <1>1, <1>2, <1>6, StartsStay DEF Anthropic!EventKinds
<1> QED
  BY <1>1, <1>3, <1>6, <1>8, <1>9
  DEF Anthropic!StreamInv, Anthropic!NoPartialReply, AnthropicEvents

(* Every step of the reader keeps its blocks accounted for.                *)
LEMMA AnthropicSteps == Anthropic!StreamInv /\ Anthropic!Next => Anthropic!StreamInv'
<1> SUFFICES ASSUME Anthropic!StreamInv, Anthropic!Next PROVE Anthropic!StreamInv'
  OBVIOUS
<1> USE DEF Anthropic!EventKinds
<1>1. \A i \in Anthropic!Indexes : i \in Int
  BY ProvidersAssumption DEF Anthropic!Indexes
<1>2. ASSUME NEW i \in Anthropic!Indexes,
             NEW type \in Anthropic!Types, Anthropic!BlockStart(i, type)
      PROVE  Anthropic!StreamInv'
  BY <1>1, <1>2, BlockStarts
<1>3. ASSUME NEW i \in Anthropic!Indexes, Anthropic!BlockDelta(i) \/ Anthropic!BlockStop(i)
      PROVE  Anthropic!StreamInv'
  BY <1>1, <1>3, DeltaIsListed, BlockStops
<1>4. ASSUME NEW i \in Anthropic!Indexes, Anthropic!BadInput(i) \/ Anthropic!OutOfOrder(i)
      PROVE  Anthropic!StreamInv'
  BY <1>1, <1>4, AnthropicFails DEF Anthropic!BadInput, Anthropic!OutOfOrder
<1>5. CASE Anthropic!MessageDelta
  BY <1>5, NoBlockTouched DEF Anthropic!MessageDelta, Anthropic!Read
<1>6. CASE Anthropic!MessageStop
  BY <1>6, NoBlockTouched DEF Anthropic!MessageStop
<1>7. CASE Anthropic!StreamFails
  BY <1>7, AnthropicFails DEF Anthropic!StreamFails
<1> QED
  BY <1>2, <1>3, <1>4, <1>5, <1>6, <1>7 DEF Anthropic!Next

(* So a reply of a stream as documented has all deltas of its blocks.      *)
LEMMA AnthropicWhole == Anthropic!StreamInv => Anthropic!ReplyIsWhole
<1> SUFFICES ASSUME Anthropic!StreamInv, outcome = "reply", Anthropic!WellFormed,
                    NEW b \in 1..Len(content)
             PROVE  Anthropic!Lists(content[b].out, Anthropic!Sent("delta", b - 1))
  BY DEF Anthropic!ReplyIsWhole
<1>1. PICK stop \in 1..Len(stream) :
        /\ Anthropic!Sent("stop", b - 1) = {stop}
        /\ \A k \in Anthropic!Sent("delta", b - 1) : k < stop
  BY DEF Anthropic!WellFormed
<1>2. {k \in Anthropic!Sent("delta", b - 1) : k < stop} = Anthropic!Sent("delta", b - 1)
  BY <1>1
<1> QED
  BY <1>1, <1>2 DEF Anthropic!StreamInv, Anthropic!BlocksInv

-----------------------------------------------------------------------------
(* The events of a body.                                                   *)

(* The data of one line, the k-th.                                         *)
DataAt(kind, k) == {n \in {k} : kind = "data"}

(* What a line that is read changes: blank lines part, data joins.         *)
LineAdded(L, kind, M, n) ==
  /\ M \in Seq(Events!Kinds) /\ n \in Nat /\ Len(M) = n + 1
  /\ Events!DataOf(L) \subseteq 1..n
  /\ Events!DataOf(M) = Events!DataOf(L) \cup DataAt(kind, n + 1)
  /\ \A i \in Nat, j \in 1..n : i >= 1 => (Events!Parted(M, i, j) <=> Events!Parted(L, i, j))
  /\ \A i \in 1..n : Events!Parted(M, i, n + 1) <=> kind = "blank" \/ Events!Parted(L, i, n)
  /\ kind = "data" => ~Events!Parted(M, n + 1, n + 1)
  /\ Events!Unread(M) =
       IF kind = "blank" THEN {} ELSE Events!Unread(L) \cup DataAt(kind, n + 1)

LEMMA LineRead ==
  ASSUME NEW L \in Seq(Events!Kinds), NEW kind \in Events!Kinds
  PROVE  LineAdded(L, kind, Append(L, kind), Len(L))
<1> DEFINE M == Append(L, kind)
           n == Len(L)
<1>1. /\ M \in Seq(Events!Kinds) /\ n \in Nat /\ Len(M) = n + 1
      /\ M[n + 1] = kind /\ \A i \in 1..n : M[i] = L[i]
      /\ 1..Len(M) = 1..n \cup {n + 1}
  BY OneMore
<1> HIDE DEF M
<1>2. /\ Events!DataOf(L) \subseteq 1..n
      /\ Events!DataOf(M) = Events!DataOf(L) \cup DataAt(kind, n + 1)
  BY <1>1 DEF Events!DataOf, DataAt
<1>3. \A i \in Nat, j \in 1..n : i >= 1 => (Events!Parted(M, i, j) <=> Events!Parted(L, i, j))
  BY <1>1 DEF Events!Parted
<1>4. \A i \in 1..n : Events!Parted(M, i, n + 1) <=> kind = "blank" \/ Events!Parted(L, i, n)
  <2>1. \A i \in 1..n : i..n+1 = i..n \cup {n + 1} /\ i..n \subseteq 1..n
    BY <1>1
  <2> QED
    BY <1>1, <2>1 DEF Events!Parted
<1>5. Events!Parted(M, n + 1, n + 1) <=> kind = "blank"
  <2>1. (n + 1)..(n + 1) = {n + 1}
    BY <1>1
  <2> QED
    BY <1>1, <2>1 DEF Events!Parted
<1>6. Events!Unread(M) =
        IF kind = "blank" THEN {} ELSE Events!Unread(L) \cup DataAt(kind, n + 1)
  BY <1>1, <1>2, <1>4, <1>5 DEF Events!Unread, DataAt
<1> QED
  BY <1>1, <1>2, <1>3, <1>4, <1>5, <1>6 DEF LineAdded, M

(* The lines of events are numbered, and belong to them when one is added. *)
LEMMA OneMoreEvent ==
  ASSUME NEW E \in Seq(Seq(Nat)), NEW d \in Seq(Nat), NEW P, Lists(d, P)
  PROVE  /\ Append(E, d) \in Seq(Seq(Nat)) /\ Events!LinesOf(d) = P
         /\ Events!LinesOfAll(Append(E, d)) = Events!LinesOfAll(E) \cup P
<1> DEFINE F == Append(E, d)
           n == Len(E)
<1>1. /\ F \in Seq(Seq(Nat)) /\ n \in Nat /\ F[n + 1] = d /\ \A e \in 1..n : F[e] = E[e]
      /\ 1..Len(F) = 1..n \cup {n + 1}
  BY OneMore
<1>2. Events!LinesOf(d) = P
  BY DEF Events!LinesOf, Lists
<1> HIDE DEF F
<1>3. ASSUME NEW x
      PROVE  x \in Events!LinesOfAll(F) <=> x \in Events!LinesOfAll(E) \cup P
  <2>1. x \in Events!LinesOfAll(F) <=> \E e \in 1..n \cup {n + 1} : x \in Events!LinesOf(F[e])
    BY <1>1 DEF Events!LinesOfAll
  <2>2. x \in Events!LinesOfAll(E) <=> \E e \in 1..n : x \in Events!LinesOf(E[e])
    BY DEF Events!LinesOfAll
  <2>3. \A e \in 1..n : F[e] = E[e]
    BY <1>1
  <2>4. F[n + 1] = d
    BY <1>1
  <2> HIDE DEF n
  <2> QED
    BY <1>2, <2>1, <2>2, <2>3, <2>4
<1>4. Events!LinesOfAll(F) = Events!LinesOfAll(E) \cup P
  BY <1>3
<1> QED
  BY <1>1, <1>2, <1>4 DEF F

(* An event of lines that come after a blank line, and have none between   *)
(* them, is one more.                                                      *)
LEMMA GroupedWithOneMore ==
  ASSUME NEW L, NEW E \in Seq(Seq(Nat)), Events!Grouped(L, E),
         NEW d \in Seq(Nat), NEW P, Lists(d, P), d # <<>>,
         \A i, j \in P : ~Events!Parted(L, i, j),
         \A i \in Events!LinesOfAll(E), j \in P : i < j /\ Events!Parted(L, i, j)
  PROVE  Events!Grouped(L, Append(E, d))
<1> DEFINE F == Append(E, d)
           n == Len(E)
<1>1. /\ F \in Seq(Seq(Nat)) /\ n \in Nat /\ F[n + 1] = d /\ \A e \in 1..n : F[e] = E[e]
      /\ 1..Len(F) = 1..n \cup {n + 1}
  BY OneMore
<1>2. Events!LinesOf(d) = P
  BY OneMoreEvent
<1>3. \A e \in 1..n : Events!LinesOf(E[e]) \subseteq Events!LinesOfAll(E)
  BY DEF Events!LinesOfAll
<1> HIDE DEF F
<1>4. ASSUME NEW e \in 1..Len(F)
      PROVE  /\ F[e] # <<>> /\ Events!Lists(F[e], Events!LinesOf(F[e]))
             /\ \A i, j \in Events!LinesOf(F[e]) : ~Events!Parted(L, i, j)
  <2>1. CASE e \in 1..n
    BY <1>1, <2>1 DEF Events!Grouped
  <2>2. CASE e = n + 1
    BY <1>1, <1>2, <2>2, OneListing
  <2> QED
    BY <1>1, <2>1, <2>2
<1>5. ASSUME NEW e \in 1..Len(F), NEW f \in 1..Len(F), e < f,
             NEW i \in Events!LinesOf(F[e]), NEW j \in Events!LinesOf(F[f])
      PROVE  i < j /\ Events!Parted(L, i, j)
  <2>1. e \in 1..n /\ F[e] = E[e]
    <3> HIDE DEF n
    <3>1. \A a, b \in 1..n \cup {n + 1} : a < b => a \in 1..n
      BY <1>1
    <3> QED
      BY <1>1, <1>5, <3>1
  <2>2. CASE f \in 1..n
    BY <1>1, <1>5, <2>1, <2>2 DEF Events!Grouped
  <2>3. CASE f = n + 1
    <3>1. i \in Events!LinesOfAll(E) /\ j \in P
      BY <1>1, <1>2, <1>3, <2>1, <2>3
    <3> QED
      BY <3>1
  <2> QED
    BY <1>1, <2>2, <2>3
<1>6. Events!Grouped(L, F)
  BY <1>4, <1>5 DEF Events!Grouped
<1> QED
  BY <1>6 DEF F


(* What is yielded of the lines read so far is their data up to the last   *)
(* blank line, event by event.                                             *)
Yielded(L, E) ==
  /\ L \in Seq(Events!Kinds) /\ E \in Seq(Seq(Nat)) /\ Events!Grouped(L, E)
  /\ Events!LinesOfAll(E) = Events!DataOf(L) \ Events!Unread(L)

(* P is the data of the event that is being read: the rest of the data,    *)
(* after a blank line and with none in it.                                 *)
NextEvent(L, E, P) ==
  /\ L \in Seq(Events!Kinds) /\ E \in Seq(Seq(Nat)) /\ Events!Grouped(L, E)
  /\ \A i, j \in P : ~Events!Parted(L, i, j)
  /\ \A i \in Events!LinesOfAll(E), j \in P : i < j /\ Events!Parted(L, i, j)
  /\ Events!DataOf(L) = Events!LinesOfAll(E) \cup P

LEMMA UnreadIsNext ==
  ASSUME NEW L, NEW E, Yielded(L, E) PROVE NextEvent(L, E, Events!Unread(L))
<1> DEFINE n == Len(L)
<1>1. n \in Nat
  BY LenProperties DEF Yielded
<1> HIDE DEF n
<1>2. /\ Events!DataOf(L) \subseteq 1..n
      /\ Events!Unread(L) = {k \in Events!DataOf(L) : ~Events!Parted(L, k, n)}
  BY DEF Events!DataOf, Events!Unread, n
<1>3. \A i, j \in Events!Unread(L) : ~Events!Parted(L, i, j)
  BY <1>1, <1>2 DEF Events!Parted
<1>4. ASSUME NEW i \in Events!LinesOfAll(E), NEW j \in Events!Unread(L)
      PROVE  i < j /\ Events!Parted(L, i, j)
  <2>1. i \in 1..n /\ j \in 1..n /\ Events!Parted(L, i, n) /\ ~Events!Parted(L, j, n)
    BY <1>2 DEF Yielded
  <2> QED
    BY <1>1, <2>1 DEF Events!Parted
<1> QED
  BY <1>2, <1>3, <1>4 DEF Yielded, NextEvent

(* One more line that is read joins the event if it is data.               *)
LEMMA LineJoins ==
  ASSUME NEW L, NEW E, Yielded(L, E), NEW kind \in Events!Kinds, NEW M, M = Append(L, kind)
  PROVE  LET P == Events!Unread(L) \cup DataAt(kind, Len(L) + 1)
         IN  /\ NextEvent(M, E, P)
             /\ Events!Unread(M) = IF kind = "blank" THEN {} ELSE P
             /\ \A k \in Events!Unread(L) : k < Len(L) + 1
<1> DEFINE n == Len(L)
           U == Events!Unread(L)
           P == U \cup DataAt(kind, n + 1)
<1>1. /\ NextEvent(L, E, U) /\ L \in Seq(Events!Kinds) /\ E \in Seq(Seq(Nat))
      /\ Events!LinesOfAll(E) = Events!DataOf(L) \ U
  BY UnreadIsNext DEF Yielded
<1> HIDE DEF n
<1>2. LineAdded(L, kind, M, n)
  BY <1>1, LineRead DEF n
<1> USE DEF LineAdded
<1> HIDE DEF U
<1>3. U = {k \in Events!DataOf(L) : ~Events!Parted(L, k, n)}
  BY DEF Events!Unread, n, U
<1>4. \A e \in 1..Len(E) : Events!LinesOf(E[e]) \subseteq 1..n
  BY <1>1, <1>2 DEF Events!LinesOfAll
<1>5. \A i, j \in 1..n : Events!Parted(M, i, j) <=> Events!Parted(L, i, j)
  BY <1>2
<1>6. Events!Grouped(M, E)
  <2>1. Events!Grouped(L, E)
    BY <1>1 DEF NextEvent
  <2> QED
    BY <1>4, <1>5, <2>1 DEF Events!Grouped
<1>7. U \subseteq 1..n /\ Events!LinesOfAll(E) \subseteq 1..n
  BY <1>1, <1>2, <1>3
<1> USE DEF DataAt
<1>8. ASSUME NEW i \in P, NEW j \in P PROVE ~Events!Parted(M, i, j)
  <2>1. CASE i \in U /\ j \in U
    BY <1>1, <1>5, <1>7, <2>1 DEF NextEvent
  <2>2. CASE i \in U /\ j \notin U
    BY <1>2, <1>3, <1>7, <2>2
  <2>3. CASE i \notin U /\ j \in U
    BY <1>2, <1>7, <2>3 DEF Events!Parted
  <2>4. CASE i \notin U /\ j \notin U
    BY <1>2, <2>4
  <2> QED
    BY <2>1, <2>2, <2>3, <2>4
<1>9. ASSUME NEW i \in Events!LinesOfAll(E), NEW j \in P
      PROVE  i < j /\ Events!Parted(M, i, j)
  <2>1. CASE j \in U
    BY <1>1, <1>5, <1>7, <2>1 DEF NextEvent
  <2>2. CASE j \notin U
    BY <1>1, <1>2, <1>3, <1>7, <2>2
  <2> QED
    BY <2>1, <2>2
<1>10. Events!DataOf(M) = Events!LinesOfAll(E) \cup P
  BY <1>1, <1>2, <1>3
<1>11. NextEvent(M, E, P)
  BY <1>1, <1>2, <1>6, <1>8, <1>9, <1>10 DEF NextEvent
<1>12. \A k \in U : k < n + 1
  BY <1>2, <1>7
<1> QED
  BY <1>2, <1>11, <1>12 DEF n, U

(* With it, an event that has data is yielded.                             *)
LEMMA EventYields ==
  ASSUME NEW L, NEW E, NEW P, NextEvent(L, E, P), NEW d \in Seq(Nat), Lists(d, P)
  PROVE  /\ d = <<>> => Events!LinesOfAll(E) = Events!DataOf(L)
         /\ d # <<>> => /\ Append(E, d) \in Seq(Seq(Nat)) /\ Events!Grouped(L, Append(E, d))
                        /\ Events!LinesOfAll(Append(E, d)) = Events!DataOf(L)
<1> USE DEF NextEvent
<1>1. CASE d = <<>>
  <2>1. Len(d) = 0
    BY <1>1, EmptySeq
  <2>2. P = {}
    BY <2>1 DEF Lists
  <2> QED
    BY <1>1, <2>2
<1>2. CASE d # <<>>
  BY <1>2, OneMoreEvent, GroupedWithOneMore
<1> QED
  BY <1>1, <1>2

-----------------------------------------------------------------------------
(* Every step of the cutting into events.                                  *)

(* Nothing is yielded of a new body.                                       *)
LEMMA EventsInit == Events!Init => Events!EventsInv
<1> SUFFICES ASSUME Events!Init PROVE Events!EventsInv
  OBVIOUS
<1> USE DEF Events!Init
<1>1. Len(stream) = 0 /\ Len(content) = 0
  BY EmptySeq
<1>2. Events!LinesOfAll(content) = {} /\ Events!DataOf(stream) = {}
  BY <1>1 DEF Events!LinesOfAll, Events!DataOf
<1>3. Events!Unread(stream) = {}
  BY <1>2 DEF Events!Unread
<1>4. Events!Lists(parts, {})
  BY NothingListed, OneListing
<1>5. Events!Grouped(stream, content)
  BY <1>1 DEF Events!Grouped
<1> QED
  BY <1>2, <1>3, <1>4, <1>5, EmptySeq DEF Events!EventsInv, Events!EventsAreWhole

(* A yield after the lines of the body have been read so far.              *)
LEMMA YieldIsWhole ==
  ASSUME Events!EventsInv, NEW P, NextEvent(stream', content, P),
         NEW d \in Seq(Nat), Lists(d, P),
         NEW next \in {"reading", "ended"}, Events!Yield(d, next),
         next = "reading" => Events!Unread(stream') = {} /\ d = parts
  PROVE  Events!EventsInv'
<1>1. /\ stream' \in Seq(Events!Kinds) /\ content \in Seq(Seq(Nat)) /\ parts \in Seq(Nat)
      /\ Events!Grouped(stream', content)
  BY DEF NextEvent, Events!EventsInv
<1>2. /\ content' \in Seq(Seq(Nat)) /\ Events!Grouped(stream', content')
      /\ Events!LinesOfAll(content') = Events!DataOf(stream')
  <2>1. CASE d = <<>>
    BY <1>1, <2>1, EventYields DEF Events!Yield
  <2>2. CASE d # <<>>
    <3>1. content' = Append(content, d)
      BY <2>2 DEF Events!Yield
    <3> QED
      BY <1>1, <2>2, <3>1, EventYields
  <2> QED
    BY <2>1, <2>2
<1>3. /\ parts' \in Seq(Nat) /\ outcome' \in {next, "left"}
      /\ outcome' = "reading" => parts' = <<>>
  BY <1>1, EmptySeq DEF Events!Yield
<1>4. next = "reading" => Events!Unread(stream') = {}
  OBVIOUS
<1>5. Lists(<<>>, {})
  BY NothingListed
<1>6. outcome' = "reading" => Events!Lists(parts', {})
  BY <1>3, <1>5, OneListing
<1> QED
  BY <1>1, <1>2, <1>3, <1>4, <1>6 DEF Events!EventsInv, Events!EventsAreWhole

(* Every step keeps the events whole.                                      *)
LEMMA EventsSteps == Events!EventsInv /\ Events!Next => Events!EventsInv'
<1> SUFFICES ASSUME Events!EventsInv, Events!Next PROVE Events!EventsInv'
  OBVIOUS
<1> DEFINE n == Len(stream)
<1>1. /\ outcome = "reading" /\ parts \in Seq(Nat)
      /\ Yielded(stream, content) /\ Lists(parts, Events!Unread(stream))
  BY OneListing
  DEF Events!Next, Events!Line, Events!EndsInLine, Events!Read, Events!Ends, Events!Breaks,
      Events!EventsInv, Events!EventsAreWhole, Yielded
<1>2. ASSUME NEW kind \in Events!Kinds, Events!Read(kind), NEW d, d = Events!Joined(kind)
      PROVE  LET P == Events!Unread(stream) \cup DataAt(kind, n + 1)
             IN  /\ NextEvent(stream', content, P)
                 /\ Events!Unread(stream') = IF kind = "blank" THEN {} ELSE P
                 /\ d \in Seq(Nat) /\ Lists(d, P)
  <2> DEFINE U == Events!Unread(stream)
             P == U \cup DataAt(kind, n + 1)
  <2>1. stream' = Append(stream, kind)
    BY <1>2 DEF Events!Read
  <2>2. /\ NextEvent(stream', content, P) /\ \A k \in U : k < n + 1
        /\ Events!Unread(stream') = IF kind = "blank" THEN {} ELSE P
    <3>1. Yielded(stream, content)
      BY <1>1
    <3> QED
      BY <2>1, <3>1, LineJoins
  <2>3. n \in Nat /\ n + 1 \in Nat /\ Len(stream') = n + 1
    BY <1>1, <2>1, OneMore DEF Yielded
  <2> HIDE DEF n, U
  <2>4. CASE kind = "data"
    <3>1. d = Append(parts, n + 1)
      BY <1>2, <2>3, <2>4 DEF Events!Joined
    <3>2. Lists(parts, U)
      BY <1>1 DEF U
    <3> QED
      BY <1>1, <2>2, <2>3, <2>4, <3>1, <3>2, ListsAppend DEF U, DataAt
  <2>5. CASE kind # "data"
    BY <1>1, <1>2, <2>2, <2>5 DEF Events!Joined, U, DataAt
  <2> QED
    BY <2>4, <2>5
<1>3. ASSUME NEW kind \in Events!Kinds, Events!Line(kind) PROVE Events!EventsInv'
  <2>1. Events!Read(kind)
    BY <1>3 DEF Events!Line
  <2>2. CASE kind = "blank"
    <3>1. Events!Joined(kind) = parts /\ DataAt(kind, n + 1) = {}
      BY <2>2 DEF Events!Joined, DataAt
    <3>2. NextEvent(stream', content, Events!Unread(stream)) /\ Events!Unread(stream') = {}
      BY <1>2, <2>1, <2>2, <3>1
    <3>3. Events!Yield(parts, "reading")
      BY <1>3, <2>2 DEF Events!Line
    <3> QED
      BY <1>1, <3>2, <3>3, YieldIsWhole
  <2>3. CASE kind # "blank"
    <3>1. parts' = Events!Joined(kind) /\ UNCHANGED <<content, outcome>>
      BY <1>3, <2>3 DEF Events!Line
    <3>2. /\ NextEvent(stream', content, Events!Unread(stream'))
          /\ parts' \in Seq(Nat) /\ Lists(parts', Events!Unread(stream'))
      BY <1>2, <2>1, <2>3, <3>1
    <3>3. Events!LinesOfAll(content) = Events!DataOf(stream') \ Events!Unread(stream')
      <4>1. Events!DataOf(stream') = Events!LinesOfAll(content) \cup Events!Unread(stream')
        BY <3>2 DEF NextEvent
      <4>2. \A i \in Events!LinesOfAll(content), j \in Events!Unread(stream') : i < j
        BY <3>2 DEF NextEvent
      <4>3. Events!DataOf(stream') \subseteq Nat
        BY DEF Events!DataOf
      <4> QED
        BY <4>1, <4>2, <4>3
    <3>4. /\ stream' \in Seq(Events!Kinds) /\ content \in Seq(Seq(Nat))
          /\ Events!Grouped(stream', content)
          /\ \A i \in Events!LinesOfAll(content), k \in Events!DataOf(stream') :
               k < i => k \in Events!LinesOfAll(content)
      <4>1. \A i \in Events!LinesOfAll(content), k \in Events!Unread(stream') : i < k
        BY <3>2 DEF NextEvent
      <4>2. Events!DataOf(stream') \subseteq Nat
        BY DEF Events!DataOf
      <4>3. Events!LinesOfAll(content) \subseteq Nat /\ Events!Unread(stream') \subseteq Nat
        BY <3>3, <4>2 DEF Events!Unread
      <4>4. \A i \in Events!LinesOfAll(content), k \in Events!DataOf(stream') :
              k < i => k \in Events!LinesOfAll(content)
        BY <3>3, <4>1, <4>2, <4>3
      <4> QED
        BY <3>2, <4>4 DEF NextEvent
    <3>5. Events!Lists(parts', Events!Unread(stream'))
      BY <3>2, OneListing
    <3> QED
      BY <1>1, <3>1, <3>2, <3>3, <3>4, <3>5 DEF Events!EventsInv, Events!EventsAreWhole
  <2> QED
    BY <2>2, <2>3
<1>4. ASSUME NEW kind \in Events!Kinds, Events!EndsInLine(kind) PROVE Events!EventsInv'
  <2> DEFINE d == Events!Joined(kind)
  <2>1. Events!Read(kind) /\ Events!Yield(d, "ended")
    BY <1>4 DEF Events!EndsInLine
  <2> HIDE DEF d
  <2>2. PICK P : NextEvent(stream', content, P) /\ d \in Seq(Nat) /\ Lists(d, P)
    BY <1>2, <2>1 DEF d
  <2> QED
    BY <2>1, <2>2, YieldIsWhole
<1>5. CASE Events!Ends
  <2>1. UNCHANGED stream /\ Events!Yield(parts, "ended")
    BY <1>5 DEF Events!Ends
  <2>2. NextEvent(stream', content, Events!Unread(stream))
    BY <1>1, <2>1, UnreadIsNext
  <2> QED
    BY <1>1, <2>1, <2>2, YieldIsWhole
<1>6. CASE Events!Breaks
  BY <1>1, <1>6 DEF Events!Breaks, Events!EventsInv, Events!EventsAreWhole
<1> QED
  BY <1>3, <1>4, <1>5, <1>6 DEF Events!Next

-----------------------------------------------------------------------------
(* Induction and recursion over 0..n without an operator as a parameter:   *)
(* the property is a set, the step of the recursion a function.            *)

(* Every set of natural numbers that is not empty has a least element.     *)
LEMMA LeastNatural ==
  ASSUME NEW S \in SUBSET Nat, S # {}
  PROVE  \E n \in S : \A m \in S : n <= m
<1> DEFINE less == {p \in Nat \X Nat : p[1] < p[2]}
<1>1. IsWellFoundedOn(less, Nat)
  BY NatLessThanWellFounded DEF OpToRel
<1> HIDE DEF less
<1>2. PICK n \in S : \A m \in S : <<m, n>> \notin less
  BY <1>1, WFMin
<1>3. ASSUME NEW m \in S PROVE n <= m
  <2>1. n \in Nat /\ m \in Nat /\ <<m, n>> \in Nat \X Nat /\ <<m, n>> \notin less
    BY <1>2
  <2>2. ~(m < n)
    BY <2>1 DEF less
  <2> QED
    BY <2>1, <2>2
<1> QED
  BY <1>3

(* A set that holds 0 and with each number the next holds them all.        *)
LEMMA UpTo ==
  ASSUME NEW N \in Nat, NEW S, 0 \in S, \A n \in 0..N-1 : n \in S => n + 1 \in S
  PROVE  \A n \in 0..N : n \in S
<1> DEFINE missing == {n \in 0..N : n \notin S}
<1> SUFFICES ASSUME missing # {} PROVE FALSE
  OBVIOUS
<1>1. missing \in SUBSET Nat
  OBVIOUS
<1>2. PICK n \in missing : \A m \in missing : n <= m
  BY <1>1, LeastNatural
<1>3. n \in 0..N /\ n \notin S /\ n # 0
  OBVIOUS
<1>4. n - 1 \in 0..N-1 /\ n - 1 \notin missing
  BY <1>2, <1>3
<1>5. n - 1 \in S
  BY <1>4
<1> QED
  BY <1>3, <1>4, <1>5

(* The results f of a loop over 1..N, from before its first turn to after  *)
(* its last: each turn takes the result so far to the next one.            *)
LoopOf(f, N, D, base, step) ==
  /\ f \in [0..N -> D] /\ f[0] = base
  /\ \A i \in 1..N : f[i] = step[<<i, f[i - 1]>>]

(* Every loop has them.                                                    *)
LEMMA LoopExists ==
  ASSUME NEW N \in Nat, NEW D, NEW base \in D, NEW step \in [(1..N) \X D -> D]
  PROVE  \E f : LoopOf(f, N, D, base, step)
<1> USE DEF LoopOf
<1> DEFINE Loop(f, n) == LoopOf(f, n, D, base, step)
           S == {n \in 0..N : \E f : Loop(f, n)}
<1>1. 0 \in S
  <2>1. Loop([i \in 0..0 |-> base], 0)
    OBVIOUS
  <2>2. 0 \in 0..N
    OBVIOUS
  <2> HIDE DEF Loop
  <2> QED
    BY <2>1, <2>2
<1>2. ASSUME NEW n \in 0..N-1, n \in S PROVE n + 1 \in S
  <2>1. PICK f : Loop(f, n)
    BY <1>2
  <2> DEFINE g == [i \in 0..n+1 |-> IF i = n + 1 THEN step[<<n + 1, f[n]>>] ELSE f[i]]
  <2>2. n + 1 \in 1..N /\ n \in 0..n /\ f[n] \in D
    BY <2>1
  <2>3. step[<<n + 1, f[n]>>] \in D
    BY <2>2
  <2>4. g \in [0..n+1 -> D]
    BY <2>1, <2>3
  <2>5. g[0] = base
    BY <2>1
  <2>6. ASSUME NEW i \in 1..n+1 PROVE g[i] = step[<<i, g[i - 1]>>]
    <3>1. i - 1 \in 0..n /\ g[i - 1] = f[i - 1]
      OBVIOUS
    <3>2. CASE i = n + 1
      <4>1. g[i] = step[<<n + 1, f[n]>>] /\ i - 1 = n
        BY <3>2
      <4> QED
        BY <3>1, <3>2, <4>1
    <3>3. CASE i # n + 1
      <4>1. i \in 1..n
        BY <3>3
      <4> QED
        BY <2>1, <3>1, <4>1
    <3> QED
      BY <3>2, <3>3
  <2>7. Loop(g, n + 1)
    BY <2>4, <2>5, <2>6
  <2>8. n + 1 \in 0..N
    BY <2>2
  <2> HIDE DEF Loop, g
  <2> QED
    BY <2>7, <2>8
<1> HIDE DEF S
<1>3. N \in S
  BY <1>1, <1>2, UpTo
<1> QED
  BY <1>3 DEF S

-----------------------------------------------------------------------------
(* OpenRouter's merging of the fragments of tool calls.                    *)

CallSeqs == Seq(OpenRouter!Calls)

(* What the calls tell of the fragments at the places P.                   *)
Tells(calls, s, P) ==
  /\ OpenRouter!TellWhatWasSent(calls, s, P)
  /\ OpenRouter!CallsOf(s, P) = 0..Len(calls) - 1

(* The piece of the arguments that is sent next is listed last.            *)
LEMMA PairsAppend ==
  ASSUME NEW s \in Seq(Nat \X Nat), NEW S, ListsPairs(s, S), NEW x \in Nat \X Nat,
         \A p \in S : Before(p, x)
  PROVE  Append(s, x) \in Seq(Nat \X Nat) /\ ListsPairs(Append(s, x), S \cup {x})
<1>1. <<x>> \in Seq(Nat \X Nat) /\ ListsPairs(<<x>>, {x})
  BY DEF ListsPairs
<1> DEFINE t == <<x>>
           T == {x}
<1> HIDE DEF t, T
<1>2. s \o t \in Seq(Nat \X Nat) /\ ListsPairs(s \o t, S \cup T)
  <2>1. t \in Seq(Nat \X Nat) /\ ListsPairs(t, T)
    BY <1>1, Zenon DEF t, T
  <2>2. \A p \in S, q \in T : Before(p, q)
    BY Zenon DEF T
  <2> QED
    BY <2>1, <2>2, PairsJoin
<1>3. Append(s, x) = s \o <<x>>
  BY AppendIsConcat
<1> QED
  BY <1>2, <1>3, Zenon DEF t, T

(* The fragment's call is there, and new if it is the next one.            *)
LEMMA GrownIs ==
  ASSUME NEW calls \in CallSeqs, NEW i \in Int, OpenRouter!InOrder(calls, i), NEW n, n = Len(calls)
  PROVE  LET g == OpenRouter!Grown(calls, i)
         IN  /\ g \in CallSeqs /\ n \in Nat
             /\ i < n => g = calls
             /\ i = n => /\ Len(g) = n + 1 /\ g[n + 1] = OpenRouter!NewCall
                         /\ \A k \in 1..n : g[k] = calls[k]
<1> DEFINE rest == i + 1 - n
           t == [k \in 1..rest |-> OpenRouter!NewCall]
<1>1. n \in Nat /\ 0 <= i /\ i <= n
  BY LenProperties DEF CallSeqs, OpenRouter!InOrder
<1>2. OpenRouter!Grown(calls, i) = calls \o t
  BY DEF OpenRouter!Grown
<1>3. OpenRouter!NewCall \in OpenRouter!Calls
  BY EmptySeq DEF OpenRouter!NewCall, OpenRouter!Calls, OpenRouter!None
<1>4. CASE i < n
  <2>1. 1..rest = 1..0
    BY <1>1, <1>4
  <2>2. t \in [1..0 -> OpenRouter!Calls]
    BY <1>3, <2>1
  <2> HIDE DEF t
  <2>3. t \in CallSeqs /\ Len(t) = 0
    BY <2>2, IsSequence DEF CallSeqs
  <2>4. t = <<>>
    BY <2>3, EmptySeq DEF CallSeqs
  <2>5. calls \o t = calls
    BY <2>4, ConcatEmptySeq DEF CallSeqs
  <2> QED
    BY <1>1, <1>2, <1>4, <2>5
<1>5. CASE i = n
  <2>1. rest = 1
    BY <1>1, <1>5
  <2>2. t \in [1..1 -> OpenRouter!Calls] /\ t[1] = OpenRouter!NewCall
    BY <1>3, <2>1
  <2> HIDE DEF t
  <2>3. t \in CallSeqs /\ Len(t) = 1
    BY <2>2, IsSequence DEF CallSeqs
  <2>4. /\ calls \o t \in CallSeqs /\ Len(calls \o t) = n + 1
        /\ \A k \in 1..n : (calls \o t)[k] = calls[k]
        /\ \A k \in n+1..n+1 : (calls \o t)[k] = t[k - n]
    <3>1. /\ calls \o t \in CallSeqs /\ Len(calls \o t) = Len(calls) + Len(t)
          /\ \A k \in 1..Len(calls)+Len(t) :
               (calls \o t)[k] = IF k <= Len(calls) THEN calls[k] ELSE t[k - Len(calls)]
      BY <2>3, ConcatProperties DEF CallSeqs
    <3> QED
      BY <1>1, <2>3, <3>1
  <2>5. (calls \o t)[n + 1] = t[1]
    BY <1>1, <2>4
  <2> QED
    BY <1>1, <1>2, <1>5, <2>2, <2>4, <2>5
<1> QED
  BY <1>1, <1>4, <1>5

(* The calls a fragment may start tell what was sent before it.            *)
LEMMA GrownTells ==
  ASSUME NEW calls \in CallSeqs, NEW i \in Int, OpenRouter!InOrder(calls, i),
         NEW s, NEW P, Tells(calls, s, P)
  PROVE  LET g == OpenRouter!Grown(calls, i)
         IN  /\ g \in CallSeqs /\ i + 1 \in 1..Len(g)
             /\ OpenRouter!TellWhatWasSent(g, s, P)
             /\ OpenRouter!CallsOf(s, P) \cup {i} = 0..Len(g) - 1
<1> DEFINE g == OpenRouter!Grown(calls, i)
           n == Len(calls)
<1> SUFFICES /\ g \in CallSeqs /\ i + 1 \in 1..Len(g)
             /\ OpenRouter!TellWhatWasSent(g, s, P)
             /\ OpenRouter!CallsOf(s, P) \cup {i} = 0..Len(g) - 1
  OBVIOUS
<1>1. /\ g \in CallSeqs /\ n \in Nat
      /\ i < n => g = calls
      /\ i = n => /\ Len(g) = n + 1 /\ g[n + 1] = OpenRouter!NewCall
                  /\ \A k \in 1..n : g[k] = calls[k]
  BY GrownIs
<1>2. 0 <= i /\ i <= n /\ OpenRouter!CallsOf(s, P) = 0..n - 1
  BY DEF OpenRouter!InOrder, Tells
<1> HIDE DEF g
<1>3. CASE i < n
  BY <1>1, <1>2, <1>3 DEF Tells
<1>4. CASE i = n
  <2>1. OpenRouter!CallsOf(s, P) \cup {i} = 0..Len(g) - 1 /\ i + 1 \in 1..Len(g)
    BY <1>1, <1>2, <1>4
  <2>2. \A p \in P : OpenRouter!At(s, p).index # n
    <3>1. n \notin OpenRouter!CallsOf(s, P)
      BY <1>1, <1>2
    <3> QED
      BY <3>1 DEF OpenRouter!CallsOf
  <2> DEFINE mine(k) == {p \in P : OpenRouter!At(s, p).index = k - 1}
             Told(c, k) ==
               /\ OpenRouter!ListsPairs(c[k].args, {p \in mine(k) : OpenRouter!At(s, p).args})
               /\ OpenRouter!LatestOf(c[k].name, {p \in mine(k) : OpenRouter!At(s, p).named},
                                      OpenRouter!None)
  <2>3. ASSUME NEW k \in 1..Len(g) PROVE Told(g, k)
    <3>1. CASE k \in 1..n
      <4>1. g[k] = calls[k]
        BY <1>1, <1>4, <3>1
      <4>2. Told(calls, k)
        BY <3>1 DEF Tells, OpenRouter!TellWhatWasSent
      <4> QED
        BY <4>1, <4>2
    <3>2. CASE k \notin 1..n
      <4>1. k = n + 1 /\ k - 1 = n /\ g[k] = OpenRouter!NewCall
        BY <1>1, <1>4, <3>2
      <4>2. mine(k) = {}
        BY <2>2, <4>1
      <4>3. g[k].args = <<>> /\ g[k].name = OpenRouter!None
        BY <4>1 DEF OpenRouter!NewCall
      <4> HIDE DEF mine
      <4>4. /\ {p \in mine(k) : OpenRouter!At(s, p).args} = {}
            /\ {p \in mine(k) : OpenRouter!At(s, p).named} = {}
        BY <4>2
      <4>5. OpenRouter!ListsPairs(<<>>, {})
        BY NothingListed, OneListing
      <4> QED
        BY <4>3, <4>4, <4>5 DEF OpenRouter!LatestOf
    <3> QED
      BY <3>1, <3>2
  <2>4. OpenRouter!TellWhatWasSent(g, s, P)
    BY <2>3 DEF OpenRouter!TellWhatWasSent
  <2> QED
    BY <1>1, <2>1, <2>4
<1> QED
  BY <1>1, <1>2, <1>3, <1>4

(* What the merging of a fragment changes: the call it names.              *)
LEMMA MergeOneIs ==
  ASSUME NEW calls \in CallSeqs, NEW f \in OpenRouter!Fragments, NEW w \in Nat \X Nat
  PROVE  LET i == f.index
             g == OpenRouter!Grown(calls, i)
             c == OpenRouter!MergeOne(calls, f, w)
         IN  /\ g \in CallSeqs /\ c \in CallSeqs
             /\ i + 1 \in 1..Len(g) =>
                  c = [g EXCEPT ![i + 1] =
                         [name |-> IF f.named THEN w ELSE g[i + 1].name,
                          args |-> IF f.args THEN Append(g[i + 1].args, w)
                                   ELSE g[i + 1].args]]
<1> DEFINE i == f.index
           g == OpenRouter!Grown(calls, i)
           c == OpenRouter!MergeOne(calls, f, w)
           name == IF f.named THEN w ELSE g[i + 1].name
           args == IF f.args THEN Append(g[i + 1].args, w) ELSE g[i + 1].args
           call == [name |-> name, args |-> args]
           m == Len(g)
<1> SUFFICES /\ g \in CallSeqs /\ c \in CallSeqs
             /\ i + 1 \in 1..m => c = [g EXCEPT ![i + 1] = call]
  OBVIOUS
<1>1. i \in Int /\ f.named \in BOOLEAN /\ f.args \in BOOLEAN
  BY ProvidersAssumption DEF OpenRouter!Fragments
<1>2. g \in CallSeqs
  <2> DEFINE n == Len(calls)
             rest == i + 1 - n
             t == [k \in 1..rest |-> OpenRouter!NewCall]
  <2>1. n \in Nat
    BY LenProperties DEF CallSeqs
  <2>2. OpenRouter!NewCall \in OpenRouter!Calls
    BY EmptySeq DEF OpenRouter!NewCall, OpenRouter!Calls, OpenRouter!None
  <2>3. t \in [1..rest -> OpenRouter!Calls]
    BY <2>2
  <2> HIDE DEF t
  <2>4. PICK k \in Nat : 1..rest = 1..k
    <3>1. CASE rest > 0
      BY <1>1, <2>1, <3>1
    <3>2. CASE ~(rest > 0)
      <4>1. 1..rest = 1..0
        BY <1>1, <2>1, <3>2
      <4> QED
        BY <4>1
    <3> QED
      BY <3>1, <3>2
  <2>5. t \in Seq(OpenRouter!Calls)
    <3>1. t \in [1..k -> OpenRouter!Calls]
      BY <2>3, <2>4
    <3> QED
      BY <3>1, IsSequence
  <2> QED
    BY <2>5, ConcatProperties DEF CallSeqs, OpenRouter!Grown, t
<1>3. c = [g EXCEPT ![i + 1].name = IF f.named THEN w ELSE @,
                    ![i + 1].args = IF f.args THEN Append(@, w) ELSE @]
  BY DEF OpenRouter!MergeOne
<1> HIDE DEF c, g, i
<1>4. CASE i + 1 \in 1..m
  <2>1. g[i + 1] \in OpenRouter!Calls
    BY <1>2, <1>4, ElementOfSeq DEF CallSeqs
  <2>2. /\ g[i + 1] = [name |-> g[i + 1].name, args |-> g[i + 1].args]
        /\ g[i + 1].name \in Nat \X Nat /\ g[i + 1].args \in Seq(Nat \X Nat)
    BY <2>1 DEF OpenRouter!Calls
  <2> DEFINE h == [g EXCEPT ![i + 1].name = IF f.named THEN w ELSE @]
           named == [name |-> name, args |-> g[i + 1].args]
  <2>3. h = [g EXCEPT ![i + 1] = named]
    <3>1. h = [g EXCEPT ![i + 1] = [g[i + 1] EXCEPT !.name = name]]
      OBVIOUS
    <3>2. [g[i + 1] EXCEPT !.name = name] = named
      <4> HIDE DEF name
      <4>1. \A x, a, b : [[name |-> a, args |-> b] EXCEPT !.name = x] = [name |-> x, args |-> b]
        OBVIOUS
      <4>2. \A r, a, b : r = [name |-> a, args |-> b]
              => [r EXCEPT !.name = name] = [name |-> name, args |-> b]
        BY <4>1
      <4> QED
        BY <2>2, <4>2
    <3> QED
      BY <3>1, <3>2, Zenon
  <2>4. h[i + 1] = named
    <3>1. i + 1 \in DOMAIN g
      BY <1>2, <1>4, LenProperties DEF CallSeqs
    <3> HIDE DEF h, named
    <3> QED
      BY <2>3, <3>1
  <2>5. c = [h EXCEPT ![i + 1] = [h[i + 1] EXCEPT
                                    !.args = IF f.args THEN Append(h[i + 1].args, w)
                                             ELSE h[i + 1].args]]
    BY <1>3
  <2>6. [named EXCEPT !.args = args] = call
    <3> HIDE DEF name, args
    <3> QED
      OBVIOUS
  <2>7. args = IF f.args THEN Append(named.args, w) ELSE named.args
    OBVIOUS
  <2> HIDE DEF named, args, call
  <2>8. c = [h EXCEPT ![i + 1] = call]
    BY <2>4, <2>5, <2>6, <2>7
  <2> HIDE DEF h
  <2>9. c = [g EXCEPT ![i + 1] = call]
    BY <2>3, <2>8
  <2>10. call \in OpenRouter!Calls
    BY <1>1, <2>2, AppendProperties DEF OpenRouter!Calls, call, name, args
  <2>11. c \in CallSeqs
    <3>1. [g EXCEPT ![i + 1] = call] \in Seq(OpenRouter!Calls)
      BY <1>2, <1>4, <2>10, ExceptSeq DEF CallSeqs
    <3> QED
      BY <2>9, <3>1 DEF CallSeqs
  <2> QED
    BY <1>2, <2>9, <2>11 DEF call, name, args
<1>5. CASE i + 1 \notin 1..m
  <2>1. c = g
    <3>1. g = [k \in 1..m |-> g[k]]
      BY <1>2, LenProperties DEF CallSeqs
    <3> HIDE DEF m
    <3>2. \A x : [g EXCEPT ![i + 1] = x] = g
      BY <1>5, <3>1
    <3> DEFINE h == [g EXCEPT ![i + 1].name = IF f.named THEN w ELSE @]
    <3>3. h = g
      BY <3>2
    <3>4. c = [h EXCEPT ![i + 1].args = IF f.args THEN Append(@, w) ELSE @]
      BY <1>3
    <3> HIDE DEF h
    <3> QED
      BY <3>2, <3>3, <3>4
  <2> QED
    BY <1>2, <1>5, <2>1
<1> QED
  BY <1>2, <1>4, <1>5

(* A fragment at the place w, sent after those at P, goes to the call it   *)
(* names and to no other.                                                  *)
LEMMA OneFragment ==
  ASSUME NEW calls \in CallSeqs, NEW s, NEW P, Tells(calls, s, P),
         NEW w \in Nat \X Nat, \A p \in P : Before(p, w),
         NEW f \in OpenRouter!Fragments, OpenRouter!At(s, w) = f,
         OpenRouter!InOrder(calls, f.index)
  PROVE  /\ OpenRouter!MergeOne(calls, f, w) \in CallSeqs
         /\ Tells(OpenRouter!MergeOne(calls, f, w), s, P \cup {w})
<1> DEFINE i == f.index
           g == OpenRouter!Grown(calls, i)
           c == OpenRouter!MergeOne(calls, f, w)
           name == IF f.named THEN w ELSE g[i + 1].name
           args == IF f.args THEN Append(g[i + 1].args, w) ELSE g[i + 1].args
           call == [name |-> name, args |-> args]
           m == Len(g)
<1>1. i \in Int /\ f.named \in BOOLEAN /\ f.args \in BOOLEAN
  BY ProvidersAssumption DEF OpenRouter!Fragments
<1>2. /\ g \in CallSeqs /\ i + 1 \in 1..m
      /\ OpenRouter!TellWhatWasSent(g, s, P)
      /\ OpenRouter!CallsOf(s, P) \cup {i} = 0..m - 1
  BY <1>1, GrownTells
<1>3. g[i + 1] \in OpenRouter!Calls /\ m \in Nat
  BY <1>2, ElementOfSeq, LenProperties DEF CallSeqs
<1>4. g[i + 1] = [name |-> g[i + 1].name, args |-> g[i + 1].args]
      /\ g[i + 1].name \in Nat \X Nat /\ g[i + 1].args \in Seq(Nat \X Nat)
  BY <1>3 DEF OpenRouter!Calls
<1>5. c = [g EXCEPT ![i + 1] = call]
  BY <1>2, MergeOneIs
<1> HIDE DEF g, c, i
<1> DEFINE mine(k) == {p \in P : OpenRouter!At(s, p).index = k - 1}
           more(k) == {p \in P \cup {w} : OpenRouter!At(s, p).index = k - 1}
           ArgsOf(S) == {p \in S : OpenRouter!At(s, p).args}
           NamesOf(S) == {p \in S : OpenRouter!At(s, p).named}
<1>6. ASSUME NEW k \in 1..m
      PROVE  ListsPairs(g[k].args, ArgsOf(mine(k)))
             /\ OpenRouter!LatestOf(g[k].name, NamesOf(mine(k)), OpenRouter!None)
  BY <1>2, OneListing DEF OpenRouter!TellWhatWasSent
<1>7. /\ more(i + 1) = mine(i + 1) \cup {w}
      /\ \A k \in 1..m : k # i + 1 => more(k) = mine(k)
  BY <1>1, <1>2 DEF i
<1>8. args \in Seq(Nat \X Nat) /\ ListsPairs(args, ArgsOf(more(i + 1)))
  <2> DEFINE A == ArgsOf(mine(i + 1))
  <2>1. ListsPairs(g[i + 1].args, A) /\ \A p \in A : Before(p, w)
    BY <1>2, <1>6
  <2>2. ArgsOf(more(i + 1)) = IF f.args THEN A \cup {w} ELSE A
    BY <1>7
  <2> HIDE DEF A, more, mine
  <2>3. CASE f.args
    <3>1. args = Append(g[i + 1].args, w)
      BY <2>3
    <3> HIDE DEF args
    <3> QED
      BY <1>4, <2>1, <2>2, <2>3, <3>1, PairsAppend
  <2>4. CASE ~f.args
    BY <1>4, <2>1, <2>2, <2>4
  <2> QED
    BY <2>3, <2>4
<1>9. name \in Nat \X Nat
      /\ OpenRouter!LatestOf(name, NamesOf(more(i + 1)), OpenRouter!None)
  <2> DEFINE N == NamesOf(mine(i + 1))
  <2>1. OpenRouter!LatestOf(g[i + 1].name, N, OpenRouter!None) /\ \A p \in N : Before(p, w)
    BY <1>2, <1>6
  <2>2. NamesOf(more(i + 1)) = IF f.named THEN N \cup {w} ELSE N
    BY <1>7
  <2> HIDE DEF N, more, mine
  <2>3. CASE f.named
    <3>1. OpenRouter!LatestOf(w, N \cup {w}, OpenRouter!None)
      BY <2>1 DEF OpenRouter!LatestOf, OpenRouter!Before, Before
    <3> QED
      BY <2>2, <2>3, <3>1
  <2>4. CASE ~f.named
    BY <1>4, <2>1, <2>2, <2>4
  <2> QED
    BY <2>3, <2>4
<1> HIDE DEF name, args
<1>10. call \in OpenRouter!Calls
  BY <1>8, <1>9 DEF OpenRouter!Calls
<1>11. /\ c \in CallSeqs /\ Len(c) = m
       /\ \A k \in 1..m : c[k] = IF k = i + 1 THEN call ELSE g[k]
  BY <1>2, <1>5, <1>10, ExceptSeq DEF CallSeqs
<1>12. ASSUME NEW k \in 1..Len(c)
       PROVE  OpenRouter!ListsPairs(c[k].args, ArgsOf(more(k)))
              /\ OpenRouter!LatestOf(c[k].name, NamesOf(more(k)), OpenRouter!None)
  <2>1. CASE k = i + 1
    <3>1. c[k].args = args /\ c[k].name = name
      BY <1>11, <2>1
    <3> QED
      BY <1>8, <1>9, <2>1, <3>1, OneListing
  <2>2. CASE k # i + 1
    <3>1. c[k] = g[k] /\ more(k) = mine(k) /\ k \in 1..m
      BY <1>7, <1>11, <2>2
    <3> HIDE DEF more, mine
    <3> QED
      BY <1>6, <3>1, OneListing
  <2> QED
    BY <2>1, <2>2
<1>13. OpenRouter!TellWhatWasSent(c, s, P \cup {w})
  BY <1>12 DEF OpenRouter!TellWhatWasSent
<1>14. OpenRouter!CallsOf(s, P \cup {w}) = OpenRouter!CallsOf(s, P) \cup {i}
  BY DEF OpenRouter!CallsOf, i
<1> QED
  BY <1>2, <1>11, <1>13, <1>14 DEF Tells, c


(* The calls after each fragment of a choice are those before it with it   *)
(* merged.                                                                 *)
LEMMA MergingRuns ==
  ASSUME NEW calls \in CallSeqs, NEW fragments \in Seq(OpenRouter!Fragments), NEW at \in Nat
  PROVE  LET m == OpenRouter!Merged(calls, fragments, at)
         IN  /\ m[0] = calls
             /\ \A k \in 1..Len(fragments) :
                  m[k] = OpenRouter!MergeOne(m[k - 1], fragments[k], <<at, k>>)
<1> DEFINE N == Len(fragments)
           One(c, k) == OpenRouter!MergeOne(c, fragments[k], <<at, k>>)
           Turn(f) == [k \in 0..N |-> IF k = 0 THEN calls ELSE One(f[k - 1], k)]
           step == [x \in (1..N) \X CallSeqs |-> One(x[2], x[1])]
           m == CHOOSE f : f = Turn(f)
<1>1. N \in Nat
  BY LenProperties
<1>2. \A k \in 1..N, c \in CallSeqs : One(c, k) \in CallSeqs
  <2> SUFFICES ASSUME NEW k \in 1..N, NEW c \in CallSeqs PROVE One(c, k) \in CallSeqs
    OBVIOUS
  <2>1. fragments[k] \in OpenRouter!Fragments /\ <<at, k>> \in Nat \X Nat
    BY <1>1, ElementOfSeq
  <2> QED
    BY <2>1, MergeOneIs
<1> HIDE DEF N, One
<1>3. step \in [(1..N) \X CallSeqs -> CallSeqs]
  BY <1>2
<1> HIDE DEF step
<1>4. PICK f : LoopOf(f, N, CallSeqs, calls, step)
  BY <1>1, <1>3, LoopExists
<1>5. f = Turn(f)
  <2>1. ASSUME NEW k \in 1..N PROVE f[k] = One(f[k - 1], k)
    <3>1. k - 1 \in 0..N /\ f[k - 1] \in CallSeqs
      BY <1>1, <1>4 DEF LoopOf
    <3>2. step[<<k, f[k - 1]>>] = One(f[k - 1], k)
      BY <3>1 DEF step
    <3> QED
      BY <1>4, <3>2 DEF LoopOf
  <2>2. \A k \in 0..N : f[k] = Turn(f)[k]
    BY <1>1, <1>4, <2>1, SMTT(20) DEF LoopOf
  <2>3. f = [k \in 0..N |-> f[k]]
    BY <1>4 DEF LoopOf
  <2> QED
    BY <2>2, <2>3
<1>6. m = Turn(m)
  BY <1>5
<1> HIDE DEF m
<1>7. \A k \in 0..N : m[k] = IF k = 0 THEN calls ELSE One(m[k - 1], k)
  <2>1. \A k \in 0..N : m[k] = Turn(m)[k]
    BY <1>6
  <2> QED
    BY <2>1
<1>8. OpenRouter!Merged(calls, fragments, at) = m
  BY DEF OpenRouter!Merged, m, N, One
<1>9. m[0] = calls /\ \A k \in 1..N : m[k] = One(m[k - 1], k)
  BY <1>1, <1>7
<1> QED
  BY <1>8, <1>9 DEF N, One

(* The places of the fragments of the choice at the position k.            *)
Row(k, n) == {<<k, j>> : j \in 1..n}

(* A choice whose fragments are all of calls that are there, or next, adds *)
(* what they carry to what the calls tell.                                 *)
LEMMA MergingTells ==
  ASSUME NEW calls \in CallSeqs, NEW s, NEW P, Tells(calls, s, P), NEW at \in Nat,
         NEW fragments \in Seq(OpenRouter!Fragments), s[at].fragments = fragments,
         \A p \in P, k \in Nat : Before(p, <<at, k>>),
         OpenRouter!Mergeable(calls, fragments, at)
  PROVE  LET after == OpenRouter!Merged(calls, fragments, at)[Len(fragments)]
         IN  /\ after \in CallSeqs
             /\ Tells(after, s, P \cup Row(at, Len(fragments)))
<1> DEFINE N == Len(fragments)
           m == OpenRouter!Merged(calls, fragments, at)
           upTo(k) == P \cup Row(at, k)
           S == {k \in 0..N : m[k] \in CallSeqs /\ Tells(m[k], s, upTo(k))}
<1>1. N \in Nat
  BY LenProperties
<1>2. /\ m[0] = calls
      /\ \A k \in 1..N : m[k] = OpenRouter!MergeOne(m[k - 1], fragments[k], <<at, k>>)
  BY MergingRuns
<1>3. \A k \in 1..N : OpenRouter!InOrder(m[k - 1], fragments[k].index)
  BY DEF OpenRouter!Mergeable
<1>4. \A k \in 1..N : fragments[k] \in OpenRouter!Fragments
  BY ElementOfSeq
<1> HIDE DEF N, m
<1>5. 0 \in S
  <2>1. upTo(0) = P
    BY DEF Row
  <2> HIDE DEF upTo
  <2> QED
    BY <1>1, <1>2, <2>1
<1>6. ASSUME NEW k \in 0..N-1, k \in S PROVE k + 1 \in S
  <2>1. /\ k + 1 \in 1..N /\ k \in 0..N /\ k + 1 \in 0..N /\ (k + 1) - 1 = k
        /\ k \in Nat /\ k + 1 \in Nat
    BY <1>1
  <2>2. m[k] \in CallSeqs /\ Tells(m[k], s, upTo(k))
    BY <1>6
  <2> DEFINE w == <<at, k + 1>>
             f == fragments[k + 1]
  <2>3. w \in Nat \X Nat /\ \A p \in upTo(k) : Before(p, w)
    <3>1. \A j \in 1..k : Before(<<at, j>>, w)
      BY <2>1 DEF Before
    <3>2. \A p \in P : Before(p, w)
      BY <2>1
    <3> QED
      BY <2>1, <3>1, <3>2 DEF Row
  <2>4. OpenRouter!At(s, w) = f
    BY DEF OpenRouter!At
  <2>5. upTo(k + 1) = upTo(k) \cup {w}
    <3>1. 1..(k + 1) = 1..k \cup {k + 1}
      BY <2>1
    <3> QED
      BY <3>1 DEF Row
  <2>6. /\ m[k + 1] = OpenRouter!MergeOne(m[k], f, w)
        /\ OpenRouter!InOrder(m[k], f.index) /\ f \in OpenRouter!Fragments
    BY <1>2, <1>3, <1>4, <2>1
  <2> HIDE DEF upTo, w, f
  <2>7. m[k + 1] \in CallSeqs /\ Tells(m[k + 1], s, upTo(k) \cup {w})
    BY <2>2, <2>3, <2>4, <2>6, OneFragment
  <2> QED
    BY <2>1, <2>5, <2>7
<1> HIDE DEF S
<1>7. \A k \in 0..N : k \in S
  BY <1>1, <1>5, <1>6, UpTo
<1>8. N \in S
  BY <1>1, <1>7
<1> QED
  BY <1>8 DEF S, N, m

-----------------------------------------------------------------------------
(* OpenRouter's reader.                                                    *)

(* What an event that is read adds to what was sent.                       *)
OpenRouterReads(event, n) ==
  /\ n \in Nat /\ Len(stream) = n
  /\ stream' \in Seq(OpenRouter!Events) /\ Len(stream') = n + 1 /\ stream'[n + 1] = event
  /\ \A k \in 1..n : stream'[k] = stream[k]
  /\ 1..Len(stream') = 1..n \cup {n + 1}
  /\ OpenRouter!Sent \subseteq 1..n
  /\ OpenRouter!Sent' = OpenRouter!Sent \cup {k \in {n + 1} : event.kind = "choice"}

LEMMA OpenRouterRead ==
  ASSUME OpenRouter!StreamInv, NEW event \in OpenRouter!Events, OpenRouter!Read(event)
  PROVE  OpenRouterReads(event, Len(stream))
<1> DEFINE n == Len(stream)
<1>1. stream \in Seq(OpenRouter!Events) /\ stream' = Append(stream, event)
  BY DEF OpenRouter!StreamInv, OpenRouter!Read
<1>2. /\ stream' \in Seq(OpenRouter!Events) /\ n \in Nat /\ Len(stream') = n + 1
      /\ stream'[n + 1] = event /\ \A k \in 1..n : stream'[k] = stream[k]
      /\ 1..Len(stream') = 1..n \cup {n + 1}
  BY <1>1, OneMore
<1>3. /\ OpenRouter!Sent \subseteq 1..n
      /\ OpenRouter!Sent' = OpenRouter!Sent \cup {k \in {n + 1} : event.kind = "choice"}
  BY <1>2 DEF OpenRouter!Sent
<1> QED
  BY <1>2, <1>3 DEF OpenRouterReads

(* Places that were sent before are as they were.                          *)
LEMMA TellsStill ==
  ASSUME OpenRouter!StreamInv, NEW event, OpenRouterReads(event, Len(stream)),
         NEW calls, Tells(calls, stream, OpenRouter!Places)
  PROVE  Tells(calls, stream', OpenRouter!Places)
<1> DEFINE P == OpenRouter!Places
<1>1. \A p \in P : p[1] \in 1..Len(stream)
  BY DEF OpenRouter!Places, OpenRouterReads
<1>2. \A p \in P : OpenRouter!At(stream', p) = OpenRouter!At(stream, p)
  BY <1>1 DEF OpenRouter!At, OpenRouterReads
<1> HIDE DEF P
<1>3. OpenRouter!CallsOf(stream', P) = OpenRouter!CallsOf(stream, P)
  BY <1>2 DEF OpenRouter!CallsOf
<1>4. ASSUME NEW i
      PROVE  /\ {p \in P : OpenRouter!At(stream', p).index = i}
                  = {p \in P : OpenRouter!At(stream, p).index = i}
             /\ \A Q \in SUBSET P :
                  /\ {p \in Q : OpenRouter!At(stream', p).args}
                       = {p \in Q : OpenRouter!At(stream, p).args}
                  /\ {p \in Q : OpenRouter!At(stream', p).named}
                       = {p \in Q : OpenRouter!At(stream, p).named}
  BY <1>2
<1> DEFINE mine(s, i) == {p \in P : OpenRouter!At(s, p).index = i - 1}
<1>5. ASSUME NEW i
      PROVE  /\ {p \in mine(stream', i) : OpenRouter!At(stream', p).args}
                  = {p \in mine(stream, i) : OpenRouter!At(stream, p).args}
             /\ {p \in mine(stream', i) : OpenRouter!At(stream', p).named}
                  = {p \in mine(stream, i) : OpenRouter!At(stream, p).named}
  <2>1. mine(stream', i) = mine(stream, i) /\ mine(stream, i) \in SUBSET P
    BY <1>2
  <2> HIDE DEF mine
  <2> QED
    BY <1>4, <2>1
<1>6. OpenRouter!TellWhatWasSent(calls, stream, P)
  BY DEF Tells, P
<1>7. OpenRouter!TellWhatWasSent(calls, stream', P)
  BY <1>5, <1>6 DEF OpenRouter!TellWhatWasSent
<1> QED
  BY <1>3, <1>7 DEF Tells, P

(* The places of a stream are those of its choices, row by row.            *)
LEMMA PlacesAreRows ==
  ASSUME NEW p
  PROVE  p \in OpenRouter!Places
           <=> \E k \in OpenRouter!Sent : p \in Row(k, Len(stream[k].fragments))
  BY DEF OpenRouter!Places, Row

LEMMA PlacesAreRowsThen ==
  ASSUME NEW p
  PROVE  p \in OpenRouter!Places'
           <=> \E k \in OpenRouter!Sent' : p \in Row(k, Len(stream'[k].fragments))
  BY DEF OpenRouter!Places, Row


(* Nothing is read of a new reply.                                         *)
LEMMA OpenRouterInit == OpenRouter!Init => OpenRouter!StreamInv
<1> SUFFICES ASSUME OpenRouter!Init PROVE OpenRouter!StreamInv
  OBVIOUS
<1> USE DEF OpenRouter!Init
<1>1. Len(stream) = 0 /\ Len(toolCalls) = 0
  BY EmptySeq
<1>2. OpenRouter!Sent = {}
  BY <1>1 DEF OpenRouter!Sent
<1>3. OpenRouter!Texts = {} /\ OpenRouter!Places = {}
  BY <1>2 DEF OpenRouter!Texts, OpenRouter!Places
<1>4. OpenRouter!Lists(content, OpenRouter!Texts)
  BY <1>3, NothingListed, OneListing
<1>5. OpenRouter!TellWhatWasSent(toolCalls, stream, OpenRouter!Places)
  BY <1>1 DEF OpenRouter!TellWhatWasSent
<1>6. OpenRouter!CallsOf(stream, OpenRouter!Places) = 0..Len(toolCalls) - 1
  BY <1>1, <1>3 DEF OpenRouter!CallsOf
<1>7. OpenRouter!IsLastReason(finishReason)
  BY <1>2 DEF OpenRouter!IsLastReason
<1> QED
  BY <1>4, <1>5, <1>6, <1>7, EmptySeq DEF OpenRouter!StreamInv, OpenRouter!NoPartialReply

(* A choice of a chunk is an event, and its fragments a sequence.          *)
LEMMA ChoiceIsEvent ==
  ASSUME NEW c \in OpenRouter!Choices(MaxFragments - OpenRouter!Cardinality(OpenRouter!Places))
  PROVE  /\ c \in OpenRouter!Events /\ c.kind = "choice"
         /\ c.fragments \in Seq(OpenRouter!Fragments)
         /\ c.text \in BOOLEAN /\ c.finish \in BOOLEAN
<1>1. PICK m \in Nat : c.fragments \in [1..m -> OpenRouter!Fragments]
  BY DEF OpenRouter!Choices
<1>2. c.fragments \in Seq(OpenRouter!Fragments)
  BY <1>1, IsSequence
<1> QED
  BY <1>2 DEF OpenRouter!Choices, OpenRouter!Events

(* An event that is not a choice carries nothing of the reply.             *)
LEMMA OtherIsNoChoice ==
  ASSUME OpenRouter!StreamInv, NEW kind \in {"usage", "done", "api error", "bad chunk", "eof"},
         OpenRouter!Read(OpenRouter!Other(kind)),
         UNCHANGED <<content, toolCalls, finishReason, sawChoice>>,
         outcome' \in {"reading", "reply", "error"},
         outcome' = "reply" => kind = "done" /\ sawChoice
  PROVE  OpenRouter!StreamInv'
<1> DEFINE n == Len(stream)
           event == OpenRouter!Other(kind)
<1>1. event \in OpenRouter!Events /\ event.kind = kind /\ kind # "choice"
  BY DEF OpenRouter!Events, OpenRouter!Other
<1>2. OpenRouterReads(event, n) /\ outcome = "reading"
  BY <1>1, OpenRouterRead DEF OpenRouter!Read
<1> HIDE DEF event
<1>3. OpenRouter!Sent' = OpenRouter!Sent /\ OpenRouter!Sent \subseteq 1..n
  BY <1>1, <1>2 DEF OpenRouterReads
<1>4. \A k \in OpenRouter!Sent : stream'[k] = stream[k]
  BY <1>2, <1>3 DEF OpenRouterReads
<1>5. OpenRouter!Texts' = OpenRouter!Texts
  BY <1>3, <1>4 DEF OpenRouter!Texts
<1>6. OpenRouter!Places' = OpenRouter!Places
  BY <1>3, <1>4, PlacesAreRows, PlacesAreRowsThen
<1>7. Tells(toolCalls, stream', OpenRouter!Places)
  BY <1>2, TellsStill DEF OpenRouter!StreamInv, Tells
<1>8. OpenRouter!IsLastReason(finishReason)'
  <2>1. OpenRouter!IsLastReason(finishReason)
    BY <1>2 DEF OpenRouter!StreamInv
  <2>2. {k \in OpenRouter!Sent : stream'[k].finish} = {k \in OpenRouter!Sent : stream[k].finish}
    BY <1>4
  <2> QED
    BY <1>3, <2>1, <2>2 DEF OpenRouter!IsLastReason
<1>9. OpenRouter!NoPartialReply'
  <2>1. sawChoice => OpenRouter!Sent # {}
    BY <1>2 DEF OpenRouter!StreamInv
  <2>2. stream'[Len(stream')].kind = kind
    BY <1>1, <1>2 DEF OpenRouterReads
  <2> QED
    BY <1>3, <2>1, <2>2 DEF OpenRouter!NoPartialReply
<1>10. /\ OpenRouter!Lists(content', OpenRouter!Texts') /\ sawChoice' \in BOOLEAN
       /\ content' \in Seq(Nat) /\ toolCalls' \in Seq(OpenRouter!Calls)
       /\ sawChoice' => OpenRouter!Sent' # {}
  BY <1>2, <1>3, <1>5 DEF OpenRouter!StreamInv
<1>11. stream' \in Seq(OpenRouter!Events)
  BY <1>2 DEF OpenRouterReads
<1>12. /\ OpenRouter!TellWhatWasSent(toolCalls', stream', OpenRouter!Places')
       /\ OpenRouter!CallsOf(stream', OpenRouter!Places') = 0..Len(toolCalls') - 1
  BY <1>6, <1>7 DEF Tells
<1> QED
  BY <1>8, <1>9, <1>10, <1>11, <1>12 DEF OpenRouter!StreamInv

(* A choice that is out of order ends the reply.                           *)
LEMMA ReplyFails ==
  ASSUME OpenRouter!StreamInv, NEW event \in OpenRouter!Events, OpenRouter!Read(event),
         UNCHANGED <<content, toolCalls, finishReason, sawChoice>>, outcome' = "error"
  PROVE  OpenRouter!StreamInv'
<1>1. stream' \in Seq(OpenRouter!Events)
  BY OpenRouterRead DEF OpenRouterReads
<1> QED
  BY <1>1 DEF OpenRouter!StreamInv, OpenRouter!NoPartialReply

(* A choice adds what it carries to the reply.                             *)
LEMMA ChoiceIsTold ==
  ASSUME OpenRouter!StreamInv,
         NEW c \in OpenRouter!Choices(MaxFragments - OpenRouter!Cardinality(OpenRouter!Places)),
         OpenRouter!Choice(c)
  PROVE  OpenRouter!StreamInv'
<1> DEFINE n == Len(stream)
           new == Row(n + 1, Len(c.fragments))
<1>1. /\ c \in OpenRouter!Events /\ c.kind = "choice"
      /\ c.fragments \in Seq(OpenRouter!Fragments)
      /\ c.text \in BOOLEAN /\ c.finish \in BOOLEAN
  BY ChoiceIsEvent
<1>2. /\ OpenRouter!Read(c) /\ sawChoice' = TRUE
      /\ content' = IF c.text THEN Append(content, n + 1) ELSE content
      /\ finishReason' = IF c.finish THEN n + 1 ELSE finishReason
      /\ OpenRouter!Mergeable(toolCalls, c.fragments, n + 1)
      /\ toolCalls' = OpenRouter!Merged(toolCalls, c.fragments, n + 1)[Len(c.fragments)]
      /\ outcome' = outcome /\ outcome = "reading"
  BY DEF OpenRouter!Choice, OpenRouter!Read
<1>3. OpenRouterReads(c, n)
  BY <1>1, <1>2, OpenRouterRead
<1>4. /\ stream \in Seq(OpenRouter!Events) /\ content \in Seq(Nat)
      /\ toolCalls \in CallSeqs
      /\ Lists(content, OpenRouter!Texts) /\ Tells(toolCalls, stream, OpenRouter!Places)
      /\ OpenRouter!IsLastReason(finishReason)
  BY <1>2, OneListing DEF OpenRouter!StreamInv, Tells, CallSeqs
<1>5. /\ n \in Nat /\ n + 1 \in Nat /\ stream'[n + 1] = c /\ OpenRouter!Sent \subseteq 1..n
      /\ OpenRouter!Sent' = OpenRouter!Sent \cup {n + 1}
      /\ \A k \in OpenRouter!Sent : stream'[k] = stream[k]
  <2>1. n \in Nat /\ stream'[n + 1] = c /\ OpenRouter!Sent \subseteq 1..n
        /\ \A k \in 1..n : stream'[k] = stream[k]
    BY <1>3 DEF OpenRouterReads
  <2>2. OpenRouter!Sent' = OpenRouter!Sent \cup {n + 1}
    BY <1>1, <1>3 DEF OpenRouterReads
  <2> HIDE DEF n
  <2>3. n + 1 \in Nat
    BY <2>1
  <2>4. \A k \in OpenRouter!Sent : stream'[k] = stream[k]
    BY <2>1
  <2> QED
    BY <2>1, <2>2, <2>3, <2>4, Zenon
<1>6. Tells(toolCalls, stream', OpenRouter!Places)
  BY <1>3, <1>4, TellsStill
<1> HIDE DEF n
<1>7. content' \in Seq(Nat) /\ Lists(content', OpenRouter!Texts')
  <2>1. \A k \in OpenRouter!Texts : k < n + 1
    BY <1>5 DEF OpenRouter!Texts
  <2>2. OpenRouter!Texts' = IF c.text THEN OpenRouter!Texts \cup {n + 1} ELSE OpenRouter!Texts
    BY <1>1, <1>5 DEF OpenRouter!Texts
  <2>3. CASE c.text
    <3>1. content' = Append(content, n + 1)
      BY <1>2, <2>3
    <3> QED
      BY <1>4, <1>5, <2>1, <2>2, <2>3, <3>1, ListsAppend
  <2>4. CASE ~c.text
    BY <1>2, <1>4, <2>2, <2>4
  <2> QED
    BY <2>3, <2>4
<1>8. OpenRouter!Places' = OpenRouter!Places \cup new
  <2>1. ASSUME NEW p PROVE p \in OpenRouter!Places' <=> p \in OpenRouter!Places \cup new
    BY <1>5, PlacesAreRows, PlacesAreRowsThen
  <2> QED
    BY <2>1
<1>9. toolCalls' \in CallSeqs /\ Tells(toolCalls', stream', OpenRouter!Places')
  <2>1. \A p \in OpenRouter!Places, k \in Nat : Before(p, <<n + 1, k>>)
    BY <1>5 DEF OpenRouter!Places, Before
  <2>2. stream'[n + 1].fragments = c.fragments
    BY <1>5
  <2> DEFINE P == OpenRouter!Places
             after == OpenRouter!Merged(toolCalls, c.fragments, n + 1)[Len(c.fragments)]
  <2> HIDE DEF P
  <2>3. after \in CallSeqs /\ Tells(after, stream', P \cup new)
    <3>1. Tells(toolCalls, stream', P) /\ \A p \in P, k \in Nat : Before(p, <<n + 1, k>>)
      BY <1>6, <2>1 DEF P
    <3>2. OpenRouter!Mergeable(toolCalls, c.fragments, n + 1)
      BY <1>2
    <3> QED
      BY <1>1, <1>4, <1>5, <2>2, <3>1, <3>2, MergingTells
  <2> QED
    BY <1>2, <1>8, <2>3 DEF P
<1>10. OpenRouter!IsLastReason(finishReason)'
  <2> DEFINE F == {k \in OpenRouter!Sent : stream[k].finish}
  <2>1. finishReason \in F \cup {0} /\ \A k \in F : k <= finishReason
    BY <1>4 DEF OpenRouter!IsLastReason
  <2>2. {k \in OpenRouter!Sent' : stream'[k].finish} = IF c.finish THEN F \cup {n + 1} ELSE F
    BY <1>1, <1>5
  <2>3. F \subseteq 1..n
    BY <1>5
  <2> DEFINE G == {k \in OpenRouter!Sent' : stream'[k].finish}
  <2> HIDE DEF F, G
  <2>4. finishReason' \in G \cup {0} /\ \A k \in G : k <= finishReason'
    <3>1. G = IF c.finish THEN F \cup {n + 1} ELSE F
      BY <2>2 DEF G
    <3>2. CASE c.finish
      <4>1. G = F \cup {n + 1} /\ finishReason' = n + 1
        BY <1>2, <3>1, <3>2
      <4>2. \A k \in F : k <= n + 1
        BY <1>5, <2>3
      <4> QED
        BY <1>5, <4>1, <4>2
    <3>3. CASE ~c.finish
      BY <1>2, <2>1, <3>1, <3>3
    <3> QED
      BY <3>2, <3>3
  <2> QED
    BY <2>4 DEF OpenRouter!IsLastReason, G
<1>11. OpenRouter!Lists(content', OpenRouter!Texts')
  BY <1>7, OneListing
<1>12. OpenRouter!NoPartialReply'
  BY <1>2 DEF OpenRouter!NoPartialReply
<1>13. stream' \in Seq(OpenRouter!Events)
  BY <1>3 DEF OpenRouterReads
<1>14. sawChoice' \in BOOLEAN /\ outcome' = "reading" /\ OpenRouter!Sent' # {}
  BY <1>2, <1>5
<1> QED
  BY <1>7, <1>9, <1>10, <1>11, <1>12, <1>13, <1>14
  DEF OpenRouter!StreamInv, Tells, CallSeqs

(* Every step of the reader keeps the reply told.                          *)
LEMMA OpenRouterSteps == OpenRouter!StreamInv /\ OpenRouter!Next => OpenRouter!StreamInv'
<1> SUFFICES ASSUME OpenRouter!StreamInv, OpenRouter!Next PROVE OpenRouter!StreamInv'
  OBVIOUS
<1> DEFINE C == OpenRouter!Choices(MaxFragments - OpenRouter!Cardinality(OpenRouter!Places))
<1>1. ASSUME NEW c \in C, OpenRouter!Choice(c) PROVE OpenRouter!StreamInv'
  BY <1>1, ChoiceIsTold
<1>2. ASSUME NEW c \in C, OpenRouter!OutOfOrder(c) PROVE OpenRouter!StreamInv'
  BY <1>2, ChoiceIsEvent, ReplyFails DEF OpenRouter!OutOfOrder
<1>3. CASE OpenRouter!Usage
  BY <1>3, OtherIsNoChoice DEF OpenRouter!Usage, OpenRouter!Read
<1>4. CASE OpenRouter!Done
  BY <1>4, OtherIsNoChoice DEF OpenRouter!Done
<1>5. CASE OpenRouter!StreamFails
  BY <1>5, OtherIsNoChoice DEF OpenRouter!StreamFails
<1> QED
  BY <1>1, <1>2, <1>3, <1>4, <1>5 DEF OpenRouter!Next

-----------------------------------------------------------------------------
(* Every reply that is read.                                               *)

(* The invariant of the reader at hand is there from the start and stays,  *)
(* for streams of any length and whatever a server sends.                  *)
THEOREM RepliesInvariance == ProvidersSpec => []RepliesInv
<1>1. ProvidersInit => RepliesInv
  BY AnthropicInit, OpenRouterInit, OllamaInit, EventsInit DEF ProvidersInit, RepliesInv
<1>2. RepliesInv /\ [ProvidersNext]_providerVars => RepliesInv'
  <2> SUFFICES ASSUME RepliesInv, [ProvidersNext]_providerVars PROVE RepliesInv'
    OBVIOUS
  <2>1. CASE provider = "anthropic" /\ Anthropic!Next /\ UNCHANGED provider
    BY <2>1, AnthropicSteps DEF RepliesInv
  <2>2. CASE provider = "openrouter" /\ OpenRouter!Next /\ UNCHANGED provider
    BY <2>2, OpenRouterSteps DEF RepliesInv
  <2>3. CASE provider = "ollama" /\ Ollama!Next /\ UNCHANGED provider
    BY <2>3, OllamaSteps DEF RepliesInv
  <2>4. CASE provider = "events" /\ Events!Next /\ UNCHANGED provider
    BY <2>4, EventsSteps DEF RepliesInv
  <2>5. CASE provider = "none" /\ UNCHANGED provider
    BY <2>5 DEF RepliesInv
  <2>6. CASE UNCHANGED providerVars
    <3>1. UNCHANGED <<provider, stream, content, toolCalls, outcome, parts, stopReason,
                      finishReason, usage, sawChoice>>
      BY <2>6 DEF providerVars, common, ofAnthropic, ofOpenRouter
    <3>2. Anthropic!StreamInv' = Anthropic!StreamInv
      BY <3>1 DEF Anthropic!StreamInv, Anthropic!BlocksInv, Anthropic!BlocksInOrder,
                  Anthropic!NoPartialReply, Anthropic!Sent, Anthropic!Started
    <3>3. OpenRouter!StreamInv' = OpenRouter!StreamInv
      BY <3>1 DEF OpenRouter!StreamInv, OpenRouter!Texts, OpenRouter!Places, OpenRouter!Sent,
                  OpenRouter!IsLastReason, OpenRouter!NoPartialReply
    <3>4. Ollama!StreamInv' = Ollama!StreamInv
      BY <3>1 DEF Ollama!StreamInv, Ollama!Texts, Ollama!Calls, Ollama!NoPartialReply
    <3>5. Events!EventsInv' = Events!EventsInv
      BY <3>1 DEF Events!EventsInv, Events!EventsAreWhole
    <3> QED
      BY <3>1, <3>2, <3>3, <3>4, <3>5 DEF RepliesInv
  <2> QED
    BY <2>1, <2>2, <2>3, <2>4, <2>5, <2>6 DEF ProvidersNext
<1> QED
  BY <1>1, <1>2, PTL DEF ProvidersSpec

(* A reply is the whole of what the server streamed or it is an error, by  *)
(* every provider and for every stream.                                    *)
THEOREM RepliesWhole == ProvidersSpec => []RepliesAreWhole
<1>1. RepliesInv => RepliesAreWhole
  <2> SUFFICES ASSUME RepliesInv PROVE RepliesAreWhole
    OBVIOUS
  <2>1. CASE provider = "anthropic"
    BY <2>1, AnthropicWhole DEF RepliesInv, RepliesAreWhole, Anthropic!StreamInv
  <2>2. CASE provider = "openrouter"
    <3>1. OpenRouter!ReplyIsWhole /\ OpenRouter!NoPhantomCall /\ OpenRouter!LastReasonWins
          /\ OpenRouter!NoPartialReply
      BY <2>2 DEF RepliesInv, OpenRouter!StreamInv, OpenRouter!ReplyIsWhole,
                  OpenRouter!NoPhantomCall, OpenRouter!LastReasonWins
    <3> QED
      BY <2>2, <3>1 DEF RepliesAreWhole
  <2>3. CASE provider = "ollama"
    BY <2>3 DEF RepliesInv, RepliesAreWhole, Ollama!StreamInv, Ollama!ReplyIsWhole
  <2>4. CASE provider = "events"
    BY <2>4 DEF RepliesInv, RepliesAreWhole, Events!EventsInv
  <2> QED
    BY <2>1, <2>2, <2>3, <2>4 DEF RepliesAreWhole
<1> QED
  BY <1>1, RepliesInvariance, PTL

-----------------------------------------------------------------------------
(* Sequences of sequences, joined.                                         *)

(* A set that holds the empty sequence, and with each sequence every one   *)
(* that is longer by one, holds them all.                                  *)
LEMMA SeqInduction ==
  ASSUME NEW X, NEW P, <<>> \in P,
         \A s \in Seq(X), x \in X : s \in P => Append(s, x) \in P
  PROVE  \A s \in Seq(X) : s \in P
<1> SUFFICES ASSUME NEW t \in Seq(X) PROVE t \in P
  OBVIOUS
<1> DEFINE N == Len(t)
           S == {n \in 0..N : \A s \in Seq(X) : Len(s) = n => s \in P}
<1>1. N \in Nat
  BY LenProperties
<1>2. 0 \in S
  <2>1. \A s \in Seq(X) : Len(s) = 0 => s = <<>>
    BY EmptySeq
  <2> QED
    BY <1>1, <2>1
<1>3. ASSUME NEW n \in 0..N-1, n \in S PROVE n + 1 \in S
  <2>1. ASSUME NEW s \in Seq(X), Len(s) = n + 1 PROVE s \in P
    <3>1. s # <<>>
      BY <1>1, <2>1, EmptySeq
    <3>2. PICK r \in Seq(X), x \in X : s = Append(r, x)
      BY <3>1, SequenceEmptyOrAppend
    <3>3. Len(r) \in Nat /\ Len(s) = Len(r) + 1
      BY <3>2, LenProperties, AppendProperties
    <3>4. Len(r) = n
      BY <1>1, <2>1, <3>3
    <3> QED
      BY <1>3, <3>2, <3>4
  <2> QED
    BY <1>1, <2>1
<1> HIDE DEF N, S
<1>4. \A n \in 0..N : n \in S
  BY <1>1, <1>2, <1>3, UpTo
<1>5. N \in S
  BY <1>1, <1>4
<1> QED
  BY <1>5 DEF S, N

(* The results of a loop depend on no turn that comes after.               *)
SameTurns(N, D, step, more) == \A k \in 1..N, d \in D : more[<<k, d>>] = step[<<k, d>>]

LEMMA LoopsAgree ==
  ASSUME NEW N \in Nat, NEW M \in Nat, N <= M, NEW D, NEW base, NEW step, NEW f, NEW g, NEW more,
         LoopOf(f, N, D, base, step), LoopOf(g, M, D, base, more),
         SameTurns(N, D, step, more)
  PROVE  \A k \in 0..N : g[k] = f[k]
<1> DEFINE S == {k \in 0..N : g[k] = f[k]}
<1> USE DEF LoopOf, SameTurns
<1>1. 0 \in S
  OBVIOUS
<1>2. ASSUME NEW k \in 0..N-1, k \in S PROVE k + 1 \in S
  <2>1. k + 1 \in 1..N /\ k + 1 \in 1..M /\ (k + 1) - 1 = k /\ k \in 0..N /\ k + 1 \in 0..N
    OBVIOUS
  <2>2. g[k] = f[k] /\ f[k] \in D
    BY <1>2, <2>1
  <2>3. g[k + 1] = more[<<k + 1, g[k]>>] /\ f[k + 1] = step[<<k + 1, f[k]>>]
    BY <2>1
  <2> QED
    BY <2>1, <2>2, <2>3
<1> HIDE DEF S
<1>3. \A k \in 0..N : k \in S
  BY <1>1, <1>2, UpTo
<1> QED
  BY <1>3 DEF S

(* The joining as a loop.                                                  *)
Joins(ss, X) == [x \in (1..Len(ss)) \X Seq(X) |-> x[2] \o ss[x[1]]]

LEMMA JoiningRuns ==
  ASSUME NEW X, NEW ss \in Seq(Seq(X))
  PROVE  \E f : /\ LoopOf(f, Len(ss), Seq(X), <<>>, Joins(ss, X))
                /\ Messages!FlattenSeq(ss) = f[Len(ss)]
<1> DEFINE N == Len(ss)
           Turn(f) == [k \in 1..N |-> IF k = 1 THEN ss[k] ELSE f[k - 1] \o ss[k]]
           m == CHOOSE f : f = Turn(f)
<1>1. N \in Nat /\ <<>> \in Seq(X)
  BY LenProperties, EmptySeq
<1>2. \A k \in 1..N : ss[k] \in Seq(X)
  BY ElementOfSeq
<1>3. Joins(ss, X) \in [(1..N) \X Seq(X) -> Seq(X)]
  BY <1>2, ConcatProperties DEF Joins
<1>4. PICK f : LoopOf(f, N, Seq(X), <<>>, Joins(ss, X))
  BY <1>1, <1>3, LoopExists
<1>5. Messages!FlattenSeq(ss) = IF N = 0 THEN ss ELSE m[N]
  BY DEF Messages!FlattenSeq
<1> HIDE DEF N
<1>6. \A k \in 1..N : f[k - 1] \in Seq(X) /\ f[k] = f[k - 1] \o ss[k]
  <2> SUFFICES ASSUME NEW k \in 1..N PROVE f[k - 1] \in Seq(X) /\ f[k] = f[k - 1] \o ss[k]
    OBVIOUS
  <2>1. k - 1 \in 0..N /\ f[k - 1] \in Seq(X)
    BY <1>1, <1>4 DEF LoopOf
  <2>2. Joins(ss, X)[<<k, f[k - 1]>>] = f[k - 1] \o ss[k]
    BY <2>1 DEF Joins, N
  <2> QED
    BY <1>4, <2>1, <2>2 DEF LoopOf
<1> DEFINE g == [k \in 1..N |-> f[k]]
<1>7. g = Turn(g)
  <2>1. ASSUME NEW k \in 1..N PROVE g[k] = Turn(g)[k]
    <3>1. CASE k = 1
      <4>1. f[k - 1] = <<>>
        BY <1>4, <3>1 DEF LoopOf
      <4>2. f[k] = ss[k]
        BY <1>2, <1>6, <4>1, ConcatEmptySeq
      <4> QED
        BY <3>1, <4>2
    <3>2. CASE k # 1
      <4>1. k - 1 \in 1..N
        BY <1>1, <3>2
      <4> QED
        BY <1>6, <3>2, <4>1
    <3> QED
      BY <3>1, <3>2
  <2> QED
    BY <2>1
<1>8. m = Turn(m)
  BY <1>7
<1> HIDE DEF m, g
<1>9. \A k \in 1..N : m[k] = IF k = 1 THEN ss[k] ELSE m[k - 1] \o ss[k]
  BY <1>8
<1>10. \A k \in 1..N : g[k] = IF k = 1 THEN ss[k] ELSE g[k - 1] \o ss[k]
  BY <1>7
<1> DEFINE S == {k \in 0..N : k = 0 \/ m[k] = g[k]}
<1>11. ASSUME NEW k \in 0..N-1, k \in S PROVE k + 1 \in S
  <2>1. k + 1 \in 1..N /\ (k + 1) - 1 = k /\ k + 1 \in 0..N
    BY <1>1
  <2>2. CASE k = 0
    BY <1>9, <1>10, <2>1, <2>2
  <2>3. CASE k # 0
    <3>1. m[k] = g[k] /\ k + 1 # 1
      BY <1>11, <2>3
    <3> QED
      BY <1>9, <1>10, <2>1, <3>1
  <2> QED
    BY <2>2, <2>3
<1>12. 0 \in S
  BY <1>1
<1> HIDE DEF S
<1>13. \A k \in 0..N : k \in S
  BY <1>1, <1>11, <1>12, UpTo
<1>14. Messages!FlattenSeq(ss) = f[N]
  <2>1. CASE N = 0
    <3>1. ss = <<>>
      BY <2>1, EmptySeq DEF N
    <3> QED
      BY <1>4, <1>5, <2>1, <3>1 DEF LoopOf
  <2>2. CASE N # 0
    <3>1. N \in 0..N /\ N \in 1..N
      BY <1>1, <2>2
    <3>2. m[N] = g[N]
      BY <1>13, <2>2, <3>1 DEF S
    <3> QED
      BY <1>5, <2>2, <3>1, <3>2 DEF g
  <2> QED
    BY <2>1, <2>2
<1> QED
  BY <1>4, <1>14 DEF N

LEMMA FlattenType ==
  ASSUME NEW X, NEW ss \in Seq(Seq(X)) PROVE Messages!FlattenSeq(ss) \in Seq(X)
<1> DEFINE N == Len(ss)
<1>1. PICK f : LoopOf(f, N, Seq(X), <<>>, Joins(ss, X)) /\ Messages!FlattenSeq(ss) = f[N]
  BY JoiningRuns
<1>2. N \in Nat
  BY LenProperties
<1> HIDE DEF N
<1>3. N \in 0..N /\ f \in [0..N -> Seq(X)]
  BY <1>1, <1>2 DEF LoopOf
<1> QED
  BY <1>1, <1>3

(* One more sequence is joined behind the others.                          *)
LEMMA FlattenAppend ==
  ASSUME NEW X, NEW ss \in Seq(Seq(X)), NEW t \in Seq(X)
  PROVE  /\ Messages!FlattenSeq(ss) \in Seq(X)
         /\ Messages!FlattenSeq(Append(ss, t)) = Messages!FlattenSeq(ss) \o t
         /\ Messages!FlattenSeq(<<>>) = <<>>
<1> DEFINE N == Len(ss)
           tt == Append(ss, t)
<1>1. PICK f : LoopOf(f, N, Seq(X), <<>>, Joins(ss, X)) /\ Messages!FlattenSeq(ss) = f[N]
  BY JoiningRuns
<1>2. /\ N \in Nat /\ tt \in Seq(Seq(X)) /\ Len(tt) = N + 1 /\ tt[N + 1] = t
      /\ \A k \in 1..N : tt[k] = ss[k]
  BY OneMore
<1>3. PICK g : /\ LoopOf(g, N + 1, Seq(X), <<>>, Joins(tt, X))
               /\ Messages!FlattenSeq(tt) = g[N + 1]
  <2> HIDE DEF tt
  <2> QED
    BY <1>2, JoiningRuns
<1> HIDE DEF tt
<1>4. SameTurns(N, Seq(X), Joins(ss, X), Joins(tt, X))
  <2> SUFFICES ASSUME NEW k \in 1..N, NEW s \in Seq(X)
               PROVE  Joins(tt, X)[<<k, s>>] = Joins(ss, X)[<<k, s>>]
    BY DEF SameTurns
  <2>1. k \in 1..Len(ss) /\ k \in 1..Len(tt) /\ tt[k] = ss[k]
    BY <1>2
  <2> QED
    BY <2>1 DEF Joins
<1>5. \A k \in 0..N : g[k] = f[k]
  <2>1. N + 1 \in Nat /\ N <= N + 1
    BY <1>2
  <2> HIDE DEF N
  <2>2. N \in Nat
    BY <1>2
  <2> QED
    BY <1>1, <1>3, <1>4, <2>1, <2>2, LoopsAgree
<1>6. f[N] \in Seq(X)
  <2>1. N \in 0..N /\ f \in [0..N -> Seq(X)]
    BY <1>1, <1>2 DEF LoopOf
  <2> HIDE DEF N
  <2> QED
    BY <2>1
<1>7. g[N + 1] = f[N] \o t
  <2>1. N + 1 \in 1..N+1 /\ (N + 1) - 1 = N /\ N \in 0..N
    BY <1>2
  <2>2. g[N + 1] = Joins(tt, X)[<<N + 1, g[N]>>]
    BY <1>3, <2>1 DEF LoopOf
  <2>3. Joins(tt, X)[<<N + 1, f[N]>>] = f[N] \o tt[N + 1]
    BY <1>2, <1>6, <2>1 DEF Joins
  <2> QED
    BY <1>2, <1>5, <2>1, <2>2, <2>3
<1>8. Messages!FlattenSeq(<<>>) = <<>>
  BY EmptySeq DEF Messages!FlattenSeq
<1> QED
  BY <1>1, <1>3, <1>6, <1>7, <1>8 DEF tt


-----------------------------------------------------------------------------
(* What is gathered of the blocks of a message, one by one.                *)

Gathered(f, s) == Messages!FlattenSeq([i \in 1..Len(s) |-> f[s[i]]])

LEMMA GatherNothing ==
  ASSUME NEW f PROVE Gathered(f, <<>>) = <<>>
<1>1. [i \in 1..Len(<<>>) |-> f[<<>>[i]]] = <<>>
  BY EmptySeq
<1>2. Messages!FlattenSeq(<<>>) = <<>>
  BY EmptySeq DEF Messages!FlattenSeq
<1> QED
  BY <1>1, <1>2 DEF Gathered

LEMMA GatherType ==
  ASSUME NEW X, NEW Y, NEW f \in [X -> Seq(Y)], NEW s \in Seq(X)
  PROVE  /\ Gathered(f, s) \in Seq(Y)
         /\ [i \in 1..Len(s) |-> f[s[i]]] \in Seq(Seq(Y))
         /\ Len([i \in 1..Len(s) |-> f[s[i]]]) = Len(s)
<1> DEFINE N == Len(s)
           fs == [i \in 1..N |-> f[s[i]]]
<1>1. N \in Nat /\ \A i \in 1..N : s[i] \in X
  BY LenProperties, ElementOfSeq
<1>2. fs \in [1..N -> Seq(Y)]
  BY <1>1
<1>3. Gathered(f, s) = Messages!FlattenSeq(fs)
  BY DEF Gathered
<1> HIDE DEF fs
<1>4. fs \in Seq(Seq(Y)) /\ Len(fs) = N
  BY <1>1, <1>2, IsSequence
<1> QED
  BY <1>3, <1>4, FlattenType DEF fs

(* One more block gives what it holds to what is gathered.                 *)
LEMMA GatherAppend ==
  ASSUME NEW X, NEW Y, NEW f \in [X -> Seq(Y)], NEW s \in Seq(X), NEW x \in X
  PROVE  Gathered(f, Append(s, x)) = Gathered(f, s) \o f[x]
<1> DEFINE N == Len(s)
           t == Append(s, x)
           fs == [i \in 1..N |-> f[s[i]]]
           ft == [i \in 1..Len(t) |-> f[t[i]]]
<1>1. /\ t \in Seq(X) /\ N \in Nat /\ Len(t) = N + 1 /\ t[N + 1] = x
      /\ \A i \in 1..N : t[i] = s[i]
  BY OneMore
<1>2. \A i \in 1..N : s[i] \in X
  BY ElementOfSeq
<1>3. Gathered(f, s) = Messages!FlattenSeq(fs) /\ Gathered(f, t) = Messages!FlattenSeq(ft)
  BY DEF Gathered
<1> HIDE DEF N, t
<1>5. fs \in Seq(Seq(Y)) /\ Len(fs) = N
  BY GatherType DEF N
<1>6. f[x] \in Seq(Y)
  OBVIOUS
<1>7. ft = Append(fs, f[x])
  <2>1. ft \in [1..N + 1 -> Seq(Y)]
    <3>1. \A i \in 1..N + 1 : t[i] \in X
      BY <1>1, ElementOfSeq
    <3> QED
      BY <1>1, <3>1
  <2> DEFINE more == Append(fs, f[x])
  <2>2. /\ \A i \in 1..N : ft[i] = f[s[i]] /\ fs[i] = f[s[i]]
        /\ ft[N + 1] = f[x]
    BY <1>1
  <2> HIDE DEF ft, fs
  <2>3. ft \in Seq(Seq(Y)) /\ Len(ft) = N + 1
    BY <1>1, <2>1, IsSequence
  <2>4. /\ more \in Seq(Seq(Y)) /\ Len(more) = N + 1
        /\ \A i \in 1..N : more[i] = fs[i]
        /\ more[N + 1] = f[x]
    BY <1>5, <1>6, AppendProperties
  <2> HIDE DEF more
  <2>5. ASSUME NEW i \in 1..Len(ft) PROVE ft[i] = more[i]
    <3>1. i \in 1..N \/ i = N + 1
      BY <1>1, <2>3
    <3>2. CASE i \in 1..N
      BY <2>2, <2>4, <3>2
    <3>3. CASE i = N + 1
      BY <2>2, <2>4, <3>3
    <3> QED
      BY <3>1, <3>2, <3>3
  <2>6. ft = more
    BY <2>3, <2>4, <2>5, SeqEqual
  <2> QED
    BY <2>6 DEF more
<1> HIDE DEF fs, ft
<1>8. /\ Messages!FlattenSeq(fs) \in Seq(Y)
      /\ Messages!FlattenSeq(Append(fs, f[x])) = Messages!FlattenSeq(fs) \o f[x]
  BY <1>5, <1>6, FlattenAppend
<1> QED
  BY <1>3, <1>7, <1>8 DEF t

(* What is gathered of two messages is gathered of each.                   *)
LEMMA GatherConcat ==
  ASSUME NEW X, NEW Y, NEW f \in [X -> Seq(Y)], NEW s \in Seq(X), NEW t \in Seq(X)
  PROVE  Gathered(f, s \o t) = Gathered(f, s) \o Gathered(f, t)
<1>0. ASSUME NEW r \in Seq(X), NEW x \in X
      PROVE  Gathered(f, Append(r, x)) = Gathered(f, r) \o f[x]
  BY GatherAppend
<1> DEFINE P == {r \in Seq(X) : Gathered(f, s \o r) = Gathered(f, s) \o Gathered(f, r)}
<1>1. <<>> \in P
  <2>1. Gathered(f, <<>>) = <<>> /\ Gathered(f, s) \in Seq(Y)
    BY GatherNothing, GatherType
  <2>2. s \o <<>> = s /\ Gathered(f, s) \o <<>> = Gathered(f, s)
    BY <2>1, ConcatEmptySeq
  <2> QED
    BY <2>1, <2>2, EmptySeq
<1>2. ASSUME NEW r \in Seq(X), NEW x \in X, r \in P PROVE Append(r, x) \in P
  <2>1. /\ Append(r, x) \in Seq(X) /\ s \o r \in Seq(X)
        /\ s \o Append(r, x) = Append(s \o r, x)
    <3>1. Append(r, x) = r \o <<x>> /\ <<x>> \in Seq(X) /\ Append(r, x) \in Seq(X)
      BY AppendIsConcat, AppendProperties
    <3>2. s \o r \in Seq(X) /\ s \o (r \o <<x>>) = (s \o r) \o <<x>>
      BY <3>1, ConcatProperties, ConcatAssociative
    <3>3. Append(s \o r, x) = (s \o r) \o <<x>>
      BY <3>2, AppendIsConcat
    <3> QED
      BY <3>1, <3>2, <3>3
  <2>2. /\ Gathered(f, s \o Append(r, x)) = Gathered(f, s \o r) \o f[x]
        /\ Gathered(f, Append(r, x)) = Gathered(f, r) \o f[x]
    BY <1>0, <2>1
  <2>3. Gathered(f, s \o r) = Gathered(f, s) \o Gathered(f, r)
    BY <1>2
  <2>4. (Gathered(f, s) \o Gathered(f, r)) \o f[x] = Gathered(f, s) \o (Gathered(f, r) \o f[x])
    <3>1. Gathered(f, s) \in Seq(Y) /\ Gathered(f, r) \in Seq(Y) /\ f[x] \in Seq(Y)
      BY GatherType
    <3> DEFINE u == Gathered(f, s)
               v == Gathered(f, r)
               w == f[x]
    <3> HIDE DEF u, v, w
    <3>2. (u \o v) \o w = u \o (v \o w)
      BY <3>1, ConcatAssociative, SMTT(30)
    <3> QED
      BY <3>2, Zenon DEF u, v, w
  <2>5. Gathered(f, s \o Append(r, x)) = Gathered(f, s) \o Gathered(f, Append(r, x))
    BY <2>2, <2>3, <2>4, Zenon
  <2> QED
    BY <2>1, <2>5
<1> HIDE DEF P
<1>3. t \in P
  BY <1>1, <1>2, SeqInduction
<1> QED
  BY <1>3 DEF P


-----------------------------------------------------------------------------
(* The request made of a conversation.                                     *)

Block == Messages!Blocks
Spoken == Messages!Requests
Said == Messages!Messages

(* Blocks that are joined one after the other are joined in any grouping.  *)
LEMMA BlocksRegroup ==
  ASSUME NEW x \in Seq(Block), NEW y \in Seq(Block), NEW z \in Seq(Block)
  PROVE  (x \o y) \o z = x \o (y \o z)
BY ConcatAssociative, SMTT(30)

(* A message joins the one before or starts one of its own.                *)
JoinsLast(r, role, bs, a, n) ==
  /\ n > 0 /\ r[n].role = role /\ Len(a) = n
  /\ \A k \in 1..n : k # n => a[k] = r[k]
  /\ a[n] = [role |-> role, content |-> r[n].content \o bs]
StartsNew(r, role, bs, a, n) ==
  /\ n > 0 => r[n].role # role
  /\ Len(a) = n + 1 /\ \A k \in 1..n : a[k] = r[k]
  /\ a[n + 1] = [role |-> role, content |-> bs]

LEMMA BlocksAppended ==
  ASSUME NEW r \in Seq(Spoken), NEW role \in {"user", "assistant"}, NEW bs \in Seq(Block),
         NEW a, a = Messages!AppendBlocks(r, role, bs)
  PROVE  /\ a \in Seq(Spoken) /\ Len(r) \in Nat
         /\ JoinsLast(r, role, bs, a, Len(r)) \/ StartsNew(r, role, bs, a, Len(r))
<1> DEFINE n == Len(r)
           joins == r # <<>> /\ r[n].role = role
<1>1. n \in Nat /\ (r # <<>> <=> n > 0) /\ \A k \in 1..n : r[k] \in Spoken
  BY EmptySeq, LenProperties, ElementOfSeq
<1>2. a = IF joins THEN [r EXCEPT ![n].content = @ \o bs]
          ELSE Append(r, [role |-> role, content |-> bs])
  BY DEF Messages!AppendBlocks, Messages!Last
<1> HIDE DEF n
<1>3. CASE joins
  <2> DEFINE new == [role |-> role, content |-> r[n].content \o bs]
  <2>1. n \in 1..n /\ r[n] \in Spoken
    BY <1>1, <1>3
  <2>2. r[n].content \o bs \in Seq(Block)
    <3>1. r[n].content \in Seq(Block)
      BY <2>1 DEF Spoken, Messages!Requests, Block
    <3> QED
      BY <3>1, ConcatProperties
  <2>3. new \in Spoken
    BY <2>2 DEF Spoken, Messages!Requests, Block
  <2>4. a = [r EXCEPT ![n] = new]
    <3>1. a = [r EXCEPT ![n] = [r[n] EXCEPT !.content = r[n].content \o bs]]
      BY <1>2, <1>3
    <3>2. [r[n] EXCEPT !.content = r[n].content \o bs] = new
      <4>1. r[n] = [role |-> role, content |-> r[n].content]
        BY <1>3, <2>1 DEF Spoken, Messages!Requests
      <4>2. \A x, b : [[role |-> role, content |-> b] EXCEPT !.content = x]
                        = [role |-> role, content |-> x]
        OBVIOUS
      <4>3. \A q, x, b : q = [role |-> role, content |-> b]
              => [q EXCEPT !.content = x] = [role |-> role, content |-> x]
        BY <4>2
      <4> QED
        BY <4>1, <4>3
    <3> QED
      BY <3>1, <3>2, Zenon
  <2> HIDE DEF new
  <2>5. a \in Seq(Spoken) /\ Len(a) = n
        /\ \A k \in 1..n : a[k] = IF k = n THEN new ELSE r[k]
    BY <2>1, <2>3, <2>4, ExceptSeq DEF n
  <2> QED
    BY <1>1, <1>3, <2>1, <2>5 DEF JoinsLast, new, n
<1>4. CASE ~joins
  <2> DEFINE new == [role |-> role, content |-> bs]
  <2>1. new \in Spoken
    BY DEF Spoken, Messages!Requests, Block
  <2>2. a = Append(r, new)
    BY <1>2, <1>4
  <2> HIDE DEF new
  <2>3. /\ a \in Seq(Spoken) /\ Len(a) = n + 1 /\ a[n + 1] = new
        /\ \A k \in 1..n : a[k] = r[k]
    BY <2>1, <2>2, OneMore DEF n
  <2> QED
    BY <1>1, <1>4, <2>3 DEF StartsNew, new, n
<1> QED
  BY <1>3, <1>4

(* All blocks of a request, in order.                                      *)
ContentF == [q \in Spoken |-> q.content]

LEMMA AllBlocks ==
  ASSUME NEW r \in Seq(Spoken)
  PROVE  /\ Messages!BlocksOf(r) = Gathered(ContentF, r)
         /\ ContentF \in [Spoken -> Seq(Block)]
         /\ Messages!BlocksOf(r) \in Seq(Block)
<1>1. \A i \in 1..Len(r) : r[i] \in Spoken
  BY ElementOfSeq
<1>2. [i \in 1..Len(r) |-> r[i].content] = [i \in 1..Len(r) |-> ContentF[r[i]]]
  BY <1>1 DEF ContentF
<1>3. ContentF \in [Spoken -> Seq(Block)]
  BY DEF ContentF, Spoken, Messages!Requests, Block
<1>4. Messages!BlocksOf(r) = Gathered(ContentF, r)
  BY <1>2 DEF Messages!BlocksOf, Gathered
<1> QED
  BY <1>3, <1>4, GatherType

(* They are those of before, and the ones that are appended.               *)
LEMMA AllBlocksAppended ==
  ASSUME NEW r \in Seq(Spoken), NEW role \in {"user", "assistant"}, NEW bs \in Seq(Block)
  PROVE  Messages!BlocksOf(Messages!AppendBlocks(r, role, bs)) = Messages!BlocksOf(r) \o bs
<1> DEFINE a == Messages!AppendBlocks(r, role, bs)
           n == Len(r)
<1>1. /\ a \in Seq(Spoken) /\ n \in Nat
      /\ JoinsLast(r, role, bs, a, n) \/ StartsNew(r, role, bs, a, n)
  BY BlocksAppended
<1>2. ContentF \in [Spoken -> Seq(Block)]
  BY AllBlocks
<1> HIDE DEF a
<1>3. CASE JoinsLast(r, role, bs, a, n)
  <2>1. r # <<>>
    BY <1>3, EmptySeq DEF JoinsLast
  <2>2. PICK q \in Seq(Spoken), last \in Spoken : r = Append(q, last)
    BY <2>1, SequenceEmptyOrAppend
  <2> DEFINE new == [role |-> role, content |-> last.content \o bs]
             b == Append(q, new)
  <2>3. /\ Len(q) \in Nat /\ n = Len(q) + 1 /\ r[n] = last
        /\ \A k \in 1..Len(q) : r[k] = q[k]
    BY <2>2, OneMore
  <2>4. last.content \in Seq(Block)
    BY DEF Spoken, Messages!Requests, Block
  <2>5. new \in Spoken
    BY <2>4, ConcatProperties DEF Spoken, Messages!Requests, Block
  <2> HIDE DEF new, n
  <2>6. /\ b \in Seq(Spoken) /\ Len(b) = n /\ b[n] = new
        /\ \A k \in 1..Len(q) : b[k] = q[k]
    BY <2>3, <2>5, OneMore
  <2> HIDE DEF b
  <2>7. a[n] = new /\ Len(a) = n /\ \A k \in 1..n : k # n => a[k] = r[k]
    BY <1>3, <2>3 DEF JoinsLast, new
  <2>8. ASSUME NEW k \in 1..n PROVE a[k] = b[k]
    <3>1. CASE k = n
      BY <2>6, <2>7, <3>1
    <3>2. CASE k # n
      <4>1. k \in 1..Len(q)
        BY <2>3, <3>2
      <4> QED
        BY <2>3, <2>6, <2>7, <3>2, <4>1
    <3> QED
      BY <3>1, <3>2
  <2>9. a = b
    BY <1>1, <2>6, <2>7, <2>8, SeqEqual
  <2>10. Gathered(ContentF, b) = Gathered(ContentF, q) \o new.content
    <3>1. ContentF[new] = new.content
      BY <2>5 DEF ContentF
    <3> QED
      BY <1>2, <2>5, <3>1, GatherAppend DEF b
  <2>11. Gathered(ContentF, r) = Gathered(ContentF, q) \o last.content
    <3>1. ContentF[last] = last.content
      BY DEF ContentF
    <3> QED
      BY <1>2, <2>2, <3>1, GatherAppend
  <2>12. Gathered(ContentF, q) \in Seq(Block)
    BY <1>2, GatherType
  <2>13. Gathered(ContentF, q) \o (last.content \o bs)
           = (Gathered(ContentF, q) \o last.content) \o bs
    <3> DEFINE x == Gathered(ContentF, q)
               y == last.content
    <3>1. x \in Seq(Block) /\ y \in Seq(Block)
      BY <2>4, <2>12
    <3> HIDE DEF x, y
    <3>2. (x \o y) \o bs = x \o (y \o bs)
      BY <3>1, BlocksRegroup, Zenon
    <3> QED
      BY <3>2 DEF x, y
  <2>14. new.content = last.content \o bs
    BY DEF new
  <2> QED
    BY <1>1, <2>9, <2>10, <2>11, <2>13, <2>14, AllBlocks DEF a
<1>4. CASE StartsNew(r, role, bs, a, n)
  <2> DEFINE new == [role |-> role, content |-> bs]
             b == Append(r, new)
  <2>1. new \in Spoken
    BY DEF Spoken, Messages!Requests, Block
  <2> HIDE DEF new
  <2>2. /\ b \in Seq(Spoken) /\ Len(b) = n + 1 /\ b[n + 1] = new
        /\ \A k \in 1..n : b[k] = r[k]
    BY <2>1, OneMore
  <2> HIDE DEF b, n
  <2>3. /\ Len(a) = n + 1 /\ a[n + 1] = new /\ \A k \in 1..n : a[k] = r[k]
    BY <1>4 DEF StartsNew, new
  <2>4. a = b
    <3>1. ASSUME NEW k \in 1..Len(a) PROVE a[k] = b[k]
      <4>1. k \in 1..n \/ k = n + 1
        BY <1>1, <2>3
      <4> QED
        BY <2>2, <2>3, <4>1
    <3> QED
      BY <1>1, <2>2, <2>3, <3>1, SeqEqual
  <2>5. Gathered(ContentF, b) = Gathered(ContentF, r) \o bs
    <3>1. ContentF[new] = bs
      BY <2>1 DEF ContentF, new
    <3> QED
      BY <1>2, <2>1, <3>1, GatherAppend DEF b
  <2> QED
    BY <1>1, <2>4, <2>5, AllBlocks DEF a
<1> QED
  BY <1>1, <1>3, <1>4

-----------------------------------------------------------------------------
(* The texts, the calls and the results of blocks.                         *)

Call == Messages!Calls
Shown == {"call", "result"} \X Seq(Nat)

TextF == [b \in Block |-> Messages!TextIn(b)]
CallF == [b \in Block |-> Messages!CallIn(b)]
ShownF == [b \in Block |-> Messages!CallOrResult(b)]

LEMMA OneElement ==
  ASSUME NEW X, NEW x \in X
  PROVE  <<x>> \in Seq(X) /\ Len(<<x>>) = 1 /\ <<x>>[1] = x /\ Append(<<>>, x) = <<x>>
<1>1. <<>> \in Seq(X)
  BY EmptySeq
<1>2. Append(<<>>, x) = <<>> \o <<x>> /\ <<x>> \in Seq(X)
  BY <1>1, AppendIsConcat
<1> QED
  BY <1>2, ConcatEmptySeq

LEMMA Gatherers ==
  /\ TextF \in [Block -> Seq(Seq(Nat))]
  /\ CallF \in [Block -> Seq(Call)]
  /\ ShownF \in [Block -> Seq(Shown)]
<1>1. ASSUME NEW b \in Block
      PROVE  /\ Messages!TextIn(b) \in Seq(Seq(Nat)) /\ Messages!CallIn(b) \in Seq(Call)
             /\ Messages!CallOrResult(b) \in Seq(Shown)
  <2> USE DEF Messages!TextIn, Messages!CallIn, Messages!CallOrResult
  <2>1. CASE b \in [type : {"text", "thinking"}, text : Messages!Texts]
    BY <2>1, EmptySeq DEF Messages!Texts
  <2>2. CASE b \in [type : {"tool_use"}, call : Messages!Calls]
    <3>1. b.call \in Call /\ b.type = "tool_use"
      BY <2>2 DEF Call
    <3>2. b.call.args \in Seq(Nat)
      BY <3>1 DEF Call, Messages!Calls
    <3>3. <<"call", b.call.args>> \in Shown
      BY <3>2 DEF Shown
    <3> QED
      BY <3>1, <3>3, EmptySeq, OneElement
  <2>3. CASE b \in [type : {"tool_result"}, id : Seq(Nat), text : [1..1 -> Seq(Nat)]]
    <3>1. b.type = "tool_result" /\ b.text[1] \in Seq(Nat)
      BY <2>3
    <3>2. <<"result", b.text[1]>> \in Shown
      BY <3>1 DEF Shown
    <3> QED
      BY <3>1, <3>2, EmptySeq, OneElement
  <2> QED
    BY <2>1, <2>2, <2>3 DEF Block, Messages!Blocks, Messages!SaidBlocks
<1> QED
  BY <1>1 DEF TextF, CallF, ShownF

(* What a message holds is gathered of its blocks.                         *)
LEMMA Gatherings ==
  ASSUME NEW bs \in Seq(Block)
  PROVE  /\ Messages!TextsIn(bs) = Gathered(TextF, bs)
         /\ Messages!CallsIn(bs) = Gathered(CallF, bs)
         /\ Messages!CallsAndResults(bs) = Gathered(ShownF, bs)
         /\ Messages!TextsIn(bs) \in Seq(Seq(Nat))
         /\ Messages!CallsIn(bs) \in Seq(Call)
         /\ Messages!CallsAndResults(bs) \in Seq(Shown)
<1>1. \A i \in 1..Len(bs) : bs[i] \in Block
  BY ElementOfSeq
<1>2. /\ [i \in 1..Len(bs) |-> Messages!TextIn(bs[i])] = [i \in 1..Len(bs) |-> TextF[bs[i]]]
      /\ [i \in 1..Len(bs) |-> Messages!CallIn(bs[i])] = [i \in 1..Len(bs) |-> CallF[bs[i]]]
      /\ [i \in 1..Len(bs) |-> Messages!CallOrResult(bs[i])]
           = [i \in 1..Len(bs) |-> ShownF[bs[i]]]
  BY <1>1 DEF TextF, CallF, ShownF
<1>3. /\ Messages!TextsIn(bs) = Gathered(TextF, bs)
      /\ Messages!CallsIn(bs) = Gathered(CallF, bs)
      /\ Messages!CallsAndResults(bs) = Gathered(ShownF, bs)
  BY <1>2 DEF Messages!TextsIn, Messages!CallsIn, Messages!CallsAndResults, Gathered
<1>4. /\ Gathered(TextF, bs) \in Seq(Seq(Nat)) /\ Gathered(CallF, bs) \in Seq(Call)
      /\ Gathered(ShownF, bs) \in Seq(Shown)
  BY Gatherers, GatherType
<1> QED
  BY <1>3, <1>4

(* Two messages in one hold what each of them holds.                       *)
LEMMA BothMessages ==
  ASSUME NEW s \in Seq(Block), NEW t \in Seq(Block)
  PROVE  /\ s \o t \in Seq(Block)
         /\ Messages!TextsIn(s \o t) = Messages!TextsIn(s) \o Messages!TextsIn(t)
         /\ Messages!CallsIn(s \o t) = Messages!CallsIn(s) \o Messages!CallsIn(t)
         /\ Messages!CallsAndResults(s \o t)
              = Messages!CallsAndResults(s) \o Messages!CallsAndResults(t)
<1>1. s \o t \in Seq(Block)
  BY ConcatProperties
<1>2. Gathered(TextF, s \o t) = Gathered(TextF, s) \o Gathered(TextF, t)
  <2>1. TextF \in [Block -> Seq(Seq(Nat))]
    BY Gatherers
  <2> QED
    BY <2>1, GatherConcat
<1>3. Gathered(CallF, s \o t) = Gathered(CallF, s) \o Gathered(CallF, t)
  <2>1. CallF \in [Block -> Seq(Call)]
    BY Gatherers
  <2> QED
    BY <2>1, GatherConcat
<1>4. Gathered(ShownF, s \o t) = Gathered(ShownF, s) \o Gathered(ShownF, t)
  <2>1. ShownF \in [Block -> Seq(Shown)]
    BY Gatherers
  <2> QED
    BY <2>1, GatherConcat
<1> DEFINE u == s \o t
<1> HIDE DEF u
<1>5. /\ Messages!TextsIn(u) = Gathered(TextF, u)
      /\ Messages!CallsIn(u) = Gathered(CallF, u)
      /\ Messages!CallsAndResults(u) = Gathered(ShownF, u)
  BY <1>1, Gatherings DEF u
<1> QED
  BY <1>1, <1>2, <1>3, <1>4, <1>5, Gatherings DEF u

(* So does a message with one block more, or with one block only.          *)
LEMMA BlockAdded ==
  ASSUME NEW s \in Seq(Block), NEW b \in Block
  PROVE  /\ Append(s, b) \in Seq(Block)
         /\ Messages!TextsIn(Append(s, b)) = Messages!TextsIn(s) \o Messages!TextIn(b)
         /\ Messages!CallsIn(Append(s, b)) = Messages!CallsIn(s) \o Messages!CallIn(b)
         /\ Messages!CallsAndResults(Append(s, b))
              = Messages!CallsAndResults(s) \o Messages!CallOrResult(b)
<1>1. Append(s, b) \in Seq(Block)
  BY AppendProperties
<1>2. /\ Gathered(TextF, Append(s, b)) = Gathered(TextF, s) \o TextF[b]
      /\ Gathered(CallF, Append(s, b)) = Gathered(CallF, s) \o CallF[b]
      /\ Gathered(ShownF, Append(s, b)) = Gathered(ShownF, s) \o ShownF[b]
  <2>1. Gathered(TextF, Append(s, b)) = Gathered(TextF, s) \o TextF[b]
    BY Gatherers, GatherAppend, Zenon
  <2>2. Gathered(CallF, Append(s, b)) = Gathered(CallF, s) \o CallF[b]
    BY Gatherers, GatherAppend, Zenon
  <2>3. Gathered(ShownF, Append(s, b)) = Gathered(ShownF, s) \o ShownF[b]
    BY Gatherers, GatherAppend, Zenon
  <2> QED
    BY <2>1, <2>2, <2>3, Zenon
<1>3. /\ TextF[b] = Messages!TextIn(b) /\ CallF[b] = Messages!CallIn(b)
      /\ ShownF[b] = Messages!CallOrResult(b)
  BY DEF TextF, CallF, ShownF
<1> DEFINE u == Append(s, b)
<1> HIDE DEF u
<1>4. /\ Messages!TextsIn(u) = Gathered(TextF, u)
      /\ Messages!CallsIn(u) = Gathered(CallF, u)
      /\ Messages!CallsAndResults(u) = Gathered(ShownF, u)
  BY <1>1, Gatherings DEF u
<1> QED
  BY <1>1, <1>2, <1>3, <1>4, Gatherings DEF u

LEMMA NoBlocks ==
  /\ <<>> \in Seq(Block) /\ Messages!TextsIn(<<>>) = <<>> /\ Messages!CallsIn(<<>>) = <<>>
  /\ Messages!CallsAndResults(<<>>) = <<>>
<1>1. <<>> \in Seq(Block)
  BY EmptySeq
<1>2. /\ Gathered(TextF, <<>>) = <<>> /\ Gathered(CallF, <<>>) = <<>>
      /\ Gathered(ShownF, <<>>) = <<>>
  BY GatherNothing
<1> QED
  BY <1>1, <1>2, Gatherings

LEMMA OneBlock ==
  ASSUME NEW b \in Block
  PROVE  /\ <<b>> \in Seq(Block) /\ Len(<<b>>) = 1 /\ <<b>>[1] = b
         /\ Messages!TextsIn(<<b>>) = Messages!TextIn(b)
         /\ Messages!CallsIn(<<b>>) = Messages!CallIn(b)
         /\ Messages!CallsAndResults(<<b>>) = Messages!CallOrResult(b)
<1>1. Append(<<>>, b) = <<b>> /\ <<b>> \in Seq(Block)
  BY OneElement
<1>2. /\ Messages!TextsIn(Append(<<>>, b)) = <<>> \o Messages!TextIn(b)
      /\ Messages!CallsIn(Append(<<>>, b)) = <<>> \o Messages!CallIn(b)
      /\ Messages!CallsAndResults(Append(<<>>, b)) = <<>> \o Messages!CallOrResult(b)
  BY BlockAdded, NoBlocks
<1>3. /\ TextF[b] \in Seq(Seq(Nat)) /\ CallF[b] \in Seq(Call) /\ ShownF[b] \in Seq(Shown)
  BY Gatherers
<1>4. /\ TextF[b] = Messages!TextIn(b) /\ CallF[b] = Messages!CallIn(b)
      /\ ShownF[b] = Messages!CallOrResult(b)
  BY DEF TextF, CallF, ShownF
<1>5. /\ <<>> \o TextF[b] = TextF[b] /\ <<>> \o CallF[b] = CallF[b]
      /\ <<>> \o ShownF[b] = ShownF[b]
  BY <1>3, ConcatEmptySeq
<1> QED
  BY <1>1, <1>2, <1>4, <1>5, OneElement

-----------------------------------------------------------------------------
(* What a message adds to the request.                                     *)

RoleOf(m) == IF m.role = "assistant" THEN "assistant" ELSE "user"
Adds(m) ==
  CASE m.role = "user" -> <<Messages!TextBlock(m.text)>>
    [] m.role = "assistant" -> Messages!AssistantBlocks(m)
    [] m.role = "tool" -> <<Messages!ResultBlock(m.id, m.text)>>

(* The calls of a reply, as blocks.                                        *)
Uses(calls) == [i \in 1..Len(calls) |-> Messages!UseBlock(calls[i])]

LEMMA CallUsed ==
  ASSUME NEW call \in Call
  PROVE  /\ Messages!UseBlock(call) \in Block
         /\ Messages!TextIn(Messages!UseBlock(call)) = <<>>
         /\ Messages!CallIn(Messages!UseBlock(call)) = <<call>>
         /\ Messages!CallOrResult(Messages!UseBlock(call)) = << <<"call", call.args>> >>
BY DEF Messages!UseBlock, Messages!TextIn, Messages!CallIn, Messages!CallOrResult, Block, Call,
       Messages!Blocks, Messages!SaidBlocks

LEMMA OneMoreUse ==
  ASSUME NEW calls \in Seq(Call), NEW call \in Call
  PROVE  /\ Uses(calls) \in Seq(Block)
         /\ Uses(Append(calls, call)) = Append(Uses(calls), Messages!UseBlock(call))
<1>1. ASSUME NEW cs \in Seq(Call)
      PROVE  Uses(cs) \in Seq(Block) /\ Len(Uses(cs)) = Len(cs)
  <2> DEFINE N == Len(cs)
             us == [i \in 1..N |-> Messages!UseBlock(cs[i])]
  <2>1. N \in Nat /\ \A i \in 1..N : cs[i] \in Call
    BY LenProperties, ElementOfSeq
  <2>2. us \in [1..N -> Block]
    BY <2>1, CallUsed
  <2>3. Uses(cs) = us
    BY DEF Uses
  <2> HIDE DEF us
  <2> QED
    BY <2>1, <2>2, <2>3, IsSequence
<1> DEFINE n == Len(calls)
           more == Append(calls, call)
           us == Uses(calls)
           um == Uses(more)
           b == Messages!UseBlock(call)
           app == Append(us, b)
<1>2. /\ more \in Seq(Call) /\ n \in Nat /\ Len(more) = n + 1 /\ more[n + 1] = call
      /\ \A i \in 1..n : more[i] = calls[i]
  BY OneMore
<1>3. us \in Seq(Block) /\ Len(us) = n /\ um \in Seq(Block) /\ Len(um) = n + 1
  BY <1>1, <1>2
<1>4. b \in Block
  BY CallUsed
<1>5. \A i \in 1..n : us[i] = Messages!UseBlock(calls[i])
  BY DEF Uses
<1>6. \A i \in 1..n + 1 : um[i] = Messages!UseBlock(more[i])
  BY <1>2 DEF Uses
<1> HIDE DEF us, um, b
<1>7. app \in Seq(Block) /\ Len(app) = n + 1 /\ app[n + 1] = b /\ \A i \in 1..n : app[i] = us[i]
  <2> HIDE DEF n
  <2>1. Len(us) = n /\ us \in Seq(Block)
    BY <1>3
  <2> QED
    BY <1>4, <2>1, OneMore
<1> HIDE DEF app, more
<1>8. ASSUME NEW i \in 1..Len(um) PROVE um[i] = app[i]
  <2>1. i \in 1..n \/ i = n + 1
    BY <1>2, <1>3
  <2>2. CASE i \in 1..n
    <3>1. i \in 1..n + 1
      BY <1>2, <2>2
    <3> QED
      BY <1>2, <1>5, <1>6, <1>7, <2>2, <3>1
  <2>3. CASE i = n + 1
    <3>1. n + 1 \in 1..n + 1
      BY <1>2
    <3> QED
      BY <1>2, <1>6, <1>7, <2>3, <3>1 DEF b
  <2> QED
    BY <2>1, <2>2, <2>3
<1>9. um = app
  BY <1>3, <1>7, <1>8, SeqEqual
<1> QED
  BY <1>3, <1>9 DEF us, um, app, b, more

(* They hold the calls and no text.                                        *)
LEMMA UsesHold ==
  ASSUME NEW calls \in Seq(Call)
  PROVE  /\ Uses(calls) \in Seq(Block)
         /\ Messages!TextsIn(Uses(calls)) = <<>> /\ Messages!CallsIn(Uses(calls)) = calls
<1> DEFINE P == {c \in Seq(Call) : /\ Messages!TextsIn(Uses(c)) = <<>>
                                   /\ Messages!CallsIn(Uses(c)) = c}
<1>1. <<>> \in P
  <2>1. Uses(<<>>) = <<>> /\ <<>> \in Seq(Call)
    BY EmptySeq DEF Uses
  <2> QED
    BY <2>1, NoBlocks
<1>2. ASSUME NEW c \in Seq(Call), NEW call \in Call, c \in P PROVE Append(c, call) \in P
  <2> DEFINE b == Messages!UseBlock(call)
             u == Uses(c)
  <2>1. u \in Seq(Block) /\ Uses(Append(c, call)) = Append(u, b)
    BY OneMoreUse
  <2>2. b \in Block /\ Messages!TextIn(b) = <<>> /\ Messages!CallIn(b) = <<call>>
    BY CallUsed
  <2> HIDE DEF u, b
  <2>3. /\ Messages!TextsIn(Append(u, b)) = Messages!TextsIn(u) \o Messages!TextIn(b)
        /\ Messages!CallsIn(Append(u, b)) = Messages!CallsIn(u) \o Messages!CallIn(b)
    BY <2>1, <2>2, BlockAdded
  <2>4. Messages!TextsIn(u) = <<>> /\ Messages!CallsIn(u) = c
    BY <1>2 DEF u
  <2>5. Append(c, call) \in Seq(Call) /\ Append(c, call) = c \o <<call>>
    BY AppendProperties, AppendIsConcat
  <2>6. <<>> \o <<>> = <<>>
    BY EmptySeq, ConcatEmptySeq
  <2> QED
    BY <2>1, <2>2, <2>3, <2>4, <2>5, <2>6
<1> HIDE DEF P
<1>3. calls \in P
  BY <1>1, <1>2, SeqInduction
<1>4. Uses(calls) \in Seq(Block)
  <2>1. CASE calls = <<>>
    <3>1. Uses(calls) = <<>>
      BY <2>1, EmptySeq DEF Uses
    <3> QED
      BY <3>1, NoBlocks
  <2>2. CASE calls # <<>>
    <3>1. PICK c \in Seq(Call), call \in Call : calls = Append(c, call)
      BY <2>2, SequenceEmptyOrAppend
    <3> QED
      BY <3>1, OneMoreUse
  <2> QED
    BY <2>1, <2>2
<1> QED
  BY <1>3, <1>4 DEF P

(* A reply that is rebuilt says what it said.                              *)
LEMMA RebuiltSays ==
  ASSUME NEW text \in Messages!Texts, NEW calls \in Seq(Call)
  PROVE  /\ Messages!Rebuilt(text, calls) \in Seq(Block)
         /\ Messages!TextsIn(Messages!Rebuilt(text, calls)) = text
         /\ Messages!CallsIn(Messages!Rebuilt(text, calls)) = calls
<1> DEFINE b == Messages!TextBlock(text)
           head == IF text = <<>> THEN <<>> ELSE <<b>>
           u == Uses(calls)
<1>1. Messages!Rebuilt(text, calls) = head \o u
  BY DEF Messages!Rebuilt, Uses
<1>2. /\ head \in Seq(Block)
      /\ Messages!TextsIn(head) = text /\ Messages!CallsIn(head) = <<>>
  <2>1. CASE text = <<>>
    BY <2>1, NoBlocks
  <2>2. CASE text # <<>>
    <3>1. b \in Block /\ Messages!TextIn(b) = text /\ Messages!CallIn(b) = <<>>
      BY DEF Messages!TextBlock, Messages!TextIn, Messages!CallIn, Block, Messages!Blocks,
             Messages!SaidBlocks
    <3> HIDE DEF b
    <3> QED
      BY <2>2, <3>1, OneBlock
  <2> QED
    BY <2>1, <2>2
<1>3. /\ u \in Seq(Block)
      /\ Messages!TextsIn(u) = <<>> /\ Messages!CallsIn(u) = calls
  BY UsesHold
<1> HIDE DEF head, u
<1>4. /\ head \o u \in Seq(Block)
      /\ Messages!TextsIn(head \o u) = text \o <<>>
      /\ Messages!CallsIn(head \o u) = <<>> \o calls
  <2>1. head \in Seq(Block) /\ u \in Seq(Block)
    BY <1>2, <1>3
  <2>2. /\ head \o u \in Seq(Block)
        /\ Messages!TextsIn(head \o u) = Messages!TextsIn(head) \o Messages!TextsIn(u)
        /\ Messages!CallsIn(head \o u) = Messages!CallsIn(head) \o Messages!CallsIn(u)
    BY <2>1, BothMessages
  <2> QED
    BY <1>2, <1>3, <2>2
<1>5. text \o <<>> = text /\ <<>> \o calls = calls
  BY ConcatEmptySeq DEF Messages!Texts
<1> QED
  BY <1>1, <1>4, <1>5

(* The calls and results that are shown of a reply are its calls.          *)
ArgsOf(calls) == [i \in 1..Len(calls) |-> <<"call", calls[i].args>>]

LEMMA OneMoreCall ==
  ASSUME NEW calls \in Seq(Call), NEW call \in Call
  PROVE  /\ ArgsOf(calls) \in Seq(Shown)
         /\ ArgsOf(Append(calls, call)) = Append(ArgsOf(calls), <<"call", call.args>>)
<1>0. \A c \in Call : <<"call", c.args>> \in Shown
  BY DEF Call, Messages!Calls, Shown
<1>1. ASSUME NEW cs \in Seq(Call)
      PROVE  ArgsOf(cs) \in Seq(Shown) /\ Len(ArgsOf(cs)) = Len(cs)
  <2> DEFINE N == Len(cs)
             us == [i \in 1..N |-> <<"call", cs[i].args>>]
  <2>1. N \in Nat /\ \A i \in 1..N : cs[i] \in Call
    BY LenProperties, ElementOfSeq
  <2>2. us \in [1..N -> Shown]
    BY <1>0, <2>1
  <2>3. ArgsOf(cs) = us
    BY DEF ArgsOf
  <2> HIDE DEF us
  <2> QED
    BY <2>1, <2>2, <2>3, IsSequence
<1> DEFINE n == Len(calls)
           more == Append(calls, call)
           us == ArgsOf(calls)
           um == ArgsOf(more)
           b == <<"call", call.args>>
           app == Append(us, b)
<1>2. /\ more \in Seq(Call) /\ n \in Nat /\ Len(more) = n + 1 /\ more[n + 1] = call
      /\ \A i \in 1..n : more[i] = calls[i]
  BY OneMore
<1>3. us \in Seq(Shown) /\ Len(us) = n /\ um \in Seq(Shown) /\ Len(um) = n + 1
  BY <1>1, <1>2
<1>4. b \in Shown
  BY <1>0
<1>5. \A i \in 1..n : us[i] = <<"call", calls[i].args>>
  BY DEF ArgsOf
<1>6. \A i \in 1..n + 1 : um[i] = <<"call", more[i].args>>
  BY <1>2 DEF ArgsOf
<1> HIDE DEF us, um, b
<1>7. app \in Seq(Shown) /\ Len(app) = n + 1 /\ app[n + 1] = b /\ \A i \in 1..n : app[i] = us[i]
  <2> HIDE DEF n
  <2>1. Len(us) = n /\ us \in Seq(Shown)
    BY <1>3
  <2> QED
    BY <1>4, <2>1, OneMore
<1> HIDE DEF app, more
<1>8. ASSUME NEW i \in 1..Len(um) PROVE um[i] = app[i]
  <2>1. i \in 1..n \/ i = n + 1
    BY <1>2, <1>3
  <2>2. CASE i \in 1..n
    <3>1. i \in 1..n + 1
      BY <1>2, <2>2
    <3> QED
      BY <1>2, <1>5, <1>6, <1>7, <2>2, <3>1
  <2>3. CASE i = n + 1
    <3>1. n + 1 \in 1..n + 1
      BY <1>2
    <3> QED
      BY <1>2, <1>6, <1>7, <2>3, <3>1 DEF b
  <2> QED
    BY <2>1, <2>2, <2>3
<1>9. um = app
  BY <1>3, <1>7, <1>8, SeqEqual
<1> QED
  BY <1>3, <1>9 DEF us, um, app, b, more

LEMMA NoArgs == ArgsOf(<<>>) = <<>> /\ <<>> \in Seq(Shown) /\ <<>> \in Seq(Call)
BY EmptySeq DEF ArgsOf

LEMMA ShownAreCalls ==
  ASSUME NEW bs \in Seq(Messages!SaidBlocks)
  PROVE  /\ bs \in Seq(Block)
         /\ Messages!CallsAndResults(bs) = ArgsOf(Messages!CallsIn(bs))
<1> DEFINE S == Messages!SaidBlocks
           P == {s \in Seq(S) : s \in Seq(Block)
                   /\ Messages!CallsAndResults(s) = ArgsOf(Messages!CallsIn(s))}
<1>1. <<>> \in P
  BY NoBlocks, NoArgs, EmptySeq
<1>2. ASSUME NEW s \in Seq(S), NEW b \in S, s \in P PROVE Append(s, b) \in P
  <2>1. s \in Seq(Block) /\ Messages!CallsAndResults(s) = ArgsOf(Messages!CallsIn(s))
    BY <1>2
  <2>2. b \in Block
    BY DEF Block, Messages!Blocks
  <2>3. /\ Append(s, b) \in Seq(Block)
        /\ Messages!CallsIn(Append(s, b)) = Messages!CallsIn(s) \o Messages!CallIn(b)
        /\ Messages!CallsAndResults(Append(s, b))
             = Messages!CallsAndResults(s) \o Messages!CallOrResult(b)
    BY <2>1, <2>2, BlockAdded
  <2>4. Messages!CallsIn(s) \in Seq(Call) /\ Messages!CallsAndResults(s) \in Seq(Shown)
    BY <2>1, Gatherings
  <2>5. CASE b \in [type : {"text", "thinking"}, text : Messages!Texts]
    <3>1. Messages!CallIn(b) = <<>> /\ Messages!CallOrResult(b) = <<>>
      BY <2>5 DEF Messages!CallIn, Messages!CallOrResult
    <3>2. /\ Messages!CallsIn(s) \o <<>> = Messages!CallsIn(s)
          /\ Messages!CallsAndResults(s) \o <<>> = Messages!CallsAndResults(s)
      BY <2>4, ConcatEmptySeq
    <3>3. Append(s, b) \in Seq(S)
      BY AppendProperties
    <3> QED
      BY <2>1, <2>3, <3>1, <3>2, <3>3
  <2>6. CASE b \in [type : {"tool_use"}, call : Messages!Calls]
    <3> DEFINE c == b.call
               calls == Messages!CallsIn(s)
               shown == <<"call", c.args>>
    <3>1. c \in Call /\ Messages!CallIn(b) = <<c>> /\ Messages!CallOrResult(b) = <<shown>>
      BY <2>6 DEF Messages!CallIn, Messages!CallOrResult, Call
    <3> HIDE DEF c
    <3>2. calls \o <<c>> = Append(calls, c)
      BY <2>4, <3>1, AppendIsConcat
    <3>3. ArgsOf(calls) \in Seq(Shown) /\ ArgsOf(Append(calls, c)) = Append(ArgsOf(calls), shown)
      BY <2>4, <3>1, OneMoreCall
    <3>4. shown \in Shown
      BY <3>1 DEF Call, Messages!Calls, Shown
    <3> HIDE DEF calls, shown
    <3>5. Append(ArgsOf(calls), shown) = ArgsOf(calls) \o <<shown>>
      BY <3>3, <3>4, AppendIsConcat
    <3>6. Append(s, b) \in Seq(S)
      BY AppendProperties
    <3> QED
      BY <2>1, <2>3, <3>1, <3>2, <3>3, <3>5, <3>6 DEF calls
  <2> QED
    BY <2>5, <2>6 DEF Messages!SaidBlocks
<1> HIDE DEF P
<1>3. bs \in P
  BY <1>1, <1>2, SeqInduction
<1> QED
  BY <1>3 DEF P

-----------------------------------------------------------------------------
(* Every message of the conversation, and the request of all of them.      *)

LEMMA RebuiltIsSaid ==
  ASSUME NEW text \in Messages!Texts, NEW calls \in Seq(Call)
  PROVE  Messages!Rebuilt(text, calls) \in Seq(Messages!SaidBlocks)
<1> DEFINE S == Messages!SaidBlocks
           N == Len(calls)
           u == [i \in 1..N |-> Messages!UseBlock(calls[i])]
           head == IF text = <<>> THEN <<>> ELSE <<Messages!TextBlock(text)>>
<1>1. N \in Nat /\ \A i \in 1..N : calls[i] \in Call
  BY LenProperties, ElementOfSeq
<1>2. u \in [1..N -> S]
  BY <1>1 DEF Messages!UseBlock, Messages!SaidBlocks, Call
<1>3. head \in Seq(S)
  <2>1. Messages!TextBlock(text) \in S
    BY DEF Messages!TextBlock, Messages!SaidBlocks
  <2> QED
    BY <2>1, EmptySeq, OneElement
<1>4. Messages!Rebuilt(text, calls) = head \o u
  BY DEF Messages!Rebuilt
<1> HIDE DEF u, head
<1>5. u \in Seq(S)
  BY <1>1, <1>2, IsSequence
<1> QED
  BY <1>3, <1>4, <1>5, ConcatProperties

(* A reply that is kept as it came has the texts and calls of its blocks.  *)
AsItCame(m) ==
  m.raw.ok => m.text = Messages!TextsIn(m.raw.blocks) /\ m.calls = Messages!CallsIn(m.raw.blocks)

LEMMA SaidIsBlock ==
  ASSUME NEW s \in Seq(Messages!SaidBlocks) PROVE s \in Seq(Block)
<1>1. Messages!SaidBlocks \subseteq Block
  BY DEF Block, Messages!Blocks
<1> QED
  BY <1>1, SeqMonotonic

LEMMA ReplyBlocks ==
  ASSUME NEW m \in Messages!Replies
  PROVE  Adds(m) = Messages!AssistantBlocks(m) /\ Adds(m) \in Seq(Messages!SaidBlocks)
<1>1. /\ m.role = "assistant" /\ m.text \in Messages!Texts /\ m.calls \in Seq(Call)
      /\ m.raw = Messages!NoRaw \/ m.raw \in [ok : {TRUE}, blocks : Seq(Messages!SaidBlocks)]
  BY DEF Messages!Replies, Call
<1>2. Adds(m) = Messages!AssistantBlocks(m)
  BY <1>1 DEF Adds
<1>3. CASE m.raw = Messages!NoRaw
  <2>1. Messages!AssistantBlocks(m) = Messages!Rebuilt(m.text, m.calls)
    BY <1>3 DEF Messages!AssistantBlocks, Messages!NoRaw
  <2> QED
    BY <1>1, <1>2, <2>1, RebuiltIsSaid
<1>4. CASE m.raw \in [ok : {TRUE}, blocks : Seq(Messages!SaidBlocks)]
  <2>1. Messages!AssistantBlocks(m) = m.raw.blocks
    BY <1>4 DEF Messages!AssistantBlocks
  <2> QED
    BY <1>2, <1>4, <2>1
<1> QED
  BY <1>1, <1>3, <1>4

LEMMA ReplySays ==
  ASSUME NEW m \in Messages!Replies, AsItCame(m)
  PROVE  /\ Adds(m) \in Seq(Block)
         /\ Messages!TextsIn(Adds(m)) = m.text /\ Messages!CallsIn(Adds(m)) = m.calls
         /\ Messages!CallsAndResults(Adds(m)) = ArgsOf(m.calls)
<1>1. /\ m.text \in Messages!Texts /\ m.calls \in Seq(Call)
      /\ m.raw = Messages!NoRaw \/ m.raw \in [ok : {TRUE}, blocks : Seq(Messages!SaidBlocks)]
  BY DEF Messages!Replies, Call
<1>2. Messages!TextsIn(Adds(m)) = m.text /\ Messages!CallsIn(Adds(m)) = m.calls
  <2>1. CASE m.raw = Messages!NoRaw
    <3>1. Adds(m) = Messages!Rebuilt(m.text, m.calls)
      BY <2>1, ReplyBlocks DEF Messages!AssistantBlocks, Messages!NoRaw
    <3> QED
      BY <1>1, <3>1, RebuiltSays
  <2>2. CASE m.raw \in [ok : {TRUE}, blocks : Seq(Messages!SaidBlocks)]
    <3>1. Adds(m) = m.raw.blocks /\ m.raw.ok
      BY <2>2, ReplyBlocks DEF Messages!AssistantBlocks
    <3> QED
      BY <3>1 DEF AsItCame
  <2> QED
    BY <1>1, <2>1, <2>2
<1>3. Adds(m) \in Seq(Messages!SaidBlocks)
  BY ReplyBlocks
<1> DEFINE bs == Adds(m)
<1> HIDE DEF bs
<1>4. bs \in Seq(Block) /\ Messages!CallsAndResults(bs) = ArgsOf(Messages!CallsIn(bs))
  <2>1. bs \in Seq(Messages!SaidBlocks)
    BY <1>3 DEF bs
  <2> QED
    BY <2>1, ShownAreCalls
<1> QED
  BY <1>2, <1>4 DEF bs

(* What each of the other providers is shown of a message.                 *)
LEMMA MessageShown ==
  ASSUME NEW m \in Said
  PROVE  /\ Messages!TextOf(Messages!ToORMessage(m)) =
              IF m.role \in {"user", "assistant"} THEN m.text ELSE <<>>
         /\ Messages!CallsOf(Messages!ToORMessage(m)) =
              IF m.role = "assistant" THEN ArgsOf(m.calls)
              ELSE IF m.role = "tool" THEN << <<"result", m.text[1]>> >> ELSE <<>>
         /\ Messages!TextOf(Messages!ToOllamaMessage(m)) = Messages!TextOf(Messages!ToORMessage(m))
         /\ Messages!CallsOf(Messages!ToOllamaMessage(m))
              = Messages!CallsOf(Messages!ToORMessage(m))
<1> USE DEF Messages!TextOf, Messages!CallsOf, Messages!ToORMessage, Messages!ToOllamaMessage
<1>1. CASE m \in [role : {"user", "system"}, text : Messages!Texts]
  BY <1>1
<1>2. CASE m \in [role : {"tool"}, id : Seq(Nat), name : Messages!Tools, text : [1..1 -> Seq(Nat)]]
  BY <1>2
<1>3. CASE m \in Messages!Replies
  <2> DEFINE N == Len(m.calls)
             ollama == [i \in 1..N |-> Messages!OllamaCall(m.calls[i])]
  <2>1. m.role = "assistant" /\ m.calls \in Seq(Call)
    BY <1>3 DEF Messages!Replies, Call
  <2>2. N \in Nat /\ \A i \in 1..N : m.calls[i] \in Call
    BY <2>1, LenProperties, ElementOfSeq
  <2>3. ollama \in Seq([name : Messages!Tools, args : Seq(Nat)]) /\ Len(ollama) = N
    <3>1. ollama \in [1..N -> [name : Messages!Tools, args : Seq(Nat)]]
      BY <2>2 DEF Messages!OllamaCall, Call, Messages!Calls
    <3> HIDE DEF ollama, N
    <3> QED
      BY <2>2, <3>1, IsSequence
  <2>4. \A i \in 1..N : ollama[i].args = m.calls[i].args
    BY DEF Messages!OllamaCall
  <2>5. /\ Messages!ToORMessage(m)
             = [role |-> "assistant", content |-> m.text, tool_calls |-> m.calls]
        /\ Messages!ToOllamaMessage(m)
             = [role |-> "assistant", content |-> m.text, tool_calls |-> ollama]
    BY <2>1
  <2> HIDE DEF ollama, N
  <2>6. [i \in 1..Len(ollama) |-> <<"call", ollama[i].args>>]
          = [i \in 1..N |-> <<"call", m.calls[i].args>>]
    BY <2>3, <2>4
  <2>7. ArgsOf(m.calls) = [i \in 1..N |-> <<"call", m.calls[i].args>>]
    BY DEF ArgsOf, N
  <2>8. /\ Messages!CallsOf(Messages!ToORMessage(m)) = ArgsOf(m.calls)
        /\ Messages!TextOf(Messages!ToORMessage(m)) = m.text
    BY <2>5 DEF ArgsOf
  <2>9. /\ Messages!CallsOf(Messages!ToOllamaMessage(m))
             = [i \in 1..Len(ollama) |-> <<"call", ollama[i].args>>]
        /\ Messages!TextOf(Messages!ToOllamaMessage(m)) = m.text
    <3> DEFINE o == Messages!ToOllamaMessage(m)
    <3>1. o.role = "assistant" /\ o.content = m.text /\ o.tool_calls = ollama
      BY <2>5
    <3> HIDE DEF o
    <3>2. Messages!TextOf(o) = m.text
      BY <3>1
    <3>3. Messages!CallsOf(o)
            = [i \in 1..Len(o.tool_calls) |-> <<"call", o.tool_calls[i].args>>]
      BY <3>1
    <3>4. [i \in 1..Len(o.tool_calls) |-> <<"call", o.tool_calls[i].args>>]
            = [i \in 1..Len(ollama) |-> <<"call", ollama[i].args>>]
      BY <3>1
    <3> HIDE DEF Messages!TextOf, Messages!CallsOf, Messages!ToOllamaMessage
    <3> QED
      BY <3>2, <3>3, <3>4 DEF o
  <2> QED
    BY <2>1, <2>6, <2>7, <2>8, <2>9
<1> QED
  BY <1>1, <1>2, <1>3 DEF Said, Messages!Messages

(* What a message adds says the same.                                      *)
LEMMA MessageAdds ==
  ASSUME NEW m \in Said, m.role # "system", m.role = "assistant" => AsItCame(m)
  PROVE  /\ Adds(m) \in Seq(Block)
         /\ Messages!TextsIn(Adds(m)) = Messages!TextOf(Messages!ToORMessage(m))
         /\ Messages!CallsAndResults(Adds(m)) = Messages!CallsOf(Messages!ToORMessage(m))
         /\ m.role # "assistant" =>
              /\ Adds(m) = <<Adds(m)[1]>> /\ Len(Adds(m)) = 1
              /\ Messages!CallsIn(Adds(m)) = <<>>
<1>1. CASE m \in [role : {"user", "system"}, text : Messages!Texts]
  <2> DEFINE b == Messages!TextBlock(m.text)
  <2>1. m.role = "user" /\ Adds(m) = <<b>>
    BY <1>1 DEF Adds
  <2>2. /\ b \in Block /\ Messages!TextIn(b) = m.text
        /\ Messages!CallIn(b) = <<>> /\ Messages!CallOrResult(b) = <<>>
    BY <1>1 DEF Messages!TextBlock, Messages!TextIn, Messages!CallIn, Messages!CallOrResult,
                Block, Messages!Blocks, Messages!SaidBlocks
  <2> HIDE DEF b
  <2> QED
    BY <2>1, <2>2, OneBlock, MessageShown
<1>2. CASE m \in [role : {"tool"}, id : Seq(Nat), name : Messages!Tools, text : [1..1 -> Seq(Nat)]]
  <2> DEFINE b == Messages!ResultBlock(m.id, m.text)
             shown == << <<"result", m.text[1]>> >>
  <2>1. m.role = "tool" /\ Adds(m) = <<b>>
    BY <1>2 DEF Adds
  <2>2. /\ b \in Block /\ Messages!TextIn(b) = <<>>
        /\ Messages!CallIn(b) = <<>> /\ Messages!CallOrResult(b) = shown
    BY <1>2 DEF Messages!ResultBlock, Messages!TextIn, Messages!CallIn, Messages!CallOrResult,
                Block, Messages!Blocks, Messages!SaidBlocks
  <2>3. /\ Messages!TextOf(Messages!ToORMessage(m)) = <<>>
        /\ Messages!CallsOf(Messages!ToORMessage(m)) = shown
    BY <2>1, MessageShown
  <2> HIDE DEF b, shown
  <2> QED
    BY <2>1, <2>2, <2>3, OneBlock
<1>3. CASE m \in Messages!Replies
  <2>1. m.role = "assistant"
    BY <1>3 DEF Messages!Replies
  <2> QED
    BY <1>3, <2>1, ReplySays, MessageShown
<1> QED
  BY <1>1, <1>2, <1>3 DEF Said, Messages!Messages

LEMMA AddsBlocks ==
  ASSUME NEW m \in Said, m.role # "system" PROVE Adds(m) \in Seq(Block)
<1>1. CASE m.role = "assistant"
  <2>1. m \in Messages!Replies
    BY <1>1 DEF Said, Messages!Messages
  <2> QED
    BY <2>1, ReplyBlocks, SaidIsBlock
<1>2. CASE m.role # "assistant"
  BY <1>2, MessageAdds
<1> QED
  BY <1>1, <1>2

(* A message is added to the request of those before it.                   *)
LEMMA OneAdded ==
  ASSUME NEW r \in Seq(Spoken), NEW m \in Said
  PROVE  /\ Messages!AddMessage(r, m) =
              IF m.role = "system" THEN r ELSE Messages!AppendBlocks(r, RoleOf(m), Adds(m))
         /\ Messages!AddMessage(r, m) \in Seq(Spoken)
<1>1. m.role \in {"user", "system", "assistant", "tool"}
  BY DEF Said, Messages!Messages, Messages!Replies
<1>2. Messages!AddMessage(r, m) =
        IF m.role = "system" THEN r ELSE Messages!AppendBlocks(r, RoleOf(m), Adds(m))
  BY <1>1 DEF Messages!AddMessage, RoleOf, Adds
<1>3. RoleOf(m) \in {"user", "assistant"}
  BY DEF RoleOf
<1>4. CASE m.role # "system"
  <2> DEFINE bs == Adds(m)
             role == RoleOf(m)
  <2>1. bs \in Seq(Block)
    BY <1>4, AddsBlocks
  <2> HIDE DEF bs, role
  <2>2. Messages!AppendBlocks(r, role, bs) \in Seq(Spoken)
    BY <1>3, <2>1, BlocksAppended DEF role
  <2> QED
    BY <1>2, <1>4, <2>2 DEF bs, role
<1> QED
  BY <1>2, <1>4

Turns(ms) == [x \in (1..Len(ms)) \X Seq(Spoken) |-> Messages!AddMessage(x[2], ms[x[1]])]

LEMMA AddingRuns ==
  ASSUME NEW ms \in Seq(Said)
  PROVE  \E f : /\ LoopOf(f, Len(ms), Seq(Spoken), <<>>, Turns(ms))
                /\ Messages!ToAnthropicMessages(ms) = f[Len(ms)]
<1> DEFINE N == Len(ms)
           Turn(f) == [k \in 0..N |-> IF k = 0 THEN <<>> ELSE Messages!AddMessage(f[k - 1], ms[k])]
           m == CHOOSE f : f = Turn(f)
<1>1. N \in Nat /\ <<>> \in Seq(Spoken)
  BY LenProperties, EmptySeq
<1>2. \A k \in 1..N : ms[k] \in Said
  BY ElementOfSeq
<1>3. Turns(ms) \in [(1..N) \X Seq(Spoken) -> Seq(Spoken)]
  BY <1>2, OneAdded DEF Turns
<1>4. PICK f : LoopOf(f, N, Seq(Spoken), <<>>, Turns(ms))
  BY <1>1, <1>3, LoopExists
<1>5. Messages!ToAnthropicMessages(ms) = m[N]
  BY DEF Messages!ToAnthropicMessages
<1>6. \A k \in 1..N, r \in Seq(Spoken) : Turns(ms)[<<k, r>>] = Messages!AddMessage(r, ms[k])
  BY DEF Turns
<1> HIDE DEF N
<1>7. f = Turn(f)
  <2>1. ASSUME NEW k \in 0..N PROVE f[k] = Turn(f)[k]
    <3>1. CASE k = 0
      BY <1>4, <3>1 DEF LoopOf
    <3>2. CASE k # 0
      <4>1. k \in 1..N /\ k - 1 \in 0..N
        BY <1>1, <3>2
      <4>2. f[k - 1] \in Seq(Spoken) /\ f[k] = Turns(ms)[<<k, f[k - 1]>>]
        BY <1>4, <4>1 DEF LoopOf
      <4>3. f[k] = Messages!AddMessage(f[k - 1], ms[k])
        BY <1>6, <4>1, <4>2
      <4> QED
        BY <3>2, <4>3
    <3> QED
      BY <3>1, <3>2
  <2>2. f \in [0..N -> Seq(Spoken)]
    BY <1>4 DEF LoopOf
  <2> QED
    BY <2>1, <2>2
<1>8. m = Turn(m)
  BY <1>7
<1> HIDE DEF m
<1>9. m[0] = <<>> /\ \A k \in 1..N : m[k] = Messages!AddMessage(m[k - 1], ms[k])
  <2>1. \A k \in 0..N : m[k] = IF k = 0 THEN <<>> ELSE Messages!AddMessage(m[k - 1], ms[k])
    BY <1>8
  <2> QED
    BY <1>1, <2>1
<1> DEFINE S == {k \in 0..N : m[k] = f[k]}
<1>10. 0 \in S
  BY <1>1, <1>4, <1>9 DEF LoopOf
<1>11. ASSUME NEW k \in 0..N-1, k \in S PROVE k + 1 \in S
  <2>1. k + 1 \in 1..N /\ (k + 1) - 1 = k /\ k \in 0..N /\ k + 1 \in 0..N
    BY <1>1
  <2>2. m[k + 1] = Messages!AddMessage(f[k], ms[k + 1])
    BY <1>9, <1>11, <2>1
  <2>3. f[k] \in Seq(Spoken) /\ f[k + 1] = Turns(ms)[<<k + 1, f[k]>>]
    BY <1>4, <2>1 DEF LoopOf
  <2>4. f[k + 1] = Messages!AddMessage(f[k], ms[k + 1])
    BY <1>6, <2>1, <2>3
  <2> QED
    BY <2>1, <2>2, <2>4
<1> HIDE DEF S
<1>12. \A k \in 0..N : k \in S
  BY <1>1, <1>10, <1>11, UpTo
<1>13. m[N] = f[N]
  <2>1. N \in 0..N
    BY <1>1
  <2> QED
    BY <1>12, <2>1 DEF S
<1> QED
  BY <1>4, <1>5, <1>13 DEF N

LEMMA RequestGrows ==
  ASSUME NEW ms \in Seq(Said), NEW m \in Said
  PROVE  /\ Messages!ToAnthropicMessages(ms) \in Seq(Spoken)
         /\ Messages!ToAnthropicMessages(Append(ms, m))
              = Messages!AddMessage(Messages!ToAnthropicMessages(ms), m)
<1> DEFINE N == Len(ms)
           mm == Append(ms, m)
<1>1. PICK f : /\ LoopOf(f, N, Seq(Spoken), <<>>, Turns(ms))
               /\ Messages!ToAnthropicMessages(ms) = f[N]
  BY AddingRuns
<1>2. /\ N \in Nat /\ mm \in Seq(Said) /\ Len(mm) = N + 1 /\ mm[N + 1] = m
      /\ \A k \in 1..N : mm[k] = ms[k]
  BY OneMore
<1>3. PICK g : /\ LoopOf(g, N + 1, Seq(Spoken), <<>>, Turns(mm))
               /\ Messages!ToAnthropicMessages(mm) = g[N + 1]
  <2> HIDE DEF mm
  <2> QED
    BY <1>2, AddingRuns
<1> HIDE DEF mm
<1>4. SameTurns(N, Seq(Spoken), Turns(ms), Turns(mm))
  <2> SUFFICES ASSUME NEW k \in 1..N, NEW s \in Seq(Spoken)
               PROVE  Turns(mm)[<<k, s>>] = Turns(ms)[<<k, s>>]
    BY DEF SameTurns
  <2>1. k \in 1..Len(ms) /\ k \in 1..Len(mm) /\ mm[k] = ms[k]
    BY <1>2
  <2> QED
    BY <2>1 DEF Turns
<1>5. \A k \in 0..N : g[k] = f[k]
  <2>1. N + 1 \in Nat /\ N <= N + 1
    BY <1>2
  <2> HIDE DEF N
  <2>2. N \in Nat
    BY <1>2
  <2> QED
    BY <1>1, <1>3, <1>4, <2>1, <2>2, LoopsAgree
<1>6. f[N] \in Seq(Spoken)
  <2>1. N \in 0..N /\ f \in [0..N -> Seq(Spoken)]
    BY <1>1, <1>2 DEF LoopOf
  <2> HIDE DEF N
  <2> QED
    BY <2>1
<1>7. g[N + 1] = Messages!AddMessage(f[N], m)
  <2>1. N + 1 \in 1..N+1 /\ (N + 1) - 1 = N /\ N \in 0..N
    BY <1>2
  <2>2. g[N + 1] = Turns(mm)[<<N + 1, g[N]>>]
    BY <1>3, <2>1 DEF LoopOf
  <2>3. Turns(mm)[<<N + 1, f[N]>>] = Messages!AddMessage(f[N], mm[N + 1])
    BY <1>2, <1>6, <2>1 DEF Turns
  <2> QED
    BY <1>2, <1>5, <2>1, <2>2, <2>3
<1> QED
  BY <1>1, <1>3, <1>6, <1>7 DEF mm

LEMMA NothingAsked == Messages!ToAnthropicMessages(<<>>) = <<>>
<1>1. <<>> \in Seq(Said) /\ Len(<<>>) = 0
  BY EmptySeq
<1>2. PICK f : /\ LoopOf(f, Len(<<>>), Seq(Spoken), <<>>, Turns(<<>>))
               /\ Messages!ToAnthropicMessages(<<>>) = f[Len(<<>>)]
  BY <1>1, AddingRuns
<1> QED
  BY <1>1, <1>2 DEF LoopOf

-----------------------------------------------------------------------------
(* The same conversation is shown to every provider.                       *)

ShownTextF == [m \in Said |-> Messages!TextOf(Messages!ToORMessage(m))]
ShownCallsF == [m \in Said |-> Messages!CallsOf(Messages!ToORMessage(m))]

LEMMA Showings ==
  /\ ShownTextF \in [Said -> Seq(Seq(Nat))]
  /\ ShownCallsF \in [Said -> Seq(Shown)]
<1>1. ASSUME NEW m \in Said
      PROVE  /\ Messages!TextOf(Messages!ToORMessage(m)) \in Seq(Seq(Nat))
             /\ Messages!CallsOf(Messages!ToORMessage(m)) \in Seq(Shown)
  <2> DEFINE text == Messages!TextOf(Messages!ToORMessage(m))
             calls == Messages!CallsOf(Messages!ToORMessage(m))
  <2>1. /\ text = IF m.role \in {"user", "assistant"} THEN m.text ELSE <<>>
        /\ calls = IF m.role = "assistant" THEN ArgsOf(m.calls)
                   ELSE IF m.role = "tool" THEN << <<"result", m.text[1]>> >> ELSE <<>>
    BY MessageShown
  <2> HIDE DEF text, calls
  <2>2. CASE m \in [role : {"user", "system"}, text : Messages!Texts]
    BY <2>1, <2>2, EmptySeq DEF Messages!Texts, text, calls
  <2>3. CASE m \in [role : {"tool"}, id : Seq(Nat), name : Messages!Tools, text : [1..1 -> Seq(Nat)]]
    <3>1. <<"result", m.text[1]>> \in Shown
      BY <2>3 DEF Shown
    <3> QED
      BY <2>1, <2>3, <3>1, EmptySeq, OneElement DEF text, calls
  <2>4. CASE m \in Messages!Replies
    <3>1. m.role = "assistant" /\ m.calls \in Seq(Call) /\ m.text \in Seq(Seq(Nat))
      BY <2>4 DEF Messages!Replies, Messages!Texts, Call
    <3>2. ArgsOf(m.calls) \in Seq(Shown)
      <4>1. CASE m.calls = <<>>
        BY <4>1, NoArgs
      <4>2. CASE m.calls # <<>>
        <5>1. PICK cs \in Seq(Call), c \in Call : m.calls = Append(cs, c)
          BY <3>1, <4>2, SequenceEmptyOrAppend
        <5>2. ArgsOf(cs) \in Seq(Shown) /\ <<"call", c.args>> \in Shown
          BY OneMoreCall DEF Call, Messages!Calls, Shown
        <5>3. Append(ArgsOf(cs), <<"call", c.args>>) \in Seq(Shown)
          BY <5>2, AppendProperties
        <5> QED
          BY <5>1, <5>3, OneMoreCall
      <4> QED
        BY <4>1, <4>2
    <3> QED
      BY <2>1, <3>1, <3>2 DEF text, calls
  <2> QED
    BY <2>2, <2>3, <2>4 DEF Said, Messages!Messages
<1> QED
  BY <1>1 DEF ShownTextF, ShownCallsF

LEMMA RequestsShow ==
  ASSUME NEW ms \in Seq(Said)
  PROVE  /\ Messages!TextsOf(Messages!ToORMessages(ms)) = Gathered(ShownTextF, ms)
         /\ Messages!TextsOf(Messages!ToOllamaMessages(ms)) = Gathered(ShownTextF, ms)
         /\ Messages!AllCallsOf(Messages!ToORMessages(ms)) = Gathered(ShownCallsF, ms)
         /\ Messages!AllCallsOf(Messages!ToOllamaMessages(ms)) = Gathered(ShownCallsF, ms)
<1> DEFINE N == Len(ms)
           routed == Messages!ToORMessages(ms)
           local == Messages!ToOllamaMessages(ms)
<1>1. N \in Nat /\ \A i \in 1..N : ms[i] \in Said
  BY LenProperties, ElementOfSeq
<1>2. /\ routed \in [1..N -> {Messages!ToORMessage(m) : m \in Said}]
      /\ local \in [1..N -> {Messages!ToOllamaMessage(m) : m \in Said}]
      /\ \A i \in 1..N : routed[i] = Messages!ToORMessage(ms[i])
      /\ \A i \in 1..N : local[i] = Messages!ToOllamaMessage(ms[i])
  BY <1>1 DEF Messages!ToORMessages, Messages!ToOllamaMessages
<1> HIDE DEF routed, local
<1>3. Len(routed) = N /\ Len(local) = N
  <2> HIDE DEF N
  <2> QED
    BY <1>1, <1>2, IsSequence
<1>4. \A i \in 1..N :
        /\ Messages!TextOf(local[i]) = ShownTextF[ms[i]]
        /\ Messages!CallsOf(local[i]) = ShownCallsF[ms[i]]
        /\ Messages!TextOf(routed[i]) = ShownTextF[ms[i]]
        /\ Messages!CallsOf(routed[i]) = ShownCallsF[ms[i]]
  BY <1>1, <1>2, MessageShown DEF ShownTextF, ShownCallsF
<1>5. /\ Messages!TextsOf(routed)
           = Messages!FlattenSeq([i \in 1..N |-> Messages!TextOf(routed[i])])
      /\ Messages!TextsOf(local)
           = Messages!FlattenSeq([i \in 1..N |-> Messages!TextOf(local[i])])
      /\ Messages!AllCallsOf(routed)
           = Messages!FlattenSeq([i \in 1..N |-> Messages!CallsOf(routed[i])])
      /\ Messages!AllCallsOf(local)
           = Messages!FlattenSeq([i \in 1..N |-> Messages!CallsOf(local[i])])
  BY <1>3 DEF Messages!TextsOf, Messages!AllCallsOf
<1>6. /\ [i \in 1..N |-> Messages!TextOf(routed[i])] = [i \in 1..N |-> ShownTextF[ms[i]]]
      /\ [i \in 1..N |-> Messages!TextOf(local[i])] = [i \in 1..N |-> ShownTextF[ms[i]]]
      /\ [i \in 1..N |-> Messages!CallsOf(routed[i])] = [i \in 1..N |-> ShownCallsF[ms[i]]]
      /\ [i \in 1..N |-> Messages!CallsOf(local[i])] = [i \in 1..N |-> ShownCallsF[ms[i]]]
  BY <1>4
<1> QED
  BY <1>5, <1>6 DEF Gathered, routed, local

ShownAlike(ms) ==
  LET blocks == Messages!BlocksOf(Messages!ToAnthropicMessages(ms)) IN
  /\ Gathered(ShownTextF, ms) = Messages!TextsIn(blocks)
  /\ Gathered(ShownCallsF, ms) = Messages!CallsAndResults(blocks)

LEMMA AlikeIsSame ==
  ASSUME NEW ms \in Seq(Said)
  PROVE  ShownAlike(ms) <=>
           LET blocks == Messages!BlocksOf(Messages!ToAnthropicMessages(ms)) IN
           /\ Messages!TextsOf(Messages!ToORMessages(ms)) = Messages!TextsIn(blocks)
           /\ Messages!TextsOf(Messages!ToOllamaMessages(ms)) = Messages!TextsIn(blocks)
           /\ Messages!AllCallsOf(Messages!ToORMessages(ms)) = Messages!CallsAndResults(blocks)
           /\ Messages!AllCallsOf(Messages!ToOllamaMessages(ms)) = Messages!CallsAndResults(blocks)
BY RequestsShow DEF ShownAlike

LEMMA NothingShown == ShownAlike(<<>>)
<1>1. Gathered(ShownTextF, <<>>) = <<>> /\ Gathered(ShownCallsF, <<>>) = <<>>
  BY GatherNothing
<1>2. Messages!BlocksOf(<<>>) = <<>>
  BY GatherNothing, AllBlocks, EmptySeq
<1> QED
  BY <1>1, <1>2, NothingAsked, NoBlocks DEF ShownAlike

LEMMA StillAlike ==
  ASSUME NEW ms \in Seq(Said), NEW m \in Said, m.role = "assistant" => AsItCame(m),
         ShownAlike(ms)
  PROVE  ShownAlike(Append(ms, m))
<1> DEFINE r == Messages!ToAnthropicMessages(ms)
           a == Messages!ToAnthropicMessages(Append(ms, m))
<1>1. r \in Seq(Spoken) /\ a = Messages!AddMessage(r, m)
  BY RequestGrows
<1>2. Gathered(ShownTextF, Append(ms, m)) = Gathered(ShownTextF, ms) \o ShownTextF[m]
  <2>1. ShownTextF \in [Said -> Seq(Seq(Nat))]
    BY Showings
  <2> QED
    BY <2>1, GatherAppend
<1>3. Gathered(ShownCallsF, Append(ms, m)) = Gathered(ShownCallsF, ms) \o ShownCallsF[m]
  <2>1. ShownCallsF \in [Said -> Seq(Shown)]
    BY Showings
  <2> QED
    BY <2>1, GatherAppend
<1>4. /\ ShownTextF[m] = Messages!TextOf(Messages!ToORMessage(m))
      /\ ShownCallsF[m] = Messages!CallsOf(Messages!ToORMessage(m))
  BY DEF ShownTextF, ShownCallsF
<1>5. /\ Gathered(ShownTextF, ms) = Messages!TextsIn(Messages!BlocksOf(r))
      /\ Gathered(ShownCallsF, ms) = Messages!CallsAndResults(Messages!BlocksOf(r))
  BY DEF ShownAlike
<1> HIDE DEF r, a
<1>6. CASE m.role = "system"
  <2>1. a = r
    BY <1>1, <1>6, OneAdded
  <2>2. ShownTextF[m] = <<>> /\ ShownCallsF[m] = <<>>
    BY <1>4, <1>6, MessageShown
  <2>3. /\ Gathered(ShownTextF, ms) \o <<>> = Gathered(ShownTextF, ms)
        /\ Gathered(ShownCallsF, ms) \o <<>> = Gathered(ShownCallsF, ms)
    <3>1. Messages!BlocksOf(r) \in Seq(Block)
      BY <1>1, AllBlocks
    <3>2. /\ Messages!TextsIn(Messages!BlocksOf(r)) \in Seq(Seq(Nat))
          /\ Messages!CallsAndResults(Messages!BlocksOf(r)) \in Seq(Shown)
      BY <3>1, Gatherings
    <3> QED
      BY <1>5, <3>2, ConcatEmptySeq
  <2> QED
    BY <1>2, <1>3, <1>5, <2>1, <2>2, <2>3 DEF ShownAlike, a
<1>7. CASE m.role # "system"
  <2> DEFINE bs == Adds(m)
             old == Messages!BlocksOf(r)
  <2>1. /\ bs \in Seq(Block)
        /\ Messages!TextsIn(bs) = ShownTextF[m] /\ Messages!CallsAndResults(bs) = ShownCallsF[m]
    BY <1>4, <1>7, MessageAdds
  <2>2. a = Messages!AppendBlocks(r, RoleOf(m), bs)
    BY <1>1, <1>7, OneAdded
  <2> HIDE DEF bs
  <2>3. Messages!BlocksOf(a) = old \o bs
    <3>1. RoleOf(m) \in {"user", "assistant"}
      BY DEF RoleOf
    <3> QED
      BY <1>1, <2>1, <2>2, <3>1, AllBlocksAppended
  <2>4. old \in Seq(Block)
    BY <1>1, AllBlocks
  <2> HIDE DEF old
  <2>5. /\ Messages!TextsIn(old \o bs) = Messages!TextsIn(old) \o Messages!TextsIn(bs)
        /\ Messages!CallsAndResults(old \o bs)
             = Messages!CallsAndResults(old) \o Messages!CallsAndResults(bs)
    BY <2>1, <2>4, BothMessages
  <2> QED
    BY <1>2, <1>3, <1>5, <2>1, <2>3, <2>5 DEF ShownAlike, a, old
<1> QED
  BY <1>6, <1>7

-----------------------------------------------------------------------------
(* The results answer the calls.                                           *)

OneMoreBlock(d, c, b) ==
  /\ Len(c) \in Nat /\ Len(d) = Len(c) + 1 /\ d[Len(c) + 1] = b
  /\ \A k \in 1..Len(c) : d[k] = c[k]

LEMMA BlockJoins ==
  ASSUME NEW c \in Seq(Block), NEW b \in Block PROVE OneMoreBlock(c \o <<b>>, c, b)
<1>1. c \o <<b>> = Append(c, b)
  BY AppendIsConcat
<1> DEFINE d == Append(c, b)
<1>2. /\ Len(c) \in Nat /\ Len(d) = Len(c) + 1 /\ d[Len(c) + 1] = b
      /\ \A k \in 1..Len(c) : d[k] = c[k]
  BY OneMore
<1> QED
  BY <1>1, <1>2 DEF OneMoreBlock

(* What is said after the results leaves them answers.                     *)
LEMMA StillAnswers ==
  ASSUME NEW c, NEW d, NEW b, NEW calls \in Seq(Call), OneMoreBlock(d, c, b),
         b.type # "tool_result", Messages!Answers(c, calls)
  PROVE  Messages!Answers(d, calls)
<1>1. Len(calls) \in Nat
  BY LenProperties
<1> DEFINE n == Len(c)
           l == Len(calls)
<1>2. /\ n \in Nat /\ l \in Nat /\ Len(d) = n + 1 /\ d[n + 1] = b
      /\ \A k \in 1..n : d[k] = c[k]
      /\ l <= n /\ \A k \in 1..n : c[k].type = "tool_result" <=> k <= l
      /\ \A k \in 1..l : c[k].id = calls[k].id
  BY <1>1 DEF OneMoreBlock, Messages!Answers
<1> HIDE DEF n, l
<1>3. l <= n + 1 /\ \A k \in 1..n + 1 : k \in 1..n \/ k = n + 1
  BY <1>2
<1>4. ASSUME NEW k \in 1..n + 1 PROVE d[k].type = "tool_result" <=> k <= l
  <2>1. CASE k \in 1..n
    BY <1>2, <2>1
  <2>2. CASE k = n + 1
    BY <1>2, <2>2
  <2> QED
    BY <1>3, <2>1, <2>2
<1>5. \A k \in 1..l : d[k].id = calls[k].id
  BY <1>2
<1> QED
  BY <1>2, <1>3, <1>4, <1>5 DEF Messages!Answers, l

(* The calls of each message of the request.                               *)
CallsAt(r, i) == Messages!CallsIn(r[i].content)

LEMMA RequestShape ==
  ASSUME NEW r \in Seq(Spoken)
  PROVE  /\ Len(r) \in Nat
         /\ \A i \in 1..Len(r) :
              /\ r[i].role \in {"user", "assistant"} /\ r[i].content \in Seq(Block)
              /\ CallsAt(r, i) \in Seq(Call)
<1>1. ASSUME NEW i \in 1..Len(r)
      PROVE  /\ r[i].role \in {"user", "assistant"} /\ r[i].content \in Seq(Block)
             /\ CallsAt(r, i) \in Seq(Call)
  <2>1. r[i] \in Spoken
    BY ElementOfSeq
  <2>2. r[i].role \in {"user", "assistant"} /\ r[i].content \in Seq(Block)
    BY <2>1 DEF Spoken, Messages!Requests, Block
  <2> QED
    BY <2>2, Gatherings DEF CallsAt
<1> QED
  BY <1>1, LenProperties

(* What the appended blocks do to them.                                    *)
Joined(r, role, calls, a, n, bs) ==
  /\ n \in 1..n /\ Len(a) = n
  /\ r[n].role = role /\ a[n].role = role /\ \A i \in 1..n : i # n => a[i] = r[i]
  /\ a[n].content = r[n].content \o bs
  /\ CallsAt(a, n) = CallsAt(r, n) \o calls
  /\ \A i \in 1..n : i # n => CallsAt(a, i) = CallsAt(r, i)
Started(r, role, calls, a, n, bs) ==
  /\ Len(a) = n + 1
  /\ n > 0 => n \in 1..n /\ r[n].role # role
  /\ a[n + 1].role = role /\ \A i \in 1..n : a[i] = r[i]
  /\ a[n + 1].content = bs
  /\ CallsAt(a, n + 1) = calls
  /\ \A i \in 1..n : CallsAt(a, i) = CallsAt(r, i)

LEMMA CallsThen ==
  ASSUME NEW r \in Seq(Spoken), NEW role \in {"user", "assistant"}, NEW bs \in Seq(Block),
         NEW calls, calls = Messages!CallsIn(bs),
         NEW a, a = Messages!AppendBlocks(r, role, bs)
  PROVE  /\ a \in Seq(Spoken) /\ Len(r) \in Nat
         /\ Joined(r, role, calls, a, Len(r), bs) \/ Started(r, role, calls, a, Len(r), bs)
<1> DEFINE n == Len(r)
<1>1. /\ a \in Seq(Spoken) /\ n \in Nat
      /\ JoinsLast(r, role, bs, a, n) \/ StartsNew(r, role, bs, a, n)
  BY BlocksAppended
<1>2. \A i \in 1..n : r[i].content \in Seq(Block)
  BY RequestShape
<1> HIDE DEF n
<1>3. CASE JoinsLast(r, role, bs, a, n)
  <2> DEFINE old == r[n].content
  <2>1. /\ n \in 1..n /\ a[n] = [role |-> role, content |-> old \o bs]
        /\ Len(a) = n /\ r[n].role = role
        /\ \A i \in 1..n : i # n => a[i] = r[i]
    BY <1>1, <1>3 DEF JoinsLast
  <2>2. old \in Seq(Block)
    BY <1>2, <2>1
  <2> HIDE DEF old
  <2>3. Messages!CallsIn(old \o bs) = Messages!CallsIn(old) \o calls
    BY <2>2, BothMessages
  <2>4. a[n].role = role /\ a[n].content = old \o bs
    BY <2>1
  <2>5. CallsAt(a, n) = CallsAt(r, n) \o calls
    BY <2>3, <2>4 DEF CallsAt, old
  <2>6. \A i \in 1..n : i # n => CallsAt(a, i) = CallsAt(r, i)
    BY <2>1 DEF CallsAt
  <2>7. Joined(r, role, calls, a, n, bs)
    BY <2>1, <2>4, <2>5, <2>6 DEF Joined, old
  <2> QED
    BY <1>1, <2>7 DEF n
<1>4. CASE StartsNew(r, role, bs, a, n)
  <2>1. /\ n > 0 => r[n].role # role
        /\ Len(a) = n + 1 /\ \A k \in 1..n : a[k] = r[k]
        /\ a[n + 1] = [role |-> role, content |-> bs]
    BY <1>4 DEF StartsNew
  <2>2. a[n + 1].role = role /\ a[n + 1].content = bs
    BY <2>1
  <2>3. CallsAt(a, n + 1) = calls /\ \A i \in 1..n : CallsAt(a, i) = CallsAt(r, i)
    BY <2>1, <2>2 DEF CallsAt
  <2>4. n > 0 => n \in 1..n
    BY <1>1
  <2>5. Started(r, role, calls, a, n, bs)
    BY <2>1, <2>2, <2>3, <2>4 DEF Started
  <2> QED
    BY <1>1, <2>5 DEF n
<1> QED
  BY <1>1, <1>3, <1>4

(* The invariant of the request, by its places.                            *)
LEMMA RequestIs ==
  ASSUME NEW r, NEW open
  PROVE  /\ Messages!Alternate(r)
              <=> \A i \in 1..Len(r) : i < Len(r) => r[i].role # r[i + 1].role
         /\ Messages!UserCallsNothing(r)
              <=> \A i \in 1..Len(r) : r[i].role = "user" => CallsAt(r, i) = <<>>
         /\ Messages!Answered(r, open)
              <=> \A i \in 1..Len(r) :
                    CallsAt(r, i) # <<>> /\ (open = <<>> \/ i + 1 < Len(r)) =>
                      i < Len(r) /\ Messages!Answers(r[i + 1].content, CallsAt(r, i))
         /\ Messages!AllLeft(r, open)
              <=> r[Len(r)].role = "assistant" /\ Messages!Rest(CallsAt(r, Len(r)), 0, open)
BY DEF Messages!Alternate, Messages!UserCallsNothing, Messages!Answered, Messages!AllLeft, CallsAt

(* The user speaks where no call is left.                                  *)
LEMMA UserAdds ==
  ASSUME NEW r \in Seq(Spoken), NEW b \in Block, b.type = "text",
         Messages!RequestInv(r, <<>>),
         NEW a, a = Messages!AppendBlocks(r, "user", <<b>>)
  PROVE  Messages!RequestInv(a, <<>>)
<1> DEFINE n == Len(r)
           N == Len(a)
           bs == <<b>>
<1>1. bs \in Seq(Block) /\ <<>> = Messages!CallsIn(bs)
  <2>1. Messages!CallIn(b) = <<>>
    BY DEF Messages!CallIn
  <2> QED
    BY <2>1, OneBlock
<1>2. /\ n \in Nat
      /\ Joined(r, "user", <<>>, a, n, bs) \/ Started(r, "user", <<>>, a, n, bs)
  BY <1>1, CallsThen
<1> HIDE DEF bs
<1>3. \A i \in 1..n :
        /\ r[i].role \in {"user", "assistant"} /\ r[i].content \in Seq(Block)
        /\ CallsAt(r, i) \in Seq(Call)
  BY RequestShape
<1>4. /\ \A i \in 1..n : i < n => r[i].role # r[i + 1].role
      /\ \A i \in 1..n : r[i].role = "user" => CallsAt(r, i) = <<>>
      /\ \A i \in 1..n : CallsAt(r, i) # <<>> =>
           i < n /\ Messages!Answers(r[i + 1].content, CallsAt(r, i))
  BY RequestIs DEF Messages!RequestInv
<1>5. SUFFICES /\ \A i \in 1..N : i < N => a[i].role # a[i + 1].role
               /\ \A i \in 1..N : a[i].role = "user" => CallsAt(a, i) = <<>>
               /\ \A i \in 1..N : CallsAt(a, i) # <<>> =>
                    i < N /\ Messages!Answers(a[i + 1].content, CallsAt(a, i))
  BY RequestIs DEF Messages!RequestInv
<1> HIDE DEF n, N
<1>6. CASE Joined(r, "user", <<>>, a, n, bs)
  <2>1. /\ N = n /\ n \in 1..n /\ r[n].role = "user" /\ a[n].role = "user"
        /\ a[n].content = r[n].content \o bs /\ \A i \in 1..n : i # n => a[i] = r[i]
        /\ CallsAt(a, n) = CallsAt(r, n) \o <<>>
        /\ \A i \in 1..n : i # n => CallsAt(a, i) = CallsAt(r, i)
    BY <1>6 DEF Joined, N
  <2>2. CallsAt(a, n) = <<>>
    <3>1. CallsAt(r, n) = <<>>
      BY <1>4, <2>1
    <3> QED
      BY <2>1, <3>1, EmptySeq, ConcatEmptySeq
  <2>3. \A i \in 1..n : a[i].role = r[i].role
    BY <2>1
  <2>4. \A i \in 1..N : i < N => a[i].role # a[i + 1].role
    <3>1. \A i \in 1..n : i < n => i + 1 \in 1..n
      BY <1>2
    <3> QED
      BY <1>4, <2>1, <2>3, <3>1
  <2>5. \A i \in 1..N : a[i].role = "user" => CallsAt(a, i) = <<>>
    BY <1>4, <2>1, <2>2, <2>3
  <2>6. ASSUME NEW i \in 1..N, CallsAt(a, i) # <<>>
        PROVE  i < N /\ Messages!Answers(a[i + 1].content, CallsAt(a, i))
    <3>1. i # n /\ i \in 1..n
      BY <2>1, <2>2, <2>6
    <3>2. CallsAt(a, i) = CallsAt(r, i)
      BY <2>1, <3>1
    <3>3. i < n /\ Messages!Answers(r[i + 1].content, CallsAt(r, i))
      BY <1>4, <2>6, <3>1, <3>2
    <3>4. CASE i + 1 = n
      <4>1. OneMoreBlock(r[n].content \o bs, r[n].content, b)
        <5>1. r[n].content \in Seq(Block)
          BY <1>3, <2>1
        <5> QED
          BY <5>1, BlockJoins DEF bs
      <4>2. Messages!Answers(r[n].content \o bs, CallsAt(r, i))
        <5>1. CallsAt(r, i) \in Seq(Call)
          BY <1>3, <3>1
        <5>2. Messages!Answers(r[n].content, CallsAt(r, i))
          BY <3>3, <3>4
        <5>3. b.type # "tool_result"
          OBVIOUS
        <5> QED
          BY <4>1, <5>1, <5>2, <5>3, StillAnswers
      <4> QED
        BY <2>1, <3>2, <3>3, <3>4, <4>2
    <3>5. CASE i + 1 # n
      <4>1. i + 1 \in 1..n
        BY <1>2, <3>3
      <4> QED
        BY <2>1, <3>2, <3>3, <3>5, <4>1
    <3> QED
      BY <3>4, <3>5
  <2> QED
    BY <2>4, <2>5, <2>6
<1>7. CASE Started(r, "user", <<>>, a, n, bs)
  <2>1. /\ N = n + 1 /\ a[n + 1].role = "user" /\ \A i \in 1..n : a[i] = r[i]
        /\ n > 0 => r[n].role # "user"
        /\ CallsAt(a, n + 1) = <<>>
        /\ \A i \in 1..n : CallsAt(a, i) = CallsAt(r, i)
    BY <1>7 DEF Started, N
  <2>3. ASSUME NEW i \in 1..N, i < N PROVE a[i].role # a[i + 1].role
    <3>1. CASE i = n
      BY <1>2, <2>1, <3>1
    <3>2. CASE i # n
      <4>1. i \in 1..n /\ i < n /\ i + 1 \in 1..n
        BY <1>2, <2>1, <2>3, <3>2
      <4> QED
        BY <1>4, <2>1, <4>1
    <3> QED
      BY <3>1, <3>2
  <2>4. ASSUME NEW i \in 1..N, a[i].role = "user" PROVE CallsAt(a, i) = <<>>
    <3>1. CASE i = n + 1
      BY <2>1, <3>1
    <3>2. CASE i # n + 1
      <4>1. i \in 1..n
        BY <1>2, <2>1, <3>2
      <4> QED
        BY <1>4, <2>1, <2>4, <4>1
    <3> QED
      BY <3>1, <3>2
  <2>5. ASSUME NEW i \in 1..N, CallsAt(a, i) # <<>>
        PROVE  i < N /\ Messages!Answers(a[i + 1].content, CallsAt(a, i))
    <3>1. i \in 1..n
      BY <1>2, <2>1, <2>5
    <3>2. CallsAt(a, i) = CallsAt(r, i)
      BY <2>1, <3>1
    <3>3. i < n /\ Messages!Answers(r[i + 1].content, CallsAt(r, i))
      BY <1>4, <2>5, <3>1, <3>2
    <3>4. i + 1 \in 1..n /\ i < N
      BY <1>2, <2>1, <3>3
    <3> QED
      BY <2>1, <3>2, <3>3, <3>4
  <2> QED
    BY <2>3, <2>4, <2>5
<1> QED
  BY <1>2, <1>6, <1>7

(* A reply comes where no call is left, and leaves its own.                *)
LEMMA ReplyAdds ==
  ASSUME NEW r \in Seq(Spoken), NEW bs \in Seq(Block),
         Messages!RequestInv(r, <<>>),
         NEW a, a = Messages!AppendBlocks(r, "assistant", bs),
         NEW calls, calls = Messages!CallsIn(bs)
  PROVE  Messages!RequestInv(a, calls)
<1> DEFINE n == Len(r)
           N == Len(a)
<1>1. calls \in Seq(Call)
  BY Gatherings
<1>2. /\ n \in Nat
      /\ Joined(r, "assistant", calls, a, n, bs) \/ Started(r, "assistant", calls, a, n, bs)
  BY CallsThen
<1>3. \A i \in 1..n : r[i].role \in {"user", "assistant"}
  BY RequestShape
<1>4. /\ \A i \in 1..n : i < n => r[i].role # r[i + 1].role
      /\ \A i \in 1..n : r[i].role = "user" => CallsAt(r, i) = <<>>
      /\ \A i \in 1..n : CallsAt(r, i) # <<>> =>
           i < n /\ Messages!Answers(r[i + 1].content, CallsAt(r, i))
  BY RequestIs DEF Messages!RequestInv
<1>5. SUFFICES /\ \A i \in 1..N : i < N => a[i].role # a[i + 1].role
               /\ \A i \in 1..N : a[i].role = "user" => CallsAt(a, i) = <<>>
               /\ \A i \in 1..N : CallsAt(a, i) # <<>> /\ (calls = <<>> \/ i + 1 < N) =>
                    i < N /\ Messages!Answers(a[i + 1].content, CallsAt(a, i))
               /\ N > 0 /\ a[N].role = "assistant" /\ CallsAt(a, N) = calls
  <2>1. Messages!Rest(calls, 0, calls)
    BY <1>1, LenProperties DEF Messages!Rest
  <2> QED
    BY <2>1, RequestIs DEF Messages!RequestInv
<1> HIDE DEF n, N
<1>6. CASE Joined(r, "assistant", calls, a, n, bs)
  <2>1. /\ N = n /\ n \in 1..n /\ r[n].role = "assistant" /\ a[n].role = "assistant"
        /\ \A i \in 1..n : i # n => a[i] = r[i]
        /\ CallsAt(a, n) = CallsAt(r, n) \o calls
        /\ \A i \in 1..n : i # n => CallsAt(a, i) = CallsAt(r, i)
    BY <1>6 DEF Joined, N
  <2>2. CallsAt(a, n) = calls
    <3>1. CallsAt(r, n) = <<>>
      BY <1>2, <1>4, <2>1
    <3> QED
      BY <1>1, <2>1, <3>1, ConcatEmptySeq
  <2>3. \A i \in 1..n : a[i].role = r[i].role
    BY <2>1
  <2>4. \A i \in 1..n : i < n => i + 1 \in 1..n
    BY <1>2
  <2>5. \A i \in 1..N : i < N => a[i].role # a[i + 1].role
    BY <1>4, <2>1, <2>3, <2>4
  <2>6. ASSUME NEW i \in 1..N, a[i].role = "user" PROVE CallsAt(a, i) = <<>>
    <3>1. i \in 1..n /\ i # n
      BY <2>1, <2>6
    <3> QED
      BY <1>4, <2>1, <2>3, <2>6, <3>1
  <2>7. ASSUME NEW i \in 1..N, CallsAt(a, i) # <<>>, calls = <<>> \/ i + 1 < N
        PROVE  i < N /\ Messages!Answers(a[i + 1].content, CallsAt(a, i))
    <3>1. i \in 1..n /\ i # n
      BY <1>2, <2>1, <2>2, <2>7
    <3>2. CallsAt(a, i) = CallsAt(r, i)
      BY <2>1, <3>1
    <3>3. i < n /\ Messages!Answers(r[i + 1].content, CallsAt(r, i))
      BY <1>4, <2>7, <3>1, <3>2
    <3>4. i + 1 # n
      <4>1. r[i].role # "user"
        BY <1>4, <2>7, <3>1, <3>2
      <4>2. r[i].role = "assistant" /\ r[i].role # r[i + 1].role
        BY <1>3, <1>4, <3>1, <3>3, <4>1
      <4> QED
        BY <2>1, <4>2
    <3>5. a[i + 1] = r[i + 1]
      BY <2>1, <2>4, <3>1, <3>3, <3>4
    <3> QED
      BY <2>1, <3>2, <3>3, <3>5
  <2> QED
    BY <1>2, <2>1, <2>2, <2>5, <2>6, <2>7
<1>7. CASE Started(r, "assistant", calls, a, n, bs)
  <2>1. /\ N = n + 1 /\ a[n + 1].role = "assistant" /\ \A i \in 1..n : a[i] = r[i]
        /\ n > 0 => r[n].role # "assistant"
        /\ CallsAt(a, n + 1) = calls
        /\ \A i \in 1..n : CallsAt(a, i) = CallsAt(r, i)
    BY <1>7 DEF Started, N
  <2>2. ASSUME NEW i \in 1..N, i < N PROVE a[i].role # a[i + 1].role
    <3>1. CASE i = n
      BY <1>2, <2>1, <3>1
    <3>2. CASE i # n
      <4>1. i \in 1..n /\ i < n /\ i + 1 \in 1..n
        BY <1>2, <2>1, <2>2, <3>2
      <4> QED
        BY <1>4, <2>1, <4>1
    <3> QED
      BY <3>1, <3>2
  <2>3. ASSUME NEW i \in 1..N, a[i].role = "user" PROVE CallsAt(a, i) = <<>>
    <3>1. i # n + 1
      BY <2>1, <2>3
    <3>2. i \in 1..n
      BY <1>2, <2>1, <3>1
    <3> QED
      BY <1>4, <2>1, <2>3, <3>2
  <2>4. ASSUME NEW i \in 1..N, CallsAt(a, i) # <<>>, calls = <<>> \/ i + 1 < N
        PROVE  i < N /\ Messages!Answers(a[i + 1].content, CallsAt(a, i))
    <3>1. i # n + 1
      BY <1>2, <2>1, <2>4
    <3>2. i \in 1..n
      BY <1>2, <2>1, <3>1
    <3>3. CallsAt(a, i) = CallsAt(r, i)
      BY <2>1, <3>2
    <3>4. i < n /\ Messages!Answers(r[i + 1].content, CallsAt(r, i))
      BY <1>4, <2>4, <3>2, <3>3
    <3>5. i + 1 \in 1..n /\ i < N
      BY <1>2, <2>1, <3>2, <3>4
    <3> QED
      BY <2>1, <3>3, <3>4, <3>5
  <2>5. N > 0
    BY <1>2, <2>1
  <2> QED
    BY <2>1, <2>2, <2>3, <2>4, <2>5
<1> QED
  BY <1>2, <1>6, <1>7

(* A result answers the first call that is left.                           *)
ResultsOf(c, calls) ==
  \A k \in 1..Len(c) : c[k].type = "tool_result" /\ c[k].id = calls[k].id

LEMMA TheRest ==
  ASSUME NEW open \in Seq(Call), open # <<>>
  PROVE  /\ Tail(open) \in Seq(Call) /\ Len(open) \in Nat /\ Len(open) > 0
         /\ Len(Tail(open)) = Len(open) - 1 /\ Head(open) = open[1] /\ open[1] \in Call
         /\ \A k \in 1..Len(Tail(open)) : Tail(open)[k] = open[k + 1]
<1>1. Len(open) \in Nat \ {0}
  BY EmptySeq
<1>2. /\ Tail(open) \in Seq(Call) /\ Len(Tail(open)) = Len(open) - 1
      /\ \A i \in 1..Len(open) - 1 : Tail(open)[i] = open[i + 1]
  BY HeadTailProperties
<1>3. 1 \in 1..Len(open)
  BY <1>1
<1>4. open[1] \in Call
  BY <1>3, ElementOfSeq
<1> QED
  BY <1>1, <1>2, <1>4

LEMMA ResultJoins ==
  ASSUME NEW open \in Seq(Call), open # <<>>, NEW calls \in Seq(Call),
         NEW c, NEW d, NEW b, OneMoreBlock(d, c, b),
         b.type = "tool_result", b.id = Head(open).id,
         Messages!Rest(calls, Len(c), open), ResultsOf(c, calls)
  PROVE  /\ Messages!Rest(calls, Len(d), Tail(open)) /\ ResultsOf(d, calls)
         /\ Tail(open) = <<>> => Messages!Answers(d, calls)
<1> DEFINE n == Len(c)
           L == Len(open)
           rest == Tail(open)
<1>1. /\ rest \in Seq(Call) /\ L \in Nat /\ L > 0 /\ Len(rest) = L - 1
      /\ Head(open) = open[1] /\ \A k \in 1..L - 1 : rest[k] = open[k + 1]
  BY TheRest
<1>2. /\ n \in Nat /\ Len(d) = n + 1 /\ d[n + 1] = b /\ \A k \in 1..n : d[k] = c[k]
  BY DEF OneMoreBlock
<1>3. Len(calls) = n + L /\ \A k \in 1..L : calls[n + k] = open[k]
  BY DEF Messages!Rest
<1>4. \A k \in 1..n : c[k].type = "tool_result" /\ c[k].id = calls[k].id
  BY DEF ResultsOf
<1> HIDE DEF n, L, rest
<1>5. Messages!Rest(calls, Len(d), rest)
  <2>1. Len(calls) = (n + 1) + (L - 1)
    BY <1>1, <1>2, <1>3
  <2>2. ASSUME NEW k \in 1..L - 1 PROVE calls[(n + 1) + k] = rest[k]
    <3>1. k + 1 \in 1..L /\ (n + 1) + k = n + (k + 1)
      BY <1>1, <1>2
    <3>2. calls[n + (k + 1)] = open[k + 1]
      BY <1>3, <3>1
    <3> QED
      BY <1>1, <3>1, <3>2
  <2> QED
    BY <1>1, <1>2, <2>1, <2>2 DEF Messages!Rest
<1>6. \A k \in 1..n + 1 : d[k].type = "tool_result" /\ d[k].id = calls[k].id
  <2>1. \A k \in 1..n + 1 : k \in 1..n \/ k = n + 1
    BY <1>2
  <2>2. calls[n + 1] = open[1]
    BY <1>1, <1>3
  <2> QED
    BY <1>1, <1>2, <1>4, <2>1, <2>2
<1>7. ResultsOf(d, calls)
  BY <1>2, <1>6 DEF ResultsOf
<1>8. ASSUME rest = <<>> PROVE Messages!Answers(d, calls)
  <2>1. Len(rest) = 0
    BY <1>8, EmptySeq
  <2>2. Len(calls) = n + 1
    <3>1. L = 1
      BY <1>1, <2>1
    <3> QED
      BY <1>3, <3>1
  <2>3. \A k \in 1..n + 1 : k <= n + 1
    BY <1>2
  <2> QED
    BY <1>2, <1>6, <2>2, <2>3 DEF Messages!Answers
<1> QED
  BY <1>5, <1>7, <1>8 DEF rest

LEMMA SomeLeftIs ==
  ASSUME NEW r, NEW open
  PROVE  Messages!SomeLeft(r, open) <=>
           /\ Len(r) > 1 /\ r[Len(r)].role = "user"
           /\ Messages!Rest(CallsAt(r, Len(r) - 1), Len(r[Len(r)].content), open)
           /\ ResultsOf(r[Len(r)].content, CallsAt(r, Len(r) - 1))
BY DEF Messages!SomeLeft, CallsAt, ResultsOf

LEMMA ResultAdds ==
  ASSUME NEW r \in Seq(Spoken), NEW open \in Seq(Call), open # <<>>,
         Messages!RequestInv(r, open),
         NEW b \in Block, b.type = "tool_result", b.id = Head(open).id,
         NEW a, a = Messages!AppendBlocks(r, "user", <<b>>)
  PROVE  Messages!RequestInv(a, Tail(open))
<1> DEFINE n == Len(r)
           N == Len(a)
           bs == <<b>>
           rest == Tail(open)
<1>1. bs \in Seq(Block) /\ <<>> = Messages!CallsIn(bs)
  <2>1. Messages!CallIn(b) = <<>>
    BY DEF Messages!CallIn
  <2> QED
    BY <2>1, OneBlock
<1>2. /\ n \in Nat
      /\ Joined(r, "user", <<>>, a, n, bs) \/ Started(r, "user", <<>>, a, n, bs)
  BY <1>1, CallsThen
<1> HIDE DEF bs
<1>3. \A i \in 1..n :
        /\ r[i].role \in {"user", "assistant"} /\ r[i].content \in Seq(Block)
        /\ CallsAt(r, i) \in Seq(Call)
  BY RequestShape
<1>4. /\ \A i \in 1..n : i < n => r[i].role # r[i + 1].role
      /\ \A i \in 1..n : r[i].role = "user" => CallsAt(r, i) = <<>>
      /\ \A i \in 1..n : CallsAt(r, i) # <<>> /\ i + 1 < n =>
           i < n /\ Messages!Answers(r[i + 1].content, CallsAt(r, i))
      /\ n > 0
  BY RequestIs DEF Messages!RequestInv
<1>5. \/ r[n].role = "assistant" /\ Messages!Rest(CallsAt(r, n), 0, open)
      \/ /\ n > 1 /\ r[n].role = "user"
         /\ Messages!Rest(CallsAt(r, n - 1), Len(r[n].content), open)
         /\ ResultsOf(r[n].content, CallsAt(r, n - 1))
  BY RequestIs, SomeLeftIs DEF Messages!RequestInv
<1>6. SUFFICES ASSUME TRUE
               PROVE  /\ \A i \in 1..N : i < N => a[i].role # a[i + 1].role
                      /\ \A i \in 1..N : a[i].role = "user" => CallsAt(a, i) = <<>>
                      /\ \A i \in 1..N : CallsAt(a, i) # <<>> /\ (rest = <<>> \/ i + 1 < N) =>
                           i < N /\ Messages!Answers(a[i + 1].content, CallsAt(a, i))
                      /\ N > 1 /\ a[N].role = "user"
                      /\ Messages!Rest(CallsAt(a, N - 1), Len(a[N].content), rest)
                      /\ ResultsOf(a[N].content, CallsAt(a, N - 1))
  <2>1. N > 1 => N > 0
    BY <1>1, CallsThen, LenProperties
  <2> QED
    BY <2>1, RequestIs, SomeLeftIs DEF Messages!RequestInv
<1> HIDE DEF n, N, rest
<1>7. CASE Joined(r, "user", <<>>, a, n, bs)
  <2>1. /\ N = n /\ n \in 1..n /\ r[n].role = "user" /\ a[n].role = "user"
        /\ a[n].content = r[n].content \o bs /\ \A i \in 1..n : i # n => a[i] = r[i]
        /\ CallsAt(a, n) = CallsAt(r, n) \o <<>>
        /\ \A i \in 1..n : i # n => CallsAt(a, i) = CallsAt(r, i)
    BY <1>7 DEF Joined, N
  <2> DEFINE p == n - 1
             calls == CallsAt(r, p)
             c == r[n].content
  <2>2. /\ n > 1 /\ Messages!Rest(calls, Len(c), open) /\ ResultsOf(c, calls)
    BY <1>5, <2>1
  <2>3. p \in 1..n /\ p # n /\ p + 1 = n /\ c \in Seq(Block) /\ calls \in Seq(Call)
    BY <1>2, <1>3, <2>1, <2>2, SMTT(20)
  <2>4. OneMoreBlock(c \o bs, c, b)
    BY <2>3, BlockJoins DEF bs
  <2> HIDE DEF p, calls, c
  <2>5. /\ Messages!Rest(calls, Len(c \o bs), rest) /\ ResultsOf(c \o bs, calls)
        /\ rest = <<>> => Messages!Answers(c \o bs, calls)
    BY <2>2, <2>3, <2>4, ResultJoins DEF rest
  <2>6. CallsAt(a, n) = <<>>
    <3>1. CallsAt(r, n) = <<>>
      BY <1>4, <2>1
    <3> QED
      BY <2>1, <3>1, EmptySeq, ConcatEmptySeq
  <2>7. \A i \in 1..n : a[i].role = r[i].role
    BY <2>1
  <2>8. \A i \in 1..n : i < n => i + 1 \in 1..n
    BY <1>2
  <2>9. \A i \in 1..N : i < N => a[i].role # a[i + 1].role
    BY <1>4, <2>1, <2>7, <2>8, SMTT(20)
  <2>10. \A i \in 1..N : a[i].role = "user" => CallsAt(a, i) = <<>>
    BY <1>4, <2>1, <2>6, <2>7
  <2>11. CallsAt(a, N - 1) = calls /\ a[N].content = c \o bs
    BY <2>1, <2>3 DEF p, calls, c
  <2>12. ASSUME NEW i \in 1..N, CallsAt(a, i) # <<>>, rest = <<>> \/ i + 1 < N
         PROVE  i < N /\ Messages!Answers(a[i + 1].content, CallsAt(a, i))
    <3>1. i \in 1..n /\ i # n /\ i < n
      BY <1>2, <2>1, <2>6, <2>12
    <3>2. CallsAt(a, i) = CallsAt(r, i)
      BY <2>1, <3>1
    <3>3. CASE i + 1 = n
      <4>1. i = p /\ rest = <<>>
        BY <1>2, <2>1, <2>12, <3>1, <3>3 DEF p
      <4> QED
        BY <2>1, <2>5, <2>11, <3>1, <3>2, <3>3, <4>1 DEF calls
    <3>4. CASE i + 1 # n
      <4>1. i + 1 \in 1..n /\ i + 1 < n
        BY <1>2, <3>1, <3>4
      <4>2. Messages!Answers(r[i + 1].content, CallsAt(r, i))
        BY <1>4, <2>12, <3>1, <3>2, <4>1
      <4> QED
        BY <2>1, <3>1, <3>2, <3>4, <4>1, <4>2
    <3> QED
      BY <3>3, <3>4
  <2> QED
    BY <2>1, <2>2, <2>5, <2>9, <2>10, <2>11, <2>12
<1>8. CASE Started(r, "user", <<>>, a, n, bs)
  <2>1. /\ N = n + 1 /\ a[n + 1].role = "user" /\ \A i \in 1..n : a[i] = r[i]
        /\ n > 0 => r[n].role # "user"
        /\ a[n + 1].content = bs
        /\ CallsAt(a, n + 1) = <<>>
        /\ \A i \in 1..n : CallsAt(a, i) = CallsAt(r, i)
    BY <1>8 DEF Started, N
  <2> DEFINE calls == CallsAt(r, n)
  <2>2. n \in 1..n /\ Messages!Rest(calls, 0, open) /\ calls \in Seq(Call)
    BY <1>2, <1>3, <1>4, <1>5, <2>1
  <2> HIDE DEF calls
  <2>3. /\ Messages!Rest(calls, Len(bs), rest) /\ ResultsOf(bs, calls)
        /\ rest = <<>> => Messages!Answers(bs, calls)
    <3> DEFINE c == <<>>
    <3>1. Len(c) = 0 /\ OneMoreBlock(bs, c, b) /\ ResultsOf(c, calls)
      BY OneBlock, EmptySeq DEF OneMoreBlock, ResultsOf, bs
    <3> HIDE DEF c
    <3>2. Messages!Rest(calls, Len(c), open)
      BY <2>2, <3>1
    <3> QED
      BY <2>2, <3>1, <3>2, ResultJoins DEF rest
  <2>4. ASSUME NEW i \in 1..N, i < N PROVE a[i].role # a[i + 1].role
    <3>1. CASE i = n
      BY <1>2, <1>4, <2>1, <2>2, <3>1
    <3>2. CASE i # n
      <4>1. i \in 1..n /\ i < n /\ i + 1 \in 1..n
        BY <1>2, <2>1, <2>4, <3>2
      <4> QED
        BY <1>4, <2>1, <4>1
    <3> QED
      BY <3>1, <3>2
  <2>5. ASSUME NEW i \in 1..N, a[i].role = "user" PROVE CallsAt(a, i) = <<>>
    <3>1. CASE i = n + 1
      BY <2>1, <3>1
    <3>2. CASE i # n + 1
      <4>1. i \in 1..n
        BY <1>2, <2>1, <3>2
      <4> QED
        BY <1>4, <2>1, <2>5, <4>1
    <3> QED
      BY <3>1, <3>2
  <2>6. N > 1 /\ N - 1 = n
    BY <1>2, <1>4, <2>1
  <2>7. CallsAt(a, N - 1) = calls /\ a[N].content = bs
    BY <2>1, <2>2, <2>6 DEF calls
  <2>8. ASSUME NEW i \in 1..N, CallsAt(a, i) # <<>>, rest = <<>> \/ i + 1 < N
        PROVE  i < N /\ Messages!Answers(a[i + 1].content, CallsAt(a, i))
    <3>1. i # n + 1
      BY <2>1, <2>8
    <3>2. i \in 1..n /\ i < N
      BY <1>2, <2>1, <3>1
    <3>3. CallsAt(a, i) = CallsAt(r, i)
      BY <2>1, <3>2
    <3>4. CASE i = n
      <4>1. rest = <<>>
        BY <1>2, <2>1, <2>8, <3>4
      <4> QED
        BY <2>1, <2>3, <3>2, <3>3, <3>4, <4>1 DEF calls
    <3>5. CASE i # n
      <4>1. i + 1 \in 1..n /\ i < n
        BY <1>2, <3>2, <3>5
      <4>2. r[i].role = "assistant"
        BY <1>3, <1>4, <2>8, <3>2, <3>3
      <4>3. i + 1 # n
        <5>1. r[n].role = "assistant"
          BY <1>3, <2>1, <2>2, <1>4
        <5> QED
          BY <1>4, <3>2, <4>1, <4>2, <5>1
      <4>4. i + 1 < n
        BY <1>2, <4>1, <4>3
      <4>5. Messages!Answers(r[i + 1].content, CallsAt(r, i))
        BY <1>4, <2>8, <3>2, <3>3, <4>4
      <4> QED
        BY <2>1, <3>2, <3>3, <4>1, <4>5
    <3> QED
      BY <3>4, <3>5
  <2> QED
    BY <2>1, <2>3, <2>4, <2>5, <2>6, <2>7, <2>8
<1> QED
  BY <1>2, <1>7, <1>8

-----------------------------------------------------------------------------
(* Replies are echoed.                                                     *)

LEMMA StillEchoed ==
  ASSUME NEW r \in Seq(Spoken), NEW role \in {"user", "assistant"}, NEW bs \in Seq(Block),
         NEW a, a = Messages!AppendBlocks(r, role, bs),
         NEW reply \in Seq(Block), Messages!Echoed(reply, r)
  PROVE  Messages!Echoed(reply, a)
<1> DEFINE n == Len(r)
           calls == Messages!CallsIn(bs)
<1>1. n \in Nat /\ (Joined(r, role, calls, a, n, bs) \/ Started(r, role, calls, a, n, bs))
  BY CallsThen
<1>2. \A i \in 1..n : r[i].content \in Seq(Block)
  BY RequestShape
<1>3. PICK i \in 1..n : /\ r[i].role = "assistant"
                        /\ \E skip \in 0..Len(r[i].content) - Len(reply) :
                             \A k \in 1..Len(reply) : r[i].content[skip + k] = reply[k]
  BY DEF Messages!Echoed
<1>4. PICK skip \in 0..Len(r[i].content) - Len(reply) :
        \A k \in 1..Len(reply) : r[i].content[skip + k] = reply[k]
  BY <1>3
<1> HIDE DEF n, calls
<1>5. CASE a[i] = r[i] /\ i \in 1..Len(a)
  <2>1. \E s \in 0..Len(a[i].content) - Len(reply) :
          \A k \in 1..Len(reply) : a[i].content[s + k] = reply[k]
    BY <1>4, <1>5
  <2>2. a[i].role = "assistant"
    BY <1>3, <1>5
  <2> QED
    BY <1>5, <2>1, <2>2 DEF Messages!Echoed
<1>6. CASE Joined(r, role, calls, a, n, bs) /\ i = n
  <2> DEFINE old == r[n].content
             new == old \o bs
             L == Len(reply)
  <2>1. i \in 1..Len(a) /\ a[i].role = "assistant" /\ a[i].content = new
    BY <1>3, <1>6 DEF Joined
  <2>2. old \in Seq(Block) /\ L \in Nat
    BY <1>2, <1>3, <1>6, LenProperties
  <2>3. skip \in 0..Len(old) - L /\ \A k \in 1..L : old[skip + k] = reply[k]
    BY <1>4, <1>6
  <2> HIDE DEF old
  <2>4. /\ Len(old) \in Nat /\ Len(bs) \in Nat /\ Len(new) = Len(old) + Len(bs)
        /\ \A k \in 1..Len(old) : new[k] = old[k]
    BY <2>2, ConcatProperties, LenProperties
  <2> HIDE DEF new, L
  <2>5. skip \in 0..Len(new) - L
    BY <2>2, <2>3, <2>4
  <2>6. ASSUME NEW k \in 1..L PROVE new[skip + k] = reply[k]
    <3>1. skip + k \in 1..Len(old)
      BY <2>2, <2>3, <2>4
    <3> QED
      BY <2>3, <2>4, <3>1
  <2> QED
    BY <2>1, <2>5, <2>6 DEF Messages!Echoed, L
<1>7. \/ a[i] = r[i] /\ i \in 1..Len(a)
      \/ Joined(r, role, calls, a, n, bs) /\ i = n
  <2>1. CASE Joined(r, role, calls, a, n, bs)
    BY <1>3, <2>1 DEF Joined
  <2>2. CASE Started(r, role, calls, a, n, bs)
    <3>1. Len(a) = n + 1 /\ a[i] = r[i]
      BY <1>3, <2>2 DEF Started
    <3> QED
      BY <1>1, <1>3, <3>1
  <2> QED
    BY <1>1, <2>1, <2>2
<1> QED
  BY <1>5, <1>6, <1>7

LEMMA NowEchoed ==
  ASSUME NEW r \in Seq(Spoken), NEW bs \in Seq(Block),
         NEW a, a = Messages!AppendBlocks(r, "assistant", bs)
  PROVE  Messages!Echoed(bs, a)
<1> DEFINE n == Len(r)
           calls == Messages!CallsIn(bs)
           L == Len(bs)
<1>1. /\ n \in Nat
      /\ Joined(r, "assistant", calls, a, n, bs) \/ Started(r, "assistant", calls, a, n, bs)
  BY CallsThen
<1>2. L \in Nat /\ \A i \in 1..n : r[i].content \in Seq(Block)
  BY RequestShape, LenProperties
<1> HIDE DEF n, calls
<1>3. CASE Joined(r, "assistant", calls, a, n, bs)
  <2> DEFINE old == r[n].content
             new == old \o bs
             m == Len(old)
  <2>1. n \in 1..Len(a) /\ a[n].role = "assistant" /\ a[n].content = new
    BY <1>3 DEF Joined
  <2>2. old \in Seq(Block)
    BY <1>2, <1>3 DEF Joined
  <2> HIDE DEF old
  <2>3. /\ m \in Nat /\ Len(new) = m + L
        /\ \A k \in 1..m + L : new[k] = IF k <= m THEN old[k] ELSE bs[k - m]
    BY <2>2, ConcatProperties, LenProperties
  <2> HIDE DEF new, m, L
  <2>4. m \in 0..Len(new) - L
    BY <1>2, <2>3
  <2>5. ASSUME NEW k \in 1..L PROVE new[m + k] = bs[k]
    <3>1. m + k \in 1..m + L /\ ~(m + k <= m) /\ (m + k) - m = k
      BY <1>2, <2>3
    <3> QED
      BY <2>3, <3>1
  <2> QED
    BY <2>1, <2>4, <2>5 DEF Messages!Echoed, L
<1>4. CASE Started(r, "assistant", calls, a, n, bs)
  <2>1. /\ n + 1 \in 1..Len(a) /\ a[n + 1].role = "assistant" /\ a[n + 1].content = bs
    BY <1>1, <1>4 DEF Started
  <2> HIDE DEF L
  <2>2. 0 \in 0..L - L /\ \A k \in 1..L : bs[0 + k] = bs[k]
    BY <1>2
  <2>3. \E skip \in 0..Len(a[n + 1].content) - L :
          \A k \in 1..L : a[n + 1].content[skip + k] = bs[k]
    <3>1. Len(a[n + 1].content) = L
      BY <2>1 DEF L
    <3> QED
      BY <2>1, <2>2, <3>1
  <2> QED
    BY <2>1, <2>3 DEF Messages!Echoed, L
<1> QED
  BY <1>1, <1>3, <1>4

-----------------------------------------------------------------------------
(* The results follow their calls in the conversation itself.              *)

LEMMA StillFollowed ==
  ASSUME NEW ms \in Seq(Said), NEW m \in Said, NEW mm, mm = Append(ms, m),
         NEW i \in 1..Len(ms), NEW results, results \in Nat, Messages!Followed(ms, i, results)
  PROVE  Messages!Followed(mm, i, results)
<1> DEFINE n == Len(ms)
<1>1. /\ n \in Nat /\ Len(mm) = n + 1 /\ \A k \in 1..n : mm[k] = ms[k]
  BY OneMore
<1>2. \A k \in 1..results :
        i + k <= n /\ ms[i + k] = Messages!ToolMessage(ms[i].calls[k])
  BY DEF Messages!Followed
<1>3. i \in 1..n
  OBVIOUS
<1> HIDE DEF n
<1>4. ASSUME NEW k \in 1..results
      PROVE  i + k <= Len(mm) /\ mm[i + k] = Messages!ToolMessage(mm[i].calls[k])
  <2>1. i + k \in 1..n
    BY <1>1, <1>2, <1>3
  <2> QED
    BY <1>1, <1>2, <1>3, <2>1
<1> QED
  BY <1>4 DEF Messages!Followed

(* A message of the user or a reply, where no call was left.               *)
LEMMA SaidInOrder ==
  ASSUME NEW ms \in Seq(Said), NEW m \in Said, Messages!OrderInv(ms, <<>>),
         NEW open \in Seq(Call), m.role = "assistant" => open = m.calls
  PROVE  Messages!OrderInv(Append(ms, m), open)
<1> DEFINE n == Len(ms)
           mm == Append(ms, m)
<1>1. /\ n \in Nat /\ Len(mm) = n + 1 /\ mm[n + 1] = m /\ \A k \in 1..n : mm[k] = ms[k]
  BY OneMore
<1>2. \A i \in 1..n : ms[i] \in Said
  BY ElementOfSeq
<1> HIDE DEF mm
<1>3. ASSUME NEW i \in 1..n, mm[i].role = "assistant" PROVE Messages!InOrder(mm, i, open)
  <2> DEFINE results == Len(ms[i].calls)
  <2>1. ms[i].role = "assistant" /\ mm[i].calls = ms[i].calls
    BY <1>1, <1>3
  <2>2. results \in Nat
    <3>1. ms[i].calls \in Seq(Call)
      BY <1>2, <2>1 DEF Said, Messages!Messages, Messages!Replies, Call
    <3> QED
      BY <3>1, LenProperties
  <2>3. Messages!Followed(ms, i, results)
    BY <2>1 DEF Messages!OrderInv, Messages!InOrder
  <2> HIDE DEF results
  <2>4. Messages!Followed(mm, i, results)
    BY <2>2, <2>3, StillFollowed DEF mm
  <2> QED
    BY <2>1, <2>4 DEF Messages!InOrder, results
<1>4. ASSUME m.role = "assistant" PROVE Messages!InOrder(mm, n + 1, open)
  <2> DEFINE i == n + 1
  <2>1. mm[i].calls = open
    BY <1>1, <1>4
  <2>2. Len(open) \in Nat /\ Len(mm) - i = 0
    BY <1>1, LenProperties
  <2>3. Messages!Followed(mm, i, 0)
    BY DEF Messages!Followed
  <2> HIDE DEF i
  <2>4. CASE open = <<>>
    <3>1. Len(mm[i].calls) = 0
      BY <2>1, <2>4, EmptySeq
    <3> QED
      BY <2>3, <3>1 DEF Messages!InOrder, i
  <2>5. CASE open # <<>>
    <3>1. Messages!Rest(mm[i].calls, 0, open)
      BY <2>1, <2>2 DEF Messages!Rest
    <3> QED
      BY <2>2, <2>3, <2>5, <3>1 DEF Messages!InOrder, i
  <2> QED
    BY <2>4, <2>5
<1> HIDE DEF n
<1>5. ASSUME NEW i \in 1..Len(mm), mm[i].role = "assistant" PROVE Messages!InOrder(mm, i, open)
  <2>1. i \in 1..n \/ i = n + 1
    BY <1>1
  <2> QED
    BY <1>1, <1>3, <1>4, <1>5, <2>1
<1> QED
  BY <1>5 DEF Messages!OrderInv, mm

(* The result of the first call that is left.                              *)
LEMMA ResultInOrder ==
  ASSUME NEW ms \in Seq(Said), NEW open \in Seq(Call), open # <<>>, Messages!OrderInv(ms, open),
         NEW m \in Said, m = Messages!ToolMessage(Head(open))
  PROVE  Messages!OrderInv(Append(ms, m), Tail(open))
<1> DEFINE n == Len(ms)
           mm == Append(ms, m)
           L == Len(open)
           rest == Tail(open)
<1>1. /\ n \in Nat /\ Len(mm) = n + 1 /\ mm[n + 1] = m /\ \A k \in 1..n : mm[k] = ms[k]
  BY OneMore
<1>2. \A i \in 1..n : ms[i] \in Said
  BY ElementOfSeq
<1>3. /\ rest \in Seq(Call) /\ L \in Nat /\ L > 0 /\ Len(rest) = L - 1
      /\ Head(open) = open[1] /\ \A k \in 1..L - 1 : rest[k] = open[k + 1]
  BY TheRest
<1>4. m.role = "tool"
  BY DEF Messages!ToolMessage
<1> HIDE DEF mm, rest
<1>5. ASSUME NEW i \in 1..n, mm[i].role = "assistant" PROVE Messages!InOrder(mm, i, rest)
  <2> DEFINE calls == ms[i].calls
             results == Len(calls)
             d == n - i
  <2>1. ms[i].role = "assistant" /\ mm[i].calls = calls
    BY <1>1, <1>5
  <2>2. calls \in Seq(Call) /\ results \in Nat
    <3>1. ms[i].calls \in Seq(Call)
      BY <1>2, <2>1 DEF Said, Messages!Messages, Messages!Replies, Call
    <3> QED
      BY <3>1, LenProperties
  <2>3. d \in Nat /\ i + (d + 1) = n + 1 /\ Len(mm) - i = d + 1
    BY <1>1
  <2>4. \/ Messages!Followed(ms, i, results)
        \/ Messages!Rest(calls, d, open) /\ Messages!Followed(ms, i, d)
    BY <2>1 DEF Messages!OrderInv, Messages!InOrder
  <2> HIDE DEF results, calls, d
  <2>5. CASE Messages!Followed(ms, i, results)
    <3>1. Messages!Followed(mm, i, results)
      BY <2>2, <2>5, StillFollowed DEF mm
    <3> QED
      BY <2>1, <3>1 DEF Messages!InOrder, results
  <2>6. CASE Messages!Rest(calls, d, open) /\ Messages!Followed(ms, i, d)
    <3>1. results = d + L /\ \A k \in 1..L : calls[d + k] = open[k]
      BY <2>6 DEF Messages!Rest, results, L
    <3>2. Messages!Followed(mm, i, d)
      BY <2>3, <2>6, StillFollowed DEF mm
    <3> HIDE DEF n, L
    <3>3. calls[d + 1] = open[1]
      BY <1>3, <3>1
    <3>4. Messages!Followed(mm, i, d + 1)
      <4>1. \A k \in 1..d :
              i + k <= Len(mm) /\ mm[i + k] = Messages!ToolMessage(mm[i].calls[k])
        BY <3>2 DEF Messages!Followed
      <4>2. /\ i + (d + 1) <= Len(mm)
            /\ mm[i + (d + 1)] = Messages!ToolMessage(mm[i].calls[d + 1])
        <5>1. mm[i + (d + 1)] = m
          BY <1>1, <2>3
        <5>2. m = Messages!ToolMessage(calls[d + 1])
          BY <1>3, <3>3
        <5> QED
          BY <1>1, <2>1, <2>3, <5>1, <5>2
      <4>3. \A k \in 1..d + 1 : k \in 1..d \/ k = d + 1
        BY <2>3
      <4> QED
        BY <4>1, <4>2, <4>3 DEF Messages!Followed
    <3>5. CASE rest = <<>>
      <4>1. L = 1
        BY <1>3, <3>5, EmptySeq
      <4>2. results = d + 1
        BY <3>1, <4>1
      <4> QED
        BY <2>1, <3>4, <4>2 DEF Messages!InOrder, results
    <3>6. CASE rest # <<>>
      <4>1. Len(calls) = (d + 1) + Len(rest)
        BY <1>3, <2>3, <3>1 DEF results
      <4>2. ASSUME NEW k \in 1..Len(rest) PROVE calls[(d + 1) + k] = rest[k]
        <5>1. k + 1 \in 1..L /\ (d + 1) + k = d + (k + 1) /\ k \in 1..L - 1
          BY <1>3, <2>3
        <5> QED
          BY <1>3, <3>1, <5>1
      <4>3. Messages!Rest(calls, d + 1, rest)
        BY <4>1, <4>2 DEF Messages!Rest
      <4> QED
        BY <2>1, <2>3, <3>4, <3>6, <4>3 DEF Messages!InOrder
    <3> QED
      BY <3>5, <3>6
  <2> QED
    BY <2>4, <2>5, <2>6
<1> HIDE DEF n
<1>6. ASSUME NEW i \in 1..Len(mm), mm[i].role = "assistant" PROVE Messages!InOrder(mm, i, rest)
  <2>1. i \in 1..n \/ i = n + 1
    BY <1>1
  <2>2. i # n + 1
    BY <1>1, <1>4, <1>6
  <2> QED
    BY <1>5, <1>6, <2>1, <2>2
<1> QED
  BY <1>6 DEF Messages!OrderInv, mm, rest

-----------------------------------------------------------------------------
(* The conversation grows.                                                 *)

Conversed(ms, open, rs) ==
  /\ ms \in Seq(Said) /\ open \in Seq(Call) /\ rs \in Seq(Seq(Messages!SaidBlocks))
  /\ Messages!RequestInv(Messages!ToAnthropicMessages(ms), open)
  /\ \A k \in 1..Len(rs) : Messages!Echoed(rs[k], Messages!ToAnthropicMessages(ms))
  /\ Messages!OrderInv(ms, open)
  /\ ShownAlike(ms)

LEMMA EchoesStay ==
  ASSUME NEW ms \in Seq(Said), NEW rs \in Seq(Seq(Messages!SaidBlocks)), NEW m \in Said,
         \A k \in 1..Len(rs) : Messages!Echoed(rs[k], Messages!ToAnthropicMessages(ms))
  PROVE  \A k \in 1..Len(rs) :
           Messages!Echoed(rs[k], Messages!ToAnthropicMessages(Append(ms, m)))
<1> DEFINE r == Messages!ToAnthropicMessages(ms)
           a == Messages!ToAnthropicMessages(Append(ms, m))
<1>1. r \in Seq(Spoken) /\ a = Messages!AddMessage(r, m)
  BY RequestGrows
<1>2. ASSUME NEW k \in 1..Len(rs), Messages!Echoed(rs[k], r) PROVE Messages!Echoed(rs[k], a)
  <2> HIDE DEF r, a
  <2>1. CASE m.role = "system"
    <3>1. a = r
      BY <1>1, <2>1, OneAdded
    <3> QED
      BY <1>2, <3>1
  <2>2. CASE m.role # "system"
    <3> DEFINE bs == Adds(m)
               role == RoleOf(m)
               reply == rs[k]
    <3>1. bs \in Seq(Block) /\ role \in {"user", "assistant"}
      BY <2>2, AddsBlocks DEF RoleOf
    <3>2. a = Messages!AppendBlocks(r, role, bs)
      BY <1>1, <2>2, OneAdded
    <3>3. reply \in Seq(Block)
      <4>1. rs[k] \in Seq(Messages!SaidBlocks)
        BY ElementOfSeq
      <4> QED
        BY <4>1, SaidIsBlock
    <3> HIDE DEF bs, role, reply
    <3>4. Messages!Echoed(reply, r)
      BY <1>2 DEF reply
    <3>5. Messages!Echoed(reply, a)
      BY <1>1, <3>1, <3>2, <3>3, <3>4, StillEchoed
    <3> QED
      BY <3>5 DEF reply
  <2> QED
    BY <2>1, <2>2
<1> QED
  BY <1>2

LEMMA UserConverses ==
  ASSUME NEW ms, NEW rs, Conversed(ms, <<>>, rs),
         NEW m \in [role : {"user"}, text : Messages!Texts]
  PROVE  Conversed(Append(ms, m), <<>>, rs)
<1> DEFINE r == Messages!ToAnthropicMessages(ms)
           a == Messages!ToAnthropicMessages(Append(ms, m))
           b == Messages!TextBlock(m.text)
<1>1. /\ ms \in Seq(Said) /\ rs \in Seq(Seq(Messages!SaidBlocks))
      /\ Messages!RequestInv(r, <<>>)
      /\ \A k \in 1..Len(rs) : Messages!Echoed(rs[k], r)
      /\ Messages!OrderInv(ms, <<>>) /\ ShownAlike(ms)
  BY DEF Conversed
<1>2. m \in Said /\ m.role = "user"
  BY DEF Said, Messages!Messages
<1>3. r \in Seq(Spoken) /\ a = Messages!AppendBlocks(r, "user", <<b>>)
  <2>1. r \in Seq(Spoken) /\ a = Messages!AddMessage(r, m)
    BY <1>1, <1>2, RequestGrows
  <2>2. RoleOf(m) = "user" /\ Adds(m) = <<b>>
    BY <1>2 DEF RoleOf, Adds
  <2> HIDE DEF r, a, b
  <2> QED
    BY <1>2, <2>1, <2>2, OneAdded
<1>4. b \in Block /\ b.type = "text"
  BY DEF Messages!TextBlock, Block, Messages!Blocks, Messages!SaidBlocks
<1>5. \A k \in 1..Len(rs) : Messages!Echoed(rs[k], a)
  BY <1>1, <1>2, EchoesStay
<1>6. ShownAlike(Append(ms, m))
  BY <1>1, <1>2, StillAlike
<1>7. <<>> \in Seq(Call) /\ Append(ms, m) \in Seq(Said)
  BY <1>1, <1>2, EmptySeq, AppendProperties
<1>8. Messages!OrderInv(Append(ms, m), <<>>)
  BY <1>1, <1>2, <1>7, SaidInOrder
<1>9. Messages!RequestInv(a, <<>>)
  <2> HIDE DEF r, a, b
  <2> QED
    BY <1>1, <1>3, <1>4, UserAdds
<1> QED
  BY <1>1, <1>5, <1>6, <1>7, <1>8, <1>9 DEF Conversed

LEMMA ReplyConverses ==
  ASSUME NEW ms, NEW rs, Conversed(ms, <<>>, rs),
         NEW m \in Messages!Replies, AsItCame(m),
         NEW more, more = rs \/ (m.raw.ok /\ more = Append(rs, m.raw.blocks))
  PROVE  Conversed(Append(ms, m), m.calls, more)
<1> DEFINE r == Messages!ToAnthropicMessages(ms)
           a == Messages!ToAnthropicMessages(Append(ms, m))
           bs == Adds(m)
           open == m.calls
<1>1. /\ ms \in Seq(Said) /\ rs \in Seq(Seq(Messages!SaidBlocks))
      /\ Messages!RequestInv(r, <<>>)
      /\ \A k \in 1..Len(rs) : Messages!Echoed(rs[k], r)
      /\ Messages!OrderInv(ms, <<>>) /\ ShownAlike(ms)
  BY DEF Conversed
<1>2. m \in Said /\ m.role = "assistant" /\ open \in Seq(Call)
  BY DEF Said, Messages!Messages, Messages!Replies, Call
<1>3. r \in Seq(Spoken) /\ a = Messages!AppendBlocks(r, "assistant", bs)
  <2>1. r \in Seq(Spoken) /\ a = Messages!AddMessage(r, m)
    BY <1>1, <1>2, RequestGrows
  <2>2. RoleOf(m) = "assistant"
    BY <1>2 DEF RoleOf
  <2> HIDE DEF r, a
  <2> QED
    BY <1>2, <2>1, <2>2, OneAdded
<1>4. bs \in Seq(Block) /\ open = Messages!CallsIn(bs)
  BY ReplySays
<1>5. \A k \in 1..Len(rs) : Messages!Echoed(rs[k], a)
  BY <1>1, <1>2, EchoesStay
<1>6. ShownAlike(Append(ms, m))
  BY <1>1, <1>2, StillAlike
<1>7. Append(ms, m) \in Seq(Said)
  BY <1>1, <1>2, AppendProperties
<1>8. Messages!OrderInv(Append(ms, m), open)
  <2>1. m.role = "assistant" => open = m.calls
    OBVIOUS
  <2> HIDE DEF open
  <2> QED
    BY <1>1, <1>2, <2>1, SaidInOrder
<1>9. Messages!RequestInv(a, open) /\ Messages!Echoed(bs, a)
  <2> HIDE DEF r, a, bs, open
  <2> QED
    BY <1>1, <1>3, <1>4, ReplyAdds, NowEchoed
<1>10. /\ more \in Seq(Seq(Messages!SaidBlocks))
       /\ \A k \in 1..Len(more) : Messages!Echoed(more[k], a)
  <2>1. CASE more = rs
    BY <1>1, <1>5, <2>1
  <2>2. CASE m.raw.ok /\ more = Append(rs, m.raw.blocks)
    <3>1. bs = m.raw.blocks /\ bs \in Seq(Messages!SaidBlocks)
      BY <2>2, ReplyBlocks DEF Messages!AssistantBlocks
    <3> HIDE DEF bs, a
    <3>2. /\ more \in Seq(Seq(Messages!SaidBlocks)) /\ Len(rs) \in Nat
          /\ Len(more) = Len(rs) + 1 /\ more[Len(rs) + 1] = bs
          /\ \A k \in 1..Len(rs) : more[k] = rs[k]
      BY <1>1, <2>2, <3>1, OneMore
    <3>3. ASSUME NEW k \in 1..Len(more) PROVE Messages!Echoed(more[k], a)
      <4>1. k \in 1..Len(rs) \/ k = Len(rs) + 1
        BY <3>2
      <4> QED
        BY <1>5, <1>9, <3>2, <4>1
    <3> QED
      BY <3>2, <3>3
  <2> QED
    BY <2>1, <2>2
<1> QED
  BY <1>2, <1>6, <1>7, <1>8, <1>9, <1>10 DEF Conversed

LEMMA ResultConverses ==
  ASSUME NEW ms, NEW rs, NEW open, Conversed(ms, open, rs), open # <<>>
  PROVE  Conversed(Append(ms, Messages!ToolMessage(Head(open))), Tail(open), rs)
<1> DEFINE call == Head(open)
           m == Messages!ToolMessage(call)
           r == Messages!ToAnthropicMessages(ms)
           a == Messages!ToAnthropicMessages(Append(ms, m))
           b == Messages!ResultBlock(m.id, m.text)
<1>1. /\ ms \in Seq(Said) /\ open \in Seq(Call) /\ rs \in Seq(Seq(Messages!SaidBlocks))
      /\ Messages!RequestInv(r, open)
      /\ \A k \in 1..Len(rs) : Messages!Echoed(rs[k], r)
      /\ Messages!OrderInv(ms, open) /\ ShownAlike(ms)
  BY DEF Conversed
<1>2. call \in Call /\ Tail(open) \in Seq(Call)
  BY <1>1, TheRest
<1>3. /\ m \in [role : {"tool"}, id : Seq(Nat), name : Messages!Tools, text : [1..1 -> Seq(Nat)]]
      /\ m.id = call.id
  <2>1. call.args \in Seq(Nat) /\ call.id \in Seq(Nat) /\ call.name \in Messages!Tools
    BY <1>2 DEF Call, Messages!Calls
  <2>2. <<call.args>> \in [1..1 -> Seq(Nat)]
    <3>1. <<call.args>> \in Seq(Seq(Nat)) /\ Len(<<call.args>>) = 1
      BY <2>1, OneElement
    <3> QED
      BY <3>1, LenProperties
  <2> HIDE DEF call
  <2> QED
    BY <2>1, <2>2 DEF Messages!ToolMessage
<1>4. m \in Said /\ m.role = "tool" /\ m.role # "system" /\ m.role # "assistant"
  <2> HIDE DEF m
  <2> QED
    BY <1>3 DEF Said, Messages!Messages
<1>5. b \in Block /\ b.type = "tool_result" /\ b.id = Head(open).id
  <2>1. b.id = m.id /\ b.type = "tool_result"
    BY DEF Messages!ResultBlock
  <2> HIDE DEF m
  <2>2. b \in Block
    BY <1>3 DEF Messages!ResultBlock, Block, Messages!Blocks
  <2> QED
    BY <1>3, <2>1, <2>2
<1>6. r \in Seq(Spoken) /\ a = Messages!AppendBlocks(r, "user", <<b>>)
  <2> HIDE DEF m
  <2>1. r \in Seq(Spoken) /\ a = Messages!AddMessage(r, m)
    BY <1>1, <1>4, RequestGrows
  <2>2. RoleOf(m) = "user" /\ Adds(m) = <<b>>
    BY <1>4 DEF RoleOf, Adds
  <2> HIDE DEF r, a, b
  <2> QED
    BY <1>4, <2>1, <2>2, OneAdded
<1>7. m = Messages!ToolMessage(Head(open))
  OBVIOUS
<1> HIDE DEF m, call
<1>8. \A k \in 1..Len(rs) : Messages!Echoed(rs[k], a)
  BY <1>1, <1>4, EchoesStay
<1>9. ShownAlike(Append(ms, m)) /\ Append(ms, m) \in Seq(Said)
  BY <1>1, <1>4, StillAlike, AppendProperties
<1>10. Messages!OrderInv(Append(ms, m), Tail(open))
  BY <1>1, <1>4, <1>7, ResultInOrder
<1>11. Messages!RequestInv(a, Tail(open))
  <2> HIDE DEF r, a, b
  <2> QED
    BY <1>1, <1>5, <1>6, ResultAdds
<1> QED
  BY <1>1, <1>2, <1>7, <1>8, <1>9, <1>10, <1>11 DEF Conversed

ConversedInv == Conversed(messages, unanswered, responses)

LEMMA ConversationIs == ConversedInv => Messages!ConversationInv
<1> DEFINE ms == messages
<1> SUFFICES ASSUME ConversedInv PROVE Messages!ConversationInv
  OBVIOUS
<1>1. Conversed(messages, unanswered, responses)
  BY DEF ConversedInv
<1>2. /\ messages \in Seq(Said) /\ unanswered \in Seq(Call)
      /\ responses \in Seq(Seq(Messages!SaidBlocks))
      /\ Messages!RequestInv(Messages!ToAnthropicMessages(messages), unanswered)
      /\ \A k \in 1..Len(responses) :
           Messages!Echoed(responses[k], Messages!ToAnthropicMessages(messages))
      /\ Messages!OrderInv(messages, unanswered)
      /\ ShownAlike(messages)
  BY <1>1 DEF Conversed
<1>3. Messages!ToAnthropicMessages(messages) \in Seq(Spoken)
  <2>1. CASE messages = <<>>
    BY <2>1, NothingAsked, EmptySeq
  <2>2. CASE messages # <<>>
    <3>1. PICK q \in Seq(Said), last \in Said : messages = Append(q, last)
      BY <1>2, <2>2, SequenceEmptyOrAppend
    <3>2. Messages!ToAnthropicMessages(messages) \in Seq(Spoken)
      BY <3>1, RequestGrows, OneAdded
    <3> QED
      BY <3>2
  <2> QED
    BY <2>1, <2>2
<1>4. Messages!RepliesEchoed
  BY <1>2 DEF Messages!RepliesEchoed, Messages!Anthropic
<1>5. Messages!SameConversation
  BY <1>2, AlikeIsSame DEF Messages!SameConversation, Messages!OpenRouter, Messages!Ollama,
                           Messages!Anthropic
<1> QED
  BY <1>2, <1>3, <1>4, <1>5
  DEF Messages!ConversationInv, Messages!Anthropic, Said, Call, Spoken

LEMMA ConversationStarts == ProvidersInit => ConversedInv
<1> SUFFICES ASSUME ProvidersInit PROVE ConversedInv
  OBVIOUS
<1> DEFINE m == Messages!Text("system", << <<0>> >>)
<1>1. /\ unanswered = <<>> /\ responses = <<>> /\ messages \in {<<>>, <<m>>}
  BY DEF ProvidersInit, Messages!Init
<1>2. /\ <<>> \in Seq(Said) /\ <<>> \in Seq(Call) /\ <<>> \in Seq(Seq(Messages!SaidBlocks))
      /\ Len(<<>>) = 0
  BY EmptySeq
<1>3. Messages!RequestInv(<<>>, <<>>) /\ Messages!OrderInv(<<>>, <<>>)
  BY <1>2 DEF Messages!RequestInv, Messages!Alternate, Messages!UserCallsNothing,
              Messages!Answered, Messages!OrderInv
<1>4. CASE messages = <<>>
  BY <1>1, <1>2, <1>3, <1>4, NothingAsked, NothingShown DEF ConversedInv, Conversed
<1>5. CASE messages = <<m>>
  <2>1. m \in Said /\ m.role = "system"
    <3>1. 0 \in Nat
      OBVIOUS
    <3>2. << <<0>> >> \in Messages!Texts
      BY <3>1, OneElement DEF Messages!Texts
    <3> QED
      BY <3>2 DEF Messages!Text, Said, Messages!Messages
  <2> HIDE DEF m
  <2>2. Append(<<>>, m) = <<m>> /\ <<m>> \in Seq(Said)
    BY <2>1, OneElement
  <2>3. Messages!ToAnthropicMessages(Append(<<>>, m)) = <<>>
    <3>1. Messages!ToAnthropicMessages(Append(<<>>, m))
            = Messages!AddMessage(Messages!ToAnthropicMessages(<<>>), m)
      BY <1>2, <2>1, RequestGrows
    <3>2. Messages!AddMessage(<<>>, m) = <<>>
      BY <2>1 DEF Messages!AddMessage
    <3> QED
      BY <3>1, <3>2, NothingAsked
  <2>4. Messages!OrderInv(Append(<<>>, m), <<>>)
    BY <1>2, <1>3, <2>1, SaidInOrder
  <2>5. ShownAlike(Append(<<>>, m))
    BY <1>2, <2>1, NothingShown, StillAlike
  <2> QED
    BY <1>1, <1>2, <1>3, <1>5, <2>2, <2>3, <2>4, <2>5 DEF ConversedInv, Conversed
<1> QED
  BY <1>1, <1>4, <1>5

(* A reply is one that may be said, of whichever maker.                    *)
LEMMA ContentIsSaid ==
  ASSUME messages \in Seq(Said), NEW says \in Messages!Says
  PROVE  Messages!Content(says) \in Seq(Messages!SaidBlocks)
<1> DEFINE here == Messages!Here
           n == Len(says)
           blocks == Messages!Content(says)
           block(i) ==
             IF says[i] = "text" THEN Messages!TextBlock(<< <<here, i>> >>)
             ELSE IF says[i] = "thinking" THEN [type |-> "thinking", text |-> << <<here, i>> >>]
             ELSE Messages!UseBlock([id |-> <<here, i>>, name |-> says[i], args |-> <<here, i>>])
<1>1. here \in Nat
  BY LenProperties DEF Messages!Here
<1>2. PICK N \in 0..MaxSaid : says \in [1..N -> Messages!Tools \cup {"text", "thinking"}]
  BY DEF Messages!Says
<1>3. N \in Nat /\ n = N
  <2>1. N \in Nat
    BY <1>2, ProvidersAssumption
  <2> QED
    BY <1>2, <2>1, IsSequence
<1>4. blocks = [i \in 1..n |-> block(i)]
  BY DEF Messages!Content
<1> HIDE DEF here, blocks
<1>5. ASSUME NEW i \in 1..N PROVE block(i) \in Messages!SaidBlocks
  <2>1. <<here, i>> \in Seq(Nat) /\ << <<here, i>> >> \in Messages!Texts
    <3>1. <<here, i>> \in Seq(Nat)
      BY <1>1, <1>3
    <3> QED
      BY <3>1, OneElement DEF Messages!Texts
  <2>2. CASE says[i] \in {"text", "thinking"}
    BY <2>1, <2>2 DEF Messages!TextBlock, Messages!SaidBlocks
  <2>3. CASE says[i] \in Messages!Tools
    <3> DEFINE call == [id |-> <<here, i>>, name |-> says[i], args |-> <<here, i>>]
    <3>1. call \in Messages!Calls
      BY <2>1, <2>3 DEF Messages!Calls
    <3>2. block(i) = Messages!UseBlock(call)
      BY <2>3 DEF Messages!Tools
    <3> HIDE DEF call
    <3> QED
      BY <3>1, <3>2 DEF Messages!UseBlock, Messages!SaidBlocks
  <2> QED
    BY <1>2, <2>2, <2>3
<1>6. blocks \in [1..N -> Messages!SaidBlocks]
  BY <1>3, <1>4, <1>5
<1> QED
  BY <1>3, <1>6, IsSequence DEF blocks

LEMMA SaidIsReply ==
  ASSUME NEW blocks \in Seq(Messages!SaidBlocks)
  PROVE  LET said == Messages!FromAnthropic(blocks) IN
         /\ said \in Messages!Replies /\ AsItCame(said) /\ said.raw.ok
         /\ said.raw.blocks = blocks
         /\ said.text \in Messages!Texts /\ said.calls \in Seq(Call)
<1>1. blocks \in Seq(Block)
  BY SaidIsBlock
<1>2. /\ Messages!TextsIn(blocks) \in Messages!Texts /\ Messages!CallsIn(blocks) \in Seq(Call)
  BY <1>1, Gatherings DEF Messages!Texts
<1> QED
  BY <1>2 DEF Messages!FromAnthropic, Messages!AssistantMessage, Messages!Replies, AsItCame, Call

LEMMA OthersReply ==
  ASSUME NEW text \in Messages!Texts, NEW calls \in Seq(Call)
  PROVE  /\ Messages!FromOpenRouter(text, calls) \in Messages!Replies
         /\ AsItCame(Messages!FromOpenRouter(text, calls))
         /\ Messages!FromOllama(text, calls) \in Messages!Replies
         /\ AsItCame(Messages!FromOllama(text, calls))
<1> DEFINE N == Len(calls)
           unnamed == [i \in 1..N |-> [calls[i] EXCEPT !.id = Messages!NoID]]
<1>1. N \in Nat /\ \A i \in 1..N : calls[i] \in Call
  BY LenProperties, ElementOfSeq
<1>2. \A c \in Call : [c EXCEPT !.id = Messages!NoID] \in Call
  <2>1. Messages!NoID \in Seq(Nat)
    BY EmptySeq DEF Messages!NoID
  <2> QED
    BY <2>1 DEF Call, Messages!Calls
<1>3. unnamed \in [1..N -> Call]
  BY <1>1, <1>2
<1>4. /\ Messages!FromOllama(text, calls)
           = Messages!AssistantMessage(text, unnamed, Messages!NoRaw)
      /\ Messages!FromOpenRouter(text, calls)
           = Messages!AssistantMessage(text, calls, Messages!NoRaw)
  BY DEF Messages!FromOllama, Messages!FromOpenRouter
<1> HIDE DEF unnamed
<1>5. unnamed \in Seq(Call)
  <2> HIDE DEF N
  <2> QED
    BY <1>1, <1>3, IsSequence
<1>6. ASSUME NEW cs \in Seq(Call)
      PROVE  /\ Messages!AssistantMessage(text, cs, Messages!NoRaw) \in Messages!Replies
             /\ AsItCame(Messages!AssistantMessage(text, cs, Messages!NoRaw))
  BY DEF Messages!AssistantMessage, Messages!Replies, Messages!NoRaw, AsItCame, Call
<1> QED
  BY <1>4, <1>5, <1>6

LEMMA ConversationSteps == ConversedInv /\ Messages!Next => ConversedInv'
<1> SUFFICES ASSUME Conversed(messages, unanswered, responses), Messages!Next
             PROVE  Conversed(messages', unanswered', responses')
  BY DEF ConversedInv
<1>1. messages \in Seq(Said) /\ Len(messages) \in Nat
  BY LenProperties DEF Conversed
<1>2. CASE Messages!User
  <2> DEFINE here == Messages!Here
             m == Messages!Text("user", << <<here>> >>)
  <2>1. /\ unanswered = <<>> /\ unanswered' = unanswered /\ responses' = responses
        /\ messages' = Append(messages, m)
    BY <1>2 DEF Messages!User
  <2>2. << <<here>> >> \in Messages!Texts
    <3>1. here \in Nat
      BY <1>1 DEF Messages!Here
    <3> QED
      BY <3>1, OneElement DEF Messages!Texts
  <2>3. m \in [role : {"user"}, text : Messages!Texts]
    BY <2>2 DEF Messages!Text
  <2> HIDE DEF m
  <2> QED
    BY <2>1, <2>3, UserConverses
<1>3. CASE Messages!Result
  BY <1>3, ResultConverses DEF Messages!Result
<1>4. ASSUME NEW maker \in Makers, NEW says \in Messages!Says, Messages!Reply(maker, says)
      PROVE  Conversed(messages', unanswered', responses')
  <2> DEFINE blocks == Messages!Content(says)
             said == Messages!FromAnthropic(blocks)
             reply == CASE maker = "anthropic" -> said
                        [] maker = "openrouter" -> Messages!FromOpenRouter(said.text, said.calls)
                        [] maker = "ollama" -> Messages!FromOllama(said.text, said.calls)
  <2>1. /\ unanswered = <<>> /\ messages' = Append(messages, reply)
        /\ unanswered' = reply.calls
        /\ responses' = IF maker = "anthropic" THEN Append(responses, blocks) ELSE responses
    BY <1>4 DEF Messages!Reply
  <2>2. maker \in {"anthropic", "openrouter", "ollama"}
    BY ProvidersAssumption
  <2>3. blocks \in Seq(Messages!SaidBlocks)
    BY <1>1, ContentIsSaid
  <2> HIDE DEF blocks
  <2>4. /\ said \in Messages!Replies /\ AsItCame(said) /\ said.raw.ok
        /\ said.raw.blocks = blocks
        /\ said.text \in Messages!Texts /\ said.calls \in Seq(Call)
    BY <2>3, SaidIsReply
  <2> HIDE DEF said
  <2>5. /\ reply \in Messages!Replies /\ AsItCame(reply)
        /\ maker = "anthropic" => reply = said
    BY <2>2, <2>4, OthersReply
  <2> HIDE DEF reply
  <2>6. responses' = responses
        \/ (reply.raw.ok /\ responses' = Append(responses, reply.raw.blocks))
    BY <2>1, <2>4, <2>5
  <2> QED
    BY <2>1, <2>5, <2>6, ReplyConverses
<1> QED
  BY <1>2, <1>3, <1>4 DEF Messages!Next

LEMMA ResultsFollowCalls ==
  Messages!ConversationInv => ResultsAnswerCalls /\ SameConversation
<1> SUFFICES ASSUME Messages!ConversationInv PROVE ResultsAnswerCalls /\ SameConversation
  OBVIOUS
<1>1. /\ messages \in Seq(Said) /\ Messages!RequestInv(Messages!Anthropic, unanswered)
      /\ Messages!OrderInv(messages, unanswered)
      /\ Messages!RepliesEchoed /\ Messages!SameConversation
  BY DEF Messages!ConversationInv, Said
<1>2. Messages!ResultsAnswerCalls
  BY <1>1 DEF Messages!ResultsAnswerCalls, Messages!RequestInv, Messages!Alternate,
              Messages!Answered
<1>3. Messages!ResultsByName
  <2> SUFFICES ASSUME unanswered = <<>>, NEW i \in 1..Len(Messages!Ollama),
                      Messages!Ollama[i].role = "assistant",
                      NEW k \in 1..Len(Messages!Ollama[i].tool_calls)
               PROVE  LET call == Messages!Ollama[i].tool_calls[k] IN
                      /\ i + k <= Len(Messages!Ollama)
                      /\ Messages!Ollama[i + k] =
                           [role |-> "tool", content |-> <<call.args>>, tool_name |-> call.name]
    BY DEF Messages!ResultsByName
  <2> DEFINE local == Messages!Ollama
             n == Len(messages)
             calls == messages[i].calls
             N == Len(calls)
  <2>1. n \in Nat /\ \A j \in 1..n : messages[j] \in Said
    BY <1>1, LenProperties, ElementOfSeq
  <2>2. /\ local \in [1..n -> {Messages!ToOllamaMessage(m) : m \in Said}]
        /\ \A j \in 1..n : local[j] = Messages!ToOllamaMessage(messages[j])
    BY <2>1 DEF Messages!Ollama, Messages!ToOllamaMessages
  <2>3. Len(local) = n
    <3> HIDE DEF n, local
    <3> QED
      BY <2>1, <2>2, IsSequence
  <2>4. i \in 1..n /\ local[i].role = "assistant" /\ k \in 1..Len(local[i].tool_calls)
    BY <2>3
  <2> HIDE DEF local, n
  <2>5. messages[i] \in Messages!Replies /\ messages[i].role = "assistant"
    <3>1. messages[i].role = "assistant"
      BY <2>1, <2>2, <2>4 DEF Messages!ToOllamaMessage, Said, Messages!Messages, Messages!Replies
    <3> QED
      BY <2>1, <2>4, <3>1 DEF Said, Messages!Messages
  <2>6. calls \in Seq(Call) /\ N \in Nat
    BY <2>5, LenProperties DEF Messages!Replies, Call
  <2>7. local[i].tool_calls = [j \in 1..N |-> Messages!OllamaCall(calls[j])]
    <3>1. local[i] = Messages!ToOllamaMessage(messages[i])
      BY <2>2, <2>4
    <3>2. Messages!ToOllamaMessage(messages[i])
            = [role |-> "assistant", content |-> messages[i].text,
               tool_calls |-> [j \in 1..N |-> Messages!OllamaCall(calls[j])]]
      BY <2>5 DEF Messages!ToOllamaMessage
    <3> QED
      BY <3>1, <3>2
  <2> HIDE DEF calls
  <2>8. k \in 1..N
    <3>1. [j \in 1..N |-> Messages!OllamaCall(calls[j])]
            \in [1..N -> {Messages!OllamaCall(c) : c \in Call}]
      BY <2>6, ElementOfSeq
    <3> HIDE DEF N
    <3>2. Len(local[i].tool_calls) = N
      BY <2>6, <2>7, <3>1, IsSequence
    <3> QED
      BY <2>4, <3>2
  <2>9. Messages!Followed(messages, i, N)
    BY <1>1, <2>4, <2>5 DEF Messages!OrderInv, Messages!InOrder, n, calls
  <2>10. i + k <= n /\ messages[i + k] = Messages!ToolMessage(calls[k])
    BY <2>8, <2>9 DEF Messages!Followed, n, calls
  <2>11. /\ local[i].tool_calls[k].args = calls[k].args
         /\ local[i].tool_calls[k].name = calls[k].name
    BY <2>7, <2>8 DEF Messages!OllamaCall
  <2>12. local[i + k] = [role |-> "tool", content |-> <<calls[k].args>>,
                         tool_name |-> calls[k].name]
    <3>1. i + k \in 1..n
      BY <2>1, <2>4, <2>6, <2>8, <2>10
    <3> QED
      BY <2>2, <2>10, <3>1 DEF Messages!ToOllamaMessage, Messages!ToolMessage
  <2> QED
    BY <2>3, <2>10, <2>11, <2>12 DEF local
<1> QED
  BY <1>1, <1>2, <1>3 DEF ResultsAnswerCalls, SameConversation

(* The conversation that becomes a request is what the module about it     *)
(* says, whoever replied.                                                  *)
THEOREM ConversationInvariance == ProvidersSpec => []Messages!ConversationInv
<1>1. ConversedInv /\ [ProvidersNext]_providerVars => ConversedInv'
  <2> SUFFICES ASSUME ConversedInv, [ProvidersNext]_providerVars PROVE ConversedInv'
    OBVIOUS
  <2>1. CASE UNCHANGED conversation
    BY <2>1 DEF conversation, ConversedInv
  <2>2. CASE Messages!Next
    BY <2>2, ConversationSteps
  <2> QED
    BY <2>1, <2>2 DEF ProvidersNext, providerVars
<1> QED
  BY <1>1, ConversationStarts, ConversationIs, PTL DEF ProvidersSpec

(* Anthropic accepts every request: roles alternate, and the results of    *)
(* calls, also of calls made at once, open the message that follows them   *)
(* (src/llm/anthropic_mapping.go:40).                                      *)
THEOREM ResultsFollow == ProvidersSpec => []ResultsAnswerCalls
  BY ConversationInvariance, ResultsFollowCalls, PTL

(* The three providers are shown the same conversation, in full            *)
(* (src/llm/anthropic_mapping.go:40, openrouter_mapping.go:12,             *)
(* ollama_mapping.go:9).                                                   *)
THEOREM OneConversation == ProvidersSpec => []SameConversation
  BY ConversationInvariance, ResultsFollowCalls, PTL

=============================================================================
