-------------------------------- MODULE LLM ---------------------------------
(***************************************************************************)
(* An llm.LLM (src/llm/llm.go): one client of a model, shared by callers   *)
(* that chat, ask about the model, and change the model or the effort.     *)
(*                                                                         *)
(* A request holds the read lock from before it reads the configuration    *)
(* until the provider has answered, a change holds the write lock.  The    *)
(* lock is a sync.RWMutex: a writer that waits keeps new readers out, and  *)
(* the readers it kept out go before the next writer.                      *)
(***************************************************************************)
EXTENDS Naturals, FiniteSets

CONSTANTS
  Callers,       (* the goroutines that use the client                     *)
  Models,        (* the models a caller may ask for                        *)
  Configured,    (* Config.Models                                          *)
  FirstModel,    (* Config.Model                                           *)
  Efforts,       (* the efforts ChangeEffort accepts                       *)
  BadEffort,     (* an effort it refuses                                   *)
  FirstEffort    (* Config.Effort, or EffortOff where that is empty        *)

ASSUME LLMAssumption ==
  /\ Configured \subseteq Models /\ FirstModel \in Models
  /\ BadEffort \notin Efforts /\ FirstEffort \in Efforts

Requests == {"Chat", "ModelInfo"}
VARIABLES
  pc,        (* where each caller is: "idle", "rlock", "request",          *)
             (* "answer", "lock", "write"                                  *)
  op,        (* its operation                                              *)
  arg,       (* the model or effort it asked for                           *)
  config,    (* provider.config: model and effort                          *)
  sent,      (* the configuration the caller's request was built from      *)
  readers,   (* mu: the callers that hold it for reading                   *)
  writer,    (* mu: the callers that hold it for writing                   *)
  pending,   (* mu: the writer that keeps new readers out                  *)
  admitted   (* mu: the readers an unlocking writer lets in                *)

vars == <<pc, op, arg, config, sent, readers, writer, pending, admitted>>

(* New: the model the client starts with can always be switched back to.   *)
AvailableModels == Configured \union {FirstModel}

FirstConfig == [model |-> FirstModel, effort |-> FirstEffort]

Init ==
  /\ pc = [c \in Callers |-> "idle"]
  /\ op = [c \in Callers |-> "Chat"]
  /\ arg = [c \in Callers |-> FirstModel]
  /\ config = FirstConfig
  /\ sent = [c \in Callers |-> FirstConfig]
  /\ readers = {} /\ writer = {} /\ pending = {} /\ admitted = {}

-----------------------------------------------------------------------------
(* Chat and ModelInfo (and CurrentModel and Effort, which read no more).   *)

Request(c, o) ==
  /\ pc[c] = "idle"
  /\ pc' = [pc EXCEPT ![c] = "rlock"]
  /\ op' = [op EXCEPT ![c] = o]
  /\ UNCHANGED <<arg, config, sent, readers, writer, pending, admitted>>

RLock(c) ==
  /\ pc[c] = "rlock"
  /\ writer = {}
  /\ pending = {} \/ c \in admitted
  /\ pc' = [pc EXCEPT ![c] = "request"]
  /\ readers' = readers \union {c}
  /\ admitted' = admitted \ {c}
  /\ UNCHANGED <<op, arg, config, sent, writer, pending>>

(* The request is built from the configuration and sent.                   *)
Send(c) ==
  /\ pc[c] = "request"
  /\ pc' = [pc EXCEPT ![c] = "answer"]
  /\ sent' = [sent EXCEPT ![c] = config]
  /\ UNCHANGED <<op, arg, config, readers, writer, pending, admitted>>

(* The provider's answer is read, under the configuration as it is now:    *)
(* ModelInfo looks the model up in the answer by its name.  A caller that  *)
(* returns forgets its request.                                            *)
Answer(c) ==
  /\ pc[c] = "answer"
  /\ pc' = [pc EXCEPT ![c] = "idle"]
  /\ op' = [op EXCEPT ![c] = "Chat"]
  /\ sent' = [sent EXCEPT ![c] = FirstConfig]
  /\ readers' = readers \ {c}
  /\ UNCHANGED <<arg, config, writer, pending, admitted>>

-----------------------------------------------------------------------------
(* ChangeModel and ChangeEffort.                                           *)

ChangeModel(c, m) ==
  /\ pc[c] = "idle"
  /\ m \in AvailableModels
  /\ op' = [op EXCEPT ![c] = "ChangeModel"]
  /\ arg' = [arg EXCEPT ![c] = m]
  /\ pc' = [pc EXCEPT ![c] = "lock"]
  /\ UNCHANGED <<config, sent, readers, writer, pending, admitted>>

ChangeEffort(c, e) ==
  /\ pc[c] = "idle"
  /\ e \in Efforts
  /\ op' = [op EXCEPT ![c] = "ChangeEffort"]
  /\ arg' = [arg EXCEPT ![c] = e]
  /\ pc' = [pc EXCEPT ![c] = "lock"]
  /\ UNCHANGED <<config, sent, readers, writer, pending, admitted>>

(* Lock announces the writer once no other writer is before it ...         *)
Announce(c) ==
  /\ pc[c] = "lock" /\ pending = {} /\ writer = {}
  /\ pending' = {c}
  /\ UNCHANGED <<pc, op, arg, config, sent, readers, writer, admitted>>

(* Mutant of Lock: the writer does not wait for requests in flight.        *)
LockAtOnce(c) ==
  /\ pc[c] = "lock" /\ c \in pending
  /\ pending' = {} /\ writer' = {c}
  /\ pc' = [pc EXCEPT ![c] = "write"]
  /\ UNCHANGED <<op, arg, config, sent, readers, admitted>>

(* ... and returns when the readers before it are gone.                    *)
Lock(c) ==
  /\ pc[c] = "lock" /\ c \in pending
  /\ readers = {} /\ admitted = {}
  /\ pending' = {} /\ writer' = {c}
  /\ pc' = [pc EXCEPT ![c] = "write"]
  /\ UNCHANGED <<op, arg, config, sent, readers, admitted>>

(* The change, and Unlock, which lets every reader in that waits.          *)
Change(c) ==
  /\ pc[c] = "write"
  /\ config' = IF op[c] = "ChangeModel" THEN [config EXCEPT !.model = arg[c]]
                                        ELSE [config EXCEPT !.effort = arg[c]]
  /\ writer' = {}
  /\ admitted' = {r \in Callers : pc[r] = "rlock"}
  /\ pc' = [pc EXCEPT ![c] = "idle"]
  /\ op' = [op EXCEPT ![c] = "Chat"]
  /\ arg' = [arg EXCEPT ![c] = FirstModel]
  /\ UNCHANGED <<sent, readers, pending>>

BeginChange(c) ==
  \/ \E m \in Models : ChangeModel(c, m)
  \/ \E e \in Efforts \union {BadEffort} : ChangeEffort(c, e)

Next ==
  \E c \in Callers :
    \/ \E o \in Requests : Request(c, o)
    \/ BeginChange(c)
    \/ RLock(c) \/ Send(c) \/ Answer(c) \/ Announce(c) \/ Lock(c) \/ Change(c)

Spec == Init /\ [][Next]_vars

-----------------------------------------------------------------------------
(* What must hold.                                                         *)

Operations == Requests \union {"ChangeModel", "ChangeEffort"}

Configs == [model : Models, effort : Efforts]

(* The type invariant: the callers, the lock and the configuration keep to *)
(* their types.                                                            *)
TypeOK ==
  /\ pc \in [Callers -> {"idle", "rlock", "request", "answer", "lock", "write"}]
  /\ op \in [Callers -> Operations] /\ arg \in [Callers -> Models \union Efforts]
  /\ config \in Configs /\ sent \in [Callers -> Configs]
  /\ readers \subseteq Callers /\ writer \subseteq Callers
  /\ pending \subseteq Callers /\ admitted \subseteq Callers

(* The configuration a request was sent with is the one its answer is read *)
(* under: no change takes place in the middle of a request.                *)
RequestsSeeOneConfig ==
  \A c \in Callers : pc[c] = "answer" => sent[c] = config

(* The lock is held by those whose operation is under way, a writer holds  *)
(* it alone, and none is announced while another writes.                   *)
LockInv ==
  /\ readers = {c \in Callers : pc[c] \in {"request", "answer"}}
  /\ writer = {c \in Callers : pc[c] = "write"}
  /\ writer = {} \/ readers = {}
  /\ \A c, d \in writer : c = d
  /\ pending = {} \/ writer = {}

(* A change under way is to a model or an effort, whichever it changes.    *)
ArgInv ==
  \A c \in Callers : pc[c] \in {"lock", "write"} =>
    \/ op[c] = "ChangeModel" /\ arg[c] \in Models
    \/ op[c] = "ChangeEffort" /\ arg[c] \in Efforts

(* The inductive invariant: the lock keeps changes out of requests.        *)
IInv == TypeOK /\ LockInv /\ ArgInv /\ RequestsSeeOneConfig
=============================================================================
