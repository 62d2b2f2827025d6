------------------------------- MODULE ToolBox ------------------------------
(***************************************************************************)
(* A tools.ToolBox in use (src/tools/tool_box.go): packs register their    *)
(* tools and take them away again (src/packs/pack.go and the packs' own    *)
(* files), an interceptor is set, and calls the model made are executed.   *)
(*                                                                         *)
(* Each operation on the box is atomic, under its lock; what is made of    *)
(* several is not: a pack registers and removes its tools one at a time,   *)
(* and Execute lets go of the lock before it asks the interceptor and runs *)
(* the handler.                                                            *)
(***************************************************************************)
EXTENDS Naturals, Sequences, ToolBoxOps

CONSTANTS
  Packs,         (* the packs constructed on the box                       *)
  PackTools,     (* PackTools[p]: the names of p's registrations, in order *)
  Callers,       (* the goroutines that execute calls                      *)
  Policies,      (* the interceptors that may be set                       *)
  NoPolicy,      (* the nil interceptor                                    *)
  Refuses        (* Refuses[i]: the names interceptor i blocks             *)

ASSUME ToolBoxAssumption ==
  /\ Packs \cap {NoTool} = {} /\ NoPolicy \notin Policies
  /\ \A p \in Packs : PackTools[p] \in Seq(ValidNames)
  /\ \A i \in Policies : Refuses[i] \subseteq Names

VARIABLES
  box,           (* tools: an entry is the pack whose handler it is        *)
  interceptor,
  stage,         (* of each pack: "new", "adding", "open", "removing",     *)
                 (* "closed"                                               *)
  todo,          (* the names it has yet to add or to remove               *)
  finished,      (* history: the packs whose Close has returned            *)
  pc,            (* of each caller: "idle", "found", "running"             *)
  name,          (* the tool its call names                                *)
  handler,       (* the handler Execute found                              *)
  policy         (* the interceptor it found                               *)

packVars == <<stage, todo, finished>>
callVars == <<pc, name, handler, policy>>
vars == <<box, interceptor, packVars, callVars>>

Init ==
  /\ box = EmptyBox /\ interceptor = NoPolicy
  /\ stage = [p \in Packs |-> "new"] /\ todo = [p \in Packs |-> <<>>]
  /\ finished = {}
  /\ pc = [c \in Callers |-> "idle"]
  /\ name = [c \in Callers |-> CHOOSE n \in Names : TRUE]
  /\ handler = [c \in Callers |-> NoTool]
  /\ policy = [c \in Callers |-> NoPolicy]

-----------------------------------------------------------------------------
(* Packs.                                                                  *)

Construct(p) ==
  /\ stage[p] = "new"
  /\ stage' = [stage EXCEPT ![p] = "adding"]
  /\ todo' = [todo EXCEPT ![p] = PackTools[p]]
  /\ UNCHANGED <<box, interceptor, finished, callVars>>

(* register: Add, for one registration after the other.                    *)
AddOne(p) ==
  /\ stage[p] = "adding" /\ todo[p] # <<>>
  /\ box' = AddTool(box, Head(todo[p]), p)
  /\ todo' = [todo EXCEPT ![p] = Tail(@)]
  /\ UNCHANGED <<interceptor, stage, finished, callVars>>

Constructed(p) ==
  /\ stage[p] = "adding" /\ todo[p] = <<>>
  /\ stage' = [stage EXCEPT ![p] = "open"]
  /\ UNCHANGED <<box, interceptor, todo, finished, callVars>>

(* Mutant of Close: a second Close removes the tools again.                *)
CloseAgain(p) ==
  /\ stage[p] \in {"open", "closed"}
  /\ stage' = [stage EXCEPT ![p] = "removing"]
  /\ todo' = [todo EXCEPT ![p] = PackTools[p]]
  /\ UNCHANGED <<box, interceptor, finished, callVars>>

(* Close: once.Do, so a Close of a closed pack does nothing.               *)
Close(p) ==
  /\ stage[p] = "open"
  /\ stage' = [stage EXCEPT ![p] = "removing"]
  /\ todo' = [todo EXCEPT ![p] = PackTools[p]]
  /\ UNCHANGED <<box, interceptor, finished, callVars>>

RemoveOne(p) ==
  /\ stage[p] = "removing" /\ todo[p] # <<>>
  /\ box' = RemoveTool(box, Head(todo[p]))
  /\ todo' = [todo EXCEPT ![p] = Tail(@)]
  /\ UNCHANGED <<interceptor, stage, finished, callVars>>

Closed(p) ==
  /\ stage[p] = "removing" /\ todo[p] = <<>>
  /\ stage' = [stage EXCEPT ![p] = "closed"]
  /\ finished' = finished \union {p}
  /\ UNCHANGED <<box, interceptor, todo, callVars>>

-----------------------------------------------------------------------------
(* The interceptor and the calls.                                          *)

SetInterceptor(i) ==
  /\ interceptor' = i
  /\ UNCHANGED <<box, packVars, callVars>>

(* Execute reads the tool and the interceptor under one lock ...           *)
Execute(c, n) ==
  /\ pc[c] = "idle" /\ HasTool(box, n)
  /\ pc' = [pc EXCEPT ![c] = "found"]
  /\ name' = [name EXCEPT ![c] = n]
  /\ handler' = [handler EXCEPT ![c] = box[n]]
  /\ policy' = [policy EXCEPT ![c] = interceptor]
  /\ UNCHANGED <<box, interceptor, packVars>>

(* ErrToolNotFound                                                         *)
ToolNotFound(c, n) ==
  /\ pc[c] = "idle" /\ ~HasTool(box, n)
  /\ UNCHANGED vars

Refused(i, n) == i # NoPolicy /\ n \in Refuses[i]

(* ... asks the interceptor ...                                            *)
Intercept(c) ==
  /\ pc[c] = "found" /\ ~Refused(policy[c], name[c])
  /\ pc' = [pc EXCEPT ![c] = "running"]
  /\ UNCHANGED <<box, interceptor, packVars, name, handler, policy>>

Forget(c) ==
  /\ pc' = [pc EXCEPT ![c] = "idle"]
  /\ handler' = [handler EXCEPT ![c] = NoTool]
  /\ policy' = [policy EXCEPT ![c] = NoPolicy]
  /\ UNCHANGED <<box, interceptor, packVars, name>>

Blocked(c) == pc[c] = "found" /\ Refused(policy[c], name[c]) /\ Forget(c)

(* ... and runs the handler, which returns.                                *)
Return(c) == pc[c] = "running" /\ Forget(c)

Next ==
  \/ \E p \in Packs :
       \/ Construct(p) \/ AddOne(p) \/ Constructed(p)
       \/ Close(p) \/ RemoveOne(p) \/ Closed(p)
  \/ \E i \in Policies \union {NoPolicy} : SetInterceptor(i)
  \/ \E c \in Callers :
       \/ \E n \in Names : Execute(c, n) \/ ToolNotFound(c, n)
       \/ Intercept(c) \/ Blocked(c) \/ Return(c)

Spec == Init /\ [][Next]_vars

-----------------------------------------------------------------------------
(* What must hold.                                                         *)

(* A pack that is closed and not the only one of its kind leaves a newer   *)
(* pack's tools alone, however often it is closed again: a tool disappears *)
(* only while a pack with that name is closed for the first time.          *)
SecondCloseHarmless ==
  [][\A n \in Names :
       HasTool(box, n) /\ ~HasTool(box', n)
         => \E p \in Packs \ finished :
              stage[p] = "removing" /\ todo[p] # <<>> /\ Head(todo[p]) = n]_vars
=============================================================================
