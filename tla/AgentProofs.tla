---------------------------- MODULE AgentProofs -----------------------------
(***************************************************************************)
(* Proofs about Agent, for any ids, models, windows, limits and lengths of *)
(* a conversation: its conversation is one a provider accepts, compaction  *)
(* keeps the last turns, limits follow the model and skill tools the       *)
(* session, and a feedback handler that counts is never wrong.             *)
(***************************************************************************)
EXTENDS Agent, FiniteSetTheorems, SequenceTheorems, WellFoundedInduction, TLAPS

(* Every set of natural numbers that is not empty has a least element.     *)
LEMMA LeastNatural ==
  ASSUME NEW S \in SUBSET Nat, S # {}
  PROVE  \E n \in S : \A m \in S : n <= m
<1> DEFINE less == {p \in Nat \X Nat : p[1] < p[2]}
<1>1. IsWellFoundedOn(less, Nat)
  BY NatLessThanWellFounded DEF OpToRel
<1> HIDE DEF less
<1>2. PICK n \in S : \A m \in S : <<m, n>> \notin less
  BY <1>1, WFMin
<1>3. ASSUME NEW m \in S PROVE n <= m
  <2>1. n \in Nat /\ m \in Nat /\ <<m, n>> \in Nat \X Nat /\ <<m, n>> \notin less
    BY <1>2
  <2>2. ~(m < n)
    BY <2>1 DEF less
  <2> QED
    BY <2>1, <2>2
<1> QED
  BY <1>3

-----------------------------------------------------------------------------
(* Messages and sequences of them.                                         *)

Reply == CallLists \cup {<<>>}

(* The lists of calls of a reply are sequences.                            *)
LEMMA ReplyType == Reply \subseteq Seq(CallIds)
<1>1. \A id, other \in CallIds : <<id>> \in Seq(CallIds) /\ <<id, other>> \in Seq(CallIds)
  OBVIOUS
<1>2. ASSUME NEW ids \in CallLists PROVE ids \in Seq(CallIds)
  <2>1. \E id, other \in CallIds : ids = <<id>> \/ ids = <<id, other>>
    BY DEF CallLists
  <2> QED
    BY <1>1, <2>1
<1>3. <<>> \in Seq(CallIds)
  OBVIOUS
<1> QED
  BY <1>2, <1>3 DEF Reply

(* The five kinds of message, told apart by their roles.                   *)
LEMMA Roles ==
  /\ System \in Message /\ System.role = "system" /\ System.calls = <<>>
  /\ User \in Message /\ User.role = "user" /\ User.calls = <<>>
  /\ Summary \in Message /\ Summary.role = "summary" /\ Summary.calls = <<>>
  /\ \A ids \in Reply : /\ Assistant(ids) \in Message
                        /\ Assistant(ids).role = "assistant" /\ Assistant(ids).calls = ids
  /\ \A id \in CallIds : ToolResult(id) \in Message /\ ToolResult(id).role = "tool"
  /\ \A m \in Message : /\ m.role = "summary" => m = Summary
                        /\ m.role = "system" => m = System
                        /\ m.calls \in Seq(CallIds)
<1> USE DEF Message, System, User, Summary, Assistant, ToolResult
<1>1. \A ids \in Reply : Assistant(ids) \in Message
  BY DEF Reply
<1>2. ASSUME NEW m \in Message
      PROVE  /\ m.role = "summary" => m = Summary
             /\ m.role = "system" => m = System
             /\ m.calls \in Seq(CallIds)
  <2>1. CASE m \in {System, User, Summary}
    <3>1. m.calls = <<>>
      BY <2>1
    <3> QED
      BY <2>1, <3>1
  <2>2. CASE \E ids \in Reply : m = Assistant(ids)
    BY <2>2, ReplyType
  <2>3. CASE \E id \in CallIds : m = ToolResult(id)
    BY <2>3
  <2> QED
    BY <2>1, <2>2, <2>3 DEF Reply
<1> QED
  BY <1>1, <1>2

(* Append, in the form the proofs use it.                                  *)
LEMMA Appended ==
  ASSUME NEW msgs \in Seq(Message), NEW m \in Message
  PROVE  /\ Append(msgs, m) \in Seq(Message) /\ Append(msgs, m) # <<>>
         /\ Len(Append(msgs, m)) = Len(msgs) + 1
         /\ \A i \in 1..Len(msgs) : Append(msgs, m)[i] = msgs[i]
         /\ Append(msgs, m)[Len(msgs) + 1] = m
  BY AppendProperties

-----------------------------------------------------------------------------
(* Resuming, and cutting.                                                  *)

(* A conversation whose system message comes first, and only there, loses  *)
(* just that one when it is restored.                                      *)
LEMMA RestoredIs ==
  ASSUME NEW msgs \in Seq(Message),
         \A i \in 1..Len(msgs) : msgs[i].role = "system" <=> i = 1
  PROVE  Restored(msgs) = SubSeq(msgs, 2, Len(msgs))
<1> DEFINE N == Len(msgs)
           Turn(f) == [i \in 0..N |-> IF i = 0 THEN <<>>
                                      ELSE IF msgs[i].role = "system" THEN f[i - 1]
                                      ELSE Append(f[i - 1], msgs[i])]
           f == [i \in 0..N |-> SubSeq(msgs, 2, i)]
           k == CHOOSE kept : kept = Turn(kept)
<1>1. N \in Nat
  BY LenProperties
<1>2. f[0] = <<>> /\ (1 \in 0..N => f[1] = <<>>)
  BY <1>1, SubSeqEmpty
<1>3. ASSUME NEW i \in 2..N PROVE f[i] = Append(f[i - 1], msgs[i])
  <2>1. SubSeq(msgs, 2, i) = SubSeq(msgs, 2, i - 1) \o <<msgs[i]>>
    BY <1>1, SubSeqRecursiveSecond
  <2>2. SubSeq(msgs, 2, i - 1) \in Seq(Message) /\ msgs[i] \in Message
    BY <1>1, SubSeqProperties, ElementOfSeq
  <2>3. Append(SubSeq(msgs, 2, i - 1), msgs[i]) = SubSeq(msgs, 2, i)
    BY <2>1, <2>2, AppendIsConcat
  <2> QED
    BY <1>1, <2>3
<1>0. f = [i \in 0..N |-> f[i]]
  OBVIOUS
<1> HIDE DEF f
<1>4. ASSUME NEW g, g[0] = <<>>, NEW i \in 1..N, g[i - 1] = f[i - 1]
      PROVE  f[i] = IF msgs[i].role = "system" THEN g[i - 1] ELSE Append(g[i - 1], msgs[i])
  <2>1. CASE i = 1
    BY <1>1, <1>2, <1>4, <2>1
  <2>2. CASE i # 1
    <3>1. i \in 2..N /\ i \in 1..Len(msgs) /\ msgs[i].role # "system"
      BY <1>1, <2>2
    <3>2. f[i] = Append(f[i - 1], msgs[i])
      BY <1>3, <3>1
    <3> QED
      BY <1>4, <3>1, <3>2
  <2> QED
    BY <2>1, <2>2
<1>5. f = Turn(f)
  <2>1. ASSUME NEW i \in 1..N
        PROVE  f[i] = IF msgs[i].role = "system" THEN f[i - 1] ELSE Append(f[i - 1], msgs[i])
    BY <1>2, <1>4
  <2>2. \A i \in 0..N : f[i] = Turn(f)[i]
    BY <1>1, <1>2, <2>1
  <2> QED
    BY <1>0, <2>2
<1>6. k = Turn(k)
  BY <1>5
<1> HIDE DEF k
<1> DEFINE same == {n \in 0..N : k[n] = f[n]}
<1>7. k[0] = <<>> /\ \A i \in 1..N : k[i] = IF msgs[i].role = "system" THEN k[i - 1]
                                            ELSE Append(k[i - 1], msgs[i])
  <2>1. \A i \in 0..N : k[i] = Turn(k)[i]
    BY <1>6
  <2> QED
    BY <1>1, <2>1
<1>8. 0 \in same
  BY <1>1, <1>2, <1>7
<1>9. ASSUME NEW n \in 0..N-1, n \in same PROVE n + 1 \in same
  <2>1. n + 1 \in 1..N /\ n + 1 \in 0..N /\ (n + 1) - 1 = n /\ k[n] = f[n]
    BY <1>1, <1>9
  <2>2. k[n + 1] = IF msgs[n + 1].role = "system" THEN k[n] ELSE Append(k[n], msgs[n + 1])
    BY <1>7, <2>1
  <2>3. f[n + 1] = IF msgs[n + 1].role = "system" THEN k[n] ELSE Append(k[n], msgs[n + 1])
    BY <1>4, <1>7, <2>1
  <2> QED
    BY <2>1, <2>2, <2>3
<1> HIDE DEF same, N
<1>10. N \in same
  <2> DEFINE differ == {n \in 0..N : n \notin same}
  <2> SUFFICES ASSUME differ # {} PROVE FALSE
    BY <1>1
  <2>1. differ \in SUBSET Nat
    BY <1>1
  <2>2. PICK n \in differ : \A m \in differ : n <= m
    BY <2>1, LeastNatural
  <2>3. n \in 0..N /\ n \notin same /\ n # 0
    BY <1>8
  <2>4. n - 1 \in 0..N-1 /\ n - 1 \notin differ
    BY <1>1, <2>2, <2>3
  <2>5. n - 1 \in same
    BY <1>1, <2>4
  <2> QED
    BY <1>1, <1>9, <2>3, <2>4, <2>5
<1>11. Restored(msgs) = k[N]
  BY DEF Restored, k, N
<1> QED
  BY <1>1, <1>10, <1>11 DEF same, f, N

(* Restored after its own prompt, such a conversation is what it was.      *)
LEMMA RestoredWhole ==
  ASSUME NEW msgs \in Seq(Message), msgs # <<>>,
         \A i \in 1..Len(msgs) : msgs[i].role = "system" <=> i = 1
  PROVE  <<System>> \o Restored(msgs) = msgs
<1>1. Len(msgs) \in Nat \ {0} /\ msgs[1] \in Message
  BY EmptySeq, ElementOfSeq
<1>2. msgs[1] = System
  BY <1>1, Roles
<1>3. SubSeq(msgs, 1, Len(msgs)) = <<msgs[1]>> \o SubSeq(msgs, 2, Len(msgs))
  BY <1>1, SubSeqRecursiveFirst
<1> QED
  BY <1>2, <1>3, RestoredIs, SubSeqFull

(* Nothing to restore.                                                     *)
LEMMA RestoredNothing == Restored(<<>>) = <<>>
<1>1. <<>> \in Seq(Message) /\ Len(<<>>) = 0
  OBVIOUS
<1>3. \A i \in 1..Len(<<>>) : <<>>[i].role = "system" <=> i = 1
  BY <1>1
<1>2. Restored(<<>>) = SubSeq(<<>>, 2, Len(<<>>))
  BY <1>1, <1>3, RestoredIs
<1> QED
  BY <1>1, <1>2, SubSeqEmpty

-----------------------------------------------------------------------------
(* Where a compaction cuts.                                                *)

(* The greatest of a set of numbers that has one.                          *)
LEMMA MaxIs ==
  ASSUME NEW S \in SUBSET Nat, NEW n \in Nat, S # {}, \A i \in S : i <= n
  PROVE  Max(S) \in S /\ \A i \in S : i <= Max(S)
<1> DEFINE below == {n - i : i \in S}
<1>1. below \in SUBSET Nat /\ below # {}
  <2>1. \A i \in S : n - i \in Nat /\ n - i \in below
    OBVIOUS
  <2> QED
    BY <2>1
<1>2. PICK least \in below : \A b \in below : least <= b
  BY <1>1, LeastNatural
<1>3. PICK m \in S : least = n - m
  OBVIOUS
<1>4. \A i \in S : m >= i
  <2> SUFFICES ASSUME NEW i \in S PROVE m >= i
    OBVIOUS
  <2>1. n - i \in below
    OBVIOUS
  <2>2. n - m <= n - i
    BY <1>2, <1>3, <2>1
  <2> QED
    BY <2>2
<1>5. Max(S) \in S /\ \A i \in S : Max(S) >= i
  BY <1>4 DEF Max
<1> QED
  BY <1>5

(* The turns are finitely many messages.                                   *)
LEMMA TurnsFinite ==
  ASSUME NEW msgs \in Seq(Message)
  PROVE  /\ Len(msgs) \in Nat
         /\ \A T \in SUBSET (1..Len(msgs)) : IsFiniteSet(T) /\ Cardinality(T) \in Nat
<1>1. Len(msgs) \in Nat
  OBVIOUS
<1>2. IsFiniteSet(1..Len(msgs))
  BY <1>1, FS_Interval
<1>3. ASSUME NEW T \in SUBSET (1..Len(msgs)) PROVE IsFiniteSet(T) /\ Cardinality(T) \in Nat
  BY <1>2, FS_Subset, FS_CardinalityType
<1> QED
  BY <1>1, <1>3

(* It cuts at a turn that fewer than two turns follow, or, where nobody    *)
(* has spoken yet, at the last message.                                    *)
LEMMA KeepFromIs ==
  ASSUME NEW msgs \in Seq(Message)
  PROVE  /\ UserTurns(msgs) = {} => KeepFrom(msgs) = Len(msgs)
         /\ UserTurns(msgs) # {} => KeepFrom(msgs) \in UserTurns(msgs)
         /\ \A i \in UserTurns(msgs) : i < KeepFrom(msgs) =>
              \E j, k \in UserTurns(msgs) : j < k /\ i < j /\ KeepFrom(msgs) <= j
<1> DEFINE T == UserTurns(msgs)
<1>1. /\ T \in SUBSET (1..Len(msgs)) /\ Len(msgs) \in Nat
      /\ T \in SUBSET Nat /\ \A i \in T : i <= Len(msgs)
  BY TurnsFinite DEF UserTurns
<1> HIDE DEF T
<1>2. IsFiniteSet(T) /\ Cardinality(T) \in Nat
  BY <1>1, TurnsFinite
<1>3. T = {} => KeepFrom(msgs) = Len(msgs)
  BY DEF KeepFrom, T
<1>4. ASSUME T # {} PROVE Max(T) \in T /\ \A i \in T : i <= Max(T)
  BY <1>1, <1>4, MaxIs
<1>5. CASE T # {} /\ Cardinality(T) = 1
  <2>1. KeepFrom(msgs) = Max(T)
    BY <1>5 DEF KeepFrom, T
  <2>2. \A i \in T : ~(i < Max(T))
    <3>1. PICK x : T = {x}
      BY <1>2, <1>5, FS_Singleton
    <3> QED
      BY <1>1, <1>4, <1>5, <3>1
  <2> QED
    BY <1>4, <1>5, <2>1, <2>2 DEF T
<1>6. CASE T # {} /\ Cardinality(T) # 1
  <2> DEFINE U == T \ {Max(T)}
  <2>1. KeepFrom(msgs) = Max(U)
    BY <1>6 DEF KeepFrom, T
  <2>2. U # {}
    <3>1. CASE U = {}
      <4>1. T = {Max(T)}
        BY <1>4, <1>6, <3>1
      <4> QED
        BY <1>2, <1>6, <4>1, FS_Singleton
    <3> QED
      BY <3>1
  <2>3. Max(U) \in U /\ \A i \in U : i <= Max(U)
    <3>1. U \in SUBSET Nat /\ \A i \in U : i <= Len(msgs)
      BY <1>1
    <3> HIDE DEF U
    <3> QED
      BY <1>1, <2>2, <3>1, MaxIs
  <2>4. Max(U) \in T /\ Max(U) < Max(T) /\ Max(T) \in T
    <3>1. Max(U) \in T /\ Max(U) # Max(T)
      BY <2>3
    <3>2. Max(T) \in T /\ \A i \in T : i <= Max(T)
      BY <1>4, <1>6
    <3> HIDE DEF U
    <3>3. Max(U) \in Nat /\ Max(T) \in Nat /\ Max(U) <= Max(T)
      BY <1>1, <3>1, <3>2
    <3> QED
      BY <3>1, <3>2, <3>3
  <2>5. ASSUME NEW i \in T, i < KeepFrom(msgs)
        PROVE  \E j, k \in T : j < k /\ i < j /\ KeepFrom(msgs) <= j
    <3> HIDE DEF U
    <3>2. Max(U) \in Nat
      BY <1>1, <2>4
    <3>1. KeepFrom(msgs) <= Max(U) /\ i < Max(U)
      BY <2>1, <2>5, <3>2
    <3> QED
      BY <2>4, <3>1
  <2> QED
    BY <1>6, <2>1, <2>4, <2>5 DEF T
<1> QED
  BY <1>3, <1>5, <1>6 DEF T

(* What is kept begins with a turn after the message the summary replaces, *)
(* and no turn before it is one of the last two.                           *)
LEMMA CompactionKeeps ==
  ASSUME NEW msgs \in Seq(Message), CanCompact(msgs),
         \A i \in 1..Len(msgs) : msgs[i].role = "summary" => i = 2
  PROVE  /\ KeepFrom(msgs) \in 3..Len(msgs)
         /\ KeepsTurns(msgs, Compacted(msgs))
<1> DEFINE T == UserTurns(msgs)
           R == RealTurns(msgs)
           from == KeepFrom(msgs)
<1>1. from \in 3..Len(msgs)
  <2>1. T \in SUBSET (1..Len(msgs)) /\ Len(msgs) \in Nat
    BY TurnsFinite DEF UserTurns
  <2>2. from \in 1..Len(msgs) \/ from = Len(msgs)
    BY <2>1, KeepFromIs
  <2> QED
    BY <2>1, <2>2 DEF CanCompact
<1>2. ASSUME NEW i \in R, Cardinality({j \in R : j > i}) < 2 PROVE i >= from
  <2>1. i \in T /\ i \in 1..Len(msgs)
    BY DEF RealTurns, UserTurns, IsUser
  <2>2. CASE i < from
    <3>1. PICK j, k \in T : j < k /\ i < j /\ from <= j
      BY <2>1, <2>2, KeepFromIs
    <3>2. j \in R /\ k \in R
      <4>1. j \in 1..Len(msgs) /\ k \in 1..Len(msgs) /\ j # 2 /\ k # 2
        BY <1>1, <3>1 DEF UserTurns
      <4> QED
        BY <4>1 DEF RealTurns, UserTurns, IsUser
    <3> DEFINE later == {l \in R : l > i}
    <3>3. later \in SUBSET (1..Len(msgs))
      BY DEF RealTurns
    <3>4. IsFiniteSet(later) /\ Cardinality(later) \in Nat
      BY <3>3, TurnsFinite
    <3>5. {j, k} \in SUBSET later
      BY <2>1, <3>1, <3>2, <3>3 DEF UserTurns
    <3>6. Cardinality({j, k}) = 2
      <4>1. j # k
        BY <3>1 DEF UserTurns
      <4>2. Cardinality({j} \cup {k}) = 2
        <5>1. IsFiniteSet({j}) /\ Cardinality({j}) = 1 /\ k \notin {j}
          BY <4>1, FS_Singleton
        <5>2. Cardinality({j} \cup {k}) = Cardinality({j}) + 1
          BY <5>1, FS_AddElement
        <5> QED
          BY <5>1, <5>2
      <4>3. {j} \cup {k} = {j, k}
        OBVIOUS
      <4> QED
        BY <4>2, <4>3
    <3>7. Cardinality({j, k}) <= Cardinality(later)
      BY <3>4, <3>5, FS_Subset
    <3> QED
      BY <1>2, <3>4, <3>6, <3>7
  <2> QED
    BY <1>1, <2>1, <2>2
<1>3. from \in 2..Len(msgs)
  BY <1>1
<1>4. Compacted(msgs) = <<msgs[1], Summary>> \o SubSeq(msgs, from, Len(msgs))
  BY DEF Compacted
<1> HIDE DEF from, R
<1>5. KeepsTurns(msgs, Compacted(msgs))
  BY <1>2, <1>3, <1>4 DEF KeepsTurns, R
<1> QED
  BY <1>1, <1>5 DEF from

-----------------------------------------------------------------------------
(* What a provider accepts stays so.                                       *)

(* The results of calls, one for each.                                     *)
LEMMA ResultsOf ==
  ASSUME NEW ids \in Seq(CallIds)
  PROVE  /\ Results(ids) \in Seq(Message) /\ Len(Results(ids)) = Len(ids)
         /\ Len(ids) \in Nat
         /\ \A k \in 1..Len(ids) : ids[k] \in CallIds /\ Results(ids)[k] = ToolResult(ids[k])
<1>1. Len(ids) \in Nat /\ \A k \in 1..Len(ids) : ids[k] \in CallIds
  BY LenProperties, ElementOfSeq
<1>2. Results(ids) \in [1..Len(ids) -> Message]
  BY <1>1, Roles DEF Results
<1>3. Results(ids) \in Seq(Message)
  BY <1>1, <1>2
<1>4. Len(Results(ids)) = Len(ids)
  BY <1>1, <1>2, <1>3, LenProperties
<1> QED
  BY <1>1, <1>3, <1>4 DEF Results

(* What a message needs comes with and before it: it keeps fitting in when *)
(* more is said.                                                           *)
LEMMA StillFits ==
  ASSUME NEW msgs, NEW new, Len(msgs) \in Nat, Len(new) \in Nat, Len(msgs) <= Len(new),
         \A i \in 1..Len(msgs) : new[i] = msgs[i],
         NEW i \in 1..Len(msgs), Fits(msgs, i)
  PROVE  Fits(new, i)
<1>1. ASSUME Answered(msgs, i, Len(msgs[i].calls)) PROVE Answered(new, i, Len(msgs[i].calls))
  <2> SUFFICES ASSUME NEW k \in 1..Len(msgs[i].calls)
               PROVE  i + k <= Len(new) /\ new[i + k] = ToolResult(msgs[i].calls[k])
    BY DEF Answered
  <2>1. i + k <= Len(msgs) /\ msgs[i + k] = ToolResult(msgs[i].calls[k])
    BY <1>1 DEF Answered
  <2>2. i + k \in 1..Len(msgs)
    BY <2>1
  <2> QED
    BY <2>1, <2>2
<1>2. \A j \in 1..i-1 : j \in 1..Len(msgs) /\ new[j] = msgs[j]
  OBVIOUS
<1> QED
  BY <1>1, <1>2 DEF Fits

(* The user speaks.                                                        *)
LEMMA UserSpeaks ==
  ASSUME NEW msgs \in Seq(Message), msgs # <<>>, WellFormed(msgs)
  PROVE  WellFormed(Append(msgs, User))
<1> DEFINE n == Len(msgs)
           new == Append(msgs, User)
<1>1. n \in Nat \ {0} /\ Len(new) = n + 1
  BY EmptySeq, Appended, Roles
<1>2. \A i \in 1..n : new[i] = msgs[i]
  BY Appended, Roles
<1>3. new[n + 1].role = "user"
  BY Appended, Roles
<1> HIDE DEF new
<1>4. \A i \in 1..n : Fits(new, i)
  BY <1>1, <1>2, StillFits DEF WellFormed
<1>5. Fits(new, n + 1)
  BY <1>1, <1>3 DEF Fits
<1>6. WellFormed(new)
  BY <1>1, <1>4, <1>5 DEF WellFormed
<1> QED
  BY <1>6 DEF new

(* The model replies, and its calls will be answered one by one.           *)
LEMMA ModelReplies ==
  ASSUME NEW msgs \in Seq(Message), msgs # <<>>, WellFormed(msgs), NEW ids \in Reply
  PROVE  WellFormed(Append(msgs, Assistant(ids)) \o Results(ids))
<1> DEFINE n == Len(msgs)
           said == Append(msgs, Assistant(ids))
           new == said \o Results(ids)
           L == Len(ids)
<1>0. ids \in Seq(CallIds) /\ Assistant(ids) \in Message
  BY ReplyType, Roles
<1>1. /\ n \in Nat \ {0} /\ L \in Nat
      /\ said \in Seq(Message) /\ Len(said) = n + 1
      /\ Results(ids) \in Seq(Message) /\ Len(Results(ids)) = L
  BY <1>0, EmptySeq, Appended, ResultsOf
<1>2. /\ Len(new) = n + 1 + L
      /\ \A i \in 1..n+1+L : new[i] = IF i <= n + 1 THEN said[i] ELSE Results(ids)[i - (n + 1)]
  <2> DEFINE R == Results(ids)
  <2>1. said \in Seq(Message) /\ R \in Seq(Message) /\ Len(said) = n + 1 /\ Len(R) = L
    BY <1>1
  <2> HIDE DEF said, R, n, L
  <2>2. /\ Len(said \o R) = Len(said) + Len(R)
        /\ \A i \in 1..Len(said)+Len(R) :
             (said \o R)[i] = IF i <= Len(said) THEN said[i] ELSE R[i - Len(said)]
    BY <2>1, ConcatProperties
  <2> QED
    BY <2>1, <2>2 DEF R
<1>3. \A i \in 1..n : new[i] = msgs[i]
  BY <1>0, <1>1, <1>2, Appended
<1>4. new[n + 1] = Assistant(ids)
  BY <1>0, <1>1, <1>2, Appended
<1>5. ASSUME NEW k \in 1..L PROVE new[n + 1 + k] = ToolResult(ids[k]) /\ ids[k] \in CallIds
  <2>1. n + 1 + k \in 1..n+1+L /\ ~(n + 1 + k <= n + 1) /\ (n + 1 + k) - (n + 1) = k
    BY <1>1
  <2>2. new[n + 1 + k] = Results(ids)[k]
    BY <1>2, <2>1
  <2> QED
    BY <1>0, <2>2, ResultsOf
<1> HIDE DEF new, said, L
<1>6. \A i \in 1..n : Fits(new, i)
  <2>1. Len(msgs) \in Nat /\ Len(new) \in Nat /\ Len(msgs) <= Len(new)
    BY <1>1, <1>2
  <2>2. \A i \in 1..Len(msgs) : new[i] = msgs[i] /\ Fits(msgs, i)
    BY <1>3 DEF WellFormed
  <2> QED
    BY <2>1, <2>2, StillFits
<1>7. Fits(new, n + 1)
  <2>1. new[n + 1].role = "assistant" /\ new[n + 1].calls = ids
    BY <1>4, Roles
  <2>2. Answered(new, n + 1, Len(ids))
    BY <1>1, <1>2, <1>5, <2>1 DEF Answered, L
  <2> QED
    BY <1>1, <2>1, <2>2 DEF Fits
<1>8. ASSUME NEW k \in 1..L PROVE Fits(new, n + 1 + k)
  <2>1. new[n + 1 + k].role = "tool"
    BY <1>5, Roles
  <2>2. new[n + 1].role = "assistant" /\ new[n + 1].calls = ids
    BY <1>4, Roles
  <2>3. /\ n + 1 \in 1..(n + 1 + k)-1 /\ (n + 1 + k) - (n + 1) <= Len(ids)
        /\ n + 1 + k # 1
    BY <1>1 DEF L
  <2> QED
    BY <2>1, <2>2, <2>3 DEF Fits
<1>9. ASSUME NEW i \in 1..n+1+L PROVE Fits(new, i)
  <2>1. i \in 1..n \/ i = n + 1 \/ (i - (n + 1) \in 1..L /\ n + 1 + (i - (n + 1)) = i)
    BY <1>1
  <2> QED
    BY <1>6, <1>7, <1>8, <2>1
<1>10. WellFormed(new)
  BY <1>2, <1>9 DEF WellFormed
<1> QED
  BY <1>10 DEF new, said

(* A tool's result takes the place kept for it.                            *)
LEMMA ToolAnswers ==
  ASSUME NEW msgs \in Seq(Message), NEW open \in Seq(CallIds), open # <<>>
  PROVE  /\ ToolResult(Head(open)) \in Message /\ Tail(open) \in Seq(CallIds)
         /\ Len(Tail(open)) = Len(open) - 1 /\ Len(open) \in Nat
         /\ Append(msgs, ToolResult(Head(open))) \o Results(Tail(open)) = msgs \o Results(open)
<1> DEFINE n == Len(msgs)
           L == Len(open)
           m == ToolResult(Head(open))
           said == Append(msgs, m)
           R == Results(open)
           Q == Results(Tail(open))
<1>1. /\ L \in Nat \ {0} /\ n \in Nat /\ Head(open) = open[1] /\ Head(open) \in CallIds
      /\ Tail(open) \in Seq(CallIds) /\ Len(Tail(open)) = L - 1
      /\ \A i \in 1..L-1 : Tail(open)[i] = open[i + 1]
  BY EmptySeq, HeadTailProperties
<1>2. /\ R \in Seq(Message) /\ Len(R) = L /\ \A k \in 1..L : R[k] = ToolResult(open[k])
      /\ Q \in Seq(Message) /\ Len(Q) = L - 1
      /\ \A k \in 1..L-1 : Q[k] = ToolResult(open[k + 1])
  <2>1. R \in Seq(Message) /\ Len(R) = L /\ \A k \in 1..L : R[k] = ToolResult(open[k])
    BY ResultsOf
  <2>2. /\ Q \in Seq(Message) /\ Len(Q) = Len(Tail(open))
        /\ \A k \in 1..Len(Tail(open)) : Q[k] = ToolResult(Tail(open)[k])
    BY <1>1, ResultsOf
  <2> QED
    BY <1>1, <2>1, <2>2
<1>3. m \in Message /\ said \in Seq(Message) /\ Len(said) = n + 1
      /\ said[n + 1] = R[1] /\ \A i \in 1..n : said[i] = msgs[i]
  BY <1>1, <1>2, Roles, Appended
<1> HIDE DEF n, L, m, said, R, Q
<1>4. /\ msgs \o R \in Seq(Message) /\ Len(msgs \o R) = n + L
      /\ \A i \in 1..n+L : (msgs \o R)[i] = IF i <= n THEN msgs[i] ELSE R[i - n]
  BY <1>1, <1>2, ConcatProperties DEF n
<1>5. /\ said \o Q \in Seq(Message) /\ Len(said \o Q) = n + 1 + (L - 1)
      /\ \A i \in 1..n+1+(L-1) : (said \o Q)[i] = IF i <= n + 1 THEN said[i] ELSE Q[i - (n + 1)]
  <2>1. /\ said \o Q \in Seq(Message) /\ Len(said \o Q) = Len(said) + Len(Q)
        /\ \A i \in 1..Len(said)+Len(Q) :
             (said \o Q)[i] = IF i <= Len(said) THEN said[i] ELSE Q[i - Len(said)]
    BY <1>2, <1>3, ConcatProperties
  <2> QED
    BY <1>2, <1>3, <2>1
<1>6. ASSUME NEW i \in 1..n+L PROVE (said \o Q)[i] = (msgs \o R)[i]
  <2>0. i \in 1..n+1+(L-1)
    BY <1>1
  <2>1. CASE i <= n
    BY <1>1, <1>3, <1>4, <1>5, <2>0, <2>1
  <2>2. CASE i = n + 1
    <3>1. i - n = 1 /\ ~(i <= n)
      BY <1>1, <2>2
    <3> QED
      BY <1>3, <1>4, <1>5, <2>0, <2>2, <3>1
  <2>3. CASE i > n + 1
    <3>1. /\ i - (n + 1) \in 1..L-1 /\ i - n \in 1..L /\ (i - (n + 1)) + 1 = i - n
          /\ ~(i <= n) /\ ~(i <= n + 1)
      BY <1>1, <2>3
    <3>2. (said \o Q)[i] = Q[i - (n + 1)] /\ (msgs \o R)[i] = R[i - n]
      BY <1>4, <1>5, <2>0, <3>1
    <3> QED
      BY <1>2, <3>1, <3>2
  <2>4. i <= n \/ i = n + 1 \/ i > n + 1
    BY <1>1
  <2> QED
    BY <2>1, <2>2, <2>3, <2>4
<1>7. said \o Q = msgs \o R
  <2>1. Len(said \o Q) = Len(msgs \o R) /\ Len(said \o Q) = n + L
    BY <1>1, <1>4, <1>5
  <2> QED
    BY <1>4, <1>5, <1>6, <2>1, SeqEqual
<1> QED
  BY <1>1, <1>3, <1>7 DEF L, m, said, R, Q

(* A conversation of the system message alone.                             *)
LEMMA Beginning == <<System>> \in Seq(Message) /\ WellFormed(<<System>>)
<1>1. <<System>> \in Seq(Message) /\ Len(<<System>>) = 1 /\ <<System>>[1] = System
  BY Roles
<1>2. Fits(<<System>>, 1)
  BY <1>1, Roles DEF Fits
<1> QED
  BY <1>1, <1>2 DEF WellFormed

(* Cut at a turn, a conversation leaves no call and no result alone.       *)
LEMMA CutAtTurn ==
  ASSUME NEW msgs \in Seq(Message), WellFormed(msgs),
         NEW from \in 3..Len(msgs), IsUser(msgs[from])
  PROVE  WellFormed(<<msgs[1], Summary>> \o SubSeq(msgs, from, Len(msgs)))
<1> DEFINE n == Len(msgs)
           head == <<msgs[1], Summary>>
           kept == SubSeq(msgs, from, n)
           new == head \o kept
           d == from - 3
<1>1. n \in Nat /\ \A i \in 1..n : msgs[i] \in Message
  BY LenProperties, ElementOfSeq
<1>2. /\ kept \in Seq(Message) /\ Len(kept) = n - from + 1
      /\ \A i \in 1..n-from+1 : kept[i] = msgs[from + i - 1]
  BY <1>1, SubSeqProperties
<1>3. head \in Seq(Message) /\ Len(head) = 2 /\ head[1] = msgs[1] /\ head[2] = Summary
  BY <1>1, Roles
<1> HIDE DEF head, kept, n
<1>4. /\ Len(new) = 2 + (n - from + 1)
      /\ \A i \in 1..2+(n-from+1) : new[i] = IF i <= 2 THEN head[i] ELSE kept[i - 2]
  <2>1. /\ Len(new) = Len(head) + Len(kept)
        /\ \A i \in 1..Len(head)+Len(kept) :
             new[i] = IF i <= Len(head) THEN head[i] ELSE kept[i - Len(head)]
    BY <1>2, <1>3, ConcatProperties
  <2> QED
    BY <1>2, <1>3, <2>1
<1>5. /\ d \in Nat /\ Len(new) = n - d /\ n - d >= 3
      /\ new[1] = msgs[1] /\ new[2] = Summary
      /\ \A i \in 3..n-d : new[i] = msgs[i + d]
  <2>1. d \in Nat /\ n - d >= 3 /\ 2 + (n - from + 1) = n - d
    BY <1>1 DEF n
  <2>2. new[1] = msgs[1] /\ new[2] = Summary
    BY <1>3, <1>4, <2>1
  <2>3. ASSUME NEW i \in 3..n-d PROVE new[i] = msgs[i + d]
    <3>1. /\ i \in 1..2+(n-from+1) /\ ~(i <= 2) /\ i - 2 \in 1..n-from+1
          /\ from + (i - 2) - 1 = i + d
      BY <1>1, <2>1
    <3> QED
      BY <1>2, <1>4, <3>1
  <2> QED
    BY <1>4, <2>1, <2>2, <2>3
<1>6. \A i \in 1..n : Fits(msgs, i)
  BY DEF WellFormed, n
<1>7. msgs[from].role \in {"user", "summary"} /\ from \in 3..n
  BY DEF IsUser, n
<1> HIDE DEF new, d
<1>8. Fits(new, 1)
  <2>1. msgs[1].role = "system"
    BY <1>1, <1>6, <1>7 DEF Fits
  <2> QED
    BY <1>5, <2>1 DEF Fits
<1>9. Fits(new, 2)
  BY <1>5, Roles DEF Fits
<1>10. ASSUME NEW i \in 3..n-d PROVE Fits(new, i)
  <2>1. /\ i + d \in 1..n /\ i + d >= from /\ i + d # 1 /\ i # 1
        /\ new[i] = msgs[i + d] /\ Fits(msgs, i + d)
    <3>1. i + d \in 1..n /\ i + d >= from /\ i + d # 1 /\ i # 1
      BY <1>1, <1>5, <1>7 DEF d
    <3> QED
      BY <1>5, <1>6, <3>1
  <2>2. new[i].role # "system"
    BY <2>1 DEF Fits
  <2>3. ASSUME new[i].role = "assistant" PROVE Answered(new, i, Len(new[i].calls))
    <3> SUFFICES ASSUME NEW k \in 1..Len(new[i].calls)
                 PROVE  i + k <= Len(new) /\ new[i + k] = ToolResult(new[i].calls[k])
      BY DEF Answered
    <3>1. (i + d) + k <= n /\ msgs[(i + d) + k] = ToolResult(new[i].calls[k])
      BY <2>1, <2>3 DEF Fits, Answered, n
    <3>2. k \in Nat /\ n \in Nat /\ d \in Nat
      BY <1>1, <1>5
    <3>3. i + k \in 3..n-d /\ (i + d) + k = (i + k) + d
      BY <3>1, <3>2
    <3>4. new[i + k] = msgs[(i + k) + d] /\ i + k <= n - d
      BY <1>5, <3>2, <3>3
    <3>5. new[i + k] = ToolResult(new[i].calls[k])
      BY <3>1, <3>3, <3>4
    <3> QED
      BY <1>5, <3>4, <3>5
  <2>4. ASSUME new[i].role = "tool"
        PROVE  \E j \in 1..i-1 : new[j].role = "assistant" /\ i - j <= Len(new[j].calls)
    <3>1. PICK j \in 1..(i+d)-1 : msgs[j].role = "assistant" /\ (i + d) - j <= Len(msgs[j].calls)
      BY <2>1, <2>4 DEF Fits
    <3>2. Len(msgs[j].calls) \in Nat
      <4>1. j \in 1..n
        BY <1>1, <2>1, <3>1
      <4>2. msgs[j].calls \in Seq(CallIds)
        BY <4>1, Roles DEF n
      <4> QED
        BY <4>2, LenProperties
    <3>3. CASE j < from
      <4>1. /\ j \in 1..n /\ from - j \in 1..Len(msgs[j].calls) /\ j + (from - j) = from
        <5>1. from \in Nat /\ from <= n /\ n \in Nat /\ j \in Nat /\ i + d \in Nat
          BY <1>1, <1>7, <2>1, <3>1
        <5>2. from - j <= Len(msgs[j].calls) /\ from - j >= 1
          BY <2>1, <3>1, <3>2, <3>3, <5>1
        <5>3. from - j \in 1..Len(msgs[j].calls)
          BY <3>2, <5>1, <5>2
        <5>4. j \in 1..n /\ j + (from - j) = from
          BY <3>3, <5>1
        <5> QED
          BY <5>3, <5>4
      <4>2. msgs[from] = ToolResult(msgs[j].calls[from - j])
        <5>1. Answered(msgs, j, Len(msgs[j].calls))
          BY <1>6, <3>1, <4>1 DEF Fits
        <5>2. msgs[j + (from - j)] = ToolResult(msgs[j].calls[from - j])
          BY <4>1, <5>1 DEF Answered
        <5> QED
          BY <4>1, <5>2
      <4>3. msgs[from].role = "tool"
        BY <4>2 DEF ToolResult
      <4> QED
        BY <1>7, <4>3
    <3>4. CASE ~(j < from)
      <4>1. j - d \in 3..n-d /\ (j - d) + d = j /\ j - d \in 1..i-1 /\ i - (j - d) = (i + d) - j
        <5>1. n \in Nat /\ j \in 1..(i+d)-1 /\ i + d \in 1..n /\ from \in 3..n /\ ~(j < from)
          BY <1>1, <1>7, <2>1, <3>4
        <5> QED
          BY <5>1 DEF d
      <4>2. new[j - d] = msgs[j]
        BY <1>5, <4>1
      <4> QED
        BY <3>1, <4>1, <4>2
    <3> QED
      BY <3>3, <3>4
  <2> QED
    BY <2>1, <2>2, <2>3, <2>4 DEF Fits
<1>11. WellFormed(new)
  <2>1. \A i \in 1..n-d : i = 1 \/ i = 2 \/ i \in 3..n-d
    BY <1>1, <1>5
  <2> QED
    BY <1>5, <1>8, <1>9, <1>10, <2>1 DEF WellFormed
<1> QED
  BY <1>11 DEF new, head, kept, n

-----------------------------------------------------------------------------
(* Types, phases and the shape of the conversation.                        *)

(* What is said after the system message keeps the shape.                  *)
LEMMA ShapeSaid ==
  ASSUME NEW msgs \in Seq(Message), msgs # <<>>, Shaped(msgs),
         NEW m \in Message, m.role \notin {"system", "summary"}
  PROVE  Shaped(Append(msgs, m))
<1> DEFINE n == Len(msgs)
           new == Append(msgs, m)
<1>1. n \in Nat \ {0} /\ Len(new) = n + 1 /\ new[n + 1] = m /\ \A i \in 1..n : new[i] = msgs[i]
  BY EmptySeq, Appended
<1> HIDE DEF new
<1>2. \A i \in 1..n+1 : i \in 1..n \/ i = n + 1
  BY <1>1
<1>3. Shaped(new)
  BY <1>1, <1>2 DEF Shaped
<1> QED
  BY <1>3 DEF new

(* The first message is the system message.                                *)
LEMMA ShapeFirst ==
  ASSUME NEW msgs \in Seq(Message), msgs # <<>>, Shaped(msgs)
  PROVE  /\ Len(msgs) \in Nat \ {0} /\ msgs[1] = System
         /\ SubSeq(msgs, 1, 1) = <<System>>
<1>1. Len(msgs) \in Nat \ {0} /\ msgs[1] \in Message
  BY EmptySeq, ElementOfSeq
<1>2. msgs[1] = System
  BY <1>1, Roles DEF Shaped
<1>3. SubSeq(msgs, 1, 1) = <<msgs[1]>>
  <2>1. /\ SubSeq(msgs, 1, 1) \in Seq(Message) /\ Len(SubSeq(msgs, 1, 1)) = 1
        /\ SubSeq(msgs, 1, 1)[1] = msgs[1]
    <3>1. 1 \in Int /\ 1 <= 1 /\ 1 \in 1..1-1+1 /\ \A i \in 1..1 : msgs[i] \in Message
      BY <1>1
    <3> QED
      BY <3>1, SubSeqProperties
  <2>2. <<msgs[1]>> \in Seq(Message) /\ Len(<<msgs[1]>>) = 1 /\ <<msgs[1]>>[1] = msgs[1]
    BY <1>1
  <2> DEFINE a == SubSeq(msgs, 1, 1)
             b == <<msgs[1]>>
  <2> HIDE DEF a, b
  <2>3. a \in Seq(Message) /\ b \in Seq(Message) /\ Len(a) = Len(b) /\ \A i \in 1..Len(a) : a[i] = b[i]
    BY <2>1, <2>2 DEF a, b
  <2>4. a = b
    BY <2>3, SeqEqual
  <2> QED
    BY <2>4 DEF a, b
<1> QED
  BY <1>1, <1>2, <1>3

(* A conversation that is resumed is the one it was, or only begins.       *)
LEMMA Resumed ==
  ASSUME NEW msgs \in Seq(Message), Shaped(msgs), NEW history \in {<<>>, msgs}
  PROVE  <<System>> \o Restored(history) = IF history = <<>> THEN <<System>> ELSE history
<1>1. CASE history = <<>>
  <2>1. <<System>> \o <<>> = <<System>>
    BY Beginning, ConcatEmptySeq
  <2> QED
    BY <1>1, <2>1, RestoredNothing
<1>2. CASE history # <<>>
  BY <1>2, RestoredWhole DEF Shaped
<1> QED
  BY <1>1, <1>2

(* A new conversation is in shape, and so is a compacted one.              *)
LEMMA ShapeNew == Shaped(<<System>>)
<1>1. Len(<<System>>) = 1 /\ <<System>>[1] = System
  OBVIOUS
<1> QED
  BY <1>1, Roles DEF Shaped

(* A compaction gives a conversation in shape, whose second message is the *)
(* summary.                                                                *)
LEMMA ShapeCompacted ==
  ASSUME NEW msgs \in Seq(Message), Shaped(msgs), CanCompact(msgs)
  PROVE  /\ Compacted(msgs) \in Seq(Message) /\ Shaped(Compacted(msgs))
         /\ Len(Compacted(msgs)) \in Nat /\ Len(Compacted(msgs)) > 1
         /\ Compacted(msgs)[2] = Summary
<1> DEFINE n == Len(msgs)
           from == KeepFrom(msgs)
           head == <<msgs[1], Summary>>
           kept == SubSeq(msgs, from, n)
           new == head \o kept
<1>1. from \in 3..n
  BY CompactionKeeps DEF Shaped
<1>2. n \in Nat /\ \A i \in 1..n : msgs[i] \in Message
  BY LenProperties, ElementOfSeq
<1> HIDE DEF from, n
<1>3. /\ kept \in Seq(Message) /\ Len(kept) = n - from + 1
      /\ \A i \in 1..n-from+1 : kept[i] = msgs[from + i - 1]
  <2>1. from \in Int /\ n \in Int /\ from <= n /\ \A i \in from..n : msgs[i] \in Message
    BY <1>1, <1>2
  <2> QED
    BY <2>1, SubSeqProperties
<1>4. head \in Seq(Message) /\ Len(head) = 2 /\ head[1] = msgs[1] /\ head[2] = Summary
  BY <1>1, <1>2, Roles
<1> HIDE DEF head, kept
<1>5. /\ new \in Seq(Message) /\ Len(new) = 2 + (n - from + 1)
      /\ \A i \in 1..2+(n-from+1) : new[i] = IF i <= 2 THEN head[i] ELSE kept[i - 2]
  <2>1. /\ new \in Seq(Message) /\ Len(new) = Len(head) + Len(kept)
        /\ \A i \in 1..Len(head)+Len(kept) :
             new[i] = IF i <= Len(head) THEN head[i] ELSE kept[i - Len(head)]
    BY <1>3, <1>4, ConcatProperties
  <2> QED
    BY <1>3, <1>4, <2>1
<1>6. new[1] = msgs[1] /\ new[2] = Summary
  BY <1>1, <1>2, <1>4, <1>5
<1>7. msgs[1].role = "system" /\ \A i \in from..n : msgs[i].role \notin {"system", "summary"}
  BY <1>1, <1>2 DEF Shaped, n
<1>8. ASSUME NEW i \in 3..2+(n-from+1) PROVE new[i].role \notin {"system", "summary"}
  <2>1. /\ i \in 1..2+(n-from+1) /\ ~(i <= 2) /\ i - 2 \in 1..n-from+1
        /\ from + (i - 2) - 1 \in from..n
    BY <1>1, <1>2
  <2>2. new[i] = msgs[from + (i - 2) - 1]
    BY <1>3, <1>5, <2>1
  <2> QED
    BY <1>7, <2>1, <2>2
<1> HIDE DEF new
<1>9. Shaped(new)
  <2>1. \A i \in 1..2+(n-from+1) : i = 1 \/ i = 2 \/ (i \in 3..2+(n-from+1) /\ i # 1 /\ i # 2)
    BY <1>1, <1>2
  <2> QED
    BY <1>5, <1>6, <1>7, <1>8, <2>1, Roles DEF Shaped
<1>10. Compacted(msgs) = new
  BY DEF Compacted, new, head, kept, from, n
<1> QED
  BY <1>1, <1>2, <1>5, <1>6, <1>9, <1>10

-----------------------------------------------------------------------------
(* The steps, as far as types, phases, limits and skills go.               *)

Core == TypeOK /\ PhaseInv /\ ShapeInv /\ LimitsMatchModel /\ SkillToolsFollowSession

(* A count that goes up is a count.                                        *)
LEMMA HeardType ==
  ASSUME TypeOK, NEW event \in {"asked", "called", "returned"}, Hear(event)
  PROVE  /\ heard' \in [session : {"unknown", "open", "closed"}, compacted : BOOLEAN,
                       counting : BOOLEAN, asked : Nat, called : Nat, returned : Nat]
         /\ heard'.session = heard.session /\ heard'.compacted = heard.compacted
         /\ heard'.counting = heard.counting
         /\ heard'.asked = heard.asked + (IF event = "asked" THEN 1 ELSE 0)
         /\ heard'.called = heard.called + (IF event = "called" THEN 1 ELSE 0)
         /\ heard'.returned = heard.returned + (IF event = "returned" THEN 1 ELSE 0)
<1>1. CASE event = "asked"
  BY <1>1 DEF TypeOK, Hear
<1>2. CASE event = "called"
  <2>1. heard' = [heard EXCEPT !.called = heard.called + 1]
    BY <1>2 DEF Hear
  <2>2. /\ heard.session \in {"unknown", "open", "closed"} /\ heard.compacted \in BOOLEAN
        /\ heard.counting \in BOOLEAN
        /\ heard.asked \in Nat /\ heard.called \in Nat /\ heard.returned \in Nat
    BY DEF TypeOK
  <2>3. /\ heard'.session = heard.session /\ heard'.compacted = heard.compacted
        /\ heard'.counting = heard.counting /\ heard'.asked = heard.asked
        /\ heard'.called = heard.called + (IF event = "called" THEN 1 ELSE 0)
        /\ heard'.returned = heard.returned + (IF event = "returned" THEN 1 ELSE 0)
    BY <1>2, <2>1, <2>2 DEF TypeOK
  <2>4. heard' \in [session : {"unknown", "open", "closed"}, compacted : BOOLEAN,
                   counting : BOOLEAN, asked : Nat, called : Nat, returned : Nat]
    <3>1. heard \in [session : {"unknown", "open", "closed"}, compacted : BOOLEAN,
                    counting : BOOLEAN, asked : Nat, called : Nat, returned : Nat]
      BY DEF TypeOK
    <3>2. heard.called + 1 \in Nat
      BY <2>2
    <3> QED
      BY <2>1, <3>1, <3>2
  <2> QED
    BY <1>2, <2>2, <2>3, <2>4
<1>3. CASE event = "returned"
  <2>1. heard' = [heard EXCEPT !.returned = heard.returned + 1]
    BY <1>3 DEF Hear
  <2>2. /\ heard.session \in {"unknown", "open", "closed"} /\ heard.compacted \in BOOLEAN
        /\ heard.counting \in BOOLEAN
        /\ heard.asked \in Nat /\ heard.called \in Nat /\ heard.returned \in Nat
    BY DEF TypeOK
  <2>3. /\ heard'.session = heard.session /\ heard'.compacted = heard.compacted
        /\ heard'.counting = heard.counting /\ heard'.asked = heard.asked
        /\ heard'.called = heard.called + (IF event = "called" THEN 1 ELSE 0)
        /\ heard'.returned = heard.returned + (IF event = "returned" THEN 1 ELSE 0)
    BY <1>3, <2>1, <2>2 DEF TypeOK
  <2>4. heard' \in [session : {"unknown", "open", "closed"}, compacted : BOOLEAN,
                   counting : BOOLEAN, asked : Nat, called : Nat, returned : Nat]
    <3>1. heard \in [session : {"unknown", "open", "closed"}, compacted : BOOLEAN,
                    counting : BOOLEAN, asked : Nat, called : Nat, returned : Nat]
      BY DEF TypeOK
    <3>2. heard.returned + 1 \in Nat
      BY <2>2
    <3> QED
      BY <2>1, <3>1, <3>2
  <2> QED
    BY <1>3, <2>2, <2>3, <2>4
<1> QED
  BY <1>1, <1>2, <1>3

(* Limits that are loaded are those of the model in use.                   *)
LEMMA LimitsLoaded ==
  ASSUME TypeOK, LimitsMatchModel, LoadLimits, UNCHANGED model
  PROVE  /\ info' \in Models \cup {NoModel} /\ threshold' \in Nat
         /\ info' \in {NoModel, model'}
         /\ threshold' = IF info' = NoModel THEN 0 ELSE CompactionThreshold(ContextSize[info'])
<1>1. \A size \in Nat : CompactionThreshold(size) \in Nat
  <2> SUFFICES ASSUME NEW size \in Nat PROVE CompactionThreshold(size) \in Nat
    OBVIOUS
  <2> DEFINE percent == IF ThresholdPercent = 0 THEN 85 ELSE ThresholdPercent
  <2>1. percent \in Nat
    BY AgentAssumption
  <2> HIDE DEF percent
  <2>2. size * percent \in Nat
    BY <2>1
  <2>3. (size * percent) \div 100 \in Nat
    BY <2>2
  <2> QED
    BY <2>3 DEF CompactionThreshold, percent
<1>2. ContextSize[model] \in Nat /\ model # NoModel
  BY AgentAssumption DEF TypeOK
<1> QED
  BY <1>1, <1>2 DEF TypeOK, LimitsMatchModel, LoadLimits

(* Sessions begin, are resumed, reset and closed.                          *)
LEMMA CoreSessions ==
  ASSUME Core, Sessions
  PROVE  Core'
<1> USE DEF Core, TypeOK, PhaseInv, ShapeInv, LimitsMatchModel, SkillToolsFollowSession,
            roundVars, modelVars, skillVars
<1>1. ASSUME NEW collection \in {"none", "empty", "full"}, NEW history \in {<<>>, messages},
             StartSession(collection, history)
      PROVE  Core'
  <2>1. messages' \in Seq(Message) /\ Shaped(messages') /\ messages' # <<>>
    <3>1. messages' = IF history = <<>> THEN <<System>> ELSE history
      BY <1>1, Resumed DEF StartSession
    <3> QED
      BY <3>1, Beginning, ShapeNew
  <2>2. /\ skills' \in {"none", "empty", "full"} /\ skillTools' \in {"none", "mine", "other"}
        /\ skillTools' = "mine" <=> skills' = "full"
    BY <1>1 DEF StartSession, Unregistered
  <2>3. heard' \in [session : {"unknown", "open", "closed"}, compacted : BOOLEAN,
                   counting : BOOLEAN, asked : Nat, called : Nat, returned : Nat]
    BY <1>1 DEF StartSession, HearSession
  <2>4. UNCHANGED <<pc, roundVars, modelVars>> /\ pc = "idle"
    BY <1>1 DEF StartSession
  <2> QED
    BY <2>1, <2>2, <2>3, <2>4
<1>2. CASE ResetSession
  <2>1. messages' \in Seq(Message) /\ Shaped(messages') /\ messages' # <<>>
    <3>1. messages' = <<System>>
      BY <1>2, ShapeFirst DEF ResetSession
    <3>2. <<System>> # <<>>
      OBVIOUS
    <3> QED
      BY <3>1, <3>2, Beginning, ShapeNew
  <2> QED
    BY <1>2, <2>1 DEF ResetSession, HearSession
<1>3. CASE Close
  <2>1. messages' \in Seq(Message) /\ Shaped(messages')
    BY <1>3 DEF Close, Shaped
  <2> QED
    BY <1>3, <2>1 DEF Close, HearSession, Unregistered
<1>4. CASE SetFeedback
  BY <1>4 DEF SetFeedback, NothingHeard
<1> QED
  BY <1>1, <1>2, <1>3, <1>4 DEF Sessions

(* What the conversation gains while a round goes on.                      *)
LEMMA CoreSaid ==
  ASSUME Core, NEW m \in Message, m.role \notin {"system", "summary"}, messages # <<>>
  PROVE  /\ Append(messages, m) \in Seq(Message) /\ Append(messages, m) # <<>>
         /\ Shaped(Append(messages, m))
  BY ShapeSaid, Appended DEF Core, TypeOK, ShapeInv

(* The steps of a round and of a compaction.                               *)
LEMMA CoreRound ==
  ASSUME Core, Round \/ \E hasInput \in BOOLEAN : Process(hasInput)
  PROVE  Core'
<1> USE AgentAssumption
<1> USE DEF Core, TypeOK, PhaseInv, ShapeInv, LimitsMatchModel, SkillToolsFollowSession,
            roundVars, modelVars, skillVars
<1>1. CASE Check \/ ChatFails \/ NextIteration \/ SummaryFails
  <2>1. /\ UNCHANGED <<messages, pending, start, callCount, tokens, response>>
        /\ UNCHANGED <<modelVars, skillVars, heard>>
        /\ pending = <<>> /\ messages # <<>>
        /\ pc' \in {"idle", "chat", "check"} /\ iteration' \in Nat
    <3>1. CASE Check
      BY <3>1 DEF Check
    <3>2. CASE ChatFails
      BY <3>2 DEF ChatFails
    <3>3. CASE NextIteration
      BY <3>3 DEF NextIteration
    <3>4. CASE SummaryFails
      BY <3>4 DEF SummaryFails
    <3> QED
      BY <1>1, <3>1, <3>2, <3>3, <3>4
  <2> QED
    BY <2>1
<1>2. ASSUME NEW total \in TokenCounts, FinalReply(total) PROVE Core'
  <2>1. <<>> \in Reply /\ pc = "chat" /\ messages # <<>>
    BY <1>2 DEF FinalReply, Reply
  <2>2. messages' \in Seq(Message) /\ messages' # <<>> /\ Shaped(messages')
    BY <1>2, <2>1, CoreSaid, Roles DEF FinalReply
  <2>3. response' \in [iterations : Int, toolCalls : Int]
    BY <1>2 DEF FinalReply
  <2> QED
    BY <1>2, <2>1, <2>2, <2>3 DEF FinalReply
<1>3. ASSUME NEW total \in TokenCounts, NEW ids \in CallLists, ToolReply(ids, total) PROVE Core'
  <2>1. ids \in Reply /\ ids \in Seq(CallIds) /\ pc = "chat" /\ messages # <<>>
    BY <1>3, ReplyType DEF ToolReply, Reply
  <2>2. messages' \in Seq(Message) /\ messages' # <<>> /\ Shaped(messages')
    BY <1>3, <2>1, CoreSaid, Roles DEF ToolReply
  <2>3. heard' \in [session : {"unknown", "open", "closed"}, compacted : BOOLEAN,
                   counting : BOOLEAN, asked : Nat, called : Nat, returned : Nat]
    BY <1>3, HeardType DEF ToolReply
  <2> QED
    BY <1>3, <2>1, <2>2, <2>3 DEF ToolReply
<1>4. CASE CallTool
  <2>1. heard' \in [session : {"unknown", "open", "closed"}, compacted : BOOLEAN,
                   counting : BOOLEAN, asked : Nat, called : Nat, returned : Nat]
    BY <1>4, HeardType DEF CallTool
  <2> QED
    BY <1>4, <2>1 DEF CallTool
<1>5. CASE ExecuteTool
  <2>1. pending # <<>> /\ messages # <<>>
    BY <1>5 DEF ExecuteTool
  <2>2. ToolResult(Head(pending)) \in Message /\ Tail(pending) \in Seq(CallIds)
    BY <2>1, ToolAnswers
  <2>3. ToolResult(Head(pending)).role = "tool"
    BY DEF ToolResult
  <2>4. messages' \in Seq(Message) /\ messages' # <<>> /\ Shaped(messages')
    BY <1>5, <2>1, <2>2, <2>3, CoreSaid DEF ExecuteTool
  <2>5. heard' \in [session : {"unknown", "open", "closed"}, compacted : BOOLEAN,
                   counting : BOOLEAN, asked : Nat, called : Nat, returned : Nat]
    BY <1>5, HeardType DEF ExecuteTool
  <2>6. /\ pc' = "tools" /\ pending' \in Seq(CallIds) /\ callCount' \in Nat
        /\ UNCHANGED <<iteration, tokens, start, response, modelVars, skillVars>>
    BY <1>5, <2>2 DEF ExecuteTool
  <2> QED
    BY <2>4, <2>5, <2>6
<1>6. CASE CompactIfNeeded
  <2>1. /\ info' \in Models \cup {NoModel} /\ threshold' \in Nat
        /\ info' \in {NoModel, model}
        /\ threshold' = IF info' = NoModel THEN 0 ELSE CompactionThreshold(ContextSize[info'])
    BY <1>6, LimitsLoaded DEF CompactIfNeeded
  <2>2. UNCHANGED <<messages, roundVars, model, skillVars, heard>> /\ pending = <<>>
    BY <1>6 DEF CompactIfNeeded
  <2>3. pc' \in {"summarize", "idle"} /\ (pc' = "summarize" => CanCompact(messages))
    BY <1>6 DEF CompactIfNeeded
  <2>4. messages # <<>>
    BY <1>6 DEF CompactIfNeeded
  <2> QED
    BY <2>1, <2>2, <2>3, <2>4
<1>7. CASE Summarized
  <2>1. messages' \in Seq(Message) /\ messages' # <<>> /\ Shaped(messages')
    <3>1. CanCompact(messages) /\ messages' = Compacted(messages)
      BY <1>7 DEF Summarized
    <3>2. Len(<<>>) = 0
      OBVIOUS
    <3> QED
      BY <3>1, <3>2, ShapeCompacted
  <2> QED
    BY <1>7, <2>1 DEF Summarized
<1>8. ASSUME NEW hasInput \in BOOLEAN, Process(hasInput) PROVE Core'
  <2>1. messages' \in Seq(Message) /\ messages' # <<>> /\ Shaped(messages')
    BY <1>8, CoreSaid, Roles DEF Process
  <2>2. start' \in Nat /\ response' \in [iterations : Int, toolCalls : Int]
    BY <1>8 DEF Process, NoResponse
  <2> QED
    BY <1>8, <2>1, <2>2 DEF Process, HearRound
<1> QED
  BY <1>1, <1>2, <1>3, <1>4, <1>5, <1>6, <1>7, <1>8 DEF Round

(* Every step keeps them.                                                  *)
LEMMA CoreStep ==
  ASSUME Core, [Next]_vars
  PROVE  Core'
<1> USE AgentAssumption
<1> USE DEF Core, TypeOK, PhaseInv, ShapeInv, LimitsMatchModel, SkillToolsFollowSession,
            roundVars, modelVars, skillVars
<1>1. CASE UNCHANGED vars
  BY <1>1 DEF vars
<1>2. CASE CompactContext
  <2>1. messages # <<>>
    <3>1. Len(<<>>) = 0 /\ <<>> \in Seq(Message)
      OBVIOUS
    <3>2. UserTurns(<<>>) = {}
      BY <3>1 DEF UserTurns
    <3>3. KeepFrom(<<>>) = 0
      BY <3>1, <3>2 DEF KeepFrom
    <3> QED
      BY <1>2, <3>3 DEF CompactContext, CanCompact
  <2> QED
    BY <1>2, <2>1 DEF CompactContext
<1>3. CASE ModelInfo
  <2>1. /\ info' \in Models \cup {NoModel} /\ threshold' \in Nat
        /\ info' \in {NoModel, model}
        /\ threshold' = IF info' = NoModel THEN 0 ELSE CompactionThreshold(ContextSize[info'])
    BY <1>3, LimitsLoaded DEF ModelInfo
  <2>2. UNCHANGED <<messages, pc, roundVars, model, skillVars, heard>>
    BY <1>3 DEF ModelInfo
  <2> QED
    BY <2>1, <2>2
<1>4. ASSUME NEW m \in Models, ChangeModel(m) PROVE Core'
  BY <1>4 DEF ChangeModel
<1>5. CASE OtherSkills
  BY <1>5 DEF OtherSkills
<1> QED
  BY <1>1, <1>2, <1>3, <1>4, <1>5, CoreSessions, CoreRound DEF Next

(* The initial state satisfies them.                                       *)
LEMMA CoreInit == Init => Core
<1> SUFFICES ASSUME Init PROVE Core
  OBVIOUS
<1>1. <<>> \in Seq(Message) /\ <<>> \in Seq(CallIds) /\ Shaped(<<>>)
  BY DEF Shaped
<1> QED
  BY <1>1, AgentAssumption
  DEF Init, Core, TypeOK, PhaseInv, ShapeInv, LimitsMatchModel, SkillToolsFollowSession,
      NoResponse, NothingHeard

(* The types, the phases of a call, and the shape of the conversation.     *)
THEOREM Invariance == Spec => []Core
  BY CoreInit, CoreStep, PTL DEF Spec

(* The threshold in force is that of the model in use, or there is none;   *)
(* a session with skills has its skill tools in the box, and an agent      *)
(* without one has none there.                                             *)
THEOREM NothingSurvives == Spec => []NothingStale
<1>1. Core => NothingStale
  BY DEF Core, NothingStale
<1> QED
  BY <1>1, Invariance, PTL

(* A compaction replaces a stretch after the system message and keeps the  *)
(* last two turns.                                                         *)
THEOREM TurnsAreKept == Spec => CompactionKeepsTurns
<1>1. ASSUME Core, [Next]_vars, pc = "summarize"
      PROVE  messages' = messages \/ KeepsTurns(messages, messages')
  <2>1. messages \in Seq(Message) /\ Shaped(messages) /\ CanCompact(messages)
    BY <1>1 DEF Core, TypeOK, PhaseInv, ShapeInv
  <2>2. KeepsTurns(messages, Compacted(messages))
    BY <2>1, CompactionKeeps DEF Shaped
  <2>3. messages' \in {messages, Compacted(messages)}
    BY <1>1 DEF Next, Sessions, Round, StartSession, ResetSession, Close, SetFeedback, Check,
                ChatFails, FinalReply, ToolReply, CallTool, ExecuteTool, NextIteration,
                CompactIfNeeded, Summarized, SummaryFails, Process, CompactContext, ModelInfo,
                ChangeModel, OtherSkills, vars
  <2> QED
    BY <2>2, <2>3
<1> QED
  BY <1>1, Invariance, PTL DEF Spec, CompactionKeepsTurns

-----------------------------------------------------------------------------
(* Calls and their results.  A program that first calls Process without    *)
(* input has no turn to cut at: the theorem is about the others.           *)

Paired == PairingInv /\ TurnInv

(* Without open calls the conversation is all there is.                    *)
LEMMA NothingOpen ==
  ASSUME NEW msgs \in Seq(Message)
  PROVE  msgs \o Results(<<>>) = msgs
<1>1. <<>> \in Seq(CallIds) /\ Len(<<>>) = 0
  OBVIOUS
<1>2. Results(<<>>) \in Seq(Message) /\ Len(Results(<<>>)) = 0
  BY <1>1, ResultsOf
<1>3. Results(<<>>) = <<>>
  BY <1>2, EmptySeq
<1> QED
  BY <1>3, ConcatEmptySeq

(* No message at all is an answer to nothing.                              *)
LEMMA NothingSaid == WellFormed(<<>> \o Results(<<>>))
<1>1. <<>> \in Seq(Message) /\ Len(<<>>) = 0
  OBVIOUS
<1>2. <<>> \o Results(<<>>) = <<>>
  BY <1>1, NothingOpen
<1>3. WellFormed(<<>>)
  BY <1>1 DEF WellFormed
<1> QED
  BY <1>2, <1>3

(* A turn stays when more is said.                                         *)
LEMMA TurnsStay ==
  ASSUME NEW msgs \in Seq(Message), NEW m \in Message, UserTurns(msgs) # {} \/ IsUser(m)
  PROVE  UserTurns(Append(msgs, m)) # {}
<1> DEFINE new == Append(msgs, m)
<1>1. /\ Len(msgs) \in Nat /\ Len(new) = Len(msgs) + 1 /\ new[Len(msgs) + 1] = m
      /\ \A i \in 1..Len(msgs) : new[i] = msgs[i]
  BY LenProperties, Appended
<1> HIDE DEF new
<1>2. CASE IsUser(m)
  <2>1. Len(msgs) + 1 \in UserTurns(new)
    BY <1>1, <1>2 DEF UserTurns
  <2> QED
    BY <2>1 DEF new
<1>3. CASE UserTurns(msgs) # {}
  <2>1. PICK i \in 1..Len(msgs) : IsUser(msgs[i])
    BY <1>3 DEF UserTurns
  <2>2. i \in UserTurns(new)
    BY <1>1, <2>1 DEF UserTurns
  <2> QED
    BY <2>2 DEF new
<1> QED
  BY <1>2, <1>3

(* Between rounds.                                                         *)
LEMMA PairedSessions ==
  ASSUME Core, Paired, Sessions
  PROVE  Paired'
<1>1. /\ messages \in Seq(Message) /\ Shaped(messages) /\ pc = "idle" /\ pc' = pc
      /\ pending = <<>> /\ pending' = pending
  BY DEF Core, TypeOK, PhaseInv, ShapeInv, Sessions, StartSession, ResetSession, Close, SetFeedback,
         roundVars
<1>2. messages' \in {messages, <<System>>, <<>>}
  <2>1. ASSUME NEW collection \in {"none", "empty", "full"}, NEW history \in {<<>>, messages},
               StartSession(collection, history)
        PROVE  messages' \in {messages, <<System>>}
    BY <1>1, <2>1, Resumed DEF StartSession
  <2>2. CASE ResetSession
    BY <1>1, <2>2, ShapeFirst DEF ResetSession
  <2>3. CASE Close \/ SetFeedback
    BY <2>3 DEF Close, SetFeedback
  <2> QED
    BY <2>1, <2>2, <2>3 DEF Sessions
<1>3. CASE messages' = messages
  BY <1>1, <1>3 DEF Paired, PairingInv, TurnInv
<1>4. CASE messages' = <<System>>
  <2>1. WellFormed(<<System>> \o Results(<<>>))
    BY Beginning, NothingOpen
  <2>2. Len(<<System>>) = 1
    OBVIOUS
  <2> QED
    BY <1>1, <1>4, <2>1, <2>2 DEF Paired, PairingInv, TurnInv
<1>5. CASE messages' = <<>>
  <2>1. Len(<<>>) = 0
    OBVIOUS
  <2>2. WellFormed(<<>> \o Results(<<>>))
    BY NothingSaid
  <2> QED
    BY <1>1, <1>5, <2>1, <2>2 DEF Paired, PairingInv, TurnInv
<1> QED
  BY <1>2, <1>3, <1>4, <1>5

(* A step that says nothing and leaves the open calls alone.               *)
LEMMA PairedSilent ==
  ASSUME Paired, UNCHANGED <<messages, pending>>,
         pc' # "idle" => pc # "idle" \/ UserTurns(messages) # {}
  PROVE  Paired'
  BY DEF Paired, PairingInv, TurnInv

(* Within a round.                                                         *)
LEMMA PairedRound ==
  ASSUME Core, Paired, Round
  PROVE  Paired'
<1>1. /\ messages \in Seq(Message) /\ pending \in Seq(CallIds)
      /\ pc # "idle" /\ messages # <<>> /\ UserTurns(messages) # {}
  BY DEF Core, TypeOK, PhaseInv, Paired, TurnInv, Round, Check, ChatFails, FinalReply, ToolReply,
         CallTool, ExecuteTool, NextIteration, CompactIfNeeded, Summarized, SummaryFails
<1>2. ASSUME pc = "chat" PROVE WellFormed(messages)
  <2>1. pending = <<>>
    BY <1>2 DEF Core, PhaseInv
  <2> QED
    BY <1>1, <2>1, NothingOpen DEF Paired, PairingInv
<1>3. ASSUME NEW ids \in Reply, pc = "chat",
             messages' = Append(messages, Assistant(ids)), pending' = ids
      PROVE  Paired'
  <2>1. WellFormed(messages' \o Results(pending'))
    BY <1>1, <1>2, <1>3, ModelReplies
  <2>2. UserTurns(messages') # {}
    BY <1>1, <1>3, TurnsStay, Roles
  <2> QED
    BY <2>1, <2>2 DEF Paired, PairingInv, TurnInv
<1>4. ASSUME NEW total \in TokenCounts, FinalReply(total) PROVE Paired'
  <2>1. /\ <<>> \in Reply /\ pc = "chat" /\ messages' = Append(messages, Assistant(<<>>))
        /\ pending' = <<>>
    BY <1>4 DEF FinalReply, Reply, Core, PhaseInv
  <2> QED
    BY <1>3, <2>1
<1>5. ASSUME NEW total \in TokenCounts, NEW ids \in CallLists, ToolReply(ids, total) PROVE Paired'
  <2>1. /\ ids \in Reply /\ pc = "chat" /\ messages' = Append(messages, Assistant(ids))
        /\ pending' = ids
    BY <1>5 DEF ToolReply, Reply
  <2> QED
    BY <1>3, <2>1
<1>6. CASE ExecuteTool
  <2>1. /\ pending # <<>> /\ pending' = Tail(pending)
        /\ messages' = Append(messages, ToolResult(Head(pending)))
    BY <1>6 DEF ExecuteTool, Core, PhaseInv
  <2>2. messages' \o Results(pending') = messages \o Results(pending)
    BY <1>1, <2>1, ToolAnswers
  <2>3. UserTurns(messages') # {}
    BY <1>1, <2>1, ToolAnswers, TurnsStay
  <2> QED
    BY <2>2, <2>3 DEF Paired, PairingInv, TurnInv
<1>7. CASE Summarized
  <2>1. /\ CanCompact(messages) /\ Shaped(messages) /\ pending = <<>> /\ pending' = pending
        /\ messages' = Compacted(messages)
    BY <1>7 DEF Summarized, Core, PhaseInv, ShapeInv, roundVars
  <2>2. WellFormed(messages)
    BY <1>1, <2>1, NothingOpen DEF Paired, PairingInv
  <2>3. KeepFrom(messages) \in 3..Len(messages) /\ IsUser(messages[KeepFrom(messages)])
    <3>1. KeepFrom(messages) \in UserTurns(messages)
      BY <1>1, KeepFromIs
    <3> QED
      BY <1>1, <2>1, <3>1, CompactionKeeps DEF UserTurns, Shaped
  <2>4. WellFormed(Compacted(messages))
    BY <1>1, <2>2, <2>3, CutAtTurn DEF Compacted
  <2>5. /\ messages' \in Seq(Message) /\ Len(messages') \in Nat /\ Len(messages') > 1
        /\ messages'[2] = Summary
    BY <1>1, <2>1, ShapeCompacted
  <2>6. 2 \in UserTurns(messages')
    BY <2>5, Roles DEF UserTurns, IsUser
  <2>7. messages' \o Results(pending') = messages'
    BY <2>1, <2>5, NothingOpen
  <2> QED
    BY <2>1, <2>4, <2>6, <2>7 DEF Paired, PairingInv, TurnInv
<1>8. CASE Check \/ ChatFails \/ CallTool \/ NextIteration \/ CompactIfNeeded \/ SummaryFails
  <2>1. UNCHANGED <<messages, pending>>
    BY <1>8 DEF Check, ChatFails, CallTool, NextIteration, CompactIfNeeded, SummaryFails, roundVars
  <2> QED
    BY <1>1, <2>1, PairedSilent
<1> QED
  BY <1>4, <1>5, <1>6, <1>7, <1>8 DEF Round

(* Process begins with input, or with a turn to go back to.                *)
LEMMA PairedProcess ==
  ASSUME Core, Paired, EmptyFirstInput = FALSE, NEW hasInput \in BOOLEAN, Process(hasInput)
  PROVE  Paired'
<1>1. /\ messages \in Seq(Message) /\ messages # <<>> /\ pending = <<>> /\ pending' = pending
      /\ messages' = IF hasInput THEN Append(messages, User) ELSE messages
      /\ hasInput \/ UserTurns(messages) # {}
  BY DEF Core, TypeOK, PhaseInv, Process
<1>2. WellFormed(messages)
  BY <1>1, NothingOpen DEF Paired, PairingInv
<1>3. CASE hasInput
  <2>1. /\ WellFormed(messages') /\ messages' \in Seq(Message)
        /\ UserTurns(messages') # {}
    BY <1>1, <1>2, <1>3, UserSpeaks, Appended, Roles, TurnsStay DEF IsUser
  <2> QED
    BY <1>1, <2>1, NothingOpen DEF Paired, PairingInv, TurnInv
<1>4. CASE ~hasInput
  BY <1>1, <1>4, PairedSilent
<1> QED
  BY <1>3, <1>4

(* Whatever fails, and however often the conversation is compacted, reset  *)
(* or resumed, each call has its result and each result its call.          *)
THEOREM CallsArePaired ==
  ASSUME EmptyFirstInput = FALSE
  PROVE  Spec => []ConversationWellFormed
<1>1. Init => Paired
  <2> SUFFICES ASSUME Init PROVE Paired
    OBVIOUS
  <2>1. Len(<<>>) = 0
    OBVIOUS
  <2>2. WellFormed(<<>> \o Results(<<>>))
    BY NothingSaid
  <2> QED
    BY <2>1, <2>2 DEF Init, Paired, PairingInv, TurnInv
<1>2. ASSUME Core, Paired, [Next]_vars PROVE Paired'
  <2>1. CASE CompactContext
    <3>1. /\ messages \in Seq(Message) /\ Shaped(messages) /\ CanCompact(messages)
          /\ UNCHANGED <<messages, pending>>
      BY <1>2, <2>1 DEF CompactContext, Core, TypeOK, ShapeInv, roundVars
    <3>2. Len(messages) > 1
      BY <3>1, CompactionKeeps DEF Shaped
    <3> QED
      BY <1>2, <3>1, <3>2, PairedSilent DEF Paired, TurnInv
  <2>2. CASE ModelInfo \/ OtherSkills \/ \E m \in Models : ChangeModel(m)
    <3>1. UNCHANGED <<messages, pending, pc>>
      BY <2>2 DEF ModelInfo, OtherSkills, ChangeModel, roundVars
    <3> QED
      BY <1>2, <3>1, PairedSilent
  <2>3. CASE UNCHANGED vars
    <3>1. UNCHANGED <<messages, pending, pc>>
      BY <2>3 DEF vars, roundVars
    <3> QED
      BY <1>2, <3>1, PairedSilent
  <2> QED
    BY <1>2, <2>1, <2>2, <2>3, PairedSessions, PairedRound, PairedProcess DEF Next
<1>3. Core /\ Paired => ConversationWellFormed
  <2> SUFFICES ASSUME Core, Paired, pc \notin {"tools", "running"} PROVE WellFormed(messages)
    BY DEF ConversationWellFormed
  <2>1. messages \in Seq(Message) /\ pending = <<>>
    BY DEF Core, TypeOK, PhaseInv
  <2> QED
    BY <2>1, NothingOpen DEF Paired, PairingInv
<1> QED
  BY <1>1, <1>2, <1>3, Invariance, PTL DEF Spec

-----------------------------------------------------------------------------
(* What a feedback handler has heard.                                      *)

(* What it knows of the session.                                           *)
LEMMA ToldStep ==
  ASSUME Core, Core', SessionTold, [Next]_vars
  PROVE  SessionTold'
<1>1. ASSUME NEW m \in Message, messages # <<>>, messages' = Append(messages, m),
             heard'.session = heard.session, heard'.compacted = heard.compacted
      PROVE  SessionTold'
  <2>1. /\ messages \in Seq(Message) /\ Len(messages) \in Nat
        /\ Len(messages') = Len(messages) + 1
        /\ \A i \in 1..Len(messages) : messages'[i] = messages[i]
    BY <1>1, Appended, LenProperties DEF Core, TypeOK
  <2>2. messages' # <<>> /\ (Len(messages) > 1 => messages'[2] = messages[2])
    BY <2>1
  <2> QED
    BY <1>1, <2>1, <2>2 DEF SessionTold
<1>2. ASSUME messages' = messages, heard'.session = heard.session, heard'.compacted = heard.compacted
      PROVE  SessionTold'
  BY <1>2 DEF SessionTold
<1> USE DEF Core, TypeOK, PhaseInv
<1>3. CASE Sessions
  <2>1. ASSUME NEW collection \in {"none", "empty", "full"}, NEW history \in {<<>>, messages},
               StartSession(collection, history)
        PROVE  messages' # <<>>
    <3>1. messages' = IF history = <<>> THEN <<System>> ELSE history
      BY <2>1, Resumed DEF StartSession, ShapeInv
    <3> QED
      BY <3>1
  <2>2. CASE ResetSession
    <3>1. messages' = <<System>>
      BY <2>2, ShapeFirst DEF ResetSession, ShapeInv
    <3>2. messages' # <<>>
      BY <3>1
    <3> QED
      BY <2>2, <3>2 DEF ResetSession, HearSession, SessionTold
  <2>3. CASE Close
    BY <2>3 DEF Close, HearSession, SessionTold
  <2>4. CASE SetFeedback
    BY <2>4 DEF SetFeedback, NothingHeard, SessionTold
  <2>5. ASSUME NEW collection \in {"none", "empty", "full"}, NEW history \in {<<>>, messages},
               StartSession(collection, history)
        PROVE  SessionTold'
    BY <2>1, <2>5 DEF StartSession, HearSession, SessionTold
  <2> QED
    BY <1>3, <2>2, <2>3, <2>4, <2>5 DEF Sessions
<1>4. ASSUME NEW total \in TokenCounts, FinalReply(total) PROVE SessionTold'
  <2>1. messages' = Append(messages, Assistant(<<>>)) /\ Assistant(<<>>) \in Message
    BY <1>4, Roles DEF FinalReply, Reply
  <2> QED
    BY <1>1, <1>4, <2>1 DEF FinalReply
<1>5. ASSUME NEW total \in TokenCounts, NEW ids \in CallLists, ToolReply(ids, total)
      PROVE  SessionTold'
  <2>1. messages' = Append(messages, Assistant(ids)) /\ Assistant(ids) \in Message
    BY <1>5, Roles DEF ToolReply, Reply
  <2>2. heard'.session = heard.session /\ heard'.compacted = heard.compacted
    BY <1>5, HeardType DEF ToolReply
  <2> QED
    BY <1>1, <1>5, <2>1, <2>2 DEF ToolReply
<1>6. CASE CallTool
  <2>1. heard'.session = heard.session /\ heard'.compacted = heard.compacted
    BY <1>6, HeardType DEF CallTool
  <2> QED
    BY <1>2, <1>6, <2>1 DEF CallTool
<1>7. CASE ExecuteTool
  <2>1. messages' = Append(messages, ToolResult(Head(pending))) /\ ToolResult(Head(pending)) \in Message
    BY <1>7, ToolAnswers DEF ExecuteTool
  <2>2. heard'.session = heard.session /\ heard'.compacted = heard.compacted
    BY <1>7, HeardType DEF ExecuteTool
  <2> QED
    BY <1>1, <1>7, <2>1, <2>2 DEF ExecuteTool
<1>8. CASE Summarized
  <2>1. messages' = Compacted(messages) /\ Len(messages') > 1 /\ messages'[2] = Summary
    BY <1>8, ShapeCompacted DEF Summarized, ShapeInv
  <2>2. Len(<<>>) = 0 /\ messages # <<>> /\ heard'.session = heard.session
    BY <1>8 DEF Summarized
  <2>3. messages' # <<>>
    BY <2>1, <2>2
  <2> QED
    BY <2>1, <2>2, <2>3 DEF SessionTold
<1>9. ASSUME NEW hasInput \in BOOLEAN, Process(hasInput) PROVE SessionTold'
  <2>1. heard'.session = heard.session /\ heard'.compacted = heard.compacted
    BY <1>9 DEF Process, HearRound
  <2>2. messages # <<>> /\ User \in Message
    BY <1>9, Roles DEF Process
  <2>3. messages' = messages \/ messages' = Append(messages, User)
    BY <1>9 DEF Process
  <2> QED
    BY <1>1, <1>2, <2>1, <2>2, <2>3
<1>10. CASE \/ Check \/ ChatFails \/ NextIteration \/ CompactIfNeeded \/ SummaryFails
            \/ CompactContext \/ ModelInfo \/ OtherSkills \/ UNCHANGED vars
            \/ \E m \in Models : ChangeModel(m)
  <2>1. messages' = messages /\ heard' = heard
    BY <1>10 DEF Check, ChatFails, NextIteration, CompactIfNeeded, SummaryFails, CompactContext,
                 ModelInfo, OtherSkills, ChangeModel, vars
  <2> QED
    BY <1>2, <2>1
<1> QED
  BY <1>3, <1>4, <1>5, <1>6, <1>7, <1>8, <1>9, <1>10 DEF Next, Round

(* The messages of a round and the calls of its replies, counted.          *)
LEMMA SinceFinite ==
  ASSUME TypeOK, NEW role
  PROVE  IsFiniteSet(Since(role)) /\ Cardinality(Since(role)) \in Nat
<1>1. IsFiniteSet(start + 1..Len(messages))
  BY LenProperties, FS_Interval DEF TypeOK
<1>2. Since(role) \in SUBSET (start + 1..Len(messages))
  BY DEF Since
<1> QED
  BY <1>1, <1>2, FS_Subset, FS_CardinalityType

(* One more message is one more of its role.                               *)
LEMMA SinceSaid ==
  ASSUME TypeOK, TypeOK', NEW m \in Message, messages' = Append(messages, m),
         start' = start, start <= Len(messages), NEW role
  PROVE  Cardinality(Since(role)') = Cardinality(Since(role)) + (IF m.role = role THEN 1 ELSE 0)
<1> DEFINE n == Len(messages)
<1>1. /\ n \in Nat /\ start \in Nat /\ Len(messages') = n + 1 /\ messages'[n + 1] = m
      /\ \A i \in 1..n : messages'[i] = messages[i]
  BY Appended, LenProperties DEF TypeOK
<1>2. Since(role)' = {i \in start + 1..n + 1 : messages'[i].role = role}
  BY <1>1 DEF Since
<1>3. Since(role) = {i \in start + 1..n : messages[i].role = role}
  BY DEF Since
<1>4. Since(role)' = Since(role) \cup (IF m.role = role THEN {n + 1} ELSE {})
  BY <1>1, <1>2, <1>3
<1>5. n + 1 \notin Since(role)
  BY <1>1, <1>3
<1>6. CASE m.role = role
  <2>1. Since(role)' = Since(role) \cup {n + 1}
    BY <1>4, <1>6
  <2>2. Cardinality(Since(role) \cup {n + 1}) = Cardinality(Since(role)) + 1
    BY <1>5, SinceFinite, FS_AddElement
  <2> QED
    BY <1>6, <2>1, <2>2
<1>7. CASE m.role # role
  <2>1. Since(role)' = Since(role)
    BY <1>4, <1>7
  <2> QED
    BY <1>7, <2>1, SinceFinite
<1> QED
  BY <1>6, <1>7

(* One more reply brings its calls, any other message none.                *)
LEMMA CallsSaid ==
  ASSUME TypeOK, TypeOK', NEW m \in Message, messages' = Append(messages, m),
         start' = start, start <= Len(messages), IsFiniteSet(CallsSince)
  PROVE  /\ IsFiniteSet(CallsSince')
         /\ Cardinality(CallsSince') =
              Cardinality(CallsSince) + (IF m.role = "assistant" THEN Len(m.calls) ELSE 0)
<1> DEFINE n == Len(messages)
           P == {n + 1} \X (1..Len(m.calls))
<1>1. /\ n \in Nat /\ start \in Nat /\ Len(messages') = n + 1 /\ messages'[n + 1] = m
      /\ \A i \in 1..n : messages'[i] = messages[i]
  BY Appended, LenProperties DEF TypeOK
<1>2. Len(m.calls) \in Nat /\ DOMAIN m.calls = 1..Len(m.calls)
  BY Roles, LenProperties
<1>3. CallsSince' = UNION {{i} \X DOMAIN messages'[i].calls :
                            i \in {i \in start + 1..n + 1 : messages'[i].role = "assistant"}}
  BY <1>1 DEF CallsSince, Since
<1>4. CallsSince = UNION {{i} \X DOMAIN messages[i].calls :
                            i \in {i \in start + 1..n : messages[i].role = "assistant"}}
  BY DEF CallsSince, Since
<1> HIDE DEF n
<1>5. CallsSince' = CallsSince \cup (IF m.role = "assistant" THEN P ELSE {})
  <2>1. \A i \in start + 1..n + 1 : i = n + 1 \/ (i \in start + 1..n /\ messages'[i] = messages[i])
    BY <1>1
  <2>2. \A i \in start + 1..n : i \in start + 1..n + 1 /\ messages'[i] = messages[i]
    BY <1>1
  <2>3. n + 1 \in start + 1..n + 1
    BY <1>1 DEF n
  <2> QED
    BY <1>1, <1>2, <1>3, <1>4, <2>1, <2>2, <2>3
<1>6. CallsSince \cap P = {}
  <2>1. \A i \in start + 1..n : i # n + 1
    BY <1>1
  <2> QED
    BY <1>4, <2>1
<1>7. IsFiniteSet(P) /\ Cardinality(P) = Len(m.calls)
  <2>1. /\ IsFiniteSet({n + 1}) /\ Cardinality({n + 1}) = 1
        /\ IsFiniteSet(1..Len(m.calls)) /\ Cardinality(1..Len(m.calls)) = Len(m.calls)
    <3>1. IsFiniteSet({n + 1}) /\ Cardinality({n + 1}) = 1
      BY FS_Singleton
    <3>2. /\ IsFiniteSet(1..Len(m.calls))
          /\ Cardinality(1..Len(m.calls)) = IF 1 > Len(m.calls) THEN 0 ELSE Len(m.calls) - 1 + 1
      <4>1. 1 \in Int /\ Len(m.calls) \in Int
        BY <1>2
      <4> QED
        BY <4>1, FS_Interval
    <3>3. Cardinality(1..Len(m.calls)) = Len(m.calls)
      BY <1>2, <3>2
    <3> QED
      BY <3>1, <3>2, <3>3
  <2>2. IsFiniteSet(P) /\ Cardinality(P) = Cardinality({n + 1}) * Cardinality(1..Len(m.calls))
    BY <2>1, FS_Product
  <2>3. Len(m.calls) \in Nat
    BY <1>2
  <2> QED
    BY <2>1, <2>2, <2>3
<1> HIDE DEF P
<1>8. CASE m.role = "assistant"
  <2>1. CallsSince' = CallsSince \cup P
    BY <1>5, <1>8
  <2>2. /\ IsFiniteSet(CallsSince \cup P)
        /\ Cardinality(CallsSince \cup P) = Cardinality(CallsSince) + Cardinality(P) - Cardinality({})
    BY <1>6, <1>7, FS_Union
  <2>3. Cardinality({}) = 0 /\ Cardinality(CallsSince) \in Nat
    BY FS_EmptySet, FS_CardinalityType
  <2> QED
    BY <1>2, <1>7, <1>8, <2>1, <2>2, <2>3
<1>9. CASE m.role # "assistant"
  <2>1. CallsSince' = CallsSince
    BY <1>5, <1>9
  <2> QED
    BY <1>9, <2>1, FS_CardinalityType
<1> QED
  BY <1>8, <1>9

(* What it has counted of a round.                                         *)
Counted ==
  /\ SessionTold /\ CountInv
  /\ heard.counting => CountsTold
  /\ pc \in InRound => IsFiniteSet(CallsSince)

(* One event is one more of its kind, and no other.                        *)
LEMMA HeardCounts ==
  ASSUME Core
  PROVE  /\ Hear("asked") =>
              /\ heard'.counting = heard.counting /\ heard'.asked = heard.asked + 1
              /\ heard'.called = heard.called /\ heard'.returned = heard.returned
         /\ Hear("called") =>
              /\ heard'.counting = heard.counting /\ heard'.asked = heard.asked
              /\ heard'.called = heard.called + 1 /\ heard'.returned = heard.returned
         /\ Hear("returned") =>
              /\ heard'.counting = heard.counting /\ heard'.asked = heard.asked
              /\ heard'.called = heard.called /\ heard'.returned = heard.returned + 1
<1>1. TypeOK /\ heard.asked \in Nat /\ heard.called \in Nat /\ heard.returned \in Nat
  BY DEF Core, TypeOK
<1> QED
  BY <1>1, HeardType

(* What changes nothing of a round leaves the count alone,                 *)
LEMMA CountSilent ==
  ASSUME Counted, UNCHANGED <<messages, pc, roundVars, heard>>
  PROVE  Counted'
<1>1. UNCHANGED <<messages, pc, iteration, pending, start, callCount, response, heard>>
  BY DEF roundVars
<1>2. /\ Since("assistant")' = Since("assistant") /\ Since("tool")' = Since("tool")
      /\ CallsSince' = CallsSince
  BY <1>1 DEF Since, CallsSince
<1> QED
  BY <1>1, <1>2 DEF Counted, SessionTold, CountInv, CountsTold

(* and so does what ends outside of one and counts nothing.                *)
LEMMA CountOutside ==
  ASSUME Counted, SessionTold', pc # "running", pc' \notin InRound, response' = response,
         heard'.counting = heard.counting, heard'.asked = heard.asked,
         heard'.called = heard.called, heard'.returned = heard.returned
  PROVE  Counted'
BY DEF Counted, CountInv, CountsTold, InRound

(* What happens between rounds, and at the end of one.                     *)
LEMMA CountSessions ==
  ASSUME Core, Counted, SessionTold', Sessions
  PROVE  Counted'
<1>1. pc = "idle" /\ pc' = pc /\ response' = response
  BY DEF Sessions, StartSession, ResetSession, Close, SetFeedback, roundVars
<1>2. pc # "running" /\ pc' \notin InRound
  BY <1>1 DEF InRound
<1>3. CASE SetFeedback
  <2>1. heard'.counting = FALSE
    BY <1>3 DEF SetFeedback, NothingHeard
  <2> QED
    BY <1>2, <2>1 DEF Counted, CountInv
<1>4. ASSUME NEW s \in {"open", "closed"}, HearSession(s)
      PROVE  /\ heard'.counting = heard.counting /\ heard'.asked = heard.asked
             /\ heard'.called = heard.called /\ heard'.returned = heard.returned
  BY <1>4 DEF HearSession, Core, TypeOK
<1>5. SetFeedback \/ \E s \in {"open", "closed"} : HearSession(s)
  BY DEF Sessions, StartSession, ResetSession, Close
<1> QED
  BY <1>1, <1>2, <1>3, <1>4, <1>5, CountOutside

LEMMA CountLimits ==
  ASSUME Core, Counted, SessionTold',
         ChatFails \/ CompactIfNeeded \/ Summarized \/ SummaryFails \/ CompactContext
  PROVE  Counted'
<1>1. pc # "running" /\ pc' \notin InRound /\ response' = response
  BY DEF ChatFails, CompactIfNeeded, Summarized, SummaryFails, CompactContext, roundVars, InRound
<1>2. /\ heard'.counting = heard.counting /\ heard'.asked = heard.asked
      /\ heard'.called = heard.called /\ heard'.returned = heard.returned
  BY DEF ChatFails, CompactIfNeeded, Summarized, SummaryFails, CompactContext, Core, TypeOK
<1> QED
  BY <1>1, <1>2, CountOutside

(* A round begins with nothing to count.                                   *)
LEMMA CountProcess ==
  ASSUME Core, Core', SessionTold', NEW hasInput \in BOOLEAN, Process(hasInput)
  PROVE  Counted'
<1>1. /\ pc' = "check" /\ iteration' = 0 /\ callCount' = 0 /\ response' = NoResponse
      /\ start' = Len(messages) /\ pending' = <<>>
      /\ heard'.counting /\ heard'.asked = 0 /\ heard'.called = 0 /\ heard'.returned = 0
  BY DEF Process, HearRound, Core, TypeOK, PhaseInv
<1>2. /\ Len(messages) \in Nat
      /\ \/ Len(messages') = Len(messages)
         \/ /\ Len(messages') = Len(messages) + 1
            /\ messages'[Len(messages) + 1].role = "user"
  BY Appended, Roles, LenProperties DEF Process, Core, TypeOK
<1>3. Since("assistant")' = {} /\ Since("tool")' = {}
  <2>1. \A i \in start' + 1..Len(messages') : messages'[i].role = "user"
    BY <1>1, <1>2
  <2> QED
    BY <2>1 DEF Since
<1>4. CallsSince' = {}
  BY <1>3 DEF CallsSince
<1>5. IsFiniteSet({}) /\ Cardinality({}) = 0 /\ Len(<<>>) = 0
  BY FS_EmptySet
<1>6. CountsTold'
  <2>1. /\ Cardinality(Since("assistant"))' = 0 /\ Cardinality(Since("tool"))' = 0
        /\ Cardinality(CallsSince)' = 0 /\ Len(pending)' = 0
    BY <1>1, <1>3, <1>4, <1>5
  <2> QED
    BY <1>1, <2>1 DEF CountsTold
<1>7. CountInv'
  BY <1>1, <1>2 DEF CountInv
<1> QED
  BY <1>4, <1>5, <1>6, <1>7 DEF Counted

(* The head of the loop, and its end.                                      *)
LEMMA CountLoop ==
  ASSUME Core, Counted, SessionTold', Check \/ NextIteration
  PROVE  Counted'
<1>1. /\ pc \in {"check", "tools"} /\ pc' \in {"idle", "chat", "check"}
      /\ UNCHANGED <<messages, pending, start, callCount, response, heard>>
      /\ iteration' + 0 = iteration + (IF pc = "tools" THEN 1 ELSE 0)
  BY DEF Check, NextIteration, roundVars, Core, TypeOK
<1>2. /\ Since("assistant")' = Since("assistant") /\ Since("tool")' = Since("tool")
      /\ CallsSince' = CallsSince
  BY <1>1 DEF Since, CallsSince
<1> QED
  BY <1>1, <1>2 DEF Counted, CountInv, CountsTold, InRound, Core, TypeOK

(* The model replies.                                                      *)
LEMMA CountReply ==
  ASSUME Core, Core', Counted, SessionTold', NEW total \in TokenCounts
  PROVE  /\ FinalReply(total) => Counted'
         /\ \A ids \in CallLists : ToolReply(ids, total) => Counted'
<1>1. ASSUME FinalReply(total) PROVE Counted'
  <2>1. /\ pc = "chat" /\ pc' = "limits" /\ heard' = heard
        /\ response' = [iterations |-> iteration, toolCalls |-> callCount]
    BY <1>1 DEF FinalReply
  <2>2. callCount = heard.returned /\ heard.asked = iteration
    BY <2>1 DEF Counted, CountInv, InRound, Core, TypeOK
  <2> QED
    BY <2>1, <2>2 DEF Counted, CountInv, CountsTold, InRound
<1>2. ASSUME NEW ids \in CallLists, ToolReply(ids, total) PROVE Counted'
  <2>1. /\ pc = "chat" /\ pc' = "tools" /\ pending' = ids /\ Hear("asked")
        /\ messages' = Append(messages, Assistant(ids))
        /\ UNCHANGED <<iteration, start, callCount, response>>
    BY <1>2 DEF ToolReply
  <2>2. /\ Assistant(ids) \in Message /\ Assistant(ids).role = "assistant"
        /\ Assistant(ids).calls = ids
    BY Roles DEF Reply
  <2>3. /\ heard'.counting = heard.counting /\ heard'.asked = heard.asked + 1
        /\ heard'.called = heard.called /\ heard'.returned = heard.returned
    BY <2>1, HeardCounts
  <2>4. start <= Len(messages) /\ start <= Len(messages')
    BY <2>1, <2>2, Appended, LenProperties DEF Counted, CountInv, InRound, Core, TypeOK
  <2>5. /\ Cardinality(Since("assistant")') = Cardinality(Since("assistant")) + 1
        /\ Cardinality(Since("tool")') = Cardinality(Since("tool")) + 0
    BY <2>1, <2>2, <2>4, SinceSaid DEF Core
  <2>6. /\ IsFiniteSet(CallsSince')
        /\ Cardinality(CallsSince') = Cardinality(CallsSince) + Len(ids)
    BY <2>1, <2>2, <2>4, CallsSaid DEF Core, Counted, InRound
  <2>7. pending = <<>> /\ Len(<<>>) = 0 /\ Len(ids) \in Nat
    BY <2>1, ReplyType, LenProperties DEF Core, PhaseInv, Reply
  <2> QED
    BY <2>1, <2>3, <2>4, <2>5, <2>6, <2>7, SinceFinite
       DEF Counted, CountInv, CountsTold, InRound, Core, TypeOK
<1> QED
  BY <1>1, <1>2

(* A tool is called, and returns.                                          *)
LEMMA CountTool ==
  ASSUME Core, Core', Counted, SessionTold', CallTool \/ ExecuteTool
  PROVE  Counted'
<1>1. CASE CallTool
  <2>1. /\ pc = "tools" /\ pc' = "running" /\ Hear("called")
        /\ UNCHANGED <<messages, iteration, pending, start, callCount, response>>
    BY <1>1 DEF CallTool, roundVars
  <2>2. /\ heard'.counting = heard.counting /\ heard'.asked = heard.asked
        /\ heard'.called = heard.called + 1 /\ heard'.returned = heard.returned
    BY <2>1, HeardCounts
  <2>3. /\ Since("assistant")' = Since("assistant") /\ Since("tool")' = Since("tool")
        /\ CallsSince' = CallsSince
    BY <2>1 DEF Since, CallsSince
  <2> QED
    BY <2>1, <2>2, <2>3 DEF Counted, CountInv, CountsTold, InRound, Core, TypeOK
<1>2. CASE ExecuteTool
  <2>1. /\ pc = "running" /\ pc' = "tools" /\ pending' = Tail(pending) /\ Hear("returned")
        /\ messages' = Append(messages, ToolResult(Head(pending)))
        /\ callCount' = callCount + 1 /\ UNCHANGED <<iteration, start, response>>
    BY <1>2 DEF ExecuteTool
  <2>2. pending # <<>>
    BY <2>1 DEF Core, PhaseInv
  <2>3. /\ Head(pending) \in CallIds /\ Len(Tail(pending)) = Len(pending) - 1 /\ Len(pending) \in Nat
    BY <2>2, EmptySeq, HeadTailProperties, LenProperties DEF Core, TypeOK
  <2>4. /\ ToolResult(Head(pending)) \in Message /\ ToolResult(Head(pending)).role = "tool"
    BY <2>3, Roles
  <2>5. /\ heard'.counting = heard.counting /\ heard'.asked = heard.asked
        /\ heard'.called = heard.called /\ heard'.returned = heard.returned + 1
    BY <2>1, HeardCounts
  <2>6. start <= Len(messages) /\ start <= Len(messages')
    BY <2>1, <2>4, Appended, LenProperties DEF Counted, CountInv, InRound, Core, TypeOK
  <2>7. /\ Cardinality(Since("assistant")') = Cardinality(Since("assistant")) + 0
        /\ Cardinality(Since("tool")') = Cardinality(Since("tool")) + 1
    BY <2>1, <2>4, <2>6, SinceSaid DEF Core
  <2>8. /\ IsFiniteSet(CallsSince') /\ Cardinality(CallsSince') = Cardinality(CallsSince) + 0
    BY <2>1, <2>4, <2>6, CallsSaid DEF Core, Counted, InRound
  <2>9. /\ Cardinality(Since("assistant")) \in Nat /\ Cardinality(Since("tool")) \in Nat
        /\ Cardinality(CallsSince) \in Nat
    BY <2>1, SinceFinite, FS_CardinalityType DEF Core, Counted, InRound
  <2>10. /\ callCount = heard.returned /\ heard.asked = iteration + 1
         /\ heard.called = heard.returned + 1 /\ response = NoResponse /\ heard.counting
         /\ heard.asked = Cardinality(Since("assistant"))
         /\ heard.returned = Cardinality(Since("tool"))
         /\ heard.returned + Len(pending) = Cardinality(CallsSince)
    BY <2>1 DEF Counted, CountInv, CountsTold, InRound
  <2>11. heard.returned \in Nat /\ heard.called \in Nat /\ heard.asked \in Nat
    BY DEF Core, TypeOK
  <2>12. CountInv'
    BY <2>1, <2>5, <2>6, <2>10, <2>11 DEF CountInv
  <2>13. CountsTold'
    <3>1. heard'.asked = Cardinality(Since("assistant"))'
      BY <2>5, <2>7, <2>9, <2>10
    <3>2. heard'.returned = Cardinality(Since("tool"))'
      BY <2>5, <2>7, <2>9, <2>10
    <3>3. Len(pending') = Len(pending) - 1 /\ Len(pending) \in Nat
      BY <2>1, <2>3
    <3>4. heard'.returned + Len(pending') = Cardinality(CallsSince)'
      BY <2>5, <2>8, <2>9, <2>10, <2>11, <3>3
    <3> QED
      BY <2>1, <2>5, <2>10, <2>11, <3>1, <3>2, <3>4 DEF CountsTold
  <2> QED
    BY <2>8, <2>12, <2>13 DEF Counted
<1> QED
  BY <1>1, <1>2

(* A handler that counts what it hears is never wrong about the round, the *)
(* tools, the Response, the session and its compactions.                   *)
THEOREM FeedbackIsTrue == Spec => []FeedbackTells
<1>1. Init => Counted
  <2> SUFFICES ASSUME Init PROVE Counted
    OBVIOUS
  <2> QED
    BY DEF Init, Counted, SessionTold, CountInv, InRound, NothingHeard
<1>2. ASSUME Core, Core', Counted, [Next]_vars PROVE Counted'
  <2>1. SessionTold'
    BY <1>2, ToldStep DEF Counted
  <2>2. CASE \/ ModelInfo \/ OtherSkills \/ UNCHANGED vars \/ \E m \in Models : ChangeModel(m)
    <3>1. UNCHANGED <<messages, pc, roundVars, heard>>
      BY <2>2 DEF ModelInfo, OtherSkills, ChangeModel, vars
    <3> QED
      BY <1>2, <3>1, CountSilent
  <2> QED
    BY <1>2, <2>1, <2>2, CountSessions, CountLimits, CountProcess, CountLoop, CountReply, CountTool
       DEF Next, Round
<1>3. Counted => FeedbackTells
  BY DEF Counted, FeedbackTells
<1> QED
  BY <1>1, <1>2, <1>3, Invariance, PTL DEF Spec
=============================================================================
