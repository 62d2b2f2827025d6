------------------------------ MODULE Decision ------------------------------
(***************************************************************************)
(* decision.Decision.Ask (src/decision/decision.go), the mapping to and    *)
(* from a provider (src/decision/openrouter_mapping.go and ollama_mapping  *)
(* .go), and the tools of packs.DecisionTools that ask one question with   *)
(* what a model wrote (src/packs/decision.go).                             *)
(*                                                                         *)
(* Questions go out and answers come back keyed by identifiers, options by *)
(* name and levels by position, written as a number: what is modelled is   *)
(* what is paired with what.  The instructions, the score and the          *)
(* confidence are carried over as they are and left out.                   *)
(***************************************************************************)
EXTENDS Integers, Sequences, FiniteSets

CONSTANTS
  IDs,          (* the identifiers a program gives its questions           *)
  Asked,        (* the questions it asks, nil ones included                *)
  OptionLists,  (* the options a model writes: sequences of [name, text]   *)
  LevelLists,   (* the levels a model writes: sequences of texts           *)
  KeyNumber,    (* what Atoi makes of each key of a reply's probabilities  *)
  NotANumber,
  Replies       (* what a provider answers to a question                   *)

NoText == ""
NoQuestion == [type |-> "nil"]
Null == "null"
ToolID == "question"

VARIABLES
  provider,     (* "openrouter" or "ollama"                                *)
  phase,        (* "idle", "sent", "done"                                  *)
  asker,        (* "program", or the kind of the tool that asks            *)
  given,        (* the options or levels the tool was given                *)
  questions,    (* Request.Questions                                       *)
  sent,         (* the questions of the request to the provider            *)
  reply,        (* its answers                                             *)
  returned, answers,  (* what Ask returns                                  *)
  told          (* the levels and probabilities the tool shows its model   *)

vars ==
  <<provider, phase, asker, given, questions, sent, reply, returned, answers, told>>

Nothing == [id \in {} |-> NoQuestion]

Init ==
  /\ provider \in {"openrouter", "ollama"} /\ phase = "idle"
  /\ asker = "program" /\ given = <<>> /\ questions = Nothing /\ sent = Nothing /\ reply = Nothing
  /\ returned = "none" /\ answers = Nothing /\ told = <<>>

-----------------------------------------------------------------------------
(* Questions.                                                              *)

YesNo(t, f) == [type |-> "yes_no", true |-> t, false |-> f]
Choice(options) == [type |-> "choice", options |-> options]
Score(levels) == [type |-> "score", levels |-> levels]

(* validateQuestion *)
Valid(q) ==
  CASE q.type = "yes_no" -> q.true = NoText <=> q.false = NoText
    [] q.type = "choice" -> Cardinality(DOMAIN q.options) >= 2
    [] q.type = "score"  -> Len(q.levels) >= 2
    [] OTHER -> FALSE

ORTypes == [yes_no |-> "noul", choice |-> "choice", score |-> "score"]

(* The criteria: none for a question that describes neither answer, and    *)
(* null for an option without a description.                               *)
Described(text) == IF text = NoText THEN Null ELSE text

ToORQuestion(q) ==
  [type |-> ORTypes[q.type],
   criteria |-> CASE q.type = "yes_no" -> IF q.true = NoText /\ q.false = NoText THEN <<>>
                                          ELSE [true |-> q.true, false |-> q.false]
                  [] q.type = "choice" -> [n \in DOMAIN q.options |-> Described(q.options[n])]
                  [] q.type = "score"  -> q.levels]

ToORQuestions(qs) == [id \in DOMAIN qs |-> ToORQuestion(qs[id])]

(* The same for Ollama.                                                    *)
ToOllamaQuestions(qs) == ToORQuestions(qs)

-----------------------------------------------------------------------------
(* Answers.                                                                *)

(* Mutant of ToLevel: the levels count from one.                           *)
ToLevelFromOne(key) == KeyNumber[key]

(* toLevel: a key is the index of a level, from zero.                      *)
ToLevel(key) == KeyNumber[key] + 1

IsLevel(key, levels) == KeyNumber[key] # NotANumber /\ ToLevel(key) \in 1..Len(levels)

(* fromORToScoreAnswer: a level without a probability has none; of several *)
(* keys of one level the one the map's iteration comes to last counts.     *)
ScoreAnswers(r, levels) ==
  LET of(i) == {r.probabilities[k] : k \in {k \in DOMAIN r.probabilities : ToLevel(k) = i}} IN
  {[type |-> "score", legend |-> levels, probabilities |-> p] :
     p \in {p \in [1..Len(levels) -> {0} \cup UNION {of(i) : i \in 1..Len(levels)}] :
              \A i \in 1..Len(levels) : IF of(i) = {} THEN p[i] = 0 ELSE p[i] \in of(i)}}

FromORToAnswers(r, q) ==
  CASE q.type = "yes_no" -> {[type |-> "yes_no", value |-> r.noul]}
    [] q.type = "choice" -> {[type |-> "choice", selected |-> r.choice,
                              probabilities |-> r.probabilities]}
    [] q.type = "score"  -> ScoreAnswers(r, q.levels)

(* ErrMissingAnswer, an answer of another type, or of a level not asked.   *)
Unusable(rs, id, q) ==
  \/ id \notin DOMAIN rs
  \/ rs[id].type # ORTypes[q.type]
  \/ q.type = "score" /\ \E k \in DOMAIN rs[id].probabilities : ~IsLevel(k, q.levels)

(* fromORToResponse: the errors, or the answers.                           *)
FromORToResponse(rs, qs) ==
  IF \E id \in DOMAIN qs : Unusable(rs, id, qs[id]) THEN {}
  ELSE {as \in [DOMAIN qs -> UNION {FromORToAnswers(rs[id], qs[id]) : id \in DOMAIN qs}] :
          \A id \in DOMAIN qs : as[id] \in FromORToAnswers(rs[id], qs[id])}

(* The same for Ollama.                                                    *)
FromOllamaToResponse(rs, qs) == FromORToResponse(rs, qs)

-----------------------------------------------------------------------------
(* Ask, by a program or by a tool with one question.                       *)

Ends(how) == phase' = "done" /\ returned' = how

Ask(qs) ==
  /\ questions' = qs
  /\ CASE DOMAIN qs = {} -> Ends("no questions") /\ UNCHANGED sent
       [] \E id \in DOMAIN qs : ~Valid(qs[id]) -> Ends("invalid question") /\ UNCHANGED sent
       [] OTHER -> /\ phase' = "sent" /\ UNCHANGED returned
                   /\ sent' = IF provider = "openrouter" THEN ToORQuestions(qs)
                              ELSE ToOllamaQuestions(qs)

ProgramAsks(qs) ==
  /\ phase = "idle" /\ Ask(qs)
  /\ UNCHANGED <<provider, asker, given, reply, answers, told>>

AskOne(q) == Ask([id \in {ToolID} |-> q]) /\ UNCHANGED <<provider, reply, answers, told>>

GivenTo(kind, list) == phase = "idle" /\ asker' = kind /\ given' = list

AskYesNo(t, f) == GivenTo("yes_no", <<>>) /\ AskOne(YesNo(t, f))

(* An option that is given twice would make one of the model's two lost.   *)
AskChoice(list) ==
  LET names == {list[i].name : i \in 1..Len(list)}
      text(n) == list[CHOOSE i \in 1..Len(list) : list[i].name = n].text
  IN  /\ GivenTo("choice", list)
      /\ IF Cardinality(names) < Len(list)
         THEN /\ Ends("invalid question")
              /\ UNCHANGED <<provider, questions, sent, reply, answers, told>>
         ELSE AskOne(Choice([n \in names |-> text(n)]))

AskScore(list) == GivenTo("score", list) /\ AskOne(Score(list))

(* The request fails, or the provider refuses it.                          *)
AskFails ==
  /\ phase = "sent" /\ Ends("error")
  /\ UNCHANGED <<provider, asker, given, questions, sent, reply, answers, told>>

(* What askScore shows of its answer; nothing for the other questions.     *)
Shown(answer) ==
  IF answer.type # "score" THEN <<>>
  ELSE [i \in 1..Len(answer.legend) |->
          [level |-> answer.legend[i], probability |-> answer.probabilities[i]]]

Answer(rs) ==
  LET responses == IF provider = "openrouter" THEN FromORToResponse(rs, questions)
                   ELSE FromOllamaToResponse(rs, questions)
  IN  /\ phase = "sent" /\ reply' = rs
      /\ \/ /\ responses = {} /\ Ends("error") /\ UNCHANGED <<answers, told>>
         \/ /\ answers' \in responses /\ Ends("answered")
            /\ told' = IF asker = "program" THEN <<>> ELSE Shown(answers'[ToolID])
      /\ UNCHANGED <<provider, asker, given, questions, sent>>

Next ==
  \/ \E ids \in SUBSET IDs : \E qs \in [ids -> Asked] : ProgramAsks(qs)
  \/ \E t, f \in {NoText, "text"} : AskYesNo(t, f)
  \/ \E list \in OptionLists : AskChoice(list)
  \/ \E list \in LevelLists : AskScore(list)
  \/ AskFails
  \/ \E ids \in SUBSET DOMAIN questions : \E rs \in [ids -> Replies] : Answer(rs)

Spec == Init /\ [][Next]_vars

-----------------------------------------------------------------------------
(* What must hold.                                                         *)

(* Whoever asks gets the answer to what it asked, or an error: one answer  *)
(* for each question, of its kind; each level, also where a tool shows it  *)
(* beside the text its model wrote, with what the provider said of the     *)
(* level of that index, or nothing; and each option of a tool's model went *)
(* out once, with its own description.                                     *)
AnswersAsked ==
  LET said(id, i) == {reply[id].probabilities[k] :
                        k \in {k \in DOMAIN reply[id].probabilities : KeyNumber[k] = i - 1}}
      right(id, i, p) == IF said(id, i) = {} THEN p = 0 ELSE p \in said(id, i)
  IN
  /\ returned = "answered" =>
       /\ DOMAIN answers = DOMAIN questions /\ DOMAIN sent = DOMAIN questions
       /\ \A id \in DOMAIN questions :
            /\ answers[id].type = questions[id].type /\ reply[id].type = sent[id].type
            /\ answers[id].type = "score" =>
                 /\ answers[id].legend = questions[id].levels
                 /\ \A i \in 1..Len(questions[id].levels) :
                      right(id, i, answers[id].probabilities[i])
  /\ returned = "answered" /\ asker = "score" =>
       /\ Len(told) = Len(given)
       /\ \A i \in 1..Len(given) : told[i].level = given[i] /\ right(ToolID, i, told[i].probability)
  /\ sent # Nothing /\ asker = "choice" =>
       /\ Cardinality(DOMAIN sent[ToolID].criteria) = Len(given)
       /\ \A i \in 1..Len(given) : sent[ToolID].criteria[given[i].name] = Described(given[i].text)
=============================================================================
