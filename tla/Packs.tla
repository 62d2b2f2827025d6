-------------------------------- MODULE Packs --------------------------------
(***************************************************************************)
(* A tool box and what its tools do behind it: the registration, policy    *)
(* and execution of tools (ToolBox), the arguments of every tool           *)
(* (ToolArguments), the file tools of a pack (FilePack), the search that   *)
(* file_search runs (Search), the decision tools (Decision) and the skills *)
(* of a collection (SkillCollection).                                      *)
(*                                                                         *)
(* They keep no state in common: a handler runs after the box has let go   *)
(* of it, and none calls another.  A behaviour is one of a box, of calls,  *)
(* of a file pack and so on, and part says which.                          *)
(***************************************************************************)
EXTENDS ToolBox, Integers

CONSTANTS
  FileCallers, NL, Texts, Writes, Edits, Limits, MaxReadBytes,
  Nodes,                                               (* FilePack         *)
  MaxLines, MaxFiles, MatchLimits,                     (* Search           *)
  Items, Numbers, MaxShellTimeout, Millisecond, Int64Limit, (* ToolArguments *)
  IDs, Asked, OptionLists, LevelLists, KeyNumber, NotANumber,
  Replies,                                             (* Decision         *)
  Adders, Folders, SkillNames, Documents, Paths, MaxEdits  (* SkillCollection *)

ASSUME PacksAssumption ==
  /\ MaxReadBytes \in Nat \ {0} /\ Limits \subseteq Nat \ {0}
  /\ 1 \in Nodes /\ Nodes \subseteq Nat \ {0}
  /\ MaxLines \in Nat /\ MaxFiles \in Nat /\ MatchLimits \subseteq Nat
  /\ "question" \notin IDs /\ MaxEdits \in Nat
  /\ SkillNames \cap {"---", "blank", "words", "description"} = {}
  /\ Documents \subseteq Seq(STRING) \ {<<>>}

(* The longest timeout is one that a time.Duration holds.                  *)
ASSUME TimeoutAssumption ==
  /\ Numbers \subseteq Int /\ {MaxShellTimeout, Millisecond, Int64Limit} \subseteq Nat \ {0}
  /\ MaxShellTimeout * Millisecond < Int64Limit

(* The lists a tool is given are lists, and what is said of a level is     *)
(* under a key Atoi has been asked about.                                  *)
ASSUME DecisionAssumption ==
  /\ OptionLists \subseteq Seq([name : STRING, text : STRING])
  /\ LevelLists \subseteq Seq(STRING)
  /\ \A key \in DOMAIN KeyNumber : KeyNumber[key] \in Int
  /\ \A r \in Replies : r.type = "score" => DOMAIN r.probabilities \subseteq DOMAIN KeyNumber

(* The characters of all texts, which are sequences of them.               *)
AllTexts == Texts \cup Writes \cup {e.old : e \in Edits} \cup {e.new : e \in Edits}
Chars == UNION {{t[i] : i \in DOMAIN t} : t \in AllTexts}

ASSUME TextsAssumption == AllTexts \subseteq Seq(Chars)

VARIABLES
  part,
  folder, entry, content, used, root, closed, fpc, call, fd, total,
  got, touched,
  dir, recursive, maxMatches, at, line, found, matches, truncated, outcome,
  tool, args, verdict,
  provider, phase, asker, given, questions, sent, reply, returned, answers, told,
  document, holds, edits, skills, spc, path, read, loaded, offered, answer

fileVars == <<folder, entry, content, used, root, closed, fpc, call,
              fd, total, got, touched>>
searchVars == <<dir, recursive, maxMatches, at, line, found, matches, truncated,
                outcome>>
argumentVars == <<tool, args, verdict>>
decisionVars == <<provider, phase, asker, given, questions, sent, reply,
                  returned, answers, told>>
skillVars == <<document, holds, edits, skills, spc, path, read, loaded,
               offered, answer>>
packsVars == <<part, vars, fileVars, searchVars, argumentVars, decisionVars,
               skillVars>>

Pack == INSTANCE FilePack WITH Callers <- FileCallers, pc <- fpc
Walk == INSTANCE Search WITH folder <- dir
Arguments == INSTANCE ToolArguments
Ask == INSTANCE Decision
Collection == INSTANCE SkillCollection WITH pc <- spc

(* Only the part that is looked at starts in each of its initial states.   *)
PacksInit ==
  /\ part \in {"box", "files", "search", "arguments", "decision", "skills"}
  /\ Init
  /\ Ask!Init /\ (part # "decision" => provider = "ollama")
  /\ Collection!Init
  /\ (part # "skills" => document = [f \in Folders |-> CHOOSE d \in Documents : TRUE])
  /\ Pack!Init /\ (part # "files" => ~folder)
  /\ IF part = "search" THEN Walk!Init
     ELSE /\ dir = <<>> /\ recursive = FALSE /\ maxMatches = 0 /\ at = 1
          /\ line = 0 /\ found = <<>> /\ matches = <<>> /\ truncated = FALSE /\ outcome = "walking"
  /\ IF part = "arguments" THEN Arguments!Init
     ELSE tool = "file_workdir" /\ args = <<>> /\ verdict = "none"

PacksNext ==
  /\ UNCHANGED part
  /\ \/ /\ part = "box" /\ Next
        /\ UNCHANGED <<fileVars, searchVars, argumentVars, decisionVars, skillVars>>
     \/ /\ part = "files" /\ Pack!Next
        /\ UNCHANGED <<vars, searchVars, argumentVars, decisionVars, skillVars>>
     \/ /\ part = "search" /\ Walk!Next
        /\ UNCHANGED <<vars, fileVars, argumentVars, decisionVars, skillVars>>
     \/ /\ part = "arguments" /\ Arguments!Next
        /\ UNCHANGED <<vars, fileVars, searchVars, decisionVars, skillVars>>
     \/ /\ part = "decision" /\ Ask!Next
        /\ UNCHANGED <<vars, fileVars, searchVars, argumentVars, skillVars>>
     \/ /\ part = "skills" /\ Collection!Next
        /\ UNCHANGED <<vars, fileVars, searchVars, argumentVars, decisionVars>>

PacksSpec == PacksInit /\ [][PacksNext]_packsVars

-----------------------------------------------------------------------------
(* What must hold, beside the properties of ToolBox.                       *)

(* A model that reads a file page by page, each page from where the last   *)
(* one ended, has every line once and in order when it is told that it has *)
(* them all, unless a call changed the file meanwhile.                     *)
PagesJoin == Pack!PagesJoin

(* A search result that is not marked as cut short misses no match; one    *)
(* that is holds the first ones, as many as were asked for, of more.       *)
MarkIsHonest == part = "search" => Walk!MarkIsHonest

(* A call of a tool runs when it keeps to the schema the model was shown   *)
(* and to what that says of its numbers and patterns, and is refused for   *)
(* its arguments otherwise, save for timeouts that overflow.               *)
ArgumentsAgree == Arguments!ArgumentsAgree

(* Whoever asks a decision gets the answer to what it asked, of its kind   *)
(* and with what the provider said of each level under that level, or an   *)
(* error; and no option of a model's question is lost on the way.          *)
AnswersAsked == Ask!AnswersAsked

(* What a model was told of a skill stays so, whoever adds folders of the  *)
(* same name and whatever becomes of the folders on disk.                  *)
SkillsStay == Collection!SkillsStay
=============================================================================
