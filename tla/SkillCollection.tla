--------------------------- MODULE SkillCollection --------------------------
(***************************************************************************)
(* skills.Collection (src/skills/collection.go, src/skills/frontmatter.go) *)
(* and the tools that read from it (src/skills/tools.go), while programs   *)
(* add skills, models load them, and the folders on disk change.           *)
(*                                                                         *)
(* Add reads a folder without the collection's lock and takes the name     *)
(* under it; the text and the list of files it read are kept from then on, *)
(* while a file itself is read when it is asked for.  A line of SKILL.md   *)
(* is a fence, blank, words of the text, or sets the name or the           *)
(* description when it stands in the frontmatter.                          *)
(***************************************************************************)
EXTENDS Naturals, Sequences, FiniteSets, FiniteSetsExt

CONSTANTS
  Adders,       (* the goroutines that call Add                            *)
  Folders, SkillNames,
  Documents,    (* what a SKILL.md may hold: sequences of lines            *)
  Paths,        (* the files a folder may hold beside SKILL.md             *)
  MaxEdits      (* bound: changes to the folders                           *)

Fence == "---"
Blank == "blank"
Words == "words"
Describes == "description"

NoFolder == "none"
NoText == <<>>
NoEntry == [folder |-> NoFolder, body |-> NoText, files |-> {}]

VARIABLES
  document, (* SKILL.md of each folder, or NoText when there is none       *)
  holds,    (* the files each folder holds now                             *)
  edits,
  skills,   (* Collection.skills: an entry for each name                   *)
  pc, path, (* each adder: where it is, and the folder it adds             *)
  read,     (* what it read: name, body and files                          *)
  loaded,   (* what skill_load has said of each name: none or one entry    *)
  offered,  (* the names in the catalog of the session's prompt            *)
  answer    (* the last answer of skill_load or skill_load_file            *)

diskVars == <<document, holds, edits>>
addVars == <<pc, path, read>>
modelVars == <<loaded, offered, answer>>
vars == <<diskVars, skills, addVars, modelVars>>

-----------------------------------------------------------------------------
(* Frontmatter.                                                            *)

Fences(lines) == {i \in 1..Len(lines) : lines[i] = Fence}

(* splitFrontmatter: the first line is a fence, and the next fence ends    *)
(* the block; what comes after it, further fences too, is the body.        *)
HasFrontmatter(lines) == 1 \in Fences(lines) /\ Cardinality(Fences(lines)) > 1

BlockEnd(lines) == Min(Fences(lines) \ {1})

(* bodyFrom drops the blank lines before the body.                         *)
BodyFrom(lines, from) ==
  LET said == {i \in from..Len(lines) : lines[i] # Blank}
  IN  IF said = {} THEN NoText ELSE SubSeq(lines, Min(said), Len(lines))

Body(lines) == BodyFrom(lines, BlockEnd(lines) + 1)

Block(lines) == {lines[i] : i \in 2..BlockEnd(lines) - 1}

(* What yaml makes of a block: one name, or none, and a description.       *)
NamesIn(lines) == Block(lines) \cap SkillNames

(* ErrNoSkillFile, ErrInvalidFrontmatter (a key that is set twice is one), *)
(* ErrNameRequired and ErrDescriptionRequired.                             *)
Readable(lines) ==
  /\ lines # NoText /\ HasFrontmatter(lines)
  /\ Cardinality(NamesIn(lines)) = 1 /\ Describes \in Block(lines)

-----------------------------------------------------------------------------
Init ==
  /\ document \in [Folders -> Documents] /\ holds = [f \in Folders |-> Paths] /\ edits = 0
  /\ skills = [n \in SkillNames |-> NoEntry]
  /\ pc = [a \in Adders |-> "idle"] /\ path = [a \in Adders |-> NoFolder]
  /\ read = [a \in Adders |-> NoEntry]
  /\ loaded = [n \in SkillNames |-> NoEntry] /\ offered = {}
  /\ answer = [outcome |-> "none"]

Known == {n \in SkillNames : skills[n] # NoEntry}

(* Somebody works on a folder: rewrites SKILL.md, or adds or removes a file.*)
Edit(f) ==
  /\ edits < MaxEdits /\ edits' = edits + 1
  /\ \/ \E d \in Documents \cup {NoText} : document' = [document EXCEPT ![f] = d] /\ UNCHANGED holds
     \/ \E p \in Paths :
          /\ holds' = [holds EXCEPT ![f] = IF p \in @ THEN @ \ {p} ELSE @ \cup {p}]
          /\ UNCHANGED document
  /\ UNCHANGED <<skills, addVars, modelVars>>

(* Add, or AddClaudeSkill with a name that leads to a folder of its own.   *)
Add(a, f) ==
  /\ pc[a] = "idle"
  /\ pc' = [pc EXCEPT ![a] = "read"] /\ path' = [path EXCEPT ![a] = f]
  /\ UNCHANGED <<diskVars, skills, read, modelVars>>

(* SKILL.md is read and parsed; an error ends the call.                    *)
ReadSkill(a) ==
  /\ pc[a] = "read"
  /\ LET lines == document[path[a]] IN
     IF Readable(lines)
     THEN /\ read' = [read EXCEPT ![a] = [folder |-> path[a], body |-> Body(lines), files |-> {},
                                         name |-> CHOOSE n \in NamesIn(lines) : TRUE]]
          /\ pc' = [pc EXCEPT ![a] = "list"]
     ELSE pc' = [pc EXCEPT ![a] = "idle"] /\ UNCHANGED read
  /\ UNCHANGED <<diskVars, skills, path, modelVars>>

(* listFiles: every regular file but SKILL.md.                             *)
ListFiles(a) ==
  /\ pc[a] = "list"
  /\ read' = [read EXCEPT ![a].files = holds[path[a]]]
  /\ pc' = [pc EXCEPT ![a] = "lock"]
  /\ UNCHANGED <<diskVars, skills, path, modelVars>>

(* The folder is gone, SKILL.md cannot be read, or the files not listed.   *)
ReadFails(a) ==
  /\ pc[a] \in {"read", "list"}
  /\ pc' = [pc EXCEPT ![a] = "idle"] /\ read' = [read EXCEPT ![a] = NoEntry]
  /\ UNCHANGED <<diskVars, skills, path, modelVars>>

Entry(r) == [folder |-> r.folder, body |-> r.body, files |-> r.files]

(* Mutant of Taken: a skill may be added again.                            *)
NeverTaken(name) == FALSE

(* Under the lock: ErrDuplicateSkill, or the skill is in the collection.   *)
Taken(name) == skills[name] # NoEntry

Insert(a) ==
  /\ pc[a] = "lock"
  /\ skills' = IF Taken(read[a].name) THEN skills
               ELSE [skills EXCEPT ![read[a].name] = Entry(read[a])]
  /\ pc' = [pc EXCEPT ![a] = "idle"] /\ read' = [read EXCEPT ![a] = NoEntry]
  /\ UNCHANGED <<diskVars, path, modelVars>>

(* A session begins: its prompt has the catalog.                           *)
Catalog ==
  /\ offered' = Known
  /\ UNCHANGED <<diskVars, skills, addVars, loaded, answer>>

-----------------------------------------------------------------------------
(* The tools, while the model knows of a skill from the catalog.           *)

(* loadSkill *)
LoadSkill(n) ==
  /\ loaded' = [loaded EXCEPT ![n] = skills[n]]
  /\ answer' = [outcome |-> IF n \in Known THEN "skill" ELSE "no skill",
                skill |-> n, entry |-> skills[n], before |-> loaded[n]]
  /\ UNCHANGED <<diskVars, skills, addVars, offered>>

(* loadSkillFile: checkFile, and then the file as it is now.               *)
LoadSkillFile(n, p) ==
  /\ answer' =
       [outcome |-> CASE n \notin Known -> "no skill"
                      [] n \in Known /\ p \notin skills[n].files -> "no file"
                      [] n \in Known /\ p \in skills[n].files /\ p \notin holds[skills[n].folder]
                           -> "unreadable"
                      [] OTHER -> "text",
        skill |-> n, path |-> p, folder |-> skills[n].folder]
  /\ UNCHANGED <<diskVars, skills, addVars, loaded, offered>>

Next ==
  \/ \E f \in Folders : Edit(f)
  \/ \E a \in Adders :
       \/ (\E f \in Folders : Add(a, f))
       \/ ReadSkill(a) \/ ListFiles(a) \/ ReadFails(a) \/ Insert(a)
  \/ Catalog
  \/ \E n \in offered : LoadSkill(n) \/ \E p \in Paths : LoadSkillFile(n, p)

Spec == Init /\ [][Next]_vars

-----------------------------------------------------------------------------
(* What must hold.                                                         *)

(* What a model was told of a skill stays so, whoever adds folders that    *)
(* declare the same name and whatever becomes of the folders: a skill of   *)
(* the catalog can always be loaded and always says the same; a file that  *)
(* was listed with it is a file of that very skill ever after, read from   *)
(* the same folder or reported missing there.                              *)
SkillsStay ==
  LET knows(n) == loaded[n] # NoEntry IN
  /\ offered \subseteq Known
  /\ \A n \in SkillNames : knows(n) => skills[n] = loaded[n]
  /\ answer.outcome = "skill" => answer.before \in {NoEntry, answer.entry}
  /\ answer.outcome \in {"text", "unreadable", "no file"} /\ knows(answer.skill) =>
       /\ answer.folder = loaded[answer.skill].folder
       /\ answer.outcome = "no file" <=> answer.path \notin loaded[answer.skill].files
  /\ answer.outcome # "no skill"
=============================================================================
