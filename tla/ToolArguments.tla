---------------------------- MODULE ToolArguments ---------------------------
(***************************************************************************)
(* What a tool tells the model about its arguments and what its handler    *)
(* makes of them: the schemas built with tools.ObjectBuilder               *)
(* (src/tools/schema.go), the accessors of tools.Arguments                 *)
(* (src/tools/arguments.go), and the tools of the packs and of a skill     *)
(* collection, each of which uses both.                                    *)
(*                                                                         *)
(* Nothing checks a call against its schema before the handler runs.  Of   *)
(* a decoded value its kind matters, of a string whether it is well formed *)
(* where an expression or a glob is expected, of an array the items it     *)
(* has.  Numbers are float64s: an "integer" is one without a fraction, a   *)
(* "number" one with, and whole is what is left when that is cut off.      *)
(***************************************************************************)
EXTENDS Integers, Sequences, FiniteSets, FiniteSetsExt

CONSTANTS
  Items,            (* bound: what the arrays of a call hold, beside objects *)
  Numbers,          (* bound: the whole parts of the numbers of a call     *)
  MaxShellTimeout,  (* in milliseconds                                     *)
  Millisecond,      (* in the nanoseconds that a time.Duration counts      *)
  Int64Limit        (* an int64 is in -Int64Limit..(Int64Limit - 1)        *)

Scalar(kind) == [kind |-> kind]
Text(wellFormed) == [kind |-> "string", wellFormed |-> wellFormed]
Number(kind, whole) == [kind |-> kind, whole |-> whole]
Array(items) == [kind |-> "array", items |-> items]
Object(fields) == [kind |-> "object", fields |-> fields]

-----------------------------------------------------------------------------
(* Schemas.                                                                *)

Field(name, spec, required) == [name |-> name, spec |-> spec, required |-> required]

String(name, required) == Field(name, [kind |-> "string"], required)
Integer(name, required) == Field(name, [kind |-> "integer"], required)
Boolean(name, required) == Field(name, [kind |-> "boolean"], required)

(* A later field replaces an earlier one of its name; what was required    *)
(* stays so.                                                               *)
Build(fields) ==
  LET named(n) == {i \in 1..Len(fields) : fields[i].name = n}
      names == {fields[i].name : i \in 1..Len(fields)}
  IN  [kind |-> "object",
       properties |-> [n \in names |-> fields[Max(named(n))].spec],
       required |-> {n \in names : \E i \in named(n) : fields[i].required}]

ArrayOfStrings(name, required) ==
  Field(name, [kind |-> "array", items |-> [kind |-> "string"]], required)

ArrayOfObjects(name, required, fields) ==
  Field(name, [kind |-> "array", items |-> Build(fields)], required)

(* What a schema admits, as JSON Schema has it; a number with a fraction   *)
(* passes for an integer, which the accessors promise to truncate.  The    *)
(* schemas of the tools nest no deeper than a scalar of an object of an    *)
(* array of a call, so what Inner says of what is inside ends there.       *)
AdmitsScalar(spec, v) ==
  IF spec.kind = "integer" THEN v.kind \in {"integer", "number"} ELSE v.kind = spec.kind

AdmitsBy(Inner(_, _), spec, v) ==
  CASE spec.kind = "object" ->
         /\ v.kind = "object" /\ spec.required \subseteq DOMAIN v.fields
         /\ \A n \in DOMAIN spec.properties \cap DOMAIN v.fields :
              Inner(spec.properties[n], v.fields[n])
    [] spec.kind = "array" -> v.kind = "array" /\ \A i \in v.items : Inner(spec.items, i)
    [] OTHER -> AdmitsScalar(spec, v)

AdmitsItem(spec, v) == AdmitsBy(AdmitsScalar, spec, v)
AdmitsField(spec, v) == AdmitsBy(AdmitsItem, spec, v)
Admits(spec, v) == AdmitsBy(AdmitsField, spec, v)

-----------------------------------------------------------------------------
(* Accessors, on the fields of a call.                                     *)

Exists(args, key) == key \in DOMAIN args

(* ErrFieldNotFound, ErrInvalidFieldType or the value.                     *)
Typed(args, key, kinds) ==
  IF ~Exists(args, key) THEN "missing"
  ELSE IF args[key].kind \in kinds THEN "ok" ELSE "invalid"

Elements(args, key, kinds) ==
  IF Typed(args, key, {"array"}) # "ok" THEN Typed(args, key, {"array"})
  ELSE IF \A i \in args[key].items : i.kind \in kinds THEN "ok" ELSE "invalid"

Optional(args, key, got) == IF ~Exists(args, key) THEN "ok" ELSE got

GetString(args, key) == Typed(args, key, {"string"})
GetOptionalString(args, key) == Optional(args, key, GetString(args, key))

(* Mutant of GetInt: numbers are taken for Go's own ints only, which a     *)
(* decoded call never has.                                                 *)
GetIntOnly(args, key) == Typed(args, key, {})

GetInt(args, key) == Typed(args, key, {"integer", "number"})
GetOptionalInt(args, key) == Optional(args, key, GetInt(args, key))

GetBool(args, key) == Typed(args, key, {"boolean"})
GetOptionalBool(args, key) == Optional(args, key, GetBool(args, key))

GetArrayOfStrings(args, key) == Elements(args, key, {"string"})
GetOptionalArrayOfStrings(args, key) == Optional(args, key, GetArrayOfStrings(args, key))

GetArrayOfObjects(args, key) == Elements(args, key, {"object"})

(* What a handler asks of a field besides, once it has got it.             *)
Checked(args, key, got, bad) ==
  IF Exists(args, key) /\ got = "ok" /\ bad THEN "refused" ELSE got

positiveIntArg(args, key) ==
  Checked(args, key, GetOptionalInt(args, key), args[key].whole < 1)

(* regexp.Compile and filepath.Match.                                      *)
Compiled(args, key, got) == Checked(args, key, got, ~args[key].wellFormed)

(* A multiplication of int64s that wraps around.                           *)
Duration(millis) ==
  ((millis * Millisecond + Int64Limit) % (2 * Int64Limit)) - Int64Limit

shellTimeout(args, key) ==
  Checked(args, key, GetOptionalInt(args, key),
          LET timeout == Duration(args[key].whole)
          IN  timeout <= 0 \/ timeout > MaxShellTimeout * Millisecond)

-----------------------------------------------------------------------------
(* The tools: the fields each declares, and what its handler reads.        *)

readTool == <<String("path", TRUE), Integer("offset", FALSE), Integer("limit", FALSE)>>
writeTool == <<String("path", TRUE), String("content", TRUE)>>
editTool == <<String("path", TRUE), String("old_string", TRUE), String("new_string", TRUE)>>
listTool == <<String("path", FALSE)>>
searchTool ==
  <<String("pattern", TRUE), String("path", FALSE), String("glob", FALSE),
    Boolean("recursive", FALSE), Integer("limit", FALSE)>>
deleteTool == <<String("path", TRUE)>>
shellTool == <<String("command", TRUE), String("workdir", FALSE), Integer("timeout_ms", FALSE)>>
subagentTool == <<String("agent", TRUE), String("prompt", TRUE)>>
yesNoTool ==
  <<String("input", TRUE), String("instructions", TRUE), String("true", TRUE), String("false", TRUE)>>
choiceTool ==
  <<String("input", TRUE), String("instructions", TRUE),
    ArrayOfObjects("options", TRUE, <<String("name", TRUE), String("description", FALSE)>>)>>
scoreTool ==
  <<String("input", TRUE), String("instructions", TRUE), ArrayOfStrings("levels", TRUE)>>
loadTool == <<String("skill_name", TRUE)>>
loadFileTool == <<String("skill_name", TRUE), String("path", TRUE)>>
executeFileTool ==
  <<String("skill_name", TRUE), String("path", TRUE), ArrayOfStrings("args", FALSE)>>

readFile(a) == {GetString(a, "path"), positiveIntArg(a, "offset"), positiveIntArg(a, "limit")}
writeFile(a) == {GetString(a, "path"), GetString(a, "content")}
editFile(a) == {GetString(a, "path"), GetString(a, "old_string"), GetString(a, "new_string")}
listDir(a) == {GetOptionalString(a, "path")}
searchFiles(a) ==
  {Compiled(a, "pattern", GetString(a, "pattern")), GetOptionalString(a, "path"),
   Compiled(a, "glob", GetOptionalString(a, "glob")),
   GetOptionalBool(a, "recursive"), positiveIntArg(a, "limit")}
deleteFile(a) == {GetString(a, "path")}
runShellCommand(a) ==
  {GetString(a, "command"), GetOptionalString(a, "workdir"), shellTimeout(a, "timeout_ms")}
runSubAgent(a) == {GetString(a, "agent"), GetString(a, "prompt")}
inputAndInstructions(a) == {GetString(a, "input"), GetString(a, "instructions")}
askYesNo(a) == inputAndInstructions(a) \cup {GetString(a, "true"), GetString(a, "false")}
askChoice(a) ==
  inputAndInstructions(a) \cup {GetArrayOfObjects(a, "options")} \cup
    IF GetArrayOfObjects(a, "options") # "ok" THEN {}
    ELSE UNION {{GetString(o.fields, "name"), GetOptionalString(o.fields, "description")} :
                  o \in a["options"].items}
askScore(a) == inputAndInstructions(a) \cup {GetArrayOfStrings(a, "levels")}
loadSkill(a) == {GetString(a, "skill_name")}
loadSkillFile(a) == {GetString(a, "skill_name"), GetString(a, "path")}
executeSkillFile(a) ==
  {GetString(a, "skill_name"), GetString(a, "path"), GetOptionalArrayOfStrings(a, "args")}

Schemas ==
  [file_read |-> readTool, file_write |-> writeTool, file_edit |-> editTool,
   file_list |-> listTool, file_search |-> searchTool, file_delete |-> deleteTool,
   file_workdir |-> <<>>, shell_run |-> shellTool, subagent |-> subagentTool,
   decision_yes_no |-> yesNoTool, decision_choice |-> choiceTool,
   decision_score |-> scoreTool, skill_load |-> loadTool,
   skill_load_file |-> loadFileTool, skill_execute_file |-> executeFileTool]

Reads(tool, a) ==
  CASE tool = "file_read" -> readFile(a)          [] tool = "file_write" -> writeFile(a)
    [] tool = "file_edit" -> editFile(a)          [] tool = "file_list" -> listDir(a)
    [] tool = "file_search" -> searchFiles(a)     [] tool = "file_delete" -> deleteFile(a)
    [] tool = "file_workdir" -> {}                [] tool = "shell_run" -> runShellCommand(a)
    [] tool = "subagent" -> runSubAgent(a)        [] tool = "decision_yes_no" -> askYesNo(a)
    [] tool = "decision_choice" -> askChoice(a)   [] tool = "decision_score" -> askScore(a)
    [] tool = "skill_load" -> loadSkill(a)        [] tool = "skill_load_file" -> loadSkillFile(a)
    [] tool = "skill_execute_file" -> executeSkillFile(a)

-----------------------------------------------------------------------------
VARIABLES
  tool, args,   (* the call of a model: the tool and the decoded fields    *)
  verdict       (* "none", "runs" or "refused"                             *)

vars == <<tool, args, verdict>>

(* What a model may write for a field of a tool: any scalar, an object, an *)
(* array of nothing, of one item, of all; it may leave any field out.  One *)
(* number does where no number is expected.                                *)
Scalars(numbers) ==
  {Scalar("boolean"), Scalar("null")} \cup {Text(w) : w \in BOOLEAN}
    \cup {Number(k, n) : k \in {"integer", "number"}, n \in numbers}

Objects(spec) ==
  {Object(f) : f \in UNION {[ns -> {Text(TRUE), Scalar("null")}] :
                              ns \in SUBSET DOMAIN spec.properties}}

ItemsOf(spec) == Items \cup IF spec.kind = "object" THEN Objects(spec) ELSE {}

Values(fields, numbers) ==
  LET arrays == {i \in 1..Len(fields) : fields[i].spec.kind = "array"}
      items == UNION {ItemsOf(fields[i].spec.items) : i \in arrays}
  IN  Scalars(numbers) \cup {Object(<<>>)}
        \cup {Array(s) : s \in {{}, items} \cup {{i} : i \in items}}

(* The functions on some of the names, and two of them put together.       *)
SomeOf(names, values) == UNION {[ns -> values] : ns \in SUBSET names}

Joined(f, g) ==
  [n \in DOMAIN f \cup DOMAIN g |-> IF n \in DOMAIN f THEN f[n] ELSE g[n]]

CallsOf(fields) ==
  LET names == {fields[i].name : i \in 1..Len(fields)}
      integers == {n \in names : \E i \in 1..Len(fields) :
                                   fields[i].name = n /\ fields[i].spec.kind = "integer"}
  IN  {Joined(f, g) : f \in SomeOf(integers, Values(fields, Numbers)),
                      g \in SomeOf(names \ integers, Values(fields, {1}))}

Init ==
  /\ tool \in DOMAIN Schemas /\ args \in CallsOf(Schemas[tool])
  /\ verdict = "none"

(* ToolBox.Execute runs the handler with the arguments as they were        *)
(* decoded; its first read that fails is the error the model gets.         *)
Execute ==
  /\ verdict = "none"
  /\ verdict' = IF Reads(tool, args) \subseteq {"ok"} THEN "runs" ELSE "refused"
  /\ UNCHANGED <<tool, args>>

Next == Execute

Spec == Init /\ [][Next]_vars

-----------------------------------------------------------------------------
(* What the schemas say in words of the values they admit.                 *)

Positive(a, key) == key \in DOMAIN a => a[key].whole >= 1
WellFormed(a, key) == key \in DOMAIN a => a[key].wellFormed

KeepsToWords(t, a) ==
  /\ t = "file_read" => Positive(a, "offset") /\ Positive(a, "limit")
  /\ t = "file_search" =>
       WellFormed(a, "pattern") /\ WellFormed(a, "glob") /\ Positive(a, "limit")
  /\ t = "shell_run" /\ "timeout_ms" \in DOMAIN a =>
       a["timeout_ms"].whole \in 1..MaxShellTimeout

(* A timeout whose nanoseconds are more than an int64 holds: it may wrap   *)
(* around to one that is accepted, though it is far over the longest.      *)
Overflows(t, a) ==
  /\ t = "shell_run" /\ GetInt(a, "timeout_ms") = "ok"
  /\ a["timeout_ms"].whole * Millisecond \notin -Int64Limit..(Int64Limit - 1)

(* A call runs when it keeps to the schema the model was shown and to what *)
(* that says of its numbers and patterns, and is refused for its arguments *)
(* otherwise: none runs with a field taken for something else, a default   *)
(* in the place of one it must give, or a number or pattern that means     *)
(* nothing, save for timeouts that overflow.                               *)
ArgumentsAgree ==
  verdict # "none" /\ ~Overflows(tool, args) =>
    (verdict = "runs" <=>
       Admits(Build(Schemas[tool]), Object(args)) /\ KeepsToWords(tool, args))
=============================================================================
