----------------------------- MODULE PacksProofs -----------------------------
(***************************************************************************)
(* Proofs about what the tools of a box do, for any packs, skills and      *)
(* folders, questions and answers, texts and edits: what a closed pack may *)
(* take away, what a skill keeps saying, which calls run, which answer     *)
(* belongs to which question, that the pages of a file make the file, and  *)
(* what the mark of a search result says.                                  *)
(***************************************************************************)
EXTENDS Packs, FiniteSetTheorems, SequenceTheorems, WellFoundedInduction, TLAPS

(* A behaviour of one part is a behaviour of that part's specification.    *)
LEMMA PartSteps ==
  ASSUME [PacksNext]_packsVars
  PROVE  /\ [Next]_vars
         /\ [Pack!Next]_(Pack!vars)
         /\ [Walk!Next]_(Walk!vars) /\ part' = part
         /\ [Arguments!Next]_(Arguments!vars)
         /\ [Ask!Next]_(Ask!vars)
         /\ [Collection!Next]_(Collection!vars)
<1> USE DEF fileVars, searchVars, argumentVars, decisionVars, skillVars,
            Pack!vars, Pack!files, Pack!paging, Walk!vars, Walk!config, Arguments!vars, Ask!vars,
            Collection!vars, Collection!diskVars, Collection!addVars, Collection!modelVars
<1>1. CASE UNCHANGED packsVars
  BY <1>1 DEF packsVars
<1>2. CASE PacksNext
  BY <1>2 DEF PacksNext
<1> QED
  BY <1>1, <1>2

-----------------------------------------------------------------------------
(* Closed packs.                                                           *)

BoxInv ==
  /\ box \in [Names -> Packs \cup {NoTool}]
  /\ stage \in [Packs -> {"new", "adding", "open", "removing", "closed"}]
  /\ DOMAIN todo = Packs
  /\ \A p \in finished : stage[p] = "closed"

LEMMA BoxStep == BoxInv /\ [Next]_vars => BoxInv'
<1> SUFFICES ASSUME BoxInv, [Next]_vars PROVE BoxInv'
  OBVIOUS
<1> USE DEF BoxInv, packVars, callVars
<1>1. CASE UNCHANGED vars
  BY <1>1 DEF vars
<1>2. ASSUME NEW p \in Packs, Construct(p) \/ AddOne(p) \/ Constructed(p) \/ Close(p)
                              \/ RemoveOne(p) \/ Closed(p)
      PROVE  BoxInv'
  <2>1. CASE Construct(p)
    BY <2>1 DEF Construct
  <2>2. CASE AddOne(p)
    BY <2>2 DEF AddOne, AddTool
  <2>3. CASE Constructed(p)
    BY <2>3 DEF Constructed
  <2>4. CASE Close(p)
    BY <2>4 DEF Close
  <2>5. CASE RemoveOne(p)
    BY <2>5 DEF RemoveOne, RemoveTool
  <2>6. CASE Closed(p)
    BY <2>6 DEF Closed
  <2> QED
    BY <1>2, <2>1, <2>2, <2>3, <2>4, <2>5, <2>6
<1>3. ASSUME NEW i \in Policies \cup {NoPolicy}, SetInterceptor(i) PROVE BoxInv'
  BY <1>3 DEF SetInterceptor
<1>4. ASSUME NEW c \in Callers,
             (\E n \in Names : Execute(c, n) \/ ToolNotFound(c, n))
               \/ Intercept(c) \/ Blocked(c) \/ Return(c)
      PROVE  BoxInv'
  BY <1>4 DEF Execute, ToolNotFound, Intercept, Blocked, Return, Forget, vars
<1> QED
  BY <1>1, <1>2, <1>3, <1>4 DEF Next

(* A tool disappears only while a pack of its name is closed for the first *)
(* time, however often packs are closed.                                   *)
THEOREM ClosedPacksAreHarmless == PacksSpec => SecondCloseHarmless
<1> DEFINE Gone(n) ==
      HasTool(box, n) /\ ~HasTool(box', n)
        => \E p \in Packs \ finished :
             stage[p] = "removing" /\ todo[p] # <<>> /\ Head(todo[p]) = n
<1>1. PacksInit => BoxInv
  BY ToolBoxAssumption DEF PacksInit, Init, BoxInv, EmptyBox
<1>2. BoxInv /\ [PacksNext]_packsVars => BoxInv'
  BY PartSteps, BoxStep
<1>3. BoxInv /\ [Next]_vars => \A n \in Names : Gone(n)
  <2> SUFFICES ASSUME BoxInv, [Next]_vars, NEW n \in Names, box[n] # NoTool, box'[n] = NoTool
               PROVE  \E p \in Packs \ finished :
                        stage[p] = "removing" /\ todo[p] # <<>> /\ Head(todo[p]) = n
    BY DEF HasTool
  <2>1. PICK p \in Packs : AddOne(p) \/ RemoveOne(p)
    BY DEF Next, vars, Construct, Constructed, Close, Closed, SetInterceptor, Execute,
           ToolNotFound, Intercept, Blocked, Return, Forget
  <2>2. CASE AddOne(p)
    BY <2>2, ToolBoxAssumption DEF BoxInv, AddOne, AddTool
  <2>3. CASE RemoveOne(p)
    BY <2>3 DEF BoxInv, RemoveOne, RemoveTool
  <2> QED
    BY <2>1, <2>2, <2>3
<1>4. BoxInv /\ [PacksNext]_packsVars => [\A n \in Names : Gone(n)]_vars
  BY <1>3, PartSteps
<1> QED
  BY <1>1, <1>2, <1>4, PTL DEF PacksSpec, SecondCloseHarmless

-----------------------------------------------------------------------------
(* Skills.                                                                 *)

SkillsInv ==
  /\ SkillsStay
  /\ DOMAIN skills = SkillNames /\ DOMAIN loaded = SkillNames

(* A skill that is in the collection stays as it is.                       *)
LEMMA InsertKeeps ==
  ASSUME NEW a \in Adders, Collection!Insert(a), DOMAIN skills = SkillNames
  PROVE  /\ DOMAIN skills' = SkillNames
         /\ \A n \in SkillNames : skills[n] # Collection!NoEntry => skills'[n] = skills[n]
  BY DEF Collection!Insert, Collection!Taken

LEMMA SkillsStep == SkillsInv /\ [Collection!Next]_(Collection!vars) => SkillsInv'
<1> SUFFICES ASSUME SkillsInv, [Collection!Next]_(Collection!vars) PROVE SkillsInv'
  OBVIOUS
<1> USE DEF SkillsInv, SkillsStay, Collection!SkillsStay, Collection!Known,
            Collection!diskVars, Collection!addVars, Collection!modelVars
<1>1. CASE UNCHANGED Collection!vars
  BY <1>1 DEF Collection!vars
<1>2. ASSUME NEW f \in Folders, Collection!Edit(f) PROVE SkillsInv'
  BY <1>2 DEF Collection!Edit
<1>3. ASSUME NEW a \in Adders, NEW f \in Folders, Collection!Add(a, f) PROVE SkillsInv'
  BY <1>3 DEF Collection!Add
<1>4. ASSUME NEW a \in Adders,
             Collection!ReadSkill(a) \/ Collection!ListFiles(a) \/ Collection!ReadFails(a)
      PROVE  SkillsInv'
  BY <1>4 DEF Collection!ReadSkill, Collection!ListFiles, Collection!ReadFails
<1>5. ASSUME NEW a \in Adders, Collection!Insert(a) PROVE SkillsInv'
  <2>1. UNCHANGED <<loaded, offered, answer>>
    BY <1>5 DEF Collection!Insert
  <2> QED
    BY <1>5, <2>1, InsertKeeps
<1>6. CASE Collection!Catalog
  BY <1>6 DEF Collection!Catalog
<1>7. ASSUME NEW n \in offered, Collection!LoadSkill(n) PROVE SkillsInv'
  <2>1. n \in SkillNames /\ skills[n] # Collection!NoEntry
    OBVIOUS
  <2>2. /\ UNCHANGED <<skills, offered>> /\ loaded' = [loaded EXCEPT ![n] = skills[n]]
        /\ answer' = [outcome |-> "skill", skill |-> n, entry |-> skills[n],
                      before |-> loaded[n]]
    BY <1>7, <2>1 DEF Collection!LoadSkill
  <2> QED
    BY <2>1, <2>2
<1>8. ASSUME NEW n \in offered, NEW p \in Paths, Collection!LoadSkillFile(n, p)
      PROVE  SkillsInv'
  <2>1. n \in SkillNames /\ skills[n] # Collection!NoEntry
    OBVIOUS
  <2>2. /\ UNCHANGED <<skills, offered, loaded>>
        /\ answer'.outcome \in {"text", "unreadable", "no file"}
        /\ answer'.outcome = "no file" <=> p \notin skills[n].files
        /\ answer'.skill = n /\ answer'.path = p /\ answer'.folder = skills[n].folder
    BY <1>8, <2>1 DEF Collection!LoadSkillFile
  <2> QED
    BY <2>1, <2>2
<1> QED
  BY <1>1, <1>2, <1>3, <1>4, <1>5, <1>6, <1>7, <1>8 DEF Collection!Next

(* A skill of the catalog can always be loaded, says the same every time,  *)
(* and has the files it was said to have, whatever is added and edited.    *)
THEOREM SkillsAreKept == PacksSpec => []SkillsStay
<1>1. PacksInit => SkillsInv
  BY DEF PacksInit, SkillsInv, SkillsStay, Collection!SkillsStay, Collection!Init,
         Collection!Known
<1>2. SkillsInv /\ [PacksNext]_packsVars => SkillsInv'
  BY PartSteps, SkillsStep
<1>3. SkillsInv => SkillsStay
  BY DEF SkillsInv
<1> QED
  BY <1>1, <1>2, <1>3, PTL DEF PacksSpec

-----------------------------------------------------------------------------
(* Calls and schemas.                                                      *)

(* What a schema says of one of its fields.                                *)
FieldFits(f, a) ==
  IF f.name \in DOMAIN a THEN Arguments!AdmitsField(f.spec, a[f.name]) ELSE ~f.required

ItemFits(f, a) ==
  IF f.name \in DOMAIN a THEN Arguments!AdmitsScalar(f.spec, a[f.name]) ELSE ~f.required

Distinct(fields) ==
  /\ Len(fields) \in Nat
  /\ \A i, j \in 1..Len(fields) : fields[i].name = fields[j].name => i = j

(* A builder whose fields have different names loses none of them.         *)
LEMMA Built ==
  ASSUME NEW fields, Distinct(fields)
  PROVE  LET schema == Arguments!Build(fields) IN
         /\ schema.kind = "object"
         /\ DOMAIN schema.properties = {fields[i].name : i \in 1..Len(fields)}
         /\ \A i \in 1..Len(fields) :
              /\ schema.properties[fields[i].name] = fields[i].spec
              /\ fields[i].name \in schema.required <=> fields[i].required
         /\ schema.required \subseteq DOMAIN schema.properties
<1> DEFINE named(n) == {i \in 1..Len(fields) : fields[i].name = n}
           names == {fields[i].name : i \in 1..Len(fields)}
           properties == [n \in names |-> fields[Arguments!Max(named(n))].spec]
           required == {n \in names : \E i \in named(n) : fields[i].required}
<1>1. ASSUME NEW i \in 1..Len(fields)
      PROVE  named(fields[i].name) = {i} /\ Arguments!Max(named(fields[i].name)) = i
  <2>1. named(fields[i].name) = {i}
    BY DEF Distinct
  <2>2. i \in Nat
    BY DEF Distinct
  <2>3. Arguments!Max({i}) = i
    BY <2>2 DEF Arguments!Max
  <2> QED
    BY <2>1, <2>3
<1>2. Arguments!Build(fields) =
        [kind |-> "object", properties |-> properties, required |-> required]
  BY DEF Arguments!Build
<1> HIDE DEF named
<1>3. \A i \in 1..Len(fields) :
        /\ properties[fields[i].name] = fields[i].spec
        /\ fields[i].name \in required <=> fields[i].required
  BY <1>1
<1> QED
  BY <1>2, <1>3

(* So a call keeps to the schema if each field does.                       *)
LEMMA CallFits ==
  ASSUME NEW fields, Distinct(fields), NEW a
  PROVE  Arguments!Admits(Arguments!Build(fields), Arguments!Object(a))
           <=> \A i \in 1..Len(fields) : FieldFits(fields[i], a)
<1> DEFINE schema == Arguments!Build(fields)
<1>1. /\ schema.kind = "object"
      /\ DOMAIN schema.properties = {fields[i].name : i \in 1..Len(fields)}
      /\ \A i \in 1..Len(fields) :
           /\ schema.properties[fields[i].name] = fields[i].spec
           /\ fields[i].name \in schema.required <=> fields[i].required
      /\ schema.required \subseteq DOMAIN schema.properties
  BY Built
<1> HIDE DEF schema
<1>2. Arguments!Admits(schema, Arguments!Object(a)) <=>
        /\ schema.required \subseteq DOMAIN a
        /\ \A n \in DOMAIN schema.properties \cap DOMAIN a :
             Arguments!AdmitsField(schema.properties[n], a[n])
  BY <1>1 DEF Arguments!Admits, Arguments!AdmitsBy, Arguments!Object
<1> QED
  BY <1>1, <1>2 DEF FieldFits, schema

(* And so does an object in an array.                                      *)
LEMMA ObjectFits ==
  ASSUME NEW fields, Distinct(fields), NEW v
  PROVE  Arguments!AdmitsItem(Arguments!Build(fields), v)
           <=> v.kind = "object" /\ \A i \in 1..Len(fields) : ItemFits(fields[i], v.fields)
<1> DEFINE schema == Arguments!Build(fields)
<1>1. /\ schema.kind = "object"
      /\ DOMAIN schema.properties = {fields[i].name : i \in 1..Len(fields)}
      /\ \A i \in 1..Len(fields) :
           /\ schema.properties[fields[i].name] = fields[i].spec
           /\ fields[i].name \in schema.required <=> fields[i].required
      /\ schema.required \subseteq DOMAIN schema.properties
  BY Built
<1> HIDE DEF schema
<1>2. Arguments!AdmitsItem(schema, v) <=>
        /\ v.kind = "object" /\ schema.required \subseteq DOMAIN v.fields
        /\ \A n \in DOMAIN schema.properties \cap DOMAIN v.fields :
             Arguments!AdmitsScalar(schema.properties[n], v.fields[n])
  BY <1>1 DEF Arguments!AdmitsItem, Arguments!AdmitsBy
<1> QED
  BY <1>1, <1>2 DEF ItemFits, schema

(* The accessors take what the builders' fields admit.                     *)
LEMMA Accessors ==
  ASSUME NEW a, NEW key
  PROVE  /\ Arguments!GetString(a, key) = "ok" <=> FieldFits(Arguments!String(key, TRUE), a)
         /\ Arguments!GetOptionalString(a, key) = "ok"
              <=> FieldFits(Arguments!String(key, FALSE), a)
         /\ Arguments!GetOptionalInt(a, key) = "ok"
              <=> FieldFits(Arguments!Integer(key, FALSE), a)
         /\ Arguments!GetOptionalBool(a, key) = "ok"
              <=> FieldFits(Arguments!Boolean(key, FALSE), a)
  BY DEF FieldFits, Arguments!AdmitsField, Arguments!AdmitsBy, Arguments!AdmitsScalar,
         Arguments!String, Arguments!Integer, Arguments!Boolean, Arguments!Field,
         Arguments!GetString, Arguments!GetOptionalString, Arguments!GetInt,
         Arguments!GetOptionalInt, Arguments!GetBool, Arguments!GetOptionalBool,
         Arguments!Optional, Arguments!Typed, Arguments!Exists

LEMMA ItemAccessors ==
  ASSUME NEW a, NEW key
  PROVE  /\ Arguments!GetString(a, key) = "ok" <=> ItemFits(Arguments!String(key, TRUE), a)
         /\ Arguments!GetOptionalString(a, key) = "ok"
              <=> ItemFits(Arguments!String(key, FALSE), a)
  BY DEF ItemFits, Arguments!AdmitsScalar, Arguments!String, Arguments!Field,
         Arguments!GetString, Arguments!GetOptionalString,
         Arguments!Optional, Arguments!Typed, Arguments!Exists

LEMMA ArrayAccessors ==
  ASSUME NEW a, NEW key
  PROVE  /\ Arguments!GetArrayOfStrings(a, key) = "ok"
              <=> FieldFits(Arguments!ArrayOfStrings(key, TRUE), a)
         /\ Arguments!GetOptionalArrayOfStrings(a, key) = "ok"
              <=> FieldFits(Arguments!ArrayOfStrings(key, FALSE), a)
<1> USE DEF Arguments!Elements, Arguments!Optional, Arguments!Typed, Arguments!Exists
<1>1. ASSUME NEW required \in BOOLEAN
      PROVE  FieldFits(Arguments!ArrayOfStrings(key, required), a) <=>
               IF key \in DOMAIN a
               THEN a[key].kind = "array" /\ \A i \in a[key].items : i.kind = "string"
               ELSE ~required
  BY DEF FieldFits, Arguments!AdmitsField, Arguments!AdmitsItem, Arguments!AdmitsBy,
         Arguments!AdmitsScalar, Arguments!ArrayOfStrings, Arguments!Field
<1>2. Arguments!GetArrayOfStrings(a, key) = "ok"
        <=> FieldFits(Arguments!ArrayOfStrings(key, TRUE), a)
  BY <1>1 DEF Arguments!GetArrayOfStrings
<1>3. Arguments!GetOptionalArrayOfStrings(a, key) = "ok"
        <=> FieldFits(Arguments!ArrayOfStrings(key, FALSE), a)
  BY <1>1 DEF Arguments!GetOptionalArrayOfStrings, Arguments!GetArrayOfStrings
<1> QED
  BY <1>2, <1>3

(* The numbers of a call.                                                  *)
NumbersIn(a) ==
  \A n \in DOMAIN a : a[n].kind \in {"integer", "number"} => a[n].whole \in Int

LEMMA CallsHoldNumbers ==
  ASSUME NEW fields, NEW a \in Arguments!CallsOf(fields)
  PROVE  NumbersIn(a)
<1> DEFINE values(numbers) == Arguments!Values(fields, numbers)
           IsNumber(v) == v.kind \in {"integer", "number"} => v.whole \in Int
<1>1. ASSUME NEW numbers \in SUBSET Int, NEW v \in values(numbers) PROVE IsNumber(v)
  <2> USE DEF Arguments!Scalar, Arguments!Text, Arguments!Number, Arguments!Object,
              Arguments!Array
  <2>1. CASE v \in Arguments!Scalars(numbers)
    BY <2>1 DEF Arguments!Scalars
  <2>2. CASE v.kind \in {"object", "array"}
    BY <2>2
  <2> QED
    BY <2>1, <2>2 DEF Arguments!Values
<1> HIDE DEF values, IsNumber
<1>2. ASSUME NEW numbers \in SUBSET Int, NEW names,
             NEW f \in Arguments!SomeOf(names, values(numbers)), NEW n \in DOMAIN f
      PROVE  IsNumber(f[n])
  BY <1>1, <1>2 DEF Arguments!SomeOf
<1>3. PICK is, os, f, g :
        /\ f \in Arguments!SomeOf(is, values(Numbers))
        /\ g \in Arguments!SomeOf(os, values({1}))
        /\ a = Arguments!Joined(f, g)
  <2> DEFINE names == {fields[i].name : i \in 1..Len(fields)}
             integers == {n \in names : \E i \in 1..Len(fields) :
                            fields[i].name = n /\ fields[i].spec.kind = "integer"}
  <2> HIDE DEF names, integers
  <2>1. Arguments!CallsOf(fields) =
          {Arguments!Joined(f, g) : f \in Arguments!SomeOf(integers, values(Numbers)),
                                    g \in Arguments!SomeOf(names \ integers, values({1}))}
    BY DEF Arguments!CallsOf, values, names, integers
  <2> QED
    BY <2>1
<1>4. \A n \in DOMAIN f : IsNumber(f[n])
  <2>1. Numbers \in SUBSET Int
    BY TimeoutAssumption
  <2> QED
    BY <1>2, <1>3, <2>1
<1>5. \A n \in DOMAIN g : IsNumber(g[n])
  <2>1. {1} \in SUBSET Int
    OBVIOUS
  <2> QED
    BY <1>2, <1>3, <2>1
<1>6. \A n \in DOMAIN a : IsNumber(a[n])
  BY <1>3, <1>4, <1>5 DEF Arguments!Joined
<1> QED
  BY <1>6 DEF NumbersIn, IsNumber

(* What the handlers check beside the kinds of the fields.                 *)
LEMMA Checks ==
  ASSUME NEW a, NumbersIn(a), NEW key
  PROVE  /\ Arguments!positiveIntArg(a, key) = "ok"
              <=> Arguments!GetOptionalInt(a, key) = "ok" /\ Arguments!Positive(a, key)
         /\ \A result : Arguments!Compiled(a, key, result) = "ok"
              <=> result = "ok" /\ Arguments!WellFormed(a, key)
<1> USE DEF Arguments!Checked, Arguments!Exists
<1>1. Arguments!positiveIntArg(a, key) = "ok"
        <=> Arguments!GetOptionalInt(a, key) = "ok" /\ Arguments!Positive(a, key)
  <2>1. Arguments!GetOptionalInt(a, key) = "ok" /\ key \in DOMAIN a => a[key].whole \in Int
    BY DEF NumbersIn, Arguments!GetOptionalInt, Arguments!GetInt, Arguments!Optional,
           Arguments!Typed
  <2> QED
    BY <2>1 DEF Arguments!positiveIntArg, Arguments!Positive
<1>2. \A result : Arguments!Compiled(a, key, result) = "ok" <=> result = "ok" /\ Arguments!WellFormed(a, key)
  BY DEF Arguments!Compiled, Arguments!WellFormed
<1> QED
  BY <1>1, <1>2

(* A timeout is in its range when its nanoseconds are, if an int64 holds   *)
(* them.                                                                   *)
LEMMA Timeouts ==
  ASSUME NEW millis \in Int, millis * Millisecond \in -Int64Limit..(Int64Limit - 1)
  PROVE  LET timeout == Arguments!Duration(millis)
         IN  ~(timeout <= 0 \/ timeout > MaxShellTimeout * Millisecond)
               <=> millis \in 1..MaxShellTimeout
<1> DEFINE product == millis * Millisecond
<1>1. /\ MaxShellTimeout \in Nat /\ Millisecond \in Nat \ {0} /\ Int64Limit \in Nat \ {0}
      /\ product \in Int
  BY TimeoutAssumption
<1>2. Arguments!Duration(millis) = product
  <2>1. /\ product + Int64Limit \in 0..(2 * Int64Limit - 1) /\ 2 * Int64Limit \in Nat \ {0}
    BY <1>1
  <2>2. \A x, y : y \in Nat \ {0} /\ x \in 0..(y - 1) => x % y = x
    OBVIOUS
  <2>3. (product + Int64Limit) % (2 * Int64Limit) = product + Int64Limit
    BY <2>1, <2>2
  <2> QED
    BY <1>1, <2>3 DEF Arguments!Duration
<1>3. /\ millis >= 1 => product >= Millisecond
      /\ millis <= 0 => product <= 0
  BY <1>1
<1>4. /\ millis <= MaxShellTimeout => product <= MaxShellTimeout * Millisecond
      /\ millis >= MaxShellTimeout + 1 => product >= MaxShellTimeout * Millisecond + Millisecond
  BY <1>1
<1> QED
  BY <1>1, <1>2, <1>3, <1>4

LEMMA ShellChecks ==
  ASSUME NEW a, NumbersIn(a), ~Arguments!Overflows("shell_run", a)
  PROVE  Arguments!shellTimeout(a, "timeout_ms") = "ok" <=>
           /\ Arguments!GetOptionalInt(a, "timeout_ms") = "ok"
           /\ "timeout_ms" \in DOMAIN a => a["timeout_ms"].whole \in 1..MaxShellTimeout
<1> DEFINE result == Arguments!GetOptionalInt(a, "timeout_ms")
           millis == a["timeout_ms"].whole
<1>1. CASE "timeout_ms" \in DOMAIN a /\ result = "ok"
  <2>1. Arguments!GetInt(a, "timeout_ms") = "ok" /\ millis \in Int
    BY <1>1 DEF NumbersIn, Arguments!GetOptionalInt, Arguments!GetInt, Arguments!Optional,
                Arguments!Typed, Arguments!Exists
  <2>2. millis * Millisecond \in -Int64Limit..(Int64Limit - 1)
    BY <2>1 DEF Arguments!Overflows
  <2>3. ~(\/ Arguments!Duration(millis) <= 0
          \/ Arguments!Duration(millis) > MaxShellTimeout * Millisecond)
           <=> millis \in 1..MaxShellTimeout
    BY <2>1, <2>2, Timeouts
  <2> HIDE DEF millis
  <2> QED
    BY <1>1, <2>3 DEF Arguments!shellTimeout, Arguments!Checked, Arguments!Exists, millis
<1>2. CASE ~("timeout_ms" \in DOMAIN a /\ result = "ok")
  BY <1>2 DEF Arguments!shellTimeout, Arguments!Checked, Arguments!Exists
<1> QED
  BY <1>1, <1>2

(* Handler by handler: the reads succeed when every field fits and holds   *)
(* what the schema says in words.                                          *)
FieldsFit(t, a) ==
  \A i \in 1..Len(Arguments!Schemas[t]) : FieldFits(Arguments!Schemas[t][i], a)

FitsTool(t, a) == FieldsFit(t, a) /\ Arguments!KeepsToWords(t, a)

LEMMA FileHandlers ==
  ASSUME NEW a, NumbersIn(a),
         NEW t \in {"file_read", "file_write", "file_edit", "file_list", "file_search",
                    "file_delete", "file_workdir"}
  PROVE  /\ Distinct(Arguments!Schemas[t])
         /\ Arguments!Reads(t, a) \subseteq {"ok"} <=> FitsTool(t, a)
<1>1. CASE t = "file_read"
  <2> DEFINE fields == Arguments!readTool
  <2>1. Arguments!Schemas[t] = fields /\ Arguments!Reads(t, a) = Arguments!readFile(a)
    BY <1>1 DEF Arguments!Schemas, Arguments!Reads
  <2>2. /\ Len(fields) = 3
        /\ fields[1] = Arguments!String("path", TRUE)
        /\ fields[2] = Arguments!Integer("offset", FALSE)
        /\ fields[3] = Arguments!Integer("limit", FALSE)
    BY DEF Arguments!readTool
  <2>3. Distinct(fields)
    BY <2>2 DEF Distinct, Arguments!String, Arguments!Integer, Arguments!Boolean,
                Arguments!ArrayOfStrings, Arguments!Field
  <2> HIDE DEF fields
  <2>4. FieldsFit(t, a) <=> \A i \in 1..3 : FieldFits(fields[i], a)
    BY <2>1, <2>2 DEF FieldsFit
  <2>5. FieldsFit(t, a) <=>
          /\ FieldFits(fields[1], a)
          /\ FieldFits(fields[2], a)
          /\ FieldFits(fields[3], a)
    <3>1. 1..3 = {1, 2, 3}
      OBVIOUS
    <3> QED
      BY <2>4, <3>1
  <2>6. /\ Arguments!GetString(a, "path") = "ok" <=> FieldFits(fields[1], a)
        /\ Arguments!GetOptionalInt(a, "offset") = "ok" <=> FieldFits(fields[2], a)
        /\ Arguments!GetOptionalInt(a, "limit") = "ok" <=> FieldFits(fields[3], a)
    BY <2>2, Accessors
  <2>7. Arguments!readFile(a) \subseteq {"ok"} <=>
          /\ Arguments!GetString(a, "path") = "ok"
          /\ Arguments!positiveIntArg(a, "offset") = "ok"
          /\ Arguments!positiveIntArg(a, "limit") = "ok"
    BY DEF Arguments!readFile
  <2>8. /\ Arguments!positiveIntArg(a, "offset") = "ok"
             <=> FieldFits(fields[2], a) /\ Arguments!Positive(a, "offset")
        /\ Arguments!positiveIntArg(a, "limit") = "ok"
             <=> FieldFits(fields[3], a) /\ Arguments!Positive(a, "limit")
    BY <2>6, Checks
  <2>9. Arguments!KeepsToWords(t, a)
          <=> Arguments!Positive(a, "offset") /\ Arguments!Positive(a, "limit")
    BY <1>1 DEF Arguments!KeepsToWords
  <2> QED
    BY <1>1, <2>1, <2>3, <2>5, <2>6, <2>7, <2>8, <2>9 DEF FitsTool
<1>2. CASE t = "file_write"
  <2> DEFINE fields == Arguments!writeTool
  <2>1. Arguments!Schemas[t] = fields /\ Arguments!Reads(t, a) = Arguments!writeFile(a)
    BY <1>2 DEF Arguments!Schemas, Arguments!Reads
  <2>2. /\ Len(fields) = 2
        /\ fields[1] = Arguments!String("path", TRUE)
        /\ fields[2] = Arguments!String("content", TRUE)
    BY DEF Arguments!writeTool
  <2>3. Distinct(fields)
    BY <2>2 DEF Distinct, Arguments!String, Arguments!Integer, Arguments!Boolean,
                Arguments!ArrayOfStrings, Arguments!Field
  <2> HIDE DEF fields
  <2>4. FieldsFit(t, a) <=> \A i \in 1..2 : FieldFits(fields[i], a)
    BY <2>1, <2>2 DEF FieldsFit
  <2>5. FieldsFit(t, a) <=> FieldFits(fields[1], a) /\ FieldFits(fields[2], a)
    <3>1. 1..2 = {1, 2}
      OBVIOUS
    <3> QED
      BY <2>4, <3>1
  <2>6. /\ Arguments!GetString(a, "path") = "ok" <=> FieldFits(fields[1], a)
        /\ Arguments!GetString(a, "content") = "ok" <=> FieldFits(fields[2], a)
    BY <2>2, Accessors
  <2>7. Arguments!writeFile(a) \subseteq {"ok"} <=>
          /\ Arguments!GetString(a, "path") = "ok"
          /\ Arguments!GetString(a, "content") = "ok"
    BY DEF Arguments!writeFile
  <2> QED
    BY <1>2, <2>1, <2>3, <2>5, <2>6, <2>7 DEF FitsTool, Arguments!KeepsToWords
<1>3. CASE t = "file_edit"
  <2> DEFINE fields == Arguments!editTool
  <2>1. Arguments!Schemas[t] = fields /\ Arguments!Reads(t, a) = Arguments!editFile(a)
    BY <1>3 DEF Arguments!Schemas, Arguments!Reads
  <2>2. /\ Len(fields) = 3
        /\ fields[1] = Arguments!String("path", TRUE)
        /\ fields[2] = Arguments!String("old_string", TRUE)
        /\ fields[3] = Arguments!String("new_string", TRUE)
    BY DEF Arguments!editTool
  <2>3. Distinct(fields)
    BY <2>2 DEF Distinct, Arguments!String, Arguments!Integer, Arguments!Boolean,
                Arguments!ArrayOfStrings, Arguments!Field
  <2> HIDE DEF fields
  <2>4. FieldsFit(t, a) <=> \A i \in 1..3 : FieldFits(fields[i], a)
    BY <2>1, <2>2 DEF FieldsFit
  <2>5. FieldsFit(t, a) <=>
          /\ FieldFits(fields[1], a)
          /\ FieldFits(fields[2], a)
          /\ FieldFits(fields[3], a)
    <3>1. 1..3 = {1, 2, 3}
      OBVIOUS
    <3> QED
      BY <2>4, <3>1
  <2>6. /\ Arguments!GetString(a, "path") = "ok" <=> FieldFits(fields[1], a)
        /\ Arguments!GetString(a, "old_string") = "ok" <=> FieldFits(fields[2], a)
        /\ Arguments!GetString(a, "new_string") = "ok" <=> FieldFits(fields[3], a)
    BY <2>2, Accessors
  <2>7. Arguments!editFile(a) \subseteq {"ok"} <=>
          /\ Arguments!GetString(a, "path") = "ok"
          /\ Arguments!GetString(a, "old_string") = "ok"
          /\ Arguments!GetString(a, "new_string") = "ok"
    BY DEF Arguments!editFile
  <2> QED
    BY <1>3, <2>1, <2>3, <2>5, <2>6, <2>7 DEF FitsTool, Arguments!KeepsToWords
<1>4. CASE t = "file_list"
  <2> DEFINE fields == Arguments!listTool
  <2>1. Arguments!Schemas[t] = fields /\ Arguments!Reads(t, a) = Arguments!listDir(a)
    BY <1>4 DEF Arguments!Schemas, Arguments!Reads
  <2>2. /\ Len(fields) = 1
        /\ fields[1] = Arguments!String("path", FALSE)
    BY DEF Arguments!listTool
  <2>3. Distinct(fields)
    BY <2>2 DEF Distinct, Arguments!String, Arguments!Integer, Arguments!Boolean,
                Arguments!ArrayOfStrings, Arguments!Field
  <2> HIDE DEF fields
  <2>4. FieldsFit(t, a) <=> \A i \in 1..1 : FieldFits(fields[i], a)
    BY <2>1, <2>2 DEF FieldsFit
  <2>5. FieldsFit(t, a) <=> FieldFits(fields[1], a)
    <3>1. 1..1 = {1}
      OBVIOUS
    <3> QED
      BY <2>4, <3>1
  <2>6. /\ Arguments!GetOptionalString(a, "path") = "ok" <=> FieldFits(fields[1], a)
    BY <2>2, Accessors
  <2>7. Arguments!listDir(a) \subseteq {"ok"} <=>
          /\ Arguments!GetOptionalString(a, "path") = "ok"
    BY DEF Arguments!listDir
  <2> QED
    BY <1>4, <2>1, <2>3, <2>5, <2>6, <2>7 DEF FitsTool, Arguments!KeepsToWords
<1>5. CASE t = "file_search"
  <2> DEFINE fields == Arguments!searchTool
  <2>1. Arguments!Schemas[t] = fields /\ Arguments!Reads(t, a) = Arguments!searchFiles(a)
    BY <1>5 DEF Arguments!Schemas, Arguments!Reads
  <2>2. /\ Len(fields) = 5
        /\ fields[1] = Arguments!String("pattern", TRUE)
        /\ fields[2] = Arguments!String("path", FALSE)
        /\ fields[3] = Arguments!String("glob", FALSE)
        /\ fields[4] = Arguments!Boolean("recursive", FALSE)
        /\ fields[5] = Arguments!Integer("limit", FALSE)
    BY DEF Arguments!searchTool
  <2>3. Distinct(fields)
    BY <2>2 DEF Distinct, Arguments!String, Arguments!Integer, Arguments!Boolean,
                Arguments!ArrayOfStrings, Arguments!Field
  <2> HIDE DEF fields
  <2>4. FieldsFit(t, a) <=> \A i \in 1..5 : FieldFits(fields[i], a)
    BY <2>1, <2>2 DEF FieldsFit
  <2>5. FieldsFit(t, a) <=>
          /\ FieldFits(fields[1], a)
          /\ FieldFits(fields[2], a)
          /\ FieldFits(fields[3], a)
          /\ FieldFits(fields[4], a)
          /\ FieldFits(fields[5], a)
    <3>1. 1..5 = {1, 2, 3, 4, 5}
      OBVIOUS
    <3> QED
      BY <2>4, <3>1
  <2>6. /\ Arguments!GetString(a, "pattern") = "ok" <=> FieldFits(fields[1], a)
        /\ Arguments!GetOptionalString(a, "path") = "ok" <=> FieldFits(fields[2], a)
        /\ Arguments!GetOptionalString(a, "glob") = "ok" <=> FieldFits(fields[3], a)
        /\ Arguments!GetOptionalBool(a, "recursive") = "ok" <=> FieldFits(fields[4], a)
        /\ Arguments!GetOptionalInt(a, "limit") = "ok" <=> FieldFits(fields[5], a)
    BY <2>2, Accessors
  <2>7. Arguments!searchFiles(a) \subseteq {"ok"} <=>
          /\ Arguments!Compiled(a, "pattern", Arguments!GetString(a, "pattern")) = "ok"
          /\ Arguments!GetOptionalString(a, "path") = "ok"
          /\ Arguments!Compiled(a, "glob", Arguments!GetOptionalString(a, "glob")) = "ok"
          /\ Arguments!GetOptionalBool(a, "recursive") = "ok"
          /\ Arguments!positiveIntArg(a, "limit") = "ok"
    BY DEF Arguments!searchFiles
  <2>8. /\ Arguments!Compiled(a, "pattern", Arguments!GetString(a, "pattern")) = "ok"
             <=> FieldFits(fields[1], a) /\ Arguments!WellFormed(a, "pattern")
        /\ Arguments!Compiled(a, "glob", Arguments!GetOptionalString(a, "glob")) = "ok"
             <=> FieldFits(fields[3], a) /\ Arguments!WellFormed(a, "glob")
        /\ Arguments!positiveIntArg(a, "limit") = "ok"
             <=> FieldFits(fields[5], a) /\ Arguments!Positive(a, "limit")
    BY <2>6, Checks
  <2>9. Arguments!KeepsToWords(t, a) <=>
          /\ Arguments!WellFormed(a, "pattern") /\ Arguments!WellFormed(a, "glob")
          /\ Arguments!Positive(a, "limit")
    BY <1>5 DEF Arguments!KeepsToWords
  <2> QED
    BY <1>5, <2>1, <2>3, <2>5, <2>6, <2>7, <2>8, <2>9 DEF FitsTool
<1>6. CASE t = "file_delete"
  <2> DEFINE fields == Arguments!deleteTool
  <2>1. Arguments!Schemas[t] = fields /\ Arguments!Reads(t, a) = Arguments!deleteFile(a)
    BY <1>6 DEF Arguments!Schemas, Arguments!Reads
  <2>2. /\ Len(fields) = 1
        /\ fields[1] = Arguments!String("path", TRUE)
    BY DEF Arguments!deleteTool
  <2>3. Distinct(fields)
    BY <2>2 DEF Distinct, Arguments!String, Arguments!Integer, Arguments!Boolean,
                Arguments!ArrayOfStrings, Arguments!Field
  <2> HIDE DEF fields
  <2>4. FieldsFit(t, a) <=> \A i \in 1..1 : FieldFits(fields[i], a)
    BY <2>1, <2>2 DEF FieldsFit
  <2>5. FieldsFit(t, a) <=> FieldFits(fields[1], a)
    <3>1. 1..1 = {1}
      OBVIOUS
    <3> QED
      BY <2>4, <3>1
  <2>6. /\ Arguments!GetString(a, "path") = "ok" <=> FieldFits(fields[1], a)
    BY <2>2, Accessors
  <2>7. Arguments!deleteFile(a) \subseteq {"ok"} <=>
          /\ Arguments!GetString(a, "path") = "ok"
    BY DEF Arguments!deleteFile
  <2> QED
    BY <1>6, <2>1, <2>3, <2>5, <2>6, <2>7 DEF FitsTool, Arguments!KeepsToWords
<1>7. CASE t = "file_workdir"
  <2>1. Arguments!Schemas[t] = <<>> /\ Arguments!Reads(t, a) = {}
    BY <1>7 DEF Arguments!Schemas, Arguments!Reads
  <2> QED
    BY <1>7, <2>1 DEF FitsTool, FieldsFit, Distinct, Arguments!KeepsToWords
<1> QED
  BY <1>1, <1>2, <1>3, <1>4, <1>5, <1>6, <1>7

LEMMA OtherHandlers ==
  ASSUME NEW a, NumbersIn(a),
         NEW t \in {"shell_run", "subagent", "decision_yes_no", "decision_score",
                    "skill_load", "skill_load_file", "skill_execute_file"},
         ~Arguments!Overflows(t, a)
  PROVE  /\ Distinct(Arguments!Schemas[t])
         /\ Arguments!Reads(t, a) \subseteq {"ok"} <=> FitsTool(t, a)
<1>1. CASE t = "shell_run"
  <2> DEFINE fields == Arguments!shellTool
  <2>1. Arguments!Schemas[t] = fields /\ Arguments!Reads(t, a) = Arguments!runShellCommand(a)
    BY <1>1 DEF Arguments!Schemas, Arguments!Reads
  <2>2. /\ Len(fields) = 3
        /\ fields[1] = Arguments!String("command", TRUE)
        /\ fields[2] = Arguments!String("workdir", FALSE)
        /\ fields[3] = Arguments!Integer("timeout_ms", FALSE)
    BY DEF Arguments!shellTool
  <2>3. Distinct(fields)
    BY <2>2 DEF Distinct, Arguments!String, Arguments!Integer, Arguments!Boolean,
                Arguments!ArrayOfStrings, Arguments!Field
  <2> HIDE DEF fields
  <2>4. FieldsFit(t, a) <=> \A i \in 1..3 : FieldFits(fields[i], a)
    BY <2>1, <2>2 DEF FieldsFit
  <2>5. FieldsFit(t, a) <=>
          /\ FieldFits(fields[1], a)
          /\ FieldFits(fields[2], a)
          /\ FieldFits(fields[3], a)
    <3>1. 1..3 = {1, 2, 3}
      OBVIOUS
    <3> QED
      BY <2>4, <3>1
  <2>6. /\ Arguments!GetString(a, "command") = "ok" <=> FieldFits(fields[1], a)
        /\ Arguments!GetOptionalString(a, "workdir") = "ok" <=> FieldFits(fields[2], a)
        /\ Arguments!GetOptionalInt(a, "timeout_ms") = "ok" <=> FieldFits(fields[3], a)
    BY <2>2, Accessors
  <2>7. Arguments!runShellCommand(a) \subseteq {"ok"} <=>
          /\ Arguments!GetString(a, "command") = "ok"
          /\ Arguments!GetOptionalString(a, "workdir") = "ok"
          /\ Arguments!shellTimeout(a, "timeout_ms") = "ok"
    BY DEF Arguments!runShellCommand
  <2>8. Arguments!shellTimeout(a, "timeout_ms") = "ok" <=>
          /\ FieldFits(fields[3], a)
          /\ "timeout_ms" \in DOMAIN a => a["timeout_ms"].whole \in 1..MaxShellTimeout
    BY <1>1, <2>6, ShellChecks
  <2>9. Arguments!KeepsToWords(t, a)
          <=> ("timeout_ms" \in DOMAIN a => a["timeout_ms"].whole \in 1..MaxShellTimeout)
    BY <1>1 DEF Arguments!KeepsToWords
  <2> QED
    BY <1>1, <2>1, <2>3, <2>5, <2>6, <2>7, <2>8, <2>9 DEF FitsTool
<1>2. CASE t = "subagent"
  <2> DEFINE fields == Arguments!subagentTool
  <2>1. Arguments!Schemas[t] = fields /\ Arguments!Reads(t, a) = Arguments!runSubAgent(a)
    BY <1>2 DEF Arguments!Schemas, Arguments!Reads
  <2>2. /\ Len(fields) = 2
        /\ fields[1] = Arguments!String("agent", TRUE)
        /\ fields[2] = Arguments!String("prompt", TRUE)
    BY DEF Arguments!subagentTool
  <2>3. Distinct(fields)
    BY <2>2 DEF Distinct, Arguments!String, Arguments!Integer, Arguments!Boolean,
                Arguments!ArrayOfStrings, Arguments!Field
  <2> HIDE DEF fields
  <2>4. FieldsFit(t, a) <=> \A i \in 1..2 : FieldFits(fields[i], a)
    BY <2>1, <2>2 DEF FieldsFit
  <2>5. FieldsFit(t, a) <=> FieldFits(fields[1], a) /\ FieldFits(fields[2], a)
    <3>1. 1..2 = {1, 2}
      OBVIOUS
    <3> QED
      BY <2>4, <3>1
  <2>6. /\ Arguments!GetString(a, "agent") = "ok" <=> FieldFits(fields[1], a)
        /\ Arguments!GetString(a, "prompt") = "ok" <=> FieldFits(fields[2], a)
    BY <2>2, Accessors
  <2>7. Arguments!runSubAgent(a) \subseteq {"ok"} <=>
          /\ Arguments!GetString(a, "agent") = "ok"
          /\ Arguments!GetString(a, "prompt") = "ok"
    BY DEF Arguments!runSubAgent
  <2> QED
    BY <1>2, <2>1, <2>3, <2>5, <2>6, <2>7 DEF FitsTool, Arguments!KeepsToWords
<1>3. CASE t = "decision_yes_no"
  <2> DEFINE fields == Arguments!yesNoTool
  <2>1. Arguments!Schemas[t] = fields /\ Arguments!Reads(t, a) = Arguments!askYesNo(a)
    BY <1>3 DEF Arguments!Schemas, Arguments!Reads
  <2>2. /\ Len(fields) = 4
        /\ fields[1] = Arguments!String("input", TRUE)
        /\ fields[2] = Arguments!String("instructions", TRUE)
        /\ fields[3] = Arguments!String("true", TRUE)
        /\ fields[4] = Arguments!String("false", TRUE)
    BY DEF Arguments!yesNoTool
  <2>3. Distinct(fields)
    BY <2>2 DEF Distinct, Arguments!String, Arguments!Integer, Arguments!Boolean,
                Arguments!ArrayOfStrings, Arguments!Field
  <2> HIDE DEF fields
  <2>4. FieldsFit(t, a) <=> \A i \in 1..4 : FieldFits(fields[i], a)
    BY <2>1, <2>2 DEF FieldsFit
  <2>5. FieldsFit(t, a) <=>
          /\ FieldFits(fields[1], a)
          /\ FieldFits(fields[2], a)
          /\ FieldFits(fields[3], a)
          /\ FieldFits(fields[4], a)
    <3>1. 1..4 = {1, 2, 3, 4}
      OBVIOUS
    <3> QED
      BY <2>4, <3>1
  <2>6. /\ Arguments!GetString(a, "input") = "ok" <=> FieldFits(fields[1], a)
        /\ Arguments!GetString(a, "instructions") = "ok" <=> FieldFits(fields[2], a)
        /\ Arguments!GetString(a, "true") = "ok" <=> FieldFits(fields[3], a)
        /\ Arguments!GetString(a, "false") = "ok" <=> FieldFits(fields[4], a)
    BY <2>2, Accessors
  <2>7. Arguments!askYesNo(a) \subseteq {"ok"} <=>
          /\ Arguments!GetString(a, "input") = "ok"
          /\ Arguments!GetString(a, "instructions") = "ok"
          /\ Arguments!GetString(a, "true") = "ok"
          /\ Arguments!GetString(a, "false") = "ok"
    BY DEF Arguments!askYesNo, Arguments!inputAndInstructions
  <2> QED
    BY <1>3, <2>1, <2>3, <2>5, <2>6, <2>7 DEF FitsTool, Arguments!KeepsToWords
<1>4. CASE t = "decision_score"
  <2> DEFINE fields == Arguments!scoreTool
  <2>1. Arguments!Schemas[t] = fields /\ Arguments!Reads(t, a) = Arguments!askScore(a)
    BY <1>4 DEF Arguments!Schemas, Arguments!Reads
  <2>2. /\ Len(fields) = 3
        /\ fields[1] = Arguments!String("input", TRUE)
        /\ fields[2] = Arguments!String("instructions", TRUE)
        /\ fields[3] = Arguments!ArrayOfStrings("levels", TRUE)
    BY DEF Arguments!scoreTool
  <2>3. Distinct(fields)
    BY <2>2 DEF Distinct, Arguments!String, Arguments!Integer, Arguments!Boolean,
                Arguments!ArrayOfStrings, Arguments!Field
  <2> HIDE DEF fields
  <2>4. FieldsFit(t, a) <=> \A i \in 1..3 : FieldFits(fields[i], a)
    BY <2>1, <2>2 DEF FieldsFit
  <2>5. FieldsFit(t, a) <=>
          /\ FieldFits(fields[1], a)
          /\ FieldFits(fields[2], a)
          /\ FieldFits(fields[3], a)
    <3>1. 1..3 = {1, 2, 3}
      OBVIOUS
    <3> QED
      BY <2>4, <3>1
  <2>6. /\ Arguments!GetString(a, "input") = "ok" <=> FieldFits(fields[1], a)
        /\ Arguments!GetString(a, "instructions") = "ok" <=> FieldFits(fields[2], a)
    BY <2>2, Accessors
  <2>8. Arguments!GetArrayOfStrings(a, "levels") = "ok" <=> FieldFits(fields[3], a)
    BY <2>2, ArrayAccessors
  <2>7. Arguments!askScore(a) \subseteq {"ok"} <=>
          /\ Arguments!GetString(a, "input") = "ok"
          /\ Arguments!GetString(a, "instructions") = "ok"
          /\ Arguments!GetArrayOfStrings(a, "levels") = "ok"
    BY DEF Arguments!askScore, Arguments!inputAndInstructions
  <2> QED
    BY <1>4, <2>1, <2>3, <2>5, <2>6, <2>7, <2>8 DEF FitsTool, Arguments!KeepsToWords
<1>5. CASE t = "skill_load"
  <2> DEFINE fields == Arguments!loadTool
  <2>1. Arguments!Schemas[t] = fields /\ Arguments!Reads(t, a) = Arguments!loadSkill(a)
    BY <1>5 DEF Arguments!Schemas, Arguments!Reads
  <2>2. /\ Len(fields) = 1
        /\ fields[1] = Arguments!String("skill_name", TRUE)
    BY DEF Arguments!loadTool
  <2>3. Distinct(fields)
    BY <2>2 DEF Distinct, Arguments!String, Arguments!Integer, Arguments!Boolean,
                Arguments!ArrayOfStrings, Arguments!Field
  <2> HIDE DEF fields
  <2>4. FieldsFit(t, a) <=> \A i \in 1..1 : FieldFits(fields[i], a)
    BY <2>1, <2>2 DEF FieldsFit
  <2>5. FieldsFit(t, a) <=> FieldFits(fields[1], a)
    <3>1. 1..1 = {1}
      OBVIOUS
    <3> QED
      BY <2>4, <3>1
  <2>6. /\ Arguments!GetString(a, "skill_name") = "ok" <=> FieldFits(fields[1], a)
    BY <2>2, Accessors
  <2>7. Arguments!loadSkill(a) \subseteq {"ok"} <=>
          /\ Arguments!GetString(a, "skill_name") = "ok"
    BY DEF Arguments!loadSkill
  <2> QED
    BY <1>5, <2>1, <2>3, <2>5, <2>6, <2>7 DEF FitsTool, Arguments!KeepsToWords
<1>6. CASE t = "skill_load_file"
  <2> DEFINE fields == Arguments!loadFileTool
  <2>1. Arguments!Schemas[t] = fields /\ Arguments!Reads(t, a) = Arguments!loadSkillFile(a)
    BY <1>6 DEF Arguments!Schemas, Arguments!Reads
  <2>2. /\ Len(fields) = 2
        /\ fields[1] = Arguments!String("skill_name", TRUE)
        /\ fields[2] = Arguments!String("path", TRUE)
    BY DEF Arguments!loadFileTool
  <2>3. Distinct(fields)
    BY <2>2 DEF Distinct, Arguments!String, Arguments!Integer, Arguments!Boolean,
                Arguments!ArrayOfStrings, Arguments!Field
  <2> HIDE DEF fields
  <2>4. FieldsFit(t, a) <=> \A i \in 1..2 : FieldFits(fields[i], a)
    BY <2>1, <2>2 DEF FieldsFit
  <2>5. FieldsFit(t, a) <=> FieldFits(fields[1], a) /\ FieldFits(fields[2], a)
    <3>1. 1..2 = {1, 2}
      OBVIOUS
    <3> QED
      BY <2>4, <3>1
  <2>6. /\ Arguments!GetString(a, "skill_name") = "ok" <=> FieldFits(fields[1], a)
        /\ Arguments!GetString(a, "path") = "ok" <=> FieldFits(fields[2], a)
    BY <2>2, Accessors
  <2>7. Arguments!loadSkillFile(a) \subseteq {"ok"} <=>
          /\ Arguments!GetString(a, "skill_name") = "ok"
          /\ Arguments!GetString(a, "path") = "ok"
    BY DEF Arguments!loadSkillFile
  <2> QED
    BY <1>6, <2>1, <2>3, <2>5, <2>6, <2>7 DEF FitsTool, Arguments!KeepsToWords
<1>7. CASE t = "skill_execute_file"
  <2> DEFINE fields == Arguments!executeFileTool
  <2>1. Arguments!Schemas[t] = fields /\ Arguments!Reads(t, a) = Arguments!executeSkillFile(a)
    BY <1>7 DEF Arguments!Schemas, Arguments!Reads
  <2>2. /\ Len(fields) = 3
        /\ fields[1] = Arguments!String("skill_name", TRUE)
        /\ fields[2] = Arguments!String("path", TRUE)
        /\ fields[3] = Arguments!ArrayOfStrings("args", FALSE)
    BY DEF Arguments!executeFileTool
  <2>3. Distinct(fields)
    BY <2>2 DEF Distinct, Arguments!String, Arguments!Integer, Arguments!Boolean,
                Arguments!ArrayOfStrings, Arguments!Field
  <2> HIDE DEF fields
  <2>4. FieldsFit(t, a) <=> \A i \in 1..3 : FieldFits(fields[i], a)
    BY <2>1, <2>2 DEF FieldsFit
  <2>5. FieldsFit(t, a) <=>
          /\ FieldFits(fields[1], a)
          /\ FieldFits(fields[2], a)
          /\ FieldFits(fields[3], a)
    <3>1. 1..3 = {1, 2, 3}
      OBVIOUS
    <3> QED
      BY <2>4, <3>1
  <2>6. /\ Arguments!GetString(a, "skill_name") = "ok" <=> FieldFits(fields[1], a)
        /\ Arguments!GetString(a, "path") = "ok" <=> FieldFits(fields[2], a)
    BY <2>2, Accessors
  <2>8. Arguments!GetOptionalArrayOfStrings(a, "args") = "ok" <=> FieldFits(fields[3], a)
    BY <2>2, ArrayAccessors
  <2>7. Arguments!executeSkillFile(a) \subseteq {"ok"} <=>
          /\ Arguments!GetString(a, "skill_name") = "ok"
          /\ Arguments!GetString(a, "path") = "ok"
          /\ Arguments!GetOptionalArrayOfStrings(a, "args") = "ok"
    BY DEF Arguments!executeSkillFile
  <2> QED
    BY <1>7, <2>1, <2>3, <2>5, <2>6, <2>7, <2>8 DEF FitsTool, Arguments!KeepsToWords
<1> QED
  BY <1>1, <1>2, <1>3, <1>4, <1>5, <1>6, <1>7

(* An option of a choice, and all of them.                                 *)
LEMMA ChoiceHandler ==
  ASSUME NEW a
  PROVE  /\ Distinct(Arguments!Schemas["decision_choice"])
         /\ Arguments!Reads("decision_choice", a) \subseteq {"ok"}
              <=> FitsTool("decision_choice", a)
<1> DEFINE option == <<Arguments!String("name", TRUE), Arguments!String("description", FALSE)>>
           fields == Arguments!choiceTool
           Fits(o) == /\ Arguments!GetString(o.fields, "name") = "ok"
                      /\ Arguments!GetOptionalString(o.fields, "description") = "ok"
<1>1. /\ Arguments!Schemas["decision_choice"] = fields
      /\ Arguments!Reads("decision_choice", a) = Arguments!askChoice(a)
  BY DEF Arguments!Schemas, Arguments!Reads
<1>2. /\ Len(fields) = 3
      /\ fields[1] = Arguments!String("input", TRUE)
      /\ fields[2] = Arguments!String("instructions", TRUE)
      /\ fields[3] = Arguments!ArrayOfObjects("options", TRUE, option)
  BY DEF Arguments!choiceTool
<1>3. Distinct(fields)
  BY <1>2 DEF Distinct, Arguments!String, Arguments!ArrayOfObjects, Arguments!Field
<1>4. /\ Len(option) = 2 /\ option[1] = Arguments!String("name", TRUE)
      /\ option[2] = Arguments!String("description", FALSE)
  OBVIOUS
<1>5. Distinct(option)
  BY <1>4 DEF Distinct, Arguments!String, Arguments!Field
<1> HIDE DEF fields, option
<1>6. ASSUME NEW o
      PROVE  Arguments!AdmitsItem(Arguments!Build(option), o) <=> o.kind = "object" /\ Fits(o)
  <2>1. Arguments!AdmitsItem(Arguments!Build(option), o) <=>
          o.kind = "object" /\ \A i \in 1..Len(option) : ItemFits(option[i], o.fields)
    BY <1>5, ObjectFits
  <2>2. 1..Len(option) = {1, 2}
    BY <1>4
  <2>3. Arguments!AdmitsItem(Arguments!Build(option), o) <=>
          /\ o.kind = "object"
          /\ ItemFits(option[1], o.fields) /\ ItemFits(option[2], o.fields)
    BY <2>1, <2>2
  <2>4. /\ Arguments!GetString(o.fields, "name") = "ok" <=> ItemFits(option[1], o.fields)
        /\ Arguments!GetOptionalString(o.fields, "description") = "ok"
             <=> ItemFits(option[2], o.fields)
    BY <1>4, ItemAccessors
  <2> QED
    BY <2>3, <2>4
<1>7. FieldFits(fields[3], a) <=>
        /\ "options" \in DOMAIN a /\ a["options"].kind = "array"
        /\ \A o \in a["options"].items : Arguments!AdmitsItem(Arguments!Build(option), o)
  BY <1>2 DEF FieldFits, Arguments!AdmitsField, Arguments!AdmitsBy, Arguments!ArrayOfObjects,
              Arguments!Field
<1>8. Arguments!GetArrayOfObjects(a, "options") = "ok" <=>
        /\ "options" \in DOMAIN a /\ a["options"].kind = "array"
        /\ \A o \in a["options"].items : o.kind = "object"
  BY DEF Arguments!GetArrayOfObjects, Arguments!Elements, Arguments!Typed, Arguments!Exists
<1>9. /\ Arguments!GetString(a, "input") = "ok" <=> FieldFits(fields[1], a)
      /\ Arguments!GetString(a, "instructions") = "ok" <=> FieldFits(fields[2], a)
  BY <1>2, Accessors
<1>10. Arguments!askChoice(a) \subseteq {"ok"} <=>
         /\ Arguments!GetString(a, "input") = "ok"
         /\ Arguments!GetString(a, "instructions") = "ok"
         /\ Arguments!GetArrayOfObjects(a, "options") = "ok"
         /\ \A o \in a["options"].items : Fits(o)
  BY DEF Arguments!askChoice, Arguments!inputAndInstructions
<1>11. FieldsFit("decision_choice", a) <=>
         FieldFits(fields[1], a) /\ FieldFits(fields[2], a) /\ FieldFits(fields[3], a)
  <2>1. FieldsFit("decision_choice", a) <=> \A i \in 1..3 : FieldFits(fields[i], a)
    BY <1>1, <1>2 DEF FieldsFit
  <2>2. 1..3 = {1, 2, 3}
    OBVIOUS
  <2> QED
    BY <2>1, <2>2
<1> HIDE DEF Fits
<1> QED
  BY <1>1, <1>3, <1>6, <1>7, <1>8, <1>9, <1>10, <1>11 DEF FitsTool, Arguments!KeepsToWords

(* Every handler runs the calls its schema admits, and no others.          *)
LEMMA HandlersFit ==
  ASSUME NEW t \in DOMAIN Arguments!Schemas, NEW a \in Arguments!CallsOf(Arguments!Schemas[t]),
         ~Arguments!Overflows(t, a)
  PROVE  Arguments!Reads(t, a) \subseteq {"ok"} <=>
           /\ Arguments!Admits(Arguments!Build(Arguments!Schemas[t]), Arguments!Object(a))
           /\ Arguments!KeepsToWords(t, a)
<1>1. /\ Distinct(Arguments!Schemas[t])
      /\ Arguments!Reads(t, a) \subseteq {"ok"} <=> FitsTool(t, a)
  <2>1. t \in {"file_read", "file_write", "file_edit", "file_list", "file_search",
               "file_delete", "file_workdir", "shell_run", "subagent", "decision_yes_no",
               "decision_choice", "decision_score", "skill_load", "skill_load_file",
               "skill_execute_file"}
    BY DEF Arguments!Schemas
  <2> QED
    BY <2>1, CallsHoldNumbers, FileHandlers, OtherHandlers, ChoiceHandler
<1> QED
  BY <1>1, CallFits DEF FitsTool, FieldsFit

(* A call of a tool runs when it keeps to the schema the model was shown   *)
(* and to what that says of its numbers and patterns, and is refused for   *)
(* its arguments otherwise, whatever it holds, save for timeouts that      *)
(* overflow.                                                               *)
THEOREM SchemasAreKept == PacksSpec => []ArgumentsAgree
<1> DEFINE ofTool(t, a) ==
      t \in DOMAIN Arguments!Schemas /\ a \in Arguments!CallsOf(Arguments!Schemas[t])
           Inv == ArgumentsAgree /\ (verdict = "none" => ofTool(tool, args))
<1>1. PacksInit => Inv
  <2>1. ofTool("file_workdir", <<>>)
    <3>1. /\ Arguments!Schemas["file_workdir"] = <<>>
          /\ "file_workdir" \in DOMAIN Arguments!Schemas
      BY DEF Arguments!Schemas
    <3>2. \A values : <<>> \in Arguments!SomeOf({}, values)
      BY DEF Arguments!SomeOf
    <3>3. Arguments!Joined(<<>>, <<>>) = <<>>
      BY DEF Arguments!Joined
    <3> DEFINE calls == {Arguments!Joined(f, g) :
                           f \in Arguments!SomeOf({}, Arguments!Values(<<>>, Numbers)),
                           g \in Arguments!SomeOf({}, Arguments!Values(<<>>, {1}))}
    <3>4. <<>> \in calls
      BY <3>2, <3>3
    <3> HIDE DEF calls
    <3>5. Arguments!CallsOf(<<>>) = calls
      <4>1. 1..Len(<<>>) = {}
        OBVIOUS
      <4> DEFINE names == {<<>>[i].name : i \in 1..Len(<<>>)}
                 integers == {n \in names : \E i \in 1..Len(<<>>) :
                                <<>>[i].name = n /\ <<>>[i].spec.kind = "integer"}
      <4>2. names = {} /\ integers = {} /\ names \ integers = {}
        BY <4>1
      <4> HIDE DEF names, integers
      <4>3. Arguments!CallsOf(<<>>) =
              {Arguments!Joined(f, g) :
                 f \in Arguments!SomeOf(integers, Arguments!Values(<<>>, Numbers)),
                 g \in Arguments!SomeOf(names \ integers, Arguments!Values(<<>>, {1}))}
        BY DEF Arguments!CallsOf, names, integers
      <4> QED
        BY <4>2, <4>3 DEF calls
    <3> QED
      BY <3>1, <3>4, <3>5
  <2>2. PacksInit => verdict = "none" /\ ofTool(tool, args)
    BY <2>1 DEF PacksInit, Arguments!Init
  <2> QED
    BY <2>2 DEF ArgumentsAgree, Arguments!ArgumentsAgree
<1>2. Inv /\ [PacksNext]_packsVars => Inv'
  <2> SUFFICES ASSUME Inv, [Arguments!Next]_(Arguments!vars) PROVE Inv'
    BY PartSteps
  <2> HIDE DEF ofTool
  <2>1. CASE UNCHANGED Arguments!vars
    BY <2>1 DEF Arguments!vars, ArgumentsAgree, Arguments!ArgumentsAgree
  <2>2. CASE Arguments!Execute
    <3>1. /\ tool' = tool /\ args' = args /\ verdict' # "none"
          /\ verdict' = "runs" <=> Arguments!Reads(tool, args) \subseteq {"ok"}
          /\ ofTool(tool, args)
      BY <2>2 DEF Arguments!Execute
    <3>2. ~Arguments!Overflows(tool, args) =>
            (verdict' = "runs" <=>
              /\ Arguments!Admits(Arguments!Build(Arguments!Schemas[tool]), Arguments!Object(args))
              /\ Arguments!KeepsToWords(tool, args))
      BY <3>1, HandlersFit DEF ofTool
    <3> QED
      BY <3>1, <3>2 DEF ArgumentsAgree, Arguments!ArgumentsAgree
  <2> QED
    BY <2>1, <2>2 DEF Arguments!Next
<1>3. Inv => ArgumentsAgree
  OBVIOUS
<1> QED
  BY <1>1, <1>2, <1>3, PTL DEF PacksSpec

-----------------------------------------------------------------------------
(* Questions and answers.                                                  *)

(* What the probability of the i-th level may be, by a provider's answer.  *)
Right(r, i, p) ==
  LET said == {r.probabilities[k] : k \in {k \in DOMAIN r.probabilities : KeyNumber[k] = i - 1}}
  IN  IF said = {} THEN p = 0 ELSE p \in said

(* Nothing of a score is lost or comes under another level.                *)
LEMMA ScoresAreRight ==
  ASSUME NEW r \in Replies, r.type = "score", NEW levels,
         \A k \in DOMAIN r.probabilities : Ask!IsLevel(k, levels),
         NEW x \in Ask!ScoreAnswers(r, levels)
  PROVE  /\ x.type = "score" /\ x.legend = levels /\ DOMAIN x.probabilities = 1..Len(levels)
         /\ \A i \in 1..Len(levels) : Right(r, i, x.probabilities[i])
<1> DEFINE of(i) == {r.probabilities[k] : k \in {k \in DOMAIN r.probabilities : Ask!ToLevel(k) = i}}
<1>1. PICK p \in [1..Len(levels) -> {0} \cup UNION {of(i) : i \in 1..Len(levels)}] :
        /\ x = [type |-> "score", legend |-> levels, probabilities |-> p]
        /\ \A i \in 1..Len(levels) : IF of(i) = {} THEN p[i] = 0 ELSE p[i] \in of(i)
  BY DEF Ask!ScoreAnswers
<1>2. ASSUME NEW i \in 1..Len(levels)
      PROVE  {k \in DOMAIN r.probabilities : Ask!ToLevel(k) = i}
               = {k \in DOMAIN r.probabilities : KeyNumber[k] = i - 1}
  <2>1. \A k \in DOMAIN r.probabilities : KeyNumber[k] \in Int
    BY DecisionAssumption
  <2>2. i \in Int
    OBVIOUS
  <2> QED
    BY <2>1, <2>2 DEF Ask!ToLevel
<1>3. ASSUME NEW i \in 1..Len(levels)
      PROVE  of(i) = {r.probabilities[k] : k \in {k \in DOMAIN r.probabilities : KeyNumber[k] = i - 1}}
  BY <1>2
<1> HIDE DEF of
<1>4. \A i \in 1..Len(levels) : Right(r, i, p[i])
  BY <1>1, <1>3 DEF Right
<1> QED
  BY <1>1, <1>4

(* An answer is of the kind of its question.                               *)
LEMMA AnswersFit ==
  ASSUME NEW q, Ask!Valid(q), NEW r \in Replies, r.type = Ask!ORTypes[q.type],
         q.type = "score" => \A k \in DOMAIN r.probabilities : Ask!IsLevel(k, q.levels),
         NEW x \in Ask!FromORToAnswers(r, q)
  PROVE  /\ x.type = q.type
         /\ q.type = "score" =>
              /\ x.legend = q.levels /\ DOMAIN x.probabilities = 1..Len(q.levels)
              /\ \A i \in 1..Len(q.levels) : Right(r, i, x.probabilities[i])
<1>1. q.type \in {"yes_no", "choice", "score"}
  BY DEF Ask!Valid
<1>2. CASE q.type = "yes_no"
  BY <1>2 DEF Ask!FromORToAnswers
<1>3. CASE q.type = "choice"
  BY <1>3 DEF Ask!FromORToAnswers
<1>4. CASE q.type = "score"
  <2>1. x \in Ask!ScoreAnswers(r, q.levels) /\ r.type = "score"
    BY <1>4 DEF Ask!FromORToAnswers, Ask!ORTypes
  <2> QED
    BY <1>4, <2>1, ScoresAreRight
<1> QED
  BY <1>1, <1>2, <1>3, <1>4

(* Decision counts as this module does.                                    *)
LEMMA SameCount == ASSUME NEW S PROVE Ask!Cardinality(S) = Cardinality(S)
  BY DEF Ask!Cardinality, Cardinality

(* Options that all have names of their own are not lost.                  *)
LEMMA OptionsKept ==
  ASSUME NEW list \in Seq([name : STRING, text : STRING]),
         ~(Cardinality({list[i].name : i \in 1..Len(list)}) < Len(list))
  PROVE  /\ Cardinality({list[i].name : i \in 1..Len(list)}) = Len(list)
         /\ \A i, j \in 1..Len(list) : list[i].name = list[j].name => i = j
<1> DEFINE n == Len(list)
           names == {list[i].name : i \in 1..n}
           f == [i \in 1..n |-> list[i].name]
<1>1. n \in Nat
  BY LenProperties
<1>2. IsFiniteSet(1..n) /\ Cardinality(1..n) = n
  <2>1. 1 \in Int /\ n \in Int
    BY <1>1
  <2>2. IsFiniteSet(1..n) /\ Cardinality(1..n) = IF 1 > n THEN 0 ELSE n - 1 + 1
    BY <2>1, FS_Interval
  <2> QED
    BY <1>1, <2>2
<1>3. f \in Surjection(1..n, names)
  BY DEF Surjection
<1>4. /\ IsFiniteSet(names) /\ Cardinality(names) <= Cardinality(1..n)
      /\ Cardinality(names) = Cardinality(1..n) <=> f \in Injection(1..n, names)
  BY <1>2, <1>3, FS_Surjection
<1>5. Cardinality(names) \in Nat
  BY <1>4, FS_CardinalityType
<1> HIDE DEF n
<1>6. Cardinality(names) = n
  BY <1>1, <1>2, <1>4, <1>5 DEF n
<1>7. f \in Injection(1..n, names)
  BY <1>2, <1>4, <1>6
<1>8. \A i, j \in 1..n : f[i] = f[j] => i = j
  BY <1>7 DEF Injection, IsInjective
<1> QED
  BY <1>6, <1>8 DEF n

(* AnswersAsked in its parts.                                              *)
AnsweredRight ==
  returned = "answered" =>
    /\ DOMAIN answers = DOMAIN questions /\ DOMAIN sent = DOMAIN questions
    /\ \A id \in DOMAIN questions :
         /\ answers[id].type = questions[id].type /\ reply[id].type = sent[id].type
         /\ answers[id].type = "score" =>
              /\ answers[id].legend = questions[id].levels
              /\ \A i \in 1..Len(questions[id].levels) :
                   Right(reply[id], i, answers[id].probabilities[i])

ShownRight ==
  returned = "answered" /\ asker = "score" =>
    /\ Len(told) = Len(given)
    /\ \A i \in 1..Len(given) :
         told[i].level = given[i] /\ Right(reply[Ask!ToolID], i, told[i].probability)

OptionsRight ==
  sent # Ask!Nothing /\ asker = "choice" =>
    /\ Cardinality(DOMAIN sent[Ask!ToolID].criteria) = Len(given)
    /\ \A i \in 1..Len(given) :
         sent[Ask!ToolID].criteria[given[i].name] = Ask!Described(given[i].text)

DecisionInv ==
  /\ phase \in {"idle", "sent", "done"}
  /\ phase # "done" => returned = "none"
  /\ phase = "idle" => asker = "program" /\ sent = Ask!Nothing
  /\ phase = "sent" => /\ sent = Ask!ToORQuestions(questions)
                       /\ \A id \in DOMAIN questions : Ask!Valid(questions[id])
  /\ asker = "score" =>
       given \in Seq(STRING) /\ questions = [id \in {Ask!ToolID} |-> Ask!Score(given)]
  /\ AnswersAsked

(* What a call of Ask leaves.                                              *)
LEMMA AskLeaves ==
  ASSUME NEW qs, Ask!Ask(qs), phase = "idle", DecisionInv
  PROVE  /\ questions' = qs /\ phase' \in {"sent", "done"}
         /\ phase' = "sent" => /\ returned' = returned /\ sent' = Ask!ToORQuestions(qs)
                               /\ \A id \in DOMAIN qs : Ask!Valid(qs[id])
         /\ phase' = "done" => returned' # "answered" /\ sent' = Ask!Nothing
<1>1. sent = Ask!Nothing
  BY DEF DecisionInv
<1>2. CASE DOMAIN qs = {}
  BY <1>1, <1>2 DEF Ask!Ask, Ask!Ends
<1>3. CASE DOMAIN qs # {} /\ \E id \in DOMAIN qs : ~Ask!Valid(qs[id])
  BY <1>1, <1>3 DEF Ask!Ask, Ask!Ends
<1>4. CASE DOMAIN qs # {} /\ \A id \in DOMAIN qs : Ask!Valid(qs[id])
  BY <1>1, <1>4 DEF Ask!Ask, Ask!ToOllamaQuestions
<1> QED
  BY <1>2, <1>3, <1>4

LEMMA ProgramSteps ==
  ASSUME DecisionInv, NEW qs, Ask!ProgramAsks(qs)
  PROVE  DecisionInv'
<1>1. /\ phase = "idle" /\ Ask!Ask(qs) /\ asker = "program" /\ returned = "none"
      /\ UNCHANGED <<asker, given, reply, answers, told>>
  BY DEF Ask!ProgramAsks, DecisionInv
<1> QED
  BY <1>1, AskLeaves DEF DecisionInv, AnswersAsked, Ask!AnswersAsked

LEMMA ToolSteps ==
  ASSUME DecisionInv, NEW q, NEW kind \in {"yes_no", "choice", "score"}, NEW list,
         Ask!GivenTo(kind, list), Ask!AskOne(q)
  PROVE  /\ asker' = kind /\ given' = list /\ phase' \in {"sent", "done"}
         /\ questions' = [id \in {Ask!ToolID} |-> q]
         /\ phase' = "sent" => /\ returned' = "none" /\ sent' = Ask!ToORQuestions(questions')
                               /\ Ask!Valid(q)
         /\ phase' = "done" => sent' = Ask!Nothing
         /\ returned' # "answered"
<1>1. /\ phase = "idle" /\ Ask!Ask([id \in {Ask!ToolID} |-> q]) /\ returned = "none"
      /\ asker' = kind /\ given' = list
  BY DEF Ask!GivenTo, Ask!AskOne, DecisionInv
<1> QED
  BY <1>1, AskLeaves

LEMMA ChoiceSteps ==
  ASSUME DecisionInv, NEW list \in OptionLists, Ask!AskChoice(list)
  PROVE  DecisionInv'
<1> USE DEF DecisionInv, AnswersAsked, Ask!AnswersAsked
<1> DEFINE names == {list[i].name : i \in 1..Len(list)}
           text(n) == list[CHOOSE i \in 1..Len(list) : list[i].name = n].text
           q == Ask!Choice([n \in names |-> text(n)])
<1>1. asker' = "choice" /\ given' = list /\ phase = "idle" /\ returned = "none"
  BY DEF Ask!AskChoice, Ask!GivenTo
<1>2. CASE Cardinality(names) < Len(list)
  <2>1. /\ phase' = "done" /\ returned' = "invalid question"
        /\ UNCHANGED <<questions, sent, reply, answers, told>>
    BY <1>2, SameCount DEF Ask!AskChoice, Ask!Ends
  <2> QED
    BY <1>1, <2>1
<1>3. CASE ~(Cardinality(names) < Len(list))
  <2>1. list \in Seq([name : STRING, text : STRING])
    BY DecisionAssumption
  <2>2. /\ Cardinality(names) = Len(list)
        /\ \A i, j \in 1..Len(list) : list[i].name = list[j].name => i = j
    BY <1>3, <2>1, OptionsKept
  <2>3. Ask!GivenTo("choice", list) /\ Ask!AskOne(q)
    BY <1>3, SameCount DEF Ask!AskChoice
  <2> HIDE DEF q
  <2>4. /\ phase' \in {"sent", "done"}
        /\ questions' = [id \in {Ask!ToolID} |-> q]
        /\ phase' = "sent" => /\ returned' = "none" /\ sent' = Ask!ToORQuestions(questions')
                              /\ Ask!Valid(q)
        /\ phase' = "done" => sent' = Ask!Nothing
        /\ returned' # "answered"
    BY <2>3, ToolSteps
  <2>5. ASSUME phase' = "sent"
        PROVE  /\ Cardinality(DOMAIN sent'[Ask!ToolID].criteria) = Len(list)
               /\ \A i \in 1..Len(list) :
                    sent'[Ask!ToolID].criteria[list[i].name] = Ask!Described(list[i].text)
    <3>1. sent'[Ask!ToolID].criteria = [n \in names |-> Ask!Described(text(n))]
      <4>1. sent'[Ask!ToolID] = Ask!ToORQuestion(q)
        BY <2>4, <2>5 DEF Ask!ToORQuestions
      <4>2. q.type = "choice" /\ q.options = [n \in names |-> text(n)]
        BY DEF q, Ask!Choice
      <4> HIDE DEF text, names
      <4> QED
        BY <4>1, <4>2 DEF Ask!ToORQuestion
    <3>2. ASSUME NEW i \in 1..Len(list)
          PROVE  list[i].name \in names /\ text(list[i].name) = list[i].text
      BY <2>2
    <3> HIDE DEF text
    <3>3. DOMAIN sent'[Ask!ToolID].criteria = names
      BY <3>1
    <3> HIDE DEF names
    <3>4. ASSUME NEW i \in 1..Len(list)
          PROVE  sent'[Ask!ToolID].criteria[list[i].name] = Ask!Described(list[i].text)
      BY <3>1, <3>2
    <3> QED
      BY <2>2, <3>3, <3>4 DEF names
  <2>6. \A id \in DOMAIN questions' : phase' = "sent" => Ask!Valid(questions'[id])
    BY <2>4
  <2> HIDE DEF names, text
  <2> QED
    BY <1>1, <2>4, <2>5, <2>6, SameCount
<1> QED
  BY <1>2, <1>3

LEMMA AnswerSteps ==
  ASSUME DecisionInv, NEW ids \in SUBSET DOMAIN questions, NEW rs \in [ids -> Replies],
         Ask!Answer(rs)
  PROVE  DecisionInv'
<1>1. /\ phase = "sent" /\ phase' = "done" /\ reply' = rs
      /\ UNCHANGED <<asker, given, questions, sent>>
  BY DEF Ask!Answer, Ask!Ends
<1>2. /\ sent = Ask!ToORQuestions(questions)
      /\ \A id \in DOMAIN questions : Ask!Valid(questions[id])
      /\ returned = "none"
  BY <1>1 DEF DecisionInv
<1>3. \/ /\ returned' = "error" /\ UNCHANGED <<answers, told>>
      \/ /\ returned' = "answered" /\ answers' \in Ask!FromORToResponse(rs, questions)
         /\ told' = IF asker = "program" THEN <<>> ELSE Ask!Shown(answers'[Ask!ToolID])
  BY DEF Ask!Answer, Ask!Ends, Ask!FromOllamaToResponse
<1>4. CASE returned' = "error"
  <2>1. \/ sent = Ask!Nothing \/ asker # "choice"
        \/ /\ Ask!Cardinality(DOMAIN sent[Ask!ToolID].criteria) = Len(given)
           /\ \A i \in 1..Len(given) : sent[Ask!ToolID].criteria[given[i].name]
                                          = Ask!Described(given[i].text)
    BY DEF DecisionInv, AnswersAsked, Ask!AnswersAsked
  <2> QED
    BY <1>1, <1>2, <1>4, <2>1 DEF DecisionInv, AnswersAsked, Ask!AnswersAsked
<1>5. CASE /\ returned' = "answered" /\ answers' \in Ask!FromORToResponse(rs, questions)
           /\ told' = IF asker = "program" THEN <<>> ELSE Ask!Shown(answers'[Ask!ToolID])
  <2>1. /\ \A id \in DOMAIN questions : ~Ask!Unusable(rs, id, questions[id])
        /\ DOMAIN answers' = DOMAIN questions
        /\ \A id \in DOMAIN questions :
             answers'[id] \in Ask!FromORToAnswers(rs[id], questions[id])
    BY <1>5 DEF Ask!FromORToResponse
  <2>2. DOMAIN sent = DOMAIN questions
    BY <1>2 DEF Ask!ToORQuestions
  <2>3. ASSUME NEW id \in DOMAIN questions
        PROVE  /\ answers'[id].type = questions[id].type /\ rs[id].type = sent[id].type
               /\ answers'[id].type = "score" =>
                    /\ answers'[id].legend = questions[id].levels
                    /\ \A i \in 1..Len(questions[id].levels) :
                         Right(rs[id], i, answers'[id].probabilities[i])
    <3> DEFINE q == questions[id]
               r == rs[id]
    <3>1. /\ id \in DOMAIN rs /\ r.type = Ask!ORTypes[q.type] /\ r \in Replies
          /\ q.type = "score" => \A k \in DOMAIN r.probabilities : Ask!IsLevel(k, q.levels)
      BY <2>1 DEF Ask!Unusable
    <3>2. sent[id].type = Ask!ORTypes[q.type]
      BY <1>2 DEF Ask!ToORQuestions, Ask!ToORQuestion
    <3>3. Ask!Valid(q) /\ answers'[id] \in Ask!FromORToAnswers(r, q)
      BY <1>2, <2>1
    <3> HIDE DEF q, r
    <3>4. /\ answers'[id].type = q.type
          /\ q.type = "score" =>
               /\ answers'[id].legend = q.levels
               /\ \A i \in 1..Len(q.levels) : Right(r, i, answers'[id].probabilities[i])
      BY <3>1, <3>3, AnswersFit
    <3> QED
      BY <3>1, <3>2, <3>4 DEF q, r
  <2>4. ASSUME asker = "score"
        PROVE  /\ Len(told') = Len(given)
               /\ \A i \in 1..Len(given) :
                    /\ told'[i].level = given[i]
                    /\ Right(rs[Ask!ToolID], i, told'[i].probability)
    <3> DEFINE x == answers'[Ask!ToolID]
    <3>1. given \in Seq(STRING) /\ questions = [id \in {Ask!ToolID} |-> Ask!Score(given)]
      BY <2>4 DEF DecisionInv
    <3>2. Ask!ToolID \in DOMAIN questions /\ questions[Ask!ToolID].type = "score"
          /\ questions[Ask!ToolID].levels = given
      BY <3>1 DEF Ask!Score
    <3>3. /\ x.type = "score" /\ x.legend = given
          /\ \A i \in 1..Len(given) : Right(rs[Ask!ToolID], i, x.probabilities[i])
      BY <2>3, <3>2
    <3>4. told' = Ask!Shown(x)
      BY <1>5, <2>4
    <3> HIDE DEF x
    <3>5. told' = [i \in 1..Len(given) |-> [level |-> given[i], probability |-> x.probabilities[i]]]
      BY <3>3, <3>4 DEF Ask!Shown
    <3>6. Len(given) \in Nat
      BY <3>1, LenProperties
    <3>7. Len(told') = Len(given)
      BY <3>5, <3>6
    <3> QED
      BY <3>3, <3>5, <3>7
  <2>5. asker = "choice" /\ sent # Ask!Nothing =>
          /\ Ask!Cardinality(DOMAIN sent[Ask!ToolID].criteria) = Len(given)
          /\ \A i \in 1..Len(given) : sent[Ask!ToolID].criteria[given[i].name]
                                        = Ask!Described(given[i].text)
    BY DEF DecisionInv, AnswersAsked, Ask!AnswersAsked
  <2>6. AnswersAsked'
    <3>1. reply' = rs /\ questions' = questions /\ sent' = sent /\ given' = given
          /\ asker' = asker
      BY <1>1
    <3>2. \A id \in DOMAIN questions : answers'[id].type = "score" =>
            \A i \in 1..Len(questions[id].levels) :
              Right(reply'[id], i, answers'[id].probabilities[i])
      BY <2>3, <3>1
    <3>3. asker = "score" => \A i \in 1..Len(given) :
                               Right(reply'[Ask!ToolID], i, told'[i].probability)
      BY <2>4, <3>1
    <3>4. \A id \in DOMAIN questions :
            /\ answers'[id].type = questions[id].type /\ reply'[id].type = sent[id].type
            /\ answers'[id].type = "score" => answers'[id].legend = questions[id].levels
      BY <2>3, <3>1
    <3>5. asker = "score" => /\ Len(told') = Len(given)
                             /\ \A i \in 1..Len(given) : told'[i].level = given[i]
      BY <2>4
    <3> QED
      BY <1>5, <2>1, <2>2, <2>5, <3>1, <3>2, <3>3, <3>4, <3>5
      DEF AnswersAsked, Ask!AnswersAsked, Right
  <2> QED
    BY <1>1, <2>6 DEF DecisionInv
<1> QED
  BY <1>3, <1>4, <1>5

LEMMA DecisionStep == DecisionInv /\ [Ask!Next]_(Ask!vars) => DecisionInv'
<1> SUFFICES ASSUME DecisionInv, [Ask!Next]_(Ask!vars) PROVE DecisionInv'
  OBVIOUS
<1>1. CASE UNCHANGED Ask!vars
  <2>1. /\ phase' = phase /\ asker' = asker /\ given' = given /\ questions' = questions
        /\ sent' = sent /\ reply' = reply /\ returned' = returned /\ answers' = answers
        /\ told' = told
    BY <1>1 DEF Ask!vars
  <2>2. AnswersAsked <=> AnsweredRight /\ ShownRight /\ OptionsRight
    BY SameCount DEF AnswersAsked, Ask!AnswersAsked, AnsweredRight, ShownRight, OptionsRight, Right
  <2>3. AnswersAsked' <=> AnsweredRight' /\ ShownRight' /\ OptionsRight'
    BY SameCount DEF AnswersAsked, Ask!AnswersAsked, AnsweredRight, ShownRight, OptionsRight, Right
  <2>4. AnsweredRight => AnsweredRight'
    BY <2>1 DEF AnsweredRight
  <2>5. ShownRight => ShownRight'
    BY <2>1 DEF ShownRight
  <2>6. OptionsRight => OptionsRight'
    BY <2>1 DEF OptionsRight
  <2>7. AnswersAsked'
    BY <2>2, <2>3, <2>4, <2>5, <2>6 DEF DecisionInv
  <2> QED
    BY <2>1, <2>7 DEF DecisionInv
<1>2. ASSUME NEW ids \in SUBSET IDs, NEW qs \in [ids -> Asked], Ask!ProgramAsks(qs)
      PROVE  DecisionInv'
  BY <1>2, ProgramSteps
<1>3. ASSUME NEW t \in {Ask!NoText, "text"}, NEW f \in {Ask!NoText, "text"}, Ask!AskYesNo(t, f)
      PROVE  DecisionInv'
  <2>1. Ask!GivenTo("yes_no", <<>>) /\ Ask!AskOne(Ask!YesNo(t, f))
    BY <1>3 DEF Ask!AskYesNo
  <2>2. /\ asker' = "yes_no" /\ phase' \in {"sent", "done"}
        /\ questions' = [id \in {Ask!ToolID} |-> Ask!YesNo(t, f)]
        /\ phase' = "sent" => /\ returned' = "none" /\ sent' = Ask!ToORQuestions(questions')
                              /\ Ask!Valid(Ask!YesNo(t, f))
        /\ returned' # "answered"
    BY <2>1, ToolSteps
  <2>3. phase' = "sent" => \A id \in DOMAIN questions' : Ask!Valid(questions'[id])
    BY <2>2
  <2> QED
    BY <2>2, <2>3 DEF DecisionInv, AnswersAsked, Ask!AnswersAsked
<1>4. ASSUME NEW list \in OptionLists, Ask!AskChoice(list) PROVE DecisionInv'
  BY <1>4, ChoiceSteps
<1>5. ASSUME NEW list \in LevelLists, Ask!AskScore(list) PROVE DecisionInv'
  <2>1. Ask!GivenTo("score", list) /\ Ask!AskOne(Ask!Score(list))
    BY <1>5 DEF Ask!AskScore
  <2>2. /\ asker' = "score" /\ given' = list /\ phase' \in {"sent", "done"}
        /\ questions' = [id \in {Ask!ToolID} |-> Ask!Score(list)]
        /\ phase' = "sent" => /\ returned' = "none" /\ sent' = Ask!ToORQuestions(questions')
                              /\ Ask!Valid(Ask!Score(list))
        /\ returned' # "answered"
    BY <2>1, ToolSteps
  <2>3. phase' = "sent" => \A id \in DOMAIN questions' : Ask!Valid(questions'[id])
    BY <2>2
  <2>4. given' \in Seq(STRING)
    BY <2>2, DecisionAssumption
  <2> QED
    BY <2>2, <2>3, <2>4 DEF DecisionInv, AnswersAsked, Ask!AnswersAsked
<1>6. CASE Ask!AskFails
  BY <1>6 DEF Ask!AskFails, Ask!Ends, DecisionInv, AnswersAsked, Ask!AnswersAsked
<1>7. ASSUME NEW ids \in SUBSET DOMAIN questions, NEW rs \in [ids -> Replies], Ask!Answer(rs)
      PROVE  DecisionInv'
  BY <1>7, AnswerSteps
<1> QED
  BY <1>1, <1>2, <1>3, <1>4, <1>5, <1>6, <1>7 DEF Ask!Next

(* Whoever asks a decision gets the answer to its question, of its kind    *)
(* and level by level, or an error, and no option is lost on the way.      *)
THEOREM AnswersBelong == PacksSpec => []AnswersAsked
<1>1. PacksInit => DecisionInv
  BY DEF PacksInit, DecisionInv, AnswersAsked, Ask!AnswersAsked, Ask!Init
<1>2. DecisionInv /\ [PacksNext]_packsVars => DecisionInv'
  BY PartSteps, DecisionStep
<1>3. DecisionInv => AnswersAsked
  BY DEF DecisionInv
<1> QED
  BY <1>1, <1>2, <1>3, PTL DEF PacksSpec

-----------------------------------------------------------------------------
(* Pages.                                                                  *)

(* Every set of natural numbers that is not empty has a least element.     *)
LEMMA LeastNatural ==
  ASSUME NEW S \in SUBSET Nat, S # {}
  PROVE  \E n \in S : \A m \in S : n <= m
<1> DEFINE less == {p \in Nat \X Nat : p[1] < p[2]}
<1>1. IsWellFoundedOn(less, Nat)
  BY NatLessThanWellFounded DEF OpToRel
<1> HIDE DEF less
<1>2. PICK n \in S : \A m \in S : <<m, n>> \notin less
  BY <1>1, WFMin
<1>3. ASSUME NEW m \in S PROVE n <= m
  <2>1. n \in Nat /\ m \in Nat /\ <<m, n>> \in Nat \X Nat /\ <<m, n>> \notin less
    BY <1>2
  <2>2. ~(m < n)
    BY <2>1 DEF less
  <2> QED
    BY <2>1, <2>2
<1> QED
  BY <1>3

(* The greatest of a set of numbers up to n is one of them.                *)
LEMMA MaxIs ==
  ASSUME NEW S \in SUBSET Nat, NEW n \in Nat, S # {}, \A i \in S : i <= n
  PROVE  Pack!Max(S) \in S
<1> DEFINE below == {n - i : i \in S}
<1>1. below \in SUBSET Nat /\ below # {}
  <2>1. \A i \in S : n - i \in Nat /\ n - i \in below
    OBVIOUS
  <2> QED
    BY <2>1
<1>2. PICK least \in below : \A b \in below : least <= b
  BY <1>1, LeastNatural
<1>3. PICK m \in S : least = n - m
  OBVIOUS
<1>4. \A i \in S : m >= i
  <2> SUFFICES ASSUME NEW i \in S PROVE m >= i
    OBVIOUS
  <2>1. n - i \in below
    OBVIOUS
  <2>2. n - m <= n - i
    BY <1>2, <1>3, <2>1
  <2> QED
    BY <2>2
<1> QED
  BY <1>4 DEF Pack!Max

LEMMA PackCounts == ASSUME NEW S PROVE Pack!Cardinality(S) = Cardinality(S)
  BY DEF Pack!Cardinality, Cardinality

Text == Seq(Chars)

(* The lines that are counted are those the scanner finds.                 *)
LEMMA LinesCount ==
  ASSUME NEW t \in Text
  PROVE  /\ Pack!CountLines(t) \in Nat
         /\ Pack!Lines(t) \in Seq(Range(Pack!Lines(t)))
         /\ Len(Pack!Lines(t)) = Pack!CountLines(t)
<1> DEFINE n == Len(t)
           nl == Pack!Newlines(t)
           last == t # <<>> /\ t[n] # NL
           ends == {0} \cup nl \cup (IF last THEN {n + 1} ELSE {})
           N == Pack!CountLines(t)
<1>1. n \in Nat
  BY LenProperties DEF Text
<1>2. nl \in SUBSET (1..n)
  BY DEF Pack!Newlines
<1>3. IsFiniteSet(1..n) /\ IsFiniteSet(nl) /\ Cardinality(nl) \in Nat
  <2>1. 1 \in Int /\ n \in Int
    BY <1>1
  <2>2. IsFiniteSet(1..n)
    BY <2>1, FS_Interval
  <2>3. IsFiniteSet(nl)
    BY <1>2, <2>2, FS_Subset
  <2> QED
    BY <2>2, <2>3, FS_CardinalityType
<1>4. N = Cardinality(nl) + (IF last THEN 1 ELSE 0) /\ N \in Nat
  BY <1>3, PackCounts DEF Pack!CountLines
<1> HIDE DEF nl
<1>5. 0 \notin nl /\ n + 1 \notin nl /\ n + 1 # 0
  BY <1>1, <1>2
<1>6. IsFiniteSet(nl \cup {0}) /\ Cardinality(nl \cup {0}) = Cardinality(nl) + 1
  BY <1>3, <1>5, FS_AddElement
<1>7. Cardinality(ends) = N + 1
  <2>1. CASE last
    <3>1. Cardinality((nl \cup {0}) \cup {n + 1}) = Cardinality(nl \cup {0}) + 1
      BY <1>5, <1>6, FS_AddElement
    <3>2. ends = (nl \cup {0}) \cup {n + 1}
      BY <2>1
    <3> QED
      BY <1>3, <1>4, <1>6, <2>1, <3>1, <3>2
  <2>2. CASE ~last
    <3>1. ends = nl \cup {0}
      BY <2>2
    <3>2. N = Cardinality(nl)
      BY <1>3, <1>4, <2>2
    <3> QED
      BY <1>6, <3>1, <3>2
  <2> QED
    BY <2>1, <2>2
<1> DEFINE End(k) == CHOOSE e \in ends : Pack!Cardinality({d \in ends : d < e}) = k
           Line(k) == SubSeq(t, End(k - 1) + 1, End(k) - 1)
           lines == Pack!Lines(t)
<1>8. lines = [k \in 1..(Pack!Cardinality(ends) - 1) |-> Line(k)]
  BY DEF Pack!Lines, nl
<1>9. Pack!Cardinality(ends) - 1 = N
  BY <1>4, <1>7, PackCounts
<1> HIDE DEF N, Line, lines, ends
<1>10. lines = [k \in 1..N |-> Line(k)]
  BY <1>8, <1>9
<1>11. lines \in Seq(Range(lines)) /\ Len(lines) = N
  <2>1. N \in Nat
    BY <1>4
  <2>2. DOMAIN lines = 1..N /\ lines \in [1..N -> Range(lines)]
    BY <1>10 DEF Range
  <2> QED
    BY <2>1, <2>2
<1> QED
  BY <1>4, <1>11 DEF lines, N


(* A page is a stretch of lines that ends inside the text.                 *)
LEMMA PageIs ==
  ASSUME NEW S, NEW lines \in Seq(S), NEW offset \in Nat \ {0}, NEW limit
  PROVE  \E n \in Nat :
           /\ Pack!Page(lines, offset, limit).lines = SubSeq(lines, offset, offset + n - 1)
           /\ n = 0 \/ offset + n - 1 <= Len(lines)
<1> DEFINE fitting == {k \in 1..Len(lines) : Pack!Fits(lines, offset, limit, k)}
           n == Pack!Max({0} \cup fitting)
<1>1. Len(lines) \in Nat
  BY LenProperties
<1>2. n \in {0} \cup fitting
  <2>1. fitting \subseteq 0..Len(lines)
    BY <1>1
  <2> HIDE DEF fitting
  <2>2. {0} \cup fitting \in SUBSET Nat /\ {0} \cup fitting # {}
    BY <1>1, <2>1
  <2>3. \A i \in {0} \cup fitting : i <= Len(lines)
    BY <1>1, <2>1
  <2> QED
    BY <1>1, <2>2, <2>3, MaxIs
<1>3. Pack!Page(lines, offset, limit).lines = SubSeq(lines, offset, offset + n - 1)
  BY DEF Pack!Page
<1> HIDE DEF n
<1>4. n \in Nat /\ (n = 0 \/ offset + n - 1 <= Len(lines))
  BY <1>1, <1>2 DEF Pack!Fits
<1> QED
  BY <1>3, <1>4

LEMMA PageLength ==
  ASSUME NEW S, NEW lines \in Seq(S), NEW offset \in Nat \ {0}, NEW limit
  PROVE  Len(Pack!Page(lines, offset, limit).lines) \in Nat
<1> DEFINE page == Pack!Page(lines, offset, limit).lines
<1>1. Len(lines) \in Nat
  BY LenProperties
<1>2. PICK n \in Nat : /\ page = SubSeq(lines, offset, offset + n - 1)
                       /\ n = 0 \/ offset + n - 1 <= Len(lines)
  BY PageIs
<1>3. \A i \in offset..(offset + n - 1) : lines[i] \in S
  BY <1>1, <1>2, ElementOfSeq
<1> QED
  BY <1>2, <1>3, SubSeqProperties

(* A page that starts where the last one ended joins it.                   *)
LEMMA PageJoins ==
  ASSUME NEW S, NEW lines \in Seq(S), NEW offset \in Nat \ {0}, NEW limit,
         offset - 1 <= Len(lines)
  PROVE  LET page == Pack!Page(lines, offset, limit).lines
             next == offset + Len(page)
         IN  /\ next \in Nat \ {0} /\ next - 1 <= Len(lines)
             /\ SubSeq(lines, 1, offset - 1) \o page = SubSeq(lines, 1, next - 1)
<1> DEFINE page == Pack!Page(lines, offset, limit).lines
           next == offset + Len(page)
<1>1. Len(lines) \in Nat
  BY LenProperties
<1>2. PICK to \in (offset - 1)..Len(lines) : page = SubSeq(lines, offset, to)
  <2>1. PICK n \in Nat : /\ page = SubSeq(lines, offset, offset + n - 1)
                         /\ n = 0 \/ offset + n - 1 <= Len(lines)
    BY PageIs
  <2>2. offset + n - 1 \in (offset - 1)..Len(lines)
    BY <1>1, <2>1
  <2> QED
    BY <2>1, <2>2
<1>3. to \in Int /\ offset - 1 <= to /\ to <= Len(lines)
  BY <1>1, <1>2
<1>4. \A i \in offset..to : lines[i] \in S
  BY <1>1, <1>3, ElementOfSeq
<1>5. Len(page) = to - offset + 1
  BY <1>2, <1>3, <1>4, SubSeqProperties
<1> HIDE DEF page
<1>6. next = to + 1
  BY <1>3, <1>5
<1>7. SubSeq(lines, 1, offset - 1) \o SubSeq(lines, offset, to) = SubSeq(lines, 1, to)
  <2>1. 1 \in 1..Len(lines) + 1 /\ offset - 1 \in (1 - 1)..Len(lines)
          /\ to \in (offset - 1)..Len(lines)
    BY <1>1, <1>3
  <2>2. SubSeq(lines, 1, offset - 1) \o SubSeq(lines, (offset - 1) + 1, to)
          = SubSeq(lines, 1, to)
    BY <2>1, ConcatAdjacentSubSeq
  <2> QED
    BY <2>2
<1> QED
  BY <1>1, <1>2, <1>3, <1>6, <1>7 DEF page

(* An edit leaves a text.                                                  *)
LEMMA ReplacedIsText ==
  ASSUME NEW t \in Text, NEW s \in Text, NEW u \in Text, Pack!MatchesOnce(t, s)
  PROVE  Pack!Replaced(t, s, u) \in Text
<1> DEFINE P == Pack!Places(t, s)
           first == Pack!First(t, s)
<1>1. Len(t) \in Nat /\ Len(s) \in Nat
  BY LenProperties DEF Text
<1>2. P \in SUBSET Nat /\ P # {}
  <2>1. P # {}
    BY DEF Pack!MatchesOnce
  <2>2. P \subseteq 1..(Len(t) + 1 - Len(s))
    BY DEF Pack!Places
  <2>3. Len(t) + 1 - Len(s) \in Int
    BY <1>1
  <2> HIDE DEF P
  <2> QED
    BY <2>1, <2>2, <2>3
<1>3. \E i \in P : \A j \in P : i <= j
  <2> HIDE DEF P
  <2> QED
    BY <1>2, LeastNatural
<1>4. first \in P
  BY <1>3 DEF Pack!First
<1>5. first \in Nat /\ 1 <= first /\ first + Len(s) <= Len(t) + 1
  BY <1>1, <1>4 DEF Pack!Places
<1> HIDE DEF first, P
<1>6. SubSeq(t, 1, first - 1) \in Text
  <2>1. \A i \in 1..(first - 1) : t[i] \in Chars
    BY <1>1, <1>5, ElementOfSeq DEF Text
  <2> QED
    BY <1>5, <2>1, SubSeqProperties DEF Text
<1>7. SubSeq(t, first + Len(s), Len(t)) \in Text
  <2>1. \A i \in (first + Len(s))..Len(t) : t[i] \in Chars
    BY <1>1, <1>5, ElementOfSeq DEF Text
  <2> QED
    BY <1>1, <1>5, <2>1, SubSeqProperties DEF Text
<1>8. (SubSeq(t, 1, first - 1) \o u) \o SubSeq(t, first + Len(s), Len(t)) \in Text
  <2>1. SubSeq(t, 1, first - 1) \o u \in Text
    BY <1>6, ConcatProperties DEF Text
  <2> QED
    BY <1>7, <2>1, ConcatProperties DEF Text
<1> QED
  BY <1>8 DEF Pack!Replaced, first

(* So does a write over what another call left.                            *)
LEMMA PutIsText ==
  ASSUME NEW t \in Text, NEW s \in Text
  PROVE  t \o SubSeq(s, Len(t) + 1, Len(s)) \in Text
<1>1. Len(t) \in Nat /\ Len(s) \in Nat
  BY LenProperties DEF Text
<1>2. \A i \in (Len(t) + 1)..Len(s) : s[i] \in Chars
  BY <1>1, ElementOfSeq DEF Text
<1>3. SubSeq(s, Len(t) + 1, Len(s)) \in Text
  BY <1>1, <1>2, SubSeqProperties DEF Text
<1> QED
  BY <1>3, ConcatProperties DEF Text

(* What the variables of the file tools range over.                        *)
FileTypes ==
  /\ entry \in Nodes \cup {Pack!None}
  /\ used \subseteq Nodes
  /\ content \in [Nodes -> Text]
  /\ fd \in [FileCallers -> Nodes \cup {Pack!None}]
  /\ call \in [FileCallers -> [offset : Nat \ {0}, limit : Nat, text : Text, old : Text]]
  /\ DOMAIN fpc = FileCallers /\ DOMAIN total = FileCallers
  /\ DOMAIN got = FileCallers /\ DOMAIN touched = FileCallers
  /\ \A c \in FileCallers : fpc[c] \in {"count", "scan", "put"} => fd[c] \in Nodes

Pages == {"paging", "open", "count", "scan", "read"}

(* The caller has the lines up to where its next page starts.              *)
HasLines(c) ==
  LET lines == Pack!Lines(content[entry])
      next == call[c].offset
  IN  /\ next - 1 <= Len(lines)
      /\ got[c] = SubSeq(lines, 1, next - 1)
      /\ fpc[c] = "scan" => total[c] = Len(lines)
      /\ fpc[c] = "read" => next - 1 = Len(lines)

(* While nobody changes the file, a caller that pages has it open or will  *)
(* open it, and has the lines it was given.                                *)
Joined(c) ==
  /\ fpc[c] \notin Pages \cup {"failed"} => got[c] = <<>>
  /\ fpc[c] \in Pages /\ ~touched[c] =>
       /\ fpc[c] \in {"count", "scan"} => fd[c] = entry
       /\ fpc[c] \in {"count", "scan", "read"} => entry \in Nodes
       /\ entry \in Nodes => HasLines(c)

FileInv == FileTypes /\ \A c \in FileCallers : Joined(c)

(* The calls of others leave a caller that pages what it has, or the file  *)
(* is known to have changed.                                               *)
LEMMA JoinStays ==
  ASSUME NEW k \in FileCallers, Joined(k), got'[k] = got[k],
         \/ /\ entry' = entry /\ content' = content /\ fpc'[k] = fpc[k]
            /\ fd'[k] = fd[k] /\ call'[k] = call[k] /\ total'[k] = total[k]
            /\ touched'[k] = touched[k]
         \/ fpc[k] \notin Pages \cup {"failed"} /\ fpc'[k] \notin Pages \cup {"failed"}
         \/ fpc'[k] = fpc[k] /\ touched'[k] = (touched[k] \/ fpc[k] \in Pages)
  PROVE  Joined(k)'
<1>1. CASE /\ entry' = entry /\ content' = content /\ fpc'[k] = fpc[k]
           /\ fd'[k] = fd[k] /\ call'[k] = call[k] /\ total'[k] = total[k]
           /\ touched'[k] = touched[k]
  <2>1. HasLines(k)' <=> HasLines(k)
    BY <1>1 DEF HasLines
  <2> QED
    BY <1>1, <2>1 DEF Joined
<1>2. CASE fpc[k] \notin Pages \cup {"failed"} /\ fpc'[k] \notin Pages \cup {"failed"}
  BY <1>2 DEF Joined
<1>3. CASE fpc'[k] = fpc[k] /\ touched'[k] = (touched[k] \/ fpc[k] \in Pages)
  BY <1>3 DEF Joined
<1> QED
  BY <1>1, <1>2, <1>3

(* Calls that write, edit and delete the file.                             *)
Writing(c) ==
  \/ \E t \in Writes : Pack!WriteFile(c, t)
  \/ \E e \in Edits : Pack!EditFile(c, e)
  \/ Pack!MakeFolder(c) \/ Pack!Truncate(c) \/ Pack!Create(c) \/ Pack!CannotWrite(c)
  \/ Pack!Put(c) \/ Pack!Load(c) \/ Pack!DeleteFile(c) \/ Pack!RemoveEntry(c)

Reading(c) ==
  \/ \E limit \in Limits : Pack!BeginPaging(c, limit)
  \/ Pack!ReadFile(c) \/ Pack!OpenFile(c) \/ Pack!Count(c) \/ Pack!Scan(c)
  \/ Pack!EndPaging(c)

(* What anyone writes is a text.                                           *)
LEMMA WrittenAreTexts ==
  /\ \A t \in Texts \cup Writes : t \in Text
  /\ \A e \in Edits : e.old \in Text /\ e.new \in Text
  /\ <<>> \in Text
  /\ Pack!NoCall \in [offset : Nat \ {0}, limit : Nat, text : Text, old : Text]
<1>1. <<>> \in Text
  BY EmptySeq DEF Text
<1> QED
  BY <1>1, TextsAssumption DEF AllTexts, Text, Pack!NoCall

LEMMA WritesAreTyped ==
  ASSUME FileTypes, NEW c \in FileCallers, Writing(c)
  PROVE  FileTypes'
<1> USE DEF FileTypes, Pack!Goes, Pack!Starts, Pack!files, Pack!paging
<1>0. Pack!None \notin Nodes
  BY PacksAssumption DEF Pack!None
<1>1. ASSUME NEW t \in Writes, Pack!WriteFile(c, t) PROVE FileTypes'
  BY <1>1, WrittenAreTexts DEF Pack!WriteFile
<1>2. ASSUME NEW e \in Edits, Pack!EditFile(c, e) PROVE FileTypes'
  BY <1>2, WrittenAreTexts DEF Pack!EditFile
<1>3. CASE Pack!MakeFolder(c)
  BY <1>3, WrittenAreTexts DEF Pack!MakeFolder
<1>4. CASE Pack!Truncate(c)
  BY <1>4, WrittenAreTexts DEF Pack!Truncate, Pack!Touched
<1>5. CASE Pack!Create(c)
  BY <1>5 DEF Pack!Create, Pack!Touched
<1>6. CASE Pack!CannotWrite(c)
  BY <1>6, WrittenAreTexts DEF Pack!CannotWrite
<1>7. CASE Pack!Put(c)
  <2>1. fd[c] \in Nodes /\ call[c].text \in Text
    BY <1>7 DEF Pack!Put
  <2> DEFINE new == call[c].text
                      \o SubSeq(content[fd[c]], Len(call[c].text) + 1, Len(content[fd[c]]))
  <2>2. new \in Text
    BY <2>1, PutIsText
  <2>3. content' = [content EXCEPT ![fd[c]] = new]
    BY <1>7 DEF Pack!Put
  <2> HIDE DEF new
  <2> QED
    BY <1>7, <2>1, <2>2, <2>3, WrittenAreTexts, ZenonT(30) DEF Pack!Put, Pack!Touched
<1>8. CASE Pack!Load(c)
  <2> DEFINE t == content[entry]
             new == Pack!Replaced(t, call[c].old, call[c].text)
  <2>1. CASE root /\ entry # Pack!None /\ Pack!MatchesOnce(t, call[c].old)
    <3>1. new \in Text
      BY <2>1, ReplacedIsText
    <3>2. call' = [call EXCEPT ![c].text = new] /\ Pack!Goes(c, "load", "create")
            /\ UNCHANGED <<entry, used, content, fd, total, got, touched>>
      BY <1>8, <2>1 DEF Pack!Load
    <3> HIDE DEF new
    <3> QED
      BY <3>1, <3>2
  <2>2. CASE ~(root /\ entry # Pack!None /\ Pack!MatchesOnce(t, call[c].old))
    <3>1. call' = [call EXCEPT ![c] = Pack!NoCall] /\ Pack!Goes(c, "load", "idle")
            /\ UNCHANGED <<entry, used, content, fd, total, got, touched>>
      BY <1>8, <2>2 DEF Pack!Load
    <3> QED
      BY <3>1, WrittenAreTexts
  <2> QED
    BY <2>1, <2>2
<1>9. CASE Pack!DeleteFile(c)
  BY <1>9 DEF Pack!DeleteFile
<1>10. CASE Pack!RemoveEntry(c)
  BY <1>10 DEF Pack!RemoveEntry, Pack!Touched
<1> QED
  BY <1>1, <1>2, <1>3, <1>4, <1>5, <1>6, <1>7, <1>8, <1>9, <1>10 DEF Writing

LEMMA WritesJoin ==
  ASSUME FileInv, NEW c \in FileCallers, Writing(c), NEW k \in FileCallers
  PROVE  Joined(k)'
<1> USE DEF FileInv, FileTypes, Writing, Pack!Goes, Pack!Starts, Pack!files, Pack!paging,
            Pack!WriteFile, Pack!EditFile, Pack!MakeFolder, Pack!Truncate, Pack!Create,
            Pack!CannotWrite, Pack!Put, Pack!Load, Pack!DeleteFile, Pack!RemoveEntry
<1>1. got' = got
  OBVIOUS
<1>2. CASE k = c
  <2>1. fpc[c] \notin Pages \cup {"failed"} /\ fpc'[c] \notin Pages \cup {"failed"}
    BY DEF Pages
  <2> QED
    BY <1>1, <1>2, <2>1, JoinStays
<1>3. CASE k # c
  <2>1. /\ fpc'[k] = fpc[k] /\ call'[k] = call[k] /\ fd'[k] = fd[k] /\ total'[k] = total[k]
    BY <1>3
  <2>2. \/ entry' = entry /\ content' = content /\ touched'[k] = touched[k]
        \/ touched'[k] = (touched[k] \/ fpc[k] \in Pages)
    BY DEF Pack!Touched, Pages
  <2> QED
    BY <1>1, <2>1, <2>2, JoinStays
<1> QED
  BY <1>2, <1>3

(* A page of the file the caller holds open.                               *)
LEMMA ScanIs ==
  ASSUME FileTypes, NEW c \in FileCallers, Pack!Scan(c)
  PROVE  LET page == Pack!Page(Pack!Lines(content[fd[c]]), call[c].offset, call[c].limit)
             next == call[c].offset + Len(page.lines)
         IN  /\ fpc[c] = "scan" /\ UNCHANGED <<entry, used, content, touched>>
             /\ fd' = [fd EXCEPT ![c] = Pack!None] /\ total' = [total EXCEPT ![c] = 0]
             /\ \/ /\ fpc' = [fpc EXCEPT ![c] = "failed"] /\ UNCHANGED <<call, got>>
                \/ /\ fpc' = [fpc EXCEPT ![c] = IF next > total[c] THEN "read" ELSE "paging"]
                   /\ call' = [call EXCEPT ![c].offset = next]
                   /\ got' = [got EXCEPT ![c] = @ \o page.lines]
  BY DEF Pack!Scan, Pack!Goes, Pack!files

LEMMA ReadsAreTyped ==
  ASSUME FileTypes, NEW c \in FileCallers, Reading(c)
  PROVE  FileTypes'
<1> USE DEF FileTypes, Pack!Goes, Pack!Starts, Pack!files, Pack!paging
<1>0. Pack!None \notin Nodes
  BY PacksAssumption DEF Pack!None
<1>1. ASSUME NEW limit \in Limits, Pack!BeginPaging(c, limit) PROVE FileTypes'
  <2>1. limit \in Nat
    BY PacksAssumption
  <2>2. [Pack!NoCall EXCEPT !.limit = limit]
          \in [offset : Nat \ {0}, limit : Nat, text : Text, old : Text]
    BY <2>1, WrittenAreTexts
  <2> QED
    BY <1>1, <2>2 DEF Pack!BeginPaging
<1>2. CASE Pack!ReadFile(c)
  BY <1>2 DEF Pack!ReadFile
<1>3. CASE Pack!OpenFile(c)
  BY <1>3 DEF Pack!OpenFile
<1>4. CASE Pack!Count(c)
  BY <1>4 DEF Pack!Count
<1>5. CASE Pack!Scan(c)
  <2> DEFINE lines == Pack!Lines(content[fd[c]])
             page == Pack!Page(lines, call[c].offset, call[c].limit)
             next == call[c].offset + Len(page.lines)
  <2>1. fd[c] \in Nodes /\ content[fd[c]] \in Text
    BY <1>5, ScanIs
  <2>2. lines \in Seq(Range(lines))
    BY <2>1, LinesCount
  <2>3. Len(page.lines) \in Nat
    <3> HIDE DEF lines
    <3> QED
      BY <2>2, PageLength
  <2>4. next \in Nat \ {0}
    <3> HIDE DEF page
    <3> QED
      BY <2>3
  <2>5. /\ fpc[c] = "scan" /\ UNCHANGED <<entry, used, content, touched>>
        /\ fd' = [fd EXCEPT ![c] = Pack!None] /\ total' = [total EXCEPT ![c] = 0]
        /\ \/ /\ fpc' = [fpc EXCEPT ![c] = "failed"] /\ UNCHANGED <<call, got>>
           \/ /\ fpc' = [fpc EXCEPT ![c] = IF next > total[c] THEN "read" ELSE "paging"]
              /\ call' = [call EXCEPT ![c].offset = next]
              /\ got' = [got EXCEPT ![c] = @ \o page.lines]
    BY <1>5, ScanIs
  <2> HIDE DEF next, page
  <2>6. call' \in [FileCallers -> [offset : Nat \ {0}, limit : Nat, text : Text, old : Text]]
    <3>1. CASE call' = call
      BY <3>1
    <3>2. CASE call' = [call EXCEPT ![c].offset = next]
      <4>1. call' = [call EXCEPT ![c] = [call[c] EXCEPT !.offset = next]]
        BY <3>2
      <4>2. [call[c] EXCEPT !.offset = next]
              \in [offset : Nat \ {0}, limit : Nat, text : Text, old : Text]
        BY <2>4
      <4> QED
        BY <4>1, <4>2
    <3> QED
      BY <2>5, <3>1, <3>2
  <2>7. fd' \in [FileCallers -> Nodes \cup {Pack!None}]
          /\ DOMAIN got' = FileCallers /\ DOMAIN fpc' = FileCallers /\ DOMAIN total' = FileCallers
    BY <2>5
  <2>8. \A k \in FileCallers : fpc'[k] \in {"count", "scan", "put"} => fd'[k] \in Nodes
    BY <2>5
  <2> QED
    BY <2>5, <2>6, <2>7, <2>8
<1>6. CASE Pack!EndPaging(c)
  BY <1>6, WrittenAreTexts DEF Pack!EndPaging
<1> QED
  BY <1>1, <1>2, <1>3, <1>4, <1>5, <1>6 DEF Reading

(* The lines of the file the name leads to.                                *)
LEMMA FileLines ==
  ASSUME FileTypes, entry \in Nodes
  PROVE  LET lines == Pack!Lines(content[entry])
         IN  lines \in Seq(Range(lines)) /\ Len(lines) \in Nat
               /\ Len(lines) = Pack!CountLines(content[entry])
  BY LinesCount DEF FileTypes

LEMMA ReadsJoin ==
  ASSUME FileInv, NEW c \in FileCallers, Reading(c), NEW k \in FileCallers
  PROVE  Joined(k)'
<1> USE DEF Pack!Goes, Pack!Starts, Pack!files, Pack!paging
<1>0. FileTypes /\ Joined(k) /\ entry' = entry /\ content' = content
  BY DEF FileInv, Reading, Pack!BeginPaging, Pack!ReadFile, Pack!OpenFile, Pack!Count,
         Pack!Scan, Pack!EndPaging
<1>1. CASE k # c
  <2>1. /\ got'[k] = got[k] /\ fpc'[k] = fpc[k] /\ fd'[k] = fd[k] /\ call'[k] = call[k]
        /\ total'[k] = total[k] /\ touched'[k] = touched[k]
    BY <1>0, <1>1 DEF FileTypes, Reading, Pack!BeginPaging, Pack!ReadFile, Pack!OpenFile,
         Pack!Count, Pack!Scan, Pack!EndPaging
  <2> QED
    BY <1>0, <2>1, JoinStays
<1>2. CASE k = c
  <2> DEFINE lines == Pack!Lines(content[entry])
  <2>0. entry \in Nodes => lines \in Seq(Range(lines)) /\ Len(lines) \in Nat
                              /\ Len(lines) = Pack!CountLines(content[entry])
    BY <1>0, FileLines
  <2> HIDE DEF lines
  <2>1. ASSUME NEW limit \in Limits, Pack!BeginPaging(c, limit) PROVE Joined(k)'
    <3>1. fpc[c] = "idle" /\ fpc'[c] = "paging" /\ call'[c].offset = 1 /\ got' = got
      BY <1>0, <2>1 DEF FileTypes, Pack!BeginPaging, Pack!NoCall
    <3>2. got[c] = <<>>
      BY <1>0, <1>2, <3>1 DEF Joined, Pages
    <3>3. SubSeq(lines, 1, 1 - 1) = <<>>
      BY SubSeqEmpty
    <3>4. entry \in Nodes => HasLines(c)'
      BY <1>0, <2>0, <3>1, <3>2, <3>3 DEF HasLines, lines
    <3> QED
      BY <1>0, <1>2, <3>1, <3>4 DEF Joined, Pages
  <2>2. CASE Pack!ReadFile(c)
    <3>1. HasLines(c)' <=> HasLines(c)
      BY <1>0, <2>2 DEF FileTypes, Pack!ReadFile, HasLines
    <3> QED
      BY <1>0, <1>2, <2>2, <3>1 DEF FileTypes, Pack!ReadFile, Joined, Pages
  <2>3. CASE Pack!OpenFile(c)
    <3>1. HasLines(c)' <=> HasLines(c)
      BY <1>0, <2>3 DEF FileTypes, Pack!OpenFile, HasLines
    <3> QED
      BY <1>0, <1>2, <2>3, <3>1 DEF FileTypes, Pack!OpenFile, Joined, Pages, Pack!None
  <2>4. CASE Pack!Count(c)
    <3>1. fpc[c] = "count" /\ fpc'[c] = "scan" /\ total'[c] = Pack!CountLines(content[fd[c]])
            /\ UNCHANGED <<fd, call, got, touched>>
      BY <1>0, <2>4 DEF FileTypes, Pack!Count
    <3>2. ~touched[c] => entry \in Nodes /\ fd[c] = entry /\ HasLines(c)
      BY <1>0, <1>2, <3>1 DEF Joined, Pages
    <3>3. ~touched[c] => HasLines(c)'
      BY <1>0, <2>0, <3>1, <3>2 DEF HasLines, lines
    <3> QED
      BY <1>0, <1>2, <3>1, <3>2, <3>3 DEF Joined, Pages
  <2>5. CASE Pack!Scan(c)
    <3> DEFINE page == Pack!Page(lines, call[c].offset, call[c].limit).lines
               next == call[c].offset + Len(page)
    <3>1. CASE fpc'[c] = "failed" \/ touched[c]
      <4>1. touched'[c] = touched[c] /\ fpc'[c] \in Pages \cup {"failed"}
        BY <1>0, <2>5, ScanIs DEF FileTypes, Pages
      <4> QED
        BY <1>2, <3>1, <4>1 DEF Joined, Pages
    <3>2. CASE fpc'[c] # "failed" /\ ~touched[c]
      <4>1. fpc[c] = "scan"
        BY <1>0, <2>5, ScanIs
      <4>2. /\ entry \in Nodes /\ fd[c] = entry /\ call[c].offset - 1 <= Len(lines)
            /\ got[c] = SubSeq(lines, 1, call[c].offset - 1) /\ total[c] = Len(lines)
        BY <1>0, <1>2, <3>2, <4>1 DEF Joined, Pages, HasLines, lines
      <4>3. /\ call'[c].offset = next /\ got'[c] = got[c] \o page
            /\ fpc'[c] = IF next > total[c] THEN "read" ELSE "paging"
        <5> DEFINE pageRead == Pack!Page(Pack!Lines(content[fd[c]]), call[c].offset, call[c].limit)
                   nextRead == call[c].offset + Len(pageRead.lines)
        <5>1. /\ fpc' = [fpc EXCEPT ![c] = IF nextRead > total[c] THEN "read" ELSE "paging"]
              /\ call' = [call EXCEPT ![c].offset = nextRead]
              /\ got' = [got EXCEPT ![c] = got[c] \o pageRead.lines]
          <6> HIDE DEF pageRead
          <6>1. \/ fpc' = [fpc EXCEPT ![c] = "failed"]
                \/ /\ fpc' = [fpc EXCEPT ![c] = IF nextRead > total[c] THEN "read" ELSE "paging"]
                   /\ call' = [call EXCEPT ![c].offset = nextRead]
                   /\ got' = [got EXCEPT ![c] = @ \o pageRead.lines]
            BY <1>0, <2>5, ScanIs DEF pageRead
          <6> QED
            BY <1>0, <3>2, <6>1 DEF FileTypes
        <5>2. pageRead.lines = page
          BY <4>2 DEF lines
        <5>3. nextRead = next
          BY <5>2
        <5> HIDE DEF pageRead, nextRead, page, next
        <5> QED
          BY <1>0, <5>1, <5>2, <5>3 DEF FileTypes
      <4>4. call[c].offset \in Nat \ {0}
        BY <1>0 DEF FileTypes
      <4>5. /\ next \in Nat \ {0} /\ next - 1 <= Len(lines)
            /\ SubSeq(lines, 1, call[c].offset - 1) \o page = SubSeq(lines, 1, next - 1)
        BY <2>0, <4>2, <4>4, PageJoins
      <4> HIDE DEF next, page
      <4>6. fpc'[c] = "read" => next - 1 = Len(lines)
        BY <2>0, <4>2, <4>3, <4>5
      <4>7. HasLines(c)'
        BY <1>0, <4>2, <4>3, <4>5, <4>6 DEF HasLines, lines
      <4>8. fpc'[c] \in {"read", "paging"} /\ entry' \in Nodes
        BY <1>0, <4>2, <4>3
      <4> QED
        BY <1>2, <4>7, <4>8 DEF Joined, Pages
    <3> QED
      BY <3>1, <3>2
  <2>6. CASE Pack!EndPaging(c)
    <3>1. fpc'[c] = "idle" /\ got'[c] = <<>>
      BY <1>0, <2>6 DEF FileTypes, Pack!EndPaging
    <3> QED
      BY <1>2, <3>1 DEF Joined, Pages
  <2> QED
    BY <2>1, <2>2, <2>3, <2>4, <2>5, <2>6 DEF Reading
<1> QED
  BY <1>1, <1>2

LEMMA FileStep == FileInv /\ [Pack!Next]_(Pack!vars) => FileInv'
<1> SUFFICES ASSUME FileInv, [Pack!Next]_(Pack!vars) PROVE FileInv'
  OBVIOUS
<1>1. CASE UNCHANGED <<entry, used, content, fd, call, fpc, total, got, touched>>
  <2>1. FileTypes'
    BY <1>1 DEF FileInv, FileTypes
  <2>2. \A k \in FileCallers : Joined(k)'
    BY <1>1, JoinStays DEF FileInv
  <2> QED
    BY <2>1, <2>2 DEF FileInv
<1>2. ASSUME NEW c \in FileCallers, Writing(c) PROVE FileInv'
  BY <1>2, WritesAreTyped, WritesJoin DEF FileInv
<1>3. ASSUME NEW c \in FileCallers, Reading(c) PROVE FileInv'
  BY <1>3, ReadsAreTyped, ReadsJoin DEF FileInv
<1> QED
  <2>1. CASE UNCHANGED Pack!vars \/ Pack!Close
    BY <1>1, <2>1 DEF Pack!vars, Pack!files, Pack!paging, Pack!Close
  <2>2. CASE Pack!Next /\ ~Pack!Close
    BY <1>2, <1>3, <2>2 DEF Pack!Next, Pack!Step, Writing, Reading
  <2> QED
    BY <2>1, <2>2

LEMMA FileInit == Pack!Init => FileInv
<1> SUFFICES ASSUME Pack!Init PROVE FileInv
  OBVIOUS
<1>1. 1 \in Nodes
  BY PacksAssumption
<1>2. content \in [Nodes -> Text]
  BY WrittenAreTexts DEF Pack!Init
<1>3. FileTypes
  BY <1>1, <1>2, WrittenAreTexts DEF Pack!Init, FileTypes, Pack!None
<1>4. \A c \in FileCallers : Joined(c)
  BY DEF Pack!Init, Joined, Pages
<1> QED
  BY <1>3, <1>4 DEF FileInv

(* A model that reads a file page by page and is told it has them all has  *)
(* every line of the file, once and in order, unless a call changed it.    *)
THEOREM PagesAreJoined == PacksSpec => []PagesJoin
<1>1. PacksInit => FileInv
  BY FileInit DEF PacksInit
<1>2. FileInv /\ [PacksNext]_packsVars => FileInv'
  BY PartSteps, FileStep
<1>3. FileInv => PagesJoin
  <2> SUFFICES ASSUME FileInv, NEW c \in FileCallers, fpc[c] = "read", ~touched[c]
               PROVE  got[c] = Pack!Lines(content[entry])
    BY DEF PagesJoin, Pack!PagesJoin
  <2> DEFINE lines == Pack!Lines(content[entry])
  <2>1. entry \in Nodes /\ got[c] = SubSeq(lines, 1, call[c].offset - 1)
          /\ call[c].offset - 1 = Len(lines)
    BY DEF FileInv, Joined, Pages, HasLines
  <2>2. lines \in Seq(Range(lines))
    BY <2>1, FileLines DEF FileInv
  <2> QED
    BY <2>1, <2>2, SubSeqFull
<1> QED
  BY <1>1, <1>2, <1>3, PTL DEF PacksSpec

-----------------------------------------------------------------------------
(* Searches.                                                               *)

(* Matches in the order of the walk.                                       *)
Place == Nat \X Nat
Listed(list) == {list[i] : i \in DOMAIN list}

LEMMA JoinInOrder ==
  ASSUME NEW first \in Seq(Place), NEW second \in Seq(Place),
         Walk!InOrder(first), Walk!InOrder(second),
         \A m \in Listed(first), n \in Listed(second) : Walk!Before(m, n)
  PROVE  /\ first \o second \in Seq(Place)
         /\ Walk!InOrder(first \o second)
         /\ Listed(first \o second) = Listed(first) \cup Listed(second)
<1> DEFINE both == first \o second
           M == Len(first)
           N == Len(second)
<1>1. M \in Nat /\ N \in Nat /\ DOMAIN first = 1..M /\ DOMAIN second = 1..N
  BY LenProperties
<1>2. both \in Seq(Place) /\ Len(both) = M + N
        /\ \A i \in 1..(M + N) : both[i] = IF i <= M THEN first[i] ELSE second[i - M]
  BY ConcatProperties
<1>3. DOMAIN both = 1..(M + N)
  BY <1>2, LenProperties
<1> HIDE DEF both
<1>4. ASSUME NEW i \in 1..(M + N), NEW j \in 1..(M + N), i < j
      PROVE  Walk!Before(both[i], both[j])
  <2>1. CASE j <= M
    <3>1. i \in 1..M /\ j \in 1..M /\ both[i] = first[i] /\ both[j] = first[j]
      BY <1>1, <1>2, <1>4, <2>1
    <3> QED
      BY <1>1, <1>4, <3>1 DEF Walk!InOrder
  <2>2. CASE i <= M /\ ~(j <= M)
    <3>1. i \in 1..M /\ j - M \in 1..N /\ both[i] = first[i] /\ both[j] = second[j - M]
      BY <1>1, <1>2, <1>4, <2>2
    <3> QED
      BY <1>1, <3>1 DEF Listed
  <2>3. CASE ~(i <= M)
    <3>1. i - M \in 1..N /\ j - M \in 1..N /\ i - M < j - M
            /\ both[i] = second[i - M] /\ both[j] = second[j - M]
      BY <1>1, <1>2, <1>4, <2>3
    <3> QED
      BY <1>1, <3>1 DEF Walk!InOrder
  <2> QED
    BY <1>1, <2>1, <2>2, <2>3
<1>5. Walk!InOrder(both)
  BY <1>3, <1>4 DEF Walk!InOrder
<1>6. Listed(both) \subseteq Listed(first) \cup Listed(second)
  <2> SUFFICES ASSUME NEW i \in 1..(M + N)
               PROVE  both[i] \in Listed(first) \cup Listed(second)
    BY <1>3 DEF Listed
  <2>1. CASE i <= M
    <3>1. i \in 1..M /\ both[i] = first[i]
      BY <1>1, <1>2, <2>1
    <3> QED
      BY <1>1, <3>1 DEF Listed
  <2>2. CASE ~(i <= M)
    <3>1. i - M \in 1..N /\ both[i] = second[i - M]
      BY <1>1, <1>2, <2>2
    <3> QED
      BY <1>1, <3>1 DEF Listed
  <2> QED
    BY <2>1, <2>2
<1>7. Listed(first) \subseteq Listed(both)
  <2> SUFFICES ASSUME NEW i \in 1..M PROVE first[i] \in Listed(both)
    BY <1>1 DEF Listed
  <2>1. i \in 1..(M + N) /\ both[i] = first[i]
    BY <1>1, <1>2
  <2> QED
    BY <1>3, <2>1 DEF Listed
<1>8. Listed(second) \subseteq Listed(both)
  <2> SUFFICES ASSUME NEW i \in 1..N PROVE second[i] \in Listed(both)
    BY <1>1 DEF Listed
  <2>1. M + i \in 1..(M + N) /\ ~(M + i <= M) /\ (M + i) - M = i
    BY <1>1
  <2>2. both[M + i] = second[i]
    BY <1>2, <2>1
  <2> QED
    BY <1>3, <2>1, <2>2 DEF Listed
<1> QED
  BY <1>2, <1>5, <1>6, <1>7, <1>8 DEF both

LEMMA AppendInOrder ==
  ASSUME NEW list \in Seq(Place), NEW m \in Place, Walk!InOrder(list),
         \A n \in Listed(list) : Walk!Before(n, m)
  PROVE  /\ Append(list, m) \in Seq(Place) /\ Len(Append(list, m)) = Len(list) + 1
         /\ Walk!InOrder(Append(list, m))
         /\ Listed(Append(list, m)) = Listed(list) \cup {m}
<1>1. <<m>> \in Seq(Place) /\ Append(list, m) = list \o <<m>> /\ Len(<<m>>) = 1
  BY AppendIsConcat
<1>2. Walk!InOrder(<<m>>) /\ Listed(<<m>>) = {m}
  <2>1. DOMAIN <<m>> = {1} /\ <<m>>[1] = m
    OBVIOUS
  <2> QED
    BY <2>1 DEF Walk!InOrder, Listed
<1>3. Len(list \o <<m>>) = Len(list) + 1
  BY <1>1, ConcatProperties
<1>4. \A n \in Listed(list), o \in Listed(<<m>>) : Walk!Before(n, o)
  BY <1>2
<1>5. /\ list \o <<m>> \in Seq(Place) /\ Walk!InOrder(list \o <<m>>)
      /\ Listed(list \o <<m>>) = Listed(list) \cup Listed(<<m>>)
  BY <1>1, <1>2, <1>4, JoinInOrder
<1> QED
  BY <1>1, <1>2, <1>3, <1>5

LEMMA CutInOrder ==
  ASSUME NEW list \in Seq(Place), NEW n \in Nat, n <= Len(list), Walk!InOrder(list)
  PROVE  /\ SubSeq(list, 1, n) \in Seq(Place) /\ Len(SubSeq(list, 1, n)) = n
         /\ Walk!InOrder(SubSeq(list, 1, n))
         /\ Listed(SubSeq(list, 1, n)) = {list[i] : i \in 1..n}
<1> DEFINE cut == SubSeq(list, 1, n)
<1>1. Len(list) \in Nat /\ DOMAIN list = 1..Len(list)
  BY LenProperties
<1>2. \A i \in 1..n : list[i] \in Place /\ i \in DOMAIN list
  BY <1>1, ElementOfSeq
<1>3. cut \in Seq(Place) /\ Len(cut) = n /\ \A i \in 1..n : cut[i] = list[i]
  <2>1. 1 \in Int /\ n \in Int /\ \A i \in 1..n : list[i] \in Place
    BY <1>2
  <2>2. cut \in Seq(Place) /\ Len(cut) = IF 1 <= n THEN n - 1 + 1 ELSE 0
    BY <2>1, SubSeqProperties
  <2>3. \A i \in 1..(n - 1 + 1) : cut[i] = list[1 + i - 1]
    BY <2>1, SubSeqProperties
  <2>4. n - 1 + 1 = n /\ \A i \in 1..n : 1 + i - 1 = i
    OBVIOUS
  <2> HIDE DEF cut
  <2>5. Len(cut) = n
    BY <2>2
  <2>6. \A i \in 1..n : cut[i] = list[i]
    BY <2>3, <2>4
  <2> QED
    BY <2>2, <2>5, <2>6
<1>4. DOMAIN cut = 1..n
  BY <1>3, LenProperties
<1> HIDE DEF cut
<1>5. Walk!InOrder(cut)
  BY <1>1, <1>2, <1>3, <1>4 DEF Walk!InOrder
<1>6. Listed(cut) = {list[i] : i \in 1..n}
  BY <1>3, <1>4 DEF Listed
<1> QED
  BY <1>3, <1>5, <1>6 DEF cut

(* What the variables of a search range over.                              *)
SearchTypes ==
  /\ Len(dir) \in Nat /\ DOMAIN dir = 1..Len(dir)
  /\ \A i \in DOMAIN dir : Len(dir[i].lines) \in Nat /\ DOMAIN dir[i].lines = 1..Len(dir[i].lines)
  /\ maxMatches \in Nat /\ at \in Nat \ {0} /\ line \in Nat
  /\ found \in Seq(Place) /\ matches \in Seq(Place)

(* The open file has been searched up to the line the scanner comes to.    *)
Searching ==
  line > 0 =>
    /\ outcome = "walking" /\ ~Walk!Stopped
    /\ at <= Len(dir) /\ Walk!Visited(dir[at]) /\ dir[at].skip = "no"
    /\ line <= Len(dir[at].lines) + 1
    /\ \A k \in 1..(line - 1) : dir[at].lines[k] # "long"
    /\ Listed(found) = {m \in Walk!MatchesOf(at) : m[2] < line}

(* The walk has the matches of the files it is done with, or the first of  *)
(* all, as many as it is to find.                                          *)
Collected ==
  outcome = "walking" =>
    /\ \A m \in Listed(matches) : m[1] < at
    /\ ~Walk!Stopped => Listed(matches) = {m \in Walk!AllMatches : m[1] < at}
    /\ Walk!Stopped /\ Walk!AllReadable =>
         /\ Listed(matches) \subseteq Walk!AllMatches
         /\ \A m \in Listed(matches), n \in Walk!AllMatches \ Listed(matches) : Walk!Before(m, n)

SearchInv ==
  /\ SearchTypes
  /\ Walk!InOrder(matches) /\ Walk!InOrder(found)
  /\ line = 0 => found = <<>>
  /\ Walk!Limit > 0 => Len(matches) + Len(found) <= Walk!Limit
  /\ Searching /\ Collected /\ Walk!MarkIsHonest

LEMMA SearchInit == Walk!Init => SearchInv
<1> SUFFICES ASSUME Walk!Init PROVE SearchInv
  OBVIOUS
<1>1. SearchTypes
  <2>1. PICK n \in Nat : dir \in [1..n -> Walk!Files]
    BY PacksAssumption DEF Walk!Init, Walk!BoundedSeq, Walk!SeqOf
  <2>2. Len(dir) = n /\ DOMAIN dir = 1..n
    BY <2>1
  <2>3. ASSUME NEW i \in DOMAIN dir
        PROVE  Len(dir[i].lines) \in Nat /\ DOMAIN dir[i].lines = 1..Len(dir[i].lines)
    <3>1. dir[i] \in Walk!Files
      BY <2>1, <2>2
    <3>2. CASE dir[i].lines = <<"hit">>
      BY <3>2
    <3>3. CASE dir[i].lines # <<"hit">>
      <4>1. dir[i].lines \in Walk!BoundedSeq({"hit", "miss", "long"}, MaxLines)
        BY <3>1, <3>3 DEF Walk!Files
      <4>2. PICK k \in Nat : dir[i].lines \in [1..k -> {"hit", "miss", "long"}]
        BY <4>1, PacksAssumption DEF Walk!BoundedSeq, Walk!SeqOf
      <4> QED
        BY <4>2
    <3> QED
      BY <3>2, <3>3
  <2>4. maxMatches \in Nat
    BY PacksAssumption DEF Walk!Init
  <2>5. at = 1 /\ line = 0 /\ found = <<>> /\ matches = <<>>
    BY DEF Walk!Init
  <2>6. <<>> \in Seq(Place)
    BY EmptySeq
  <2> QED
    BY <2>2, <2>3, <2>4, <2>5, <2>6 DEF SearchTypes
<1>2. DOMAIN <<>> = {} /\ Len(<<>>) = 0
  OBVIOUS
<1>3. Walk!InOrder(<<>>) /\ Listed(<<>>) = {}
  BY <1>2 DEF Walk!InOrder, Listed
<1>4. {m \in Walk!AllMatches : m[1] < 1} = {}
  <2>1. ASSUME NEW m \in Walk!AllMatches PROVE ~(m[1] < 1)
    BY <1>1 DEF Walk!AllMatches, Walk!MatchesOf, SearchTypes
  <2> QED
    BY <2>1
<1>5. ~Walk!Stopped
  BY <1>2 DEF Walk!Init, Walk!Stopped
<1>6. Walk!Limit > 0 => Len(matches) + Len(found) <= Walk!Limit
  BY <1>1, <1>2 DEF Walk!Init, Walk!Limit, SearchTypes
<1> QED
  BY <1>1, <1>2, <1>3, <1>4, <1>5, <1>6
     DEF Walk!Init, SearchInv, Searching, Collected, Walk!MarkIsHonest

(* The matches of a file carry its place and are on its lines.             *)
LEMMA MatchIs ==
  ASSUME SearchTypes
  PROVE  /\ \A i : \A m \in Walk!MatchesOf(i) : m[1] = i /\ m = <<i, m[2]>>
                       /\ m[2] \in DOMAIN dir[i].lines /\ dir[i].lines[m[2]] = "hit"
         /\ \A m \in Walk!AllMatches :
              /\ m[1] \in DOMAIN dir /\ m[1] \in Nat /\ m \in Walk!MatchesOf(m[1])
              /\ m[2] \in Nat /\ Walk!Searchable(dir[m[1]])
<1>1. ASSUME NEW i, NEW m \in Walk!MatchesOf(i)
      PROVE  m[1] = i /\ m = <<i, m[2]>>
               /\ m[2] \in DOMAIN dir[i].lines /\ dir[i].lines[m[2]] = "hit"
  BY DEF Walk!MatchesOf
<1>2. ASSUME NEW m \in Walk!AllMatches
      PROVE  /\ m[1] \in DOMAIN dir /\ m[1] \in Nat /\ m \in Walk!MatchesOf(m[1])
             /\ m[2] \in Nat /\ Walk!Searchable(dir[m[1]])
  <2>1. PICK i \in DOMAIN dir : m \in Walk!MatchesOf(i) /\ Walk!Searchable(dir[i])
    BY DEF Walk!AllMatches
  <2>2. m[1] = i /\ m[2] \in DOMAIN dir[i].lines
    BY <1>1, <2>1
  <2> QED
    BY <2>1, <2>2 DEF SearchTypes
<1> QED
  BY <1>1, <1>2

(* One line more.                                                          *)
LEMMA ScanSteps == SearchInv /\ Walk!ScanLine => SearchInv'
<1> SUFFICES ASSUME SearchInv, Walk!ScanLine PROVE SearchInv'
  OBVIOUS
<1> DEFINE lines == dir[at].lines
           here == <<at, line>>
<1>1. /\ line > 0 /\ outcome = "walking" /\ ~Walk!Stopped /\ ~Walk!Full
      /\ ~(line > Len(lines)) /\ lines[line] # "long"
      /\ UNCHANGED <<dir, recursive, maxMatches, at, matches, truncated, outcome>>
      /\ line' = line + 1
      /\ found' = IF lines[line] = "hit" THEN Append(found, here) ELSE found
  BY DEF SearchInv, Searching, Walk!ScanLine, Walk!Scanned, Walk!TooLong, Walk!config
<1>2. SearchTypes /\ at \in DOMAIN dir /\ at \in Nat /\ line \in Nat /\ line \in 1..Len(lines)
        /\ Len(lines) \in Nat /\ DOMAIN lines = 1..Len(lines)
  BY <1>1 DEF SearchInv, Searching, SearchTypes
<1>3. /\ Listed(found) = {m \in Walk!MatchesOf(at) : m[2] < line}
      /\ \A k \in 1..(line - 1) : lines[k] # "long"
  BY <1>1 DEF SearchInv, Searching
<1>4. Walk!MatchesOf(at)' = Walk!MatchesOf(at) /\ Walk!Limit' = Walk!Limit
        /\ Walk!AllMatches' = Walk!AllMatches /\ (Walk!AllReadable' <=> Walk!AllReadable)
        /\ (Walk!Stopped' <=> Walk!Stopped)
  BY <1>1 DEF Walk!MatchesOf, Walk!Limit, Walk!AllMatches, Walk!AllReadable, Walk!Stopped,
              Walk!Searchable, Walk!Visited
<1>5. \A m \in Walk!MatchesOf(at) : m[2] \in 1..Len(lines) /\ m = <<at, m[2]>>
                                     /\ lines[m[2]] = "hit" /\ m[1] = at
  BY <1>2, MatchIs
<1>6. /\ found' \in Seq(Place) /\ Walk!InOrder(found') /\ Len(found') <= Len(found) + 1
      /\ Len(found) \in Nat /\ Len(found') \in Nat
      /\ Listed(found') = {m \in Walk!MatchesOf(at) : m[2] < line + 1}
  <2>1. found \in Seq(Place) /\ Walk!InOrder(found) /\ Len(found) \in Nat
    BY LenProperties DEF SearchInv, SearchTypes
  <2>2. CASE lines[line] = "hit"
    <3>1. here \in Place /\ here[1] = at /\ here[2] = line
      BY <1>2 DEF Place
    <3>2. here \in Walk!MatchesOf(at)
      BY <1>2, <2>2 DEF Walk!MatchesOf
    <3>3. \A n \in Listed(found) : Walk!Before(n, here)
      BY <1>3, <1>5, <3>1 DEF Walk!Before
    <3>4. /\ Append(found, here) \in Seq(Place) /\ Len(Append(found, here)) = Len(found) + 1
          /\ Walk!InOrder(Append(found, here))
          /\ Listed(Append(found, here)) = Listed(found) \cup {here}
      BY <2>1, <3>1, <3>3, AppendInOrder
    <3>5. Listed(found) \cup {here} = {m \in Walk!MatchesOf(at) : m[2] < line + 1}
      <4>1. ASSUME NEW m \in Walk!MatchesOf(at), m[2] < line + 1, ~(m[2] < line) PROVE m = here
        BY <1>2, <1>5, <4>1
      <4>2. \A m \in Walk!MatchesOf(at) : m[2] < line => m[2] < line + 1
        BY <1>2, <1>5
      <4>3. here[2] < line + 1
        BY <1>2, <3>1
      <4> HIDE DEF here
      <4> QED
        BY <1>3, <3>2, <4>1, <4>2, <4>3
    <3> QED
      BY <1>1, <2>1, <2>2, <3>4, <3>5
  <2>3. CASE lines[line] # "hit"
    <3>1. \A m \in Walk!MatchesOf(at) : m[2] < line <=> m[2] < line + 1
      BY <1>2, <1>5, <2>3
    <3>2. Listed(found) = {m \in Walk!MatchesOf(at) : m[2] < line + 1}
      BY <1>3, <3>1
    <3> QED
      BY <1>1, <2>1, <2>3, <3>2
  <2> QED
    BY <2>2, <2>3
<1>7. Walk!Limit > 0 => Len(matches) + Len(found') <= Walk!Limit
  <2>1. Len(matches) \in Nat /\ Walk!Limit \in Nat
    BY <1>2, LenProperties DEF SearchTypes, Walk!Limit
  <2>2. Walk!Limit > 0 => Len(matches) + Len(found) <= Walk!Limit
                            /\ Len(found) # Walk!Limit - Len(matches)
    BY <1>1 DEF SearchInv, Walk!Full
  <2> QED
    BY <1>6, <2>1, <2>2
<1>8. \A k \in 1..line : lines[k] # "long"
  BY <1>1, <1>2, <1>3
<1>9. SearchTypes'
  BY <1>1, <1>2, <1>6 DEF SearchTypes
<1>10. Searching'
  <2>1. line' <= Len(lines) + 1 /\ line' > 0 /\ line' - 1 = line
    BY <1>1, <1>2
  <2>2. Walk!Visited(dir[at])' <=> Walk!Visited(dir[at])
    BY <1>1 DEF Walk!Visited
  <2>3. \A k \in 1..(line' - 1) : dir'[at'].lines[k] # "long"
    BY <1>1, <1>8, <2>1
  <2>4. Listed(found') = {m \in Walk!MatchesOf(at)' : m[2] < line'}
    BY <1>1, <1>4, <1>6
  <2> QED
    BY <1>1, <1>4, <2>1, <2>2, <2>3, <2>4 DEF SearchInv, Searching
<1>11. Collected'
  BY <1>1, <1>4 DEF SearchInv, Collected
<1> QED
  BY <1>1, <1>4, <1>6, <1>7, <1>9, <1>10, <1>11, <1>2 DEF SearchInv, Walk!MarkIsHonest

(* The folder and what is to be found in it stay.                          *)
LEMMA FolderStays ==
  ASSUME UNCHANGED <<dir, recursive, maxMatches>>
  PROVE  /\ Walk!Limit' = Walk!Limit /\ Walk!AllMatches' = Walk!AllMatches
         /\ (Walk!AllReadable' <=> Walk!AllReadable)
  BY DEF Walk!MatchesOf, Walk!Limit, Walk!AllMatches, Walk!AllReadable, Walk!Searchable,
         Walk!Visited

(* The walk comes to the next file.                                        *)
LEMMA VisitSteps == SearchInv /\ Walk!VisitFile => SearchInv'
<1> SUFFICES ASSUME SearchInv, Walk!VisitFile PROVE SearchInv'
  OBVIOUS
<1>1. /\ outcome = "walking" /\ line = 0 /\ at <= Len(dir) /\ ~Walk!Stopped
      /\ UNCHANGED <<dir, recursive, maxMatches, found, matches, truncated, outcome>>
      /\ SearchTypes /\ found = <<>>
  BY DEF SearchInv, Walk!VisitFile, Walk!Walking, Walk!config
<1>2. /\ Walk!Limit' = Walk!Limit /\ Walk!AllMatches' = Walk!AllMatches
      /\ (Walk!AllReadable' <=> Walk!AllReadable) /\ ~Walk!Stopped'
  BY <1>1, FolderStays DEF Walk!Stopped
<1>3. at \in DOMAIN dir /\ at \in Nat \ {0} /\ Len(dir[at].lines) \in Nat
  BY <1>1 DEF SearchTypes
<1>4. Listed(matches) = {m \in Walk!AllMatches : m[1] < at}
  BY <1>1 DEF SearchInv, Collected
<1>5. CASE Walk!Visited(dir[at]) /\ dir[at].skip = "no"
  <2>1. line' = 1 /\ at' = at
    BY <1>5 DEF Walk!VisitFile
  <2>2. {m \in Walk!MatchesOf(at)' : m[2] < 1} = {}
    BY <1>1, <1>3, <2>1 DEF Walk!MatchesOf, SearchTypes
  <2>3. Listed(found') = {}
    BY <1>1 DEF Listed
  <2>4. Walk!Visited(dir[at])'
    BY <1>1, <1>5, <2>1 DEF Walk!Visited
  <2>5. Searching'
    BY <1>1, <1>2, <1>3, <1>5, <2>1, <2>2, <2>3, <2>4 DEF Searching
  <2>6. Collected'
    BY <1>1, <1>2, <2>1 DEF SearchInv, Collected
  <2>7. SearchTypes'
    BY <1>1, <2>1 DEF SearchTypes
  <2> QED
    BY <1>1, <1>2, <2>1, <2>5, <2>6, <2>7 DEF SearchInv, Walk!MarkIsHonest
<1>6. CASE ~(Walk!Visited(dir[at]) /\ dir[at].skip = "no")
  <2>1. line' = 0 /\ at' = at + 1
    BY <1>1, <1>6 DEF Walk!VisitFile
  <2>2. ASSUME NEW m \in Walk!AllMatches PROVE m[1] < at <=> m[1] < at + 1
    <3>1. m[1] \in Nat /\ m[1] # at
      BY <1>1, <1>6, MatchIs DEF Walk!Searchable
    <3> QED
      BY <1>3, <3>1
  <2>3. Listed(matches) = {m \in Walk!AllMatches : m[1] < at + 1}
    BY <1>4, <2>2
  <2>4. \A m \in Listed(matches) : m[1] < at + 1
    BY <2>3
  <2>5. Searching'
    BY <2>1 DEF Searching
  <2>6. Collected'
    BY <1>1, <1>2, <2>1, <2>3, <2>4 DEF Collected
  <2>7. SearchTypes'
    BY <1>1, <2>1 DEF SearchTypes
  <2> QED
    BY <1>1, <1>2, <2>1, <2>5, <2>6, <2>7 DEF SearchInv, Walk!MarkIsHonest
<1> QED
  BY <1>5, <1>6

(* The file's matches join those of the files before it, or are dropped.   *)
LEMMA CloseSteps == SearchInv /\ Walk!CloseFile => SearchInv'
<1> SUFFICES ASSUME SearchInv, Walk!CloseFile PROVE SearchInv'
  OBVIOUS
<1> DEFINE lines == dir[at].lines
           joined == matches \o found
<1>1. /\ line > 0 /\ outcome = "walking" /\ ~Walk!Stopped /\ SearchTypes
      /\ at <= Len(dir) /\ Walk!Visited(dir[at]) /\ dir[at].skip = "no"
      /\ line <= Len(lines) + 1 /\ \A k \in 1..(line - 1) : lines[k] # "long"
      /\ Listed(found) = {m \in Walk!MatchesOf(at) : m[2] < line}
  BY DEF SearchInv, Searching, Walk!CloseFile
<1>2. /\ UNCHANGED <<dir, recursive, maxMatches, truncated, outcome>>
      /\ at' = at + 1 /\ line' = 0 /\ found' = <<>>
      /\ Walk!Full \/ Walk!Scanned \/ Walk!TooLong
      /\ matches' = IF Walk!Full \/ Walk!Scanned THEN joined ELSE matches
  BY DEF Walk!CloseFile, Walk!config
<1>3. /\ Walk!Limit' = Walk!Limit /\ Walk!AllMatches' = Walk!AllMatches
      /\ (Walk!AllReadable' <=> Walk!AllReadable)
      /\ (Walk!Stopped' <=> Walk!Limit > 0 /\ Len(matches') = Walk!Limit)
  BY <1>2, FolderStays DEF Walk!Stopped
<1>4. /\ at \in DOMAIN dir /\ at \in Nat \ {0} /\ line \in Nat
      /\ Len(lines) \in Nat /\ DOMAIN lines = 1..Len(lines)
      /\ found \in Seq(Place) /\ matches \in Seq(Place)
      /\ Len(found) \in Nat /\ Len(matches) \in Nat /\ Walk!Limit \in Nat
  BY <1>1, LenProperties DEF SearchTypes, Walk!Limit
<1>5. /\ Listed(matches) = {m \in Walk!AllMatches : m[1] < at}
      /\ \A m \in Listed(matches) : m[1] < at
  BY <1>1 DEF SearchInv, Collected
<1>6. \A m \in Walk!MatchesOf(at) : m[2] \in 1..Len(lines) /\ m[1] = at
  BY <1>1, <1>4, MatchIs
<1>7. \A m \in Walk!AllMatches : /\ m[1] \in Nat /\ m[2] \in Nat
                                 /\ m[1] = at => m \in Walk!MatchesOf(at)
                                 /\ m[1] = at => Walk!Searchable(dir[at])
  BY <1>1, MatchIs
<1>8. /\ joined \in Seq(Place) /\ Walk!InOrder(joined)
      /\ Listed(joined) = Listed(matches) \cup Listed(found)
      /\ Len(joined) = Len(matches) + Len(found)
  <2>1. \A m \in Listed(matches), n \in Listed(found) : Walk!Before(m, n)
    BY <1>1, <1>5, <1>6 DEF Walk!Before
  <2>2. Walk!InOrder(matches) /\ Walk!InOrder(found)
    BY DEF SearchInv
  <2> QED
    BY <1>4, <2>1, <2>2, JoinInOrder, ConcatProperties
<1>9. <<>> \in Seq(Place) /\ Walk!InOrder(<<>>) /\ Len(<<>>) = 0
  <2>1. DOMAIN <<>> = {}
    OBVIOUS
  <2> QED
    BY <2>1, EmptySeq DEF Walk!InOrder
<1> HIDE DEF joined
<1>10. /\ SearchTypes' /\ Walk!InOrder(matches') /\ Walk!InOrder(found')
       /\ line' = 0 /\ found' = <<>> /\ Searching' /\ Walk!MarkIsHonest'
  <2>1. SearchTypes'
    BY <1>1, <1>2, <1>4, <1>8, <1>9 DEF SearchTypes
  <2> QED
    BY <1>1, <1>2, <1>8, <1>9, <2>1 DEF SearchInv, Searching, Walk!MarkIsHonest
<1>11. Walk!Limit > 0 => Len(matches) + Len(found) <= Walk!Limit
  BY DEF SearchInv
<1>12. (Walk!Limit > 0 => Len(matches) + Len(found) <= Walk!Limit)'
  BY <1>2, <1>3, <1>4, <1>8, <1>9, <1>11
<1>13. Walk!Visited(dir[at]) /\ dir[at].skip = "no"
         => (Walk!Searchable(dir[at]) <=> \A k \in 1..Len(lines) : lines[k] # "long")
  BY <1>4 DEF Walk!Searchable
<1>14. Walk!Searchable(dir[at]) => Walk!MatchesOf(at) \subseteq Walk!AllMatches
  BY <1>4 DEF Walk!AllMatches
<1>15. CASE ~Walk!Full /\ Walk!Scanned
  <2>1. line = Len(lines) + 1
    BY <1>1, <1>4, <1>15, SMTT(20) DEF Walk!Scanned
  <2>2. Walk!Searchable(dir[at])
    BY <1>1, <1>4, <1>13, <2>1
  <2>3. Listed(found) = Walk!MatchesOf(at)
    BY <1>1, <1>4, <1>6, <2>1
  <2>4. Listed(joined) = {m \in Walk!AllMatches : m[1] < at + 1}
    <3>1. ASSUME NEW m \in Walk!AllMatches, m[1] < at + 1
          PROVE  m \in Listed(matches) \/ m \in Listed(found)
      <4>1. m[1] < at \/ m[1] = at
        BY <1>4, <1>7, <3>1
      <4> QED
        BY <1>5, <1>7, <2>3, <4>1
    <3>2. ASSUME NEW m \in Listed(matches) PROVE m \in Walk!AllMatches /\ m[1] < at + 1
      BY <1>4, <1>5, <1>7
    <3>3. ASSUME NEW m \in Listed(found) PROVE m \in Walk!AllMatches /\ m[1] < at + 1
      BY <1>4, <1>6, <1>14, <2>2, <2>3
    <3> QED
      BY <1>8, <3>1, <3>2, <3>3
  <2>5. ~Walk!Stopped'
    <3>1. Walk!Limit > 0 => Len(found) # Walk!Limit - Len(matches)
      BY <1>15 DEF Walk!Full
    <3> QED
      BY <1>2, <1>3, <1>4, <1>8, <1>15, <3>1
  <2>6. matches' = joined
    BY <1>2, <1>15
  <2>7. Collected'
    BY <1>2, <1>3, <2>4, <2>5, <2>6 DEF Collected
  <2> QED
    BY <1>10, <1>12, <2>7 DEF SearchInv
<1>16. CASE ~Walk!Full /\ ~Walk!Scanned
  <2>1. matches' = matches /\ Walk!TooLong
    BY <1>2, <1>16
  <2>2. ~Walk!Searchable(dir[at])
    <3>1. line \in 1..Len(lines) /\ lines[line] = "long"
      BY <1>1, <1>4, <2>1 DEF Walk!TooLong, Walk!Scanned
    <3> QED
      BY <1>1, <1>13, <3>1
  <2>3. \A m \in Walk!AllMatches : m[1] < at <=> m[1] < at + 1
    BY <1>4, <1>7, <2>2
  <2>4. Listed(matches) = {m \in Walk!AllMatches : m[1] < at + 1}
    BY <1>5, <2>3
  <2>5. ~Walk!Stopped'
    BY <1>1, <1>3, <2>1 DEF Walk!Stopped
  <2>6. Collected'
    BY <1>2, <1>3, <2>1, <2>4, <2>5 DEF Collected
  <2> QED
    BY <1>10, <1>12, <2>6 DEF SearchInv
<1>17. CASE Walk!Full
  <2>1. matches' = joined /\ Walk!Stopped'
    BY <1>2, <1>3, <1>4, <1>8, <1>17 DEF Walk!Full
  <2>2. \A m \in Listed(joined) : m[1] < at + 1
    <3>1. \A m \in Listed(matches) : m[1] \in Nat /\ m[1] < at
      BY <1>5, <1>7
    <3>2. \A m \in Listed(found) : m[1] = at
      BY <1>1, <1>6
    <3> QED
      BY <1>4, <1>8, <3>1, <3>2
  <2>3. ASSUME Walk!AllReadable
        PROVE  /\ Listed(joined) \subseteq Walk!AllMatches
               /\ \A m \in Listed(joined), n \in Walk!AllMatches \ Listed(joined) : Walk!Before(m, n)
    <3>1. Walk!Searchable(dir[at])
      BY <1>1, <1>4, <2>3 DEF Walk!Searchable, Walk!AllReadable
    <3>2. Listed(joined) \subseteq Walk!AllMatches
      BY <1>1, <1>5, <1>8, <1>14, <3>1
    <3>3. ASSUME NEW m \in Listed(joined), NEW n \in Walk!AllMatches \ Listed(joined)
          PROVE  Walk!Before(m, n)
      <4>1. n[1] \in Nat /\ n[2] \in Nat /\ ~(n[1] < at)
        BY <1>5, <1>7, <1>8
      <4>2. CASE n[1] = at
        <5>1. n \in Walk!MatchesOf(at) /\ ~(n[2] < line)
          BY <1>1, <1>7, <1>8, <4>2
        <5>2. CASE m \in Listed(matches)
          BY <1>5, <4>2, <5>2 DEF Walk!Before
        <5>3. CASE m \in Listed(found)
          <6>1. m[1] = at /\ m[2] \in Nat /\ m[2] < line
            BY <1>1, <1>6, <5>3
          <6> QED
            BY <1>4, <4>1, <4>2, <5>1, <6>1 DEF Walk!Before
        <5> QED
          BY <1>8, <5>2, <5>3
      <4>3. CASE n[1] # at
        <5>1. m[1] \in Nat /\ m[1] < at + 1
          BY <1>7, <2>2, <3>2
        <5> QED
          BY <1>4, <4>1, <4>3, <5>1 DEF Walk!Before
      <4> QED
        BY <4>2, <4>3
    <3> QED
      BY <3>2, <3>3
  <2>4. Collected'
    BY <1>2, <1>3, <2>1, <2>2, <2>3 DEF Collected
  <2> QED
    BY <1>10, <1>12, <2>4 DEF SearchInv
<1> QED
  BY <1>15, <1>16, <1>17

(* The walk is over, and the match past the limit is cut off.              *)
LEMMA FinishSteps == SearchInv /\ Walk!Finish => SearchInv'
<1> SUFFICES ASSUME SearchInv, Walk!Finish PROVE SearchInv'
  OBVIOUS
<1> DEFINE cut == SubSeq(matches, 1, maxMatches)
<1>1. /\ outcome = "walking" /\ line = 0 /\ found = <<>> /\ SearchTypes /\ Walk!InOrder(matches)
      /\ Walk!Limit > 0 => Len(matches) + Len(found) <= Walk!Limit
      /\ at > Len(dir) \/ Walk!Stopped
  BY DEF SearchInv, Walk!Finish, Walk!Walking
<1>2. /\ UNCHANGED <<dir, recursive, maxMatches, at, line, found>>
      /\ outcome' = "result" /\ truncated' = Walk!Stopped
      /\ matches' = IF Walk!Stopped THEN cut ELSE matches
  BY DEF Walk!Finish, Walk!config
<1>3. /\ Walk!Limit' = Walk!Limit /\ Walk!AllMatches' = Walk!AllMatches
      /\ (Walk!AllReadable' <=> Walk!AllReadable)
  BY <1>2, FolderStays
<1>4. /\ matches \in Seq(Place) /\ maxMatches \in Nat /\ Len(matches) \in Nat
      /\ DOMAIN matches = 1..Len(matches) /\ Len(found) = 0
  BY <1>1, LenProperties DEF SearchTypes
<1>5. Searching' /\ Collected' /\ Walk!InOrder(found')
  BY <1>1, <1>2 DEF SearchInv, Searching, Collected
<1>6. CASE Walk!Stopped
  <2>1. maxMatches > 0 /\ Walk!Limit = maxMatches + 1 /\ Len(matches) = maxMatches + 1
    BY <1>4, <1>6 DEF Walk!Stopped, Walk!Limit
  <2>2. /\ cut \in Seq(Place) /\ Len(cut) = maxMatches /\ Walk!InOrder(cut)
        /\ Listed(cut) = {matches[i] : i \in 1..maxMatches}
    BY <1>1, <1>4, <2>1, CutInOrder
  <2> HIDE DEF cut
  <2> DEFINE extra == matches[maxMatches + 1]
  <2>3. Listed(matches) = Listed(cut) \cup {extra}
    <3>1. 1..(maxMatches + 1) = 1..maxMatches \cup {maxMatches + 1}
      BY <1>4
    <3>2. Listed(matches) = {matches[i] : i \in 1..maxMatches \cup {maxMatches + 1}}
      BY <1>4, <2>1, <3>1 DEF Listed
    <3> QED
      BY <2>2, <3>2
  <2>4. \A m \in Listed(cut) : Walk!Before(m, extra)
    BY <1>1, <1>4, <2>1, <2>2 DEF Walk!InOrder
  <2>5. extra \in Place
    BY <1>4, <2>1, ElementOfSeq
  <2>6. extra \notin Listed(cut)
    <3>1. ~Walk!Before(extra, extra)
      BY <2>5 DEF Walk!Before, Place
    <3> QED
      BY <2>4, <3>1
  <2> HIDE DEF extra
  <2>7. ASSUME Walk!AllReadable
        PROVE  /\ Listed(cut) \subseteq Walk!AllMatches
               /\ Walk!AllMatches \ Listed(cut) # {}
               /\ \A m \in Listed(cut), n \in Walk!AllMatches \ Listed(cut) : Walk!Before(m, n)
    <3>1. /\ Listed(matches) \subseteq Walk!AllMatches
          /\ \A m \in Listed(matches), n \in Walk!AllMatches \ Listed(matches) : Walk!Before(m, n)
      BY <1>1, <1>6, <2>7 DEF SearchInv, Collected
    <3> QED
      BY <2>3, <2>4, <2>6, <3>1
  <2>8. matches' = cut /\ truncated' = TRUE
    BY <1>2, <1>6
  <2>9. Listed(cut) = Walk!ToSet(cut)
    BY DEF Listed, Walk!ToSet
  <2>10. Walk!MarkIsHonest'
    BY <1>2, <1>3, <2>2, <2>7, <2>8, <2>9 DEF Walk!MarkIsHonest
  <2>11. SearchTypes'
    BY <1>1, <1>2, <2>2, <2>8 DEF SearchTypes
  <2>12. (Walk!Limit > 0 => Len(matches) + Len(found) <= Walk!Limit)'
    BY <1>2, <1>3, <1>4, <2>1, <2>2, <2>8
  <2> QED
    BY <1>1, <1>2, <1>5, <2>2, <2>8, <2>10, <2>11, <2>12 DEF SearchInv
<1>7. CASE ~Walk!Stopped
  <2>1. matches' = matches /\ truncated' = FALSE /\ at > Len(dir)
    BY <1>1, <1>2, <1>7
  <2>2. \A m \in Walk!AllMatches : m[1] < at
    <3> SUFFICES ASSUME NEW m \in Walk!AllMatches PROVE m[1] < at
      OBVIOUS
    <3>1. m[1] \in 1..Len(dir)
      BY <1>1, MatchIs DEF SearchTypes
    <3>2. at \in Nat /\ Len(dir) \in Nat
      BY <1>1 DEF SearchTypes
    <3> QED
      BY <2>1, <3>1, <3>2
  <2>3. Listed(matches) = Walk!AllMatches
    BY <1>1, <1>7, <2>2 DEF SearchInv, Collected
  <2>4. Listed(matches) = Walk!ToSet(matches)
    BY DEF Listed, Walk!ToSet
  <2>5. Walk!MarkIsHonest'
    BY <1>1, <1>2, <1>3, <2>1, <2>3, <2>4 DEF Walk!MarkIsHonest
  <2>6. SearchTypes'
    BY <1>1, <1>2, <2>1 DEF SearchTypes
  <2> QED
    BY <1>1, <1>2, <1>3, <1>5, <2>1, <2>5, <2>6 DEF SearchInv
<1> QED
  BY <1>6, <1>7

LEMMA SearchStep == SearchInv /\ [Walk!Next]_(Walk!vars) => SearchInv'
<1> SUFFICES ASSUME SearchInv, [Walk!Next]_(Walk!vars) PROVE SearchInv'
  OBVIOUS
<1>1. CASE /\ UNCHANGED <<dir, recursive, maxMatches, at, line, found, matches, truncated>>
           /\ outcome' = outcome \/ (outcome' = "error" /\ line = 0)
  <2>1. /\ Walk!Limit' = Walk!Limit /\ Walk!AllMatches' = Walk!AllMatches
        /\ (Walk!AllReadable' <=> Walk!AllReadable) /\ (Walk!Stopped' <=> Walk!Stopped)
    BY <1>1, FolderStays DEF Walk!Stopped
  <2>2. Walk!MatchesOf(at)' = Walk!MatchesOf(at) /\ (Walk!Visited(dir[at])' <=> Walk!Visited(dir[at]))
    BY <1>1 DEF Walk!MatchesOf, Walk!Visited
  <2>3. SearchTypes' /\ Searching' /\ Collected'
    BY <1>1, <2>1, <2>2 DEF SearchInv, SearchTypes, Searching, Collected
  <2>4. Walk!MarkIsHonest'
    BY <1>1, <2>1 DEF SearchInv, Walk!MarkIsHonest
  <2> QED
    BY <1>1, <2>1, <2>3, <2>4 DEF SearchInv
<1>2. CASE UNCHANGED Walk!vars
  BY <1>1, <1>2 DEF Walk!vars, Walk!config
<1>3. CASE Walk!GiveUp
  BY <1>1, <1>3 DEF Walk!GiveUp, Walk!Walking, Walk!config
<1> QED
  BY <1>2, <1>3, VisitSteps, ScanSteps, CloseSteps, FinishSteps DEF Walk!Next

(* A result that is not marked misses no match, and one that is marked     *)
(* holds the first of more.                                                *)
THEOREM MarksAreHonest == PacksSpec => []MarkIsHonest
<1> DEFINE Inv == part = "search" => SearchInv
<1>1. PacksInit => Inv
  BY SearchInit DEF PacksInit
<1>2. Inv /\ [PacksNext]_packsVars => Inv'
  BY PartSteps, SearchStep
<1>3. Inv => MarkIsHonest
  BY DEF SearchInv, MarkIsHonest
<1> QED
  BY <1>1, <1>2, <1>3, PTL DEF PacksSpec
=============================================================================
