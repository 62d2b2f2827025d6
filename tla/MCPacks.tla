------------------------------- MODULE MCPacks -------------------------------
(* Two packs of one kind and one that shares a name with them; two callers *)
(* of the file tools and texts of up to six characters; two questions at a *)
(* time; two programs that add skills from two folders.                    *)
EXTENDS Packs, Integers, TLC

CONSTANTS old, new, other, r, w, d, x, u, v, all, writes, a

MCPacks == {old, new, other}
MCPackTools == (old :> <<r, w>>) @@ (new :> <<r, w>>) @@ (other :> <<w, d>>)
MCNames == {r, w, d}
MCCallers == {x}
MCPolicies == {all, writes}
MCRefuses == (all :> MCNames) @@ (writes :> {w})

MCFileCallers == {u, v}
Symmetry == Permutations(MCFileCallers)
(* An empty line, lines of one and of two characters, one too long for the *)
(* scanner when MaxReadBytes is 3, and a last line with and without its    *)
(* newline.                                                                *)
MCTexts == {<<a>>, <<NL, a, NL>>, <<a, a, NL, a>>, <<a, NL, a, a, a>>}
MCWrites == {<<a, a, NL, a>>}
MCEdits == {[old |-> <<a>>, new |-> <<>>], [old |-> <<a, NL>>, new |-> <<NL, NL>>]}
MCNodes == {1, 2}

MCItems == {[kind |-> "string", wellFormed |-> TRUE], [kind |-> "null"]}
(* Around one and around the longest timeout, and 17 of 4 nanoseconds,     *)
(* which are 4 in an int64 that ends at 32.                                *)
MCNumbers == {-1, 0, 1, 3, 4, 17}

(* Questions of each type, well-formed and not.                            *)
MCAsked ==
  {[type |-> "nil"]} \cup
  [type : {"choice"}, options : {"n" :> "" @@ "m" :> "text", "n" :> ""}] \cup
  [type : {"score"}, levels : {<<"low">>, <<"low", "high">>, <<"low", "mid", "high">>}] \cup
  {[type |-> "yes_no", true |-> t[1], false |-> t[2]] :
     t \in {<<"", "">>, <<"text", "">>, <<"t", "f">>}}
MCOptionLists ==
  {<<[name |-> "n", text |-> "a"]>>,
   <<[name |-> "n", text |-> "a"], [name |-> "m", text |-> ""]>>,
   <<[name |-> "n", text |-> "a"], [name |-> "n", text |-> "b"]>>}
MCLevelLists == {<<"low">>, <<"low", "high">>, <<"low", "low", "high">>}

(* Keys that count from zero, one level written in two ways, and keys that *)
(* are no level.                                                           *)
MCKeyNumber == "0" :> 0 @@ "1" :> 1 @@ "01" :> 1 @@ "2" :> 2 @@ "-1" :> -1 @@ "x" :> NotANumber
MCProbabilities ==
  {<<>>, "0" :> 1, "0" :> 1 @@ "1" :> 2, "1" :> 1 @@ "01" :> 2,
   "0" :> 3 @@ "1" :> 2 @@ "2" :> 1, "-1" :> 1, "x" :> 1}
MCReplies ==
  [type : {"score"}, noul : {0}, choice : {""}, probabilities : MCProbabilities] \cup
  {[type |-> "noul", noul |-> 1, choice |-> "", probabilities |-> <<>>],
   [type |-> "choice", noul |-> 0, choice |-> "n", probabilities |-> "n" :> 1],
   [type |-> "other", noul |-> 0, choice |-> "", probabilities |-> <<>>]}

(* A skill with a blank line and a fence in its body, another one, one     *)
(* whose frontmatter does not end and one without a name in it.            *)
MCDocuments ==
  {<<"---", "s", "description", "---", "blank", "words", "---", "words">>,
   <<"---", "t", "description", "---">>, <<"---", "s", "words">>,
   <<"---", "description", "---", "s">>}
=============================================================================
