--------------------------- MODULE MCProcessTasks ---------------------------
(***************************************************************************)
(* Two tasks on a pool of one thread, both of which offer files: t1 is a   *)
(* build, t2 a repair build, which prepares its makefile first.  The pool  *)
(* lets the other task wait in the queue, which is where a cancelled       *)
(* future is dropped.                                                      *)
(*                                                                         *)
(* Beside them, what such a repair does to small makefiles for main.o and  *)
(* a program of it, with the patterns for them in any order.               *)
(***************************************************************************)
EXTENDS RepairBuild, TLC

CONSTANTS t1, t2

MCPatterns == {"%.c", "%.o", "bin/%"}
MCSources == {"main.c", "util.c", "%.c"}
MCObjects == {"main.o", "util.o", "%.o"}
MCLinked == MCObjects \cup {"libutil.a"}
MCFiles == MCPatterns \cup MCSources \cup MCLinked \cup {"bin/main", "bin/util", "conf.h"}

MCStems == {"main", "util", "%"}

Named == "%.c"   :> [main |-> "main.c",   util |-> "util.c"]
      @@ "%.o"   :> [main |-> "main.o",   util |-> "util.o"]
      @@ "bin/%" :> [main |-> "bin/main", util |-> "bin/util"]

MCFill == [f \in MCFiles |->
              [x \in MCStems |-> IF f \in MCPatterns /\ x # "%" THEN Named[f][x] ELSE f]]

-----------------------------------------------------------------------------
Recipe(tool, words, all, first) ==
    [tool |-> tool, output |-> [t \in Files |-> NoFile], words |-> [t \in Files |-> words],
     all |-> all, first |-> first]

To(file, recipe) == [recipe EXCEPT !.output = [t \in Files |-> file]]

NoRecipe == Recipe("none", {}, FALSE, FALSE)
Compile == Recipe("compile", {}, FALSE, TRUE)
Link(words) == Recipe("link", words, TRUE, FALSE)

Rule(target, needs, recipes) ==
    {[target |-> target, needs |-> n, recipe |-> r] : n \in needs, r \in recipes}

ObjectRules ==
    Rule("main.o", {<<>>, <<"conf.h">>, <<"main.c">>},
         {NoRecipe, Compile, To("util.o", Recipe("compile", {"main.c"}, FALSE, FALSE))})
      \cup Rule("main.o", {<<"main.c", "conf.h">>, <<"conf.h", "main.c">>}, {Compile})

AppRules ==
    Rule("bin/main", {<<>>, <<"main.o">>, <<"main.c">>, <<"main.c", "util.c">>},
         {NoRecipe, Link({}), To("util.o", Recipe("ld", {"main.o"}, FALSE, FALSE))})

\* Patterns with a header or not, with a source of their own or none, with another
\* output, with a library that is a prerequisite or not, and without a recipe.
PatternRules ==
    Rule("%.o", {<<"%.c">>, <<"%.c", "conf.h">>, <<>>, <<"main.c">>}, {Compile})
      \cup Rule("%.o", {<<"%.c">>}, {NoRecipe, To("util.o", Compile)})
      \cup Rule("bin/%", {<<"%.c">>}, {Link({})})
      \cup Rule("bin/%", {<<"%.c">>, <<"%.c", "libutil.a">>}, {Link({"libutil.a"})})

RuleLists ==
    (ObjectRules \cup AppRules \cup PatternRules) \X AppRules
      \cup PatternRules \X PatternRules \X AppRules
      \cup ObjectRules \X PatternRules \X AppRules

MCMakefiles == {[rules |-> r, added |-> {}] : r \in RuleLists}

MCScans == {"main.c" :> [target |-> "main.o", headers |-> {"conf.h"}]
              @@ "util.c" :> [target |-> "util.o", headers |-> {}]}
=============================================================================
