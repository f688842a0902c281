--------------------------- MODULE DependencyRepair ---------------------------
(***************************************************************************)
(* What a repair build does to a makefile, as functions on data: the       *)
(* dependencies that the recipes and the compiler show (dependency_        *)
(* analyzer.py), those of them that the makefile does not declare          *)
(* (dependency_detector.py, pattern_rule_resolver.py), and the rules that  *)
(* are appended for them (dependency_repair.py).                           *)
(*                                                                         *)
(* Files are normalised paths, relative to the directory of the makefile;  *)
(* those with a "%" in them are patterns.  A rule is one target of a line  *)
(* of the makefile, its variables expanded; of its recipe, the one command *)
(* that the analyzer knows is kept.  The text around them is left out.     *)
(***************************************************************************)
EXTENDS Integers, Sequences

CONSTANTS
    Files,        \* paths of the project, and patterns for them
    Patterns,     \* the names with one "%"
    Stems,        \* what may stand for a "%"
    Fill,         \* Fill[f][x]: the name f with x for its "%", if it has one
    SourceFiles,  \* names of C and C++ files
    LinkedFiles,  \* names of object files and libraries
    ObjectFiles,
    NoFile,       \* the absence of one
    Makefiles,    \* the makefiles that are looked at
    Scans         \* and what gcc -MM says of the sources

\* The sources of the project.
Sources == SourceFiles \ Patterns

\* A command of a recipe.  compile is gcc -c, link gcc without -c, other one that
\* the analyzer does not know, none an empty recipe.  output[t] and words[t] are
\* its output and its other arguments once $@ stands for t; all says that $^ is
\* among them, first that $< is.
Command == [tool   : {"compile", "link", "ld", "ar", "other", "none"},
            output : [Files -> Files \cup {NoFile}],
            words  : [Files -> SUBSET Files],
            all    : BOOLEAN,
            first  : BOOLEAN]

\* MakeRule.  needs are the normal prerequisites in their order; order-only ones
\* declare nothing.  Left out: static pattern rules, by which one that is not a
\* pattern would need one.
MakeRule == [target : Files, needs : Seq(Files), recipe : Command]

Written(rule) == {rule.needs[j] : j \in DOMAIN rule.needs}

\* A target and a file it depends on.
Dependency == Files \X Files
Of(dependencies, t) == {f \in Files : <<t, f>> \in dependencies}

\* MakefileModel, and what the compensation lines say that DependencyRepair has
\* appended; none has a recipe.
IsMakefile(M) ==
    /\ M = [rules |-> M.rules, added |-> M.added]
    /\ M.rules \in Seq(MakeRule)
    /\ \A i \in DOMAIN M.rules :
           M.rules[i].target \notin Patterns => Written(M.rules[i]) \cap Patterns = {}
    /\ M.added \subseteq Dependency

\* gcc -MM -MG of a source: its own name for the object file, and the headers.  A
\* source that includes another one is left out.
Scan == [Sources -> [target : Files, headers : SUBSET (Files \ SourceFiles)]]

ASSUME DependencyAssumption ==
    /\ Patterns \subseteq Files /\ SourceFiles \subseteq Files
    /\ ObjectFiles \subseteq LinkedFiles
    /\ LinkedFiles \subseteq Files \ SourceFiles
    /\ NoFile \notin Files
    /\ Fill \in [Files -> [Stems -> Files]]
    /\ \A f \in Files \ Patterns, x \in Stems : Fill[f][x] = f
    /\ \A M \in Makefiles : IsMakefile(M) /\ M.added = {}
    /\ Scans \subseteq Scan

Rules(M) == DOMAIN M.rules

\* PatternRuleResolver._match
StemsOf(rule, t) == {x \in Stems : rule.target \in Patterns /\ Fill[rule.target][x] = t}

\* A rule by its name, which may be a pattern, and a pattern that matches.
ExplicitFor(rule, t) == rule.target = t
PatternFor(rule, t) == StemsOf(rule, t) # {}

Filled(names, rule, t) == {Fill[f][x] : f \in names, x \in StemsOf(rule, t)}

\* The prerequisites that a rule has for t.
NeedsOf(rule, t) ==
    (IF ExplicitFor(rule, t) THEN Written(rule) ELSE {}) \cup Filled(Written(rule), rule, t)

-----------------------------------------------------------------------------
(***************************************************************************)
(* DependencyAnalyzer.                                                     *)
(***************************************************************************)
\* _output_argument
OutputOf(rule, t) == IF rule.recipe.output[t] = NoFile THEN t ELSE rule.recipe.output[t]

\* $<, as it is written.
LeadOf(rule) == {rule.needs[j] : j \in DOMAIN rule.needs \cap {1}}

\* _expand_automatic_variables; needs is what $^ stands for, lead what $< does.
ArgumentsOf(rule, t, needs, lead) ==
    rule.recipe.words[t]
      \cup (IF rule.recipe.all THEN needs ELSE {})
      \cup (IF rule.recipe.first THEN lead ELSE {})

\* _analyze_compiler_command, _analyze_linker_command, _analyze_ar_command
InputsOf(rule, t, needs, lead) ==
    LET arguments == ArgumentsOf(rule, t, needs, lead)
    IN  CASE rule.recipe.tool = "compile" -> arguments \cap SourceFiles
          [] rule.recipe.tool = "link" ->
                 (arguments \cap (LinkedFiles \cup SourceFiles)) \ {OutputOf(rule, t)}
          [] rule.recipe.tool = "ld" -> (arguments \cap LinkedFiles) \ {OutputOf(rule, t)}
          [] rule.recipe.tool = "ar" -> arguments \cap ObjectFiles
          [] OTHER -> {}

\* The command of rule i makes t, for the analyzer, which reads the recipe of a
\* pattern as it does any other: with the "%" in it.
Makes(M, i, t) == i \in Rules(M) /\ OutputOf(M.rules[i], M.rules[i].target) = t

Evidence(M, i) ==
    LET rule == M.rules[i]
    IN  InputsOf(rule, rule.target, Written(rule), LeadOf(rule))

\* _analyze_makefile_recipes, merged by the files that are made.
FromRecipes(M, t) == UNION {Evidence(M, i) : i \in {k \in Rules(M) : Makes(M, k, t)}}

\* Rule i is the first to say something of t.
FirstOf(M, i, t) ==
    /\ Makes(M, i, t) /\ Evidence(M, i) # {}
    /\ \A k \in 1..i - 1 : Makes(M, k, t) => Evidence(M, k) = {}

\* _find_recipe_target_for_source, for a source in the recipes: the first target.
RecipeTargets(M, source) ==
    LET users == {t \in Files : source \in FromRecipes(M, t)}
    IN  {t \in users :
            \A u \in users : \A i, k \in Rules(M) :
                FirstOf(M, i, t) /\ FirstOf(M, k, u) => i <= k}

\* The targets that prerequisite j of rule i gives a source, when both are
\* patterns.
TargetsBy(M, i, j, source) ==
    LET rule == M.rules[i]
    IN  {Fill[rule.target][x] : x \in
            {y \in Stems : /\ {rule.target, rule.needs[j]} \subseteq Patterns
                           /\ Fill[rule.needs[j]][y] = source}}

\* target_for_prerequisite: by the first match, none of another target before it.
PatternTargets(M, source) ==
    {t \in Files :
        \E i \in Rules(M) : \E j \in DOMAIN M.rules[i].needs :
            /\ t \in TargetsBy(M, i, j, source)
            /\ \A k \in 1..i : \A l \in DOMAIN M.rules[k].needs :
                   k < i \/ l < j => TargetsBy(M, k, l, source) \subseteq {t}}

\* Mutant: the compiler's own name is taken for a source that no recipe names.
TargetsWithoutPatterns(M, scan, source) ==
    IF RecipeTargets(M, source) # {} THEN RecipeTargets(M, source)
                                     ELSE {scan[source].target}

\* The target that what the compiler says of a source is put down to.
TargetsOf(M, scan, source) ==
    IF RecipeTargets(M, source) # {} THEN RecipeTargets(M, source)
    ELSE IF PatternTargets(M, source) # {} THEN PatternTargets(M, source)
    ELSE {scan[source].target}

\* analyze
Actual(M, scan) ==
    (UNION {{t} \X FromRecipes(M, t) : t \in Files})
      \cup UNION {TargetsOf(M, scan, s) \X ({s} \cup scan[s].headers) : s \in Sources}

-----------------------------------------------------------------------------
(***************************************************************************)
(* DependencyDetector and DependencyRepair.                                *)
(***************************************************************************)
ExplicitNeeds(M, t) ==
    UNION {Written(M.rules[i]) : i \in {k \in Rules(M) : ExplicitFor(M.rules[k], t)}}

IsExplicit(M, t) ==
    Of(M.added, t) # {} \/ \E i \in Rules(M) : ExplicitFor(M.rules[i], t)

\* PatternRuleResolver.resolve: rule i is the first pattern that matches.
ResolvedBy(M, i, t) ==
    /\ i \in Rules(M) /\ PatternFor(M.rules[i], t)
    /\ \A k \in 1..i - 1 : ~PatternFor(M.rules[k], t)

ResolvedNeeds(M, t) ==
    UNION {Filled(Written(M.rules[i]), M.rules[i], t) :
               i \in {k \in Rules(M) : ResolvedBy(M, k, t)}}

Known(M, t) == IsExplicit(M, t) \/ \E i \in Rules(M) : ResolvedBy(M, i, t)

\* Mutant: a pattern declares its prerequisites for every target it matches.
DeclaredByAll(M, t) == ExplicitNeeds(M, t) \cup Of(M.added, t) \cup ResolvedNeeds(M, t)

\* _build_declared_map: a pattern counts for its own name, and for targets without
\* a rule of their own.
Declared(M, t) ==
    IF IsExplicit(M, t) THEN ExplicitNeeds(M, t) \cup Of(M.added, t)
                        ELSE ResolvedNeeds(M, t)

\* Mutant: only targets with a rule of their own are looked at.
MissingOfExplicit(M, actual) ==
    {d \in actual : IsExplicit(M, d[1]) /\ d[2] \notin Declared(M, d[1])}

\* detect: nothing is missing of a target the makefile does not know.
Missing(M, actual) == {d \in actual : Known(M, d[1]) /\ d[2] \notin Declared(M, d[1])}

\* _group_dependencies, _append_compensation_rules
Repaired(M, actual) == [M EXCEPT !.added = @ \cup Missing(M, actual)]

-----------------------------------------------------------------------------
(***************************************************************************)
(* What make reads in such a makefile, for a target t that is no pattern.  *)
(* A target may have several explicit rules; if none of them has a recipe, *)
(* a pattern gives one, and its prerequisites with it.  make takes the     *)
(* most specific pattern, where the resolver takes the first, and does     *)
(* nothing with a pattern that has no recipe: with a compensation line for *)
(* one, either.                                                            *)
(***************************************************************************)
HasRecipe(M, t) ==
    \E i \in Rules(M) : ExplicitFor(M.rules[i], t) /\ M.rules[i].recipe.tool # "none"

\* The rules whose recipe make may run to build t.
Builders(M, t) ==
    {i \in Rules(M) :
        /\ M.rules[i].recipe.tool # "none"
        /\ IF HasRecipe(M, t) THEN ExplicitFor(M.rules[i], t) ELSE PatternFor(M.rules[i], t)}

\* What make rebuilds t for.
MakeNeeds(M, t) ==
    ExplicitNeeds(M, t) \cup Of(M.added, t)
      \cup UNION {NeedsOf(M.rules[i], t) : i \in Builders(M, t)}

\* $< in the recipe that make runs.  One without prerequisites of its own has
\* another rule's, which is a prerequisite anyway.
MakeLead(rule, t) ==
    IF ExplicitFor(rule, t) THEN LeadOf(rule) ELSE Filled(LeadOf(rule), rule, t)

\* What a build of t reads: the inputs of its command, and the headers of those
\* that are sources.
Inputs(M, t) ==
    UNION {InputsOf(M.rules[i], t, MakeNeeds(M, t), MakeLead(M.rules[i], t)) :
               i \in Builders(M, t)}

Reads(M, scan, t) ==
    Inputs(M, t) \cup UNION {scan[s].headers : s \in Inputs(M, t) \cap Sources}

(***************************************************************************)
(* Where the analysis and make see the same makefile.  Elsewhere a repair  *)
(* may leave out a file: a source that is compiled twice has its headers   *)
(* put down to one target, and "%.d: %.c" before "%.o: %.c" to main.d;     *)
(* what the recipe of a pattern names beside its prerequisites is put down *)
(* to the pattern, in a line "%: libutil.a" that make does not look at.    *)
(***************************************************************************)
\* The commands for t make t; its sources are prerequisites of the rule that has
\* the command; at most one pattern matches, whose command names only what t
\* needs anyway.
IsPlain(M, t) ==
    /\ \A i \in Builders(M, t) : OutputOf(M.rules[i], t) = t
    /\ \A i \in Builders(M, t), k \in Rules(M) :
           /\ k \in Builders(M, t) \/ ExplicitFor(M.rules[k], t)
           /\ NeedsOf(M.rules[k], t) \cap Sources # {}
           => k = i
    /\ \A i, k \in Rules(M) :
           PatternFor(M.rules[i], t) /\ PatternFor(M.rules[k], t) => i = k
    /\ \A i \in Builders(M, t) :
           M.rules[i].target \in Patterns =>
               InputsOf(M.rules[i], t, {}, {}) \subseteq MakeNeeds(M, t)

\* No rule is about the source and about another name than t.
OnlyUser(M, t, source) ==
    \A u \in Files \ {t} : \A i \in Rules(M) :
        /\ source \notin NeedsOf(M.rules[i], u)
        /\ Makes(M, i, u) => source \notin Evidence(M, i)

\* A line that is appended for a pattern has a pattern as prerequisite only if the
\* rule has it, and PatternRuleResolver meets that rule first.  The next analysis
\* finds then what this one found, and Actual, which reads the rules alone, is right
\* for a makefile with such lines as well.
NoNewPatterns(M) ==
    \A i \in Rules(M) : Evidence(M, i) \cap Patterns \subseteq Written(M.rules[i])

-----------------------------------------------------------------------------
(***************************************************************************)
(* Properties.                                                             *)
(***************************************************************************)
\* After a repair, make rebuilds a plain target whenever a file changes that its
\* build reads, if nothing else is made of its sources.  (analyze, detect, write)
RepairIsComplete ==
    \A M \in Makefiles, scan \in Scans : \A t \in Files \ Patterns :
        /\ IsPlain(M, t)
        /\ \A s \in Sources \cap Reads(M, scan, t) : OnlyUser(M, t, s)
        => Reads(M, scan, t) \subseteq MakeNeeds(Repaired(M, Actual(M, scan)), t)

\* A repair takes nothing away, and adds only what the analysis has found.
\* (_append_compensation_rules)
RepairOnlyAdds ==
    \A M \in Makefiles, scan \in Scans : \A t \in Files \ Patterns :
        LET repaired == Repaired(M, Actual(M, scan))
        IN  /\ MakeNeeds(M, t) \subseteq MakeNeeds(repaired, t)
            /\ MakeNeeds(repaired, t)
                   \subseteq MakeNeeds(M, t) \cup Of(Actual(M, scan), t)

\* A makefile that was repaired twice has nothing missing.  Once is not enough: a
\* target that was made by a pattern has a rule of its own then, and the detector
\* does not count the pattern any more.  (detect)
SecondRepairIsLast ==
    \A M \in Makefiles, scan \in Scans :
        LET once  == Repaired(M, Actual(M, scan))
            twice == Repaired(once, Actual(once, scan))
        IN  NoNewPatterns(M) => Missing(twice, Actual(twice, scan)) = {}

RepairHolds == RepairIsComplete /\ RepairOnlyAdds /\ SecondRepairIsLast
===============================================================================
