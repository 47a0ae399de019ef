--------------------------- MODULE BuildOutputsMC ---------------------------
(***************************************************************************)
(* What comes out of a build, for TLC: two to five builds of projects      *)
(* with four files, and what is done with the result: queries of the       *)
(* output, linking, source maps and flattened sources.  The parts do not   *)
(* share state: `part` says which of them moves.                           *)
(***************************************************************************)
EXTENDS BuildOutput, OutputQueriesMC, LinkingMC, SourceMapMC, FlattenMC

VARIABLE part

Top == <<"/", "w", "p", "A.sol">>
Nest == <<"/", "w", "p", "src", "A.sol">>
Small == <<"/", "w", "p", "src", "a.sol">>
Test == <<"/", "w", "p", "src", "T.t.sol">>

Quiet == [f \in {Top, Nest, Small, Test} |-> {}]
Warn(f, code) == [severity |-> "warning", code |-> code, file |-> f]
IgnoreNone == [codes |-> {}, paths |-> {}, codesFrom |-> {}]
Job(v, profile, files) == [version |-> v, profile |-> profile, files |-> files]

OneBuild(defs, diags, changed, jobs, values, extras, ast, filter, ignored) ==
    [defs |-> defs, diags |-> diags, changed |-> changed, jobs |-> jobs, values |-> values,
     extras |-> extras, ast |-> ast, filter |-> filter, ignored |-> ignored]
Plan(builds) ==
    [artifacts |-> <<"/", "w", "p", "out">>, files |-> <<Top, Nest, Small, Test>>, names |-> <<"A", "B", "a">>,
     stem |-> (Top :> "A") @@ (Nest :> "A") @@ (Small :> "a") @@ (Test :> "T.t"), tests |-> {Test},
     primary |-> [f \in {Top, Nest, Small, Test} |-> "default"], builds |-> builds]

D(n, s) == (Top :> {"A"}) @@ (Nest :> n) @@ (Small :> s) @@ (Test :> {})
Defs == <<D({"A", "B"}, {"A"}), D({"A", "B"}, {"a"}), D({"A"}, {}), D({}, {"A"}), D({}, {}), D({}, {"a"})>>
All == <<Top, Nest, Small, Test>>
Jobs == <<<<Job(810, "default", All)>>, <<Job(824, "default", All)>>,
          <<Job(810, "default", <<Nest, Small>>), Job(824, "default", All)>>,
          <<Job(810, "default", <<Top>>), Job(824, "default", <<Nest, Small>>)>>>>

\* Versions come and go, files are edited, paths collide.
PathPlans == [kind : {"path"}, d : 1..6, changed : {{}, {Top}, {Nest}},
              j1 : 1..4, j2 : 1..4, j3 : {1, 2}, ast : BOOLEAN]
PathPlan(k) ==
    LET made(j, changed) == OneBuild(Defs[k.d], Quiet, changed, Jobs[j], {}, {}, k.ast, "error", IgnoreNone)
    IN Plan(<<made(k.j1, {}), made(k.j2, k.changed), made(k.j3, {})>>)

\* Five builds, each with another version: the files of the project's folder run
\* out of folders above them.
VersionPlans == [kind : {"version"}, d : 1..6, changed : {{}, {Top}, {Nest}}]
VersionPlan(k) ==
    Plan([n \in 1..5 |-> OneBuild(Defs[k.d], Quiet, IF n = 3 THEN k.changed ELSE {},
            <<Job(810 + n, "default", All)>>, {}, {}, FALSE, "error", IgnoreNone)])

\* Files are compiled with two profiles in one build, or the second one comes later.
TwoProfiles == <<Job(810, "default", All), Job(810, "strict", <<Nest, Small>>)>>
ProfilePlans == [kind : {"profile"}, d : 1..6, edited : {{}, {Nest}, {Top, Small}}, first : 1..2]
ProfilePlan(k) ==
    LET made(edited, n) ==
            OneBuild(Defs[k.d], Quiet, edited, SubSeq(TwoProfiles, 1, n), {}, {}, FALSE, "error", IgnoreNone)
    IN Plan(<<made({}, k.first), made(k.edited, 2)>>)

\* Extra files are switched on and off.
Extras == {{}, {"metadata"}, {"abi", "ir"}, {"sourceMap"}, {"generatedSources"}}
ExtraPlans == [kind : {"extra"}, c : {{}, {Nest}}, j : {1, 3}, v1 : {{}, {"metadata"}},
               v2 : {{}, {"ir", "storageLayout"}}, x1 : Extras, x2 : Extras, ast : BOOLEAN]
ExtraPlan(k) ==
    LET made(changed, v, x) ==
            OneBuild(Defs[1], Quiet, changed, Jobs[k.j], v, x, k.ast, "error", IgnoreNone)
    IN Plan(<<made({}, k.v1, k.x1), made(k.c, k.v2, k.x2), made({}, {}, k.x1)>>)

\* Diagnostics come and go, and are ignored.
Diags == <<Quiet, [Quiet EXCEPT ![Nest] = {[severity |-> "error", code |-> 1, file |-> Nest]}],
           [Quiet EXCEPT ![Nest] = {Warn(Nest, 2)}, ![Test] = {Warn(Test, 1878)}],
           [Quiet EXCEPT ![Top] = {Warn(Top, NoPath)}, ![Small] = {Warn(Small, 3)}],
           [Quiet EXCEPT ![Top] = {[severity |-> "info", code |-> 4, file |-> Top]}]>>
Ignores == <<IgnoreNone, [IgnoreNone EXCEPT !.codes = {1, 2}],
             [IgnoreNone EXCEPT !.paths = {<<"/", "w", "p", "src">>}],
             [IgnoreNone EXCEPT !.codesFrom = {[path |-> <<"/", "w", "p", "src">>, code |-> 3]}]>>
DiagPlans == [kind : {"diag"}, d1 : 1..5, d2 : 1..5, j : {1, 3}, f : {"error", "warning", "info"},
              i1 : 1..4, i2 : 1..4]
DiagPlan(k) ==
    LET made(edited, d, i) ==
            OneBuild(Defs[1], Diags[d], edited, Jobs[k.j], {}, {}, FALSE, k.f, Ignores[i])
    IN Plan(<<made({}, k.d1, k.i1), made(IF k.d1 = k.d2 THEN {} ELSE ToSet(All), k.d2, k.i2),
              made({}, k.d2, k.i2)>>)

MCPlans == PathPlans \cup VersionPlans \cup ProfilePlans \cup ExtraPlans \cup DiagPlans
MCPlanOf(k) ==
    CASE k.kind = "path" -> PathPlan(k)
      [] k.kind = "version" -> VersionPlan(k)
      [] k.kind = "profile" -> ProfilePlan(k)
      [] k.kind = "extra" -> ExtraPlan(k)
      [] k.kind = "diag" -> DiagPlan(k)
MCLower == ("A" :> "a") @@ ("A.sol" :> "a.sol")
-----------------------------------------------------------------------------
Init ==
    /\ part \in {"build", "query", "link", "map", "flatten"}
    /\ OutputInit /\ FlattenInit
    /\ IF part = "query" THEN QueryInit
       ELSE LET none == [contracts |-> <<>>, sources |-> <<>>] IN query = none @@ [all |-> none, taken |-> {}]
    /\ IF part = "link" THEN TRUE ELSE contract = (CHOOSE c \in Contracts : TRUE)
    /\ LinkInit
    /\ IF part = "map" THEN TRUE ELSE input = <<>>
    /\ SMInit

Next ==
    \/ part = "build" /\ OutputNext /\ UNCHANGED <<query, linkVars, smVars, shape, part>>
    \/ part = "query" /\ QueryNext /\ UNCHANGED <<out, linkVars, smVars, shape, part>>
    \/ part = "link" /\ LinkNext /\ UNCHANGED <<out, query, smVars, shape, part>>
    \/ part = "map" /\ SMNext /\ UNCHANGED <<out, query, linkVars, shape, part>>
    \/ part = "flatten" /\ FlattenProgram /\ UNCHANGED <<out, query, linkVars, smVars, part>>

Spec == Init /\ [][Next]_<<out, query, linkVars, smVars, shape, part>>
-----------------------------------------------------------------------------
\* What a build leaves: the artifact of every contract asked for is handed out, but
\* what consume drops for another profile of it; no two share a file, but those whose
\* paths were numbered in different builds; and the extra files are the ones
\* configured, made from the current sources (consume, output_to_artifacts,
\* write_extras).
ArtifactsSound == OutputWhole /\ ArtifactsApart /\ ExtrasCurrent

\* What is made of source text afterwards: source maps give every instruction the
\* values their text stands for (sourcemap.rs), and a flattened source means what the
\* files did, with the exceptions FlattenSound names (flatten.rs).
SourceTextSound == SourceMapSound /\ FlattenSound
=============================================================================
