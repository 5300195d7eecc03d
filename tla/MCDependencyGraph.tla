------------------------- MODULE MCDependencyGraph -------------------------
EXTENDS DependencyGraph

\* labels and patterns, character by character
Label(pkg, name) == <<"/", "/">> \o pkg \o <<":">> \o name
Pattern(pkg) == <<"/", "/">> \o pkg \o Wildcard

LA == Label(<<"a">>, <<"x">>)              \* //a:x
LB == Label(<<"a", "/", "b">>, <<"y">>)    \* //a/b:y, below package a
LSib == Label(<<"a", "b">>, <<"y">>)       \* //ab:y, a sibling of package a
LC == Label(<<"c">>, <<"z">>)              \* //c:z
Ext == <<"@", "m", "/", "/", ":", "g">>    \* @m//:g, an external jvm_import
MCExternal == {Ext}

\* the labels a rule may name: //a:x may also name the external jvm_import
Others(L, n) == (L \ {n}) \cup (IF n = LA THEN {Ext} ELSE {})
Roles(L, n) == [Others(L, n) -> {"none", "dep", "export"}]

\* a rule naming each other label not at all, as a dep, or as an export
\* (an export is a rule input as well)
Rule(role) == [ruleInput |-> {l \in DOMAIN role : role[l] # "none"},
               exports |-> {l \in DOMAIN role : role[l] = "export"}]

\* every build graph over the rules //a:x, lb and //c:z
UniversesOver(lb) ==
    LET L == {LA, lb, LC} IN
    {(LA :> Rule(ra)) @@ (lb :> Rule(rb)) @@ (LC :> Rule(rc))
        @@ (Ext :> [ruleInput |-> {}, exports |-> {}]) :
            ra \in Roles(L, LA), rb \in Roles(L, lb), rc \in Roles(L, LC)}

ExportsOf(U, S) == UNION {U[n].exports : n \in S}
HasExportCycle(U) ==
    \E n \in DOMAIN U : n \in ExportsOf(U, {n}) \cup ExportsOf(U, ExportsOf(U, {n}))
                              \cup ExportsOf(U, ExportsOf(U, ExportsOf(U, {n})))

MCUniverses == UniversesOver(LB)

\* build graphs bazel can analyse: no cycle of exports
MCAcyclicUniverses == {U \in MCUniverses : ~HasExportCycle(U)}

\* the same with a package whose name extends a's
MCSiblingUniverses == {U \in UniversesOver(LSib) : ~HasExportCycle(U)}

\* the build graphs of the passing run: both kinds of package layout
MCPassUniverses == MCAcyclicUniverses \cup MCSiblingUniverses

MCSeedSets == {{LA}, {LA, LB}, {Pattern(<<"a">>)}}
MCDepths == {0, 1, 2}
MCExcludes == {{}, {Pattern(<<"a", "/", "b">>)}}

MCSiblingSeedSets == {{LC}}
MCSiblingExcludes == {{Pattern(<<"a">>)}}
=============================================================================
