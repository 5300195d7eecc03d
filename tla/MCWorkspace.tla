---------------------------- MODULE MCWorkspace ----------------------------
EXTENDS Workspace

\* main's two modes: only full syncs, or full syncs and syncs of --targets
MCFullSync == {"full"}
MCAnySync == {"full", "targets"}

MCFiles == {"A.java", "B.java"}
MCTargets == {"//a:a", "//b:b", "//3rdparty/c:c"}
MCThirdParty == {"//3rdparty/c:c"}

\* TemplateExpand outputs: the target's <name>_options manifest and, for
\* tests, a launcher script that is not a manifest
Opt(t) == <<t, "_options">>
Launcher(t) == <<t, "launcher">>
MCManifests == {Opt(t) : t \in MCTargets} \cup {Launcher(t) : t \in MCTargets}
MCIsOptions(m) == m[2] = "_options"

\* scipFindUnpackedJavaSources outputs and the files they list
SrcList(t, i) == <<t, i>>
MCListedFiles ==
    [l \in {SrcList(t, i) : t \in MCTargets, i \in 1..2} |->
        CASE l = SrcList("//a:a", 1) -> {"A.java"}
          [] l = SrcList("//b:b", 1) -> {"A.java", "B.java"}
          [] l = SrcList("//3rdparty/c:c", 1) -> {"B.java"}
          [] OTHER -> Missing]

\* the mnemonic maps one target can have
Entries(t) ==
    {[k \in {} |-> 0]} \cup
    {(MANIFEST :> m) @@ (SOURCES :> s) :
        m \in {<<Opt(t)>>, <<Launcher(t), Opt(t)>>},
        s \in {<<SrcList(t, 1)>>}} \cup
    {(MANIFEST :> <<Opt(t)>>) @@ (SOURCES :> <<SrcList(t, 2)>>)} \cup
    {SOURCES :> <<SrcList(t, 1)>>}

\* target_to_output: up to two distinct targets, in dict order
MCInputs ==
    {<<>>} \cup
    UNION {{<<<<t, e>>>> : e \in Entries(t)} : t \in MCTargets} \cup
    UNION {{<<<<t, e>>, <<u, g>>>> : e \in Entries(t), g \in Entries(u)} :
           <<t, u>> \in {p \in MCTargets \X MCTargets : p[1] # p[2]}}

\* the mappings of a build that answered for at least one target
MCAnsweredInputs == MCInputs \ {<<>>}
=============================================================================
