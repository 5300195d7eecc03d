-------------------------- MODULE MCSyncPipeline ---------------------------
EXTENDS SyncPipeline, MCBazelProjectFiles

MCFiles == MCFilesPass

\* the rules those files name: //a:b (a label of targets), //a/d:e (below
\* directory a/), //c:z (below the excluded //c/... and -c)
Label(pkg, name) == <<"/", "/">> \o pkg \o <<":">> \o name
AB == Label(<<"a">>, <<"b">>)
AD == Label(<<"a", "/", "d">>, <<"e">>)
CZ == Label(<<"c">>, <<"z">>)

Rule(ins, exps) == [ruleInput |-> ins \cup exps, exports |-> exps]

\* an excluded rule reached as a dependency of a listed one, and as an
\* export of one; a listed rule reached only through an excluded one; and a
\* build graph without the listed rules, where the closure comes out empty
MCUniverses ==
    { AB :> Rule({CZ}, {}) @@ AD :> Rule({}, {CZ}) @@ CZ :> Rule({}, {}),
      AB :> Rule({}, {CZ}) @@ CZ :> Rule({AD}, {}) @@ AD :> Rule({}, {}),
      CZ :> Rule({}, {}) }

MCExternal == {}
MCDepths == {0, 1}
=============================================================================
