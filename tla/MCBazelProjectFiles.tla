------------------------ MODULE MCBazelProjectFiles ------------------------
(* Lines of a .bazelproject, as tokens, and the files checked *)
EXTENDS Naturals, Sequences

HeadTargets   == <<"targets", ":">>
HeadTargetsAB == <<"targets", ":", " ", "/", "/", "a", ":", "b">>   \* targets: //a:b
HeadDirs      == <<"directories", ":">>
HeadDerive    == <<"derive_targets_from_directories", ":", " ", "true">>
HeadDeriveNo  == <<"derive_targets_from_directories", ":", " ", "false">>
HeadDeriveBare == <<"derive_targets_from_directories", ":">>        \* no value
HeadOther     == <<"workspace_type", ":", " ", "java">>             \* a section fetch ignores
LabelAB       == <<" ", " ", "/", "/", "a", ":", "b">>              \*   //a:b
ExclPkgC      == <<" ", " ", "-", "/", "/", "c", "/", "...">>       \*   -//c/...
ExclLabelAB   == <<" ", " ", "-", "/", "/", "a", ":", "b">>         \*   -//a:b
DirA          == <<" ", " ", "a", "/">>                             \*   a/
DirDot        == <<" ", " ", ".">>
ExclDirC      == <<" ", " ", "-", "c">>
Comment       == <<"#", " ", "x", ":">>
Blank         == <<" ">>

FilesOver(V, n) == UNION {[1..m -> V] : m \in 1..n}

\* the header lines of the vocabulary are the ones whose second token is ':'
HeaderOf(l) == IF Len(l) >= 2 /\ l[2] = ":" THEN l[1] ELSE "none"

NoRepeatedHeader(f) ==
    \A j, k \in DOMAIN f : j < k /\ HeaderOf(f[j]) # "none" => HeaderOf(f[j]) # HeaderOf(f[k])

PassVocabulary ==
    {HeadTargets, HeadTargetsAB, HeadDirs, HeadDerive, HeadDeriveNo, HeadDeriveBare, HeadOther,
     LabelAB, ExclPkgC, DirA, DirDot, ExclDirC, Comment, Blank}

MCFilesPass == {f \in FilesOver(PassVocabulary, 4) : NoRepeatedHeader(f)}

(* targets: / -//a:b / //a:b, and the same with the exclude last *)
MCFilesExclude ==
    {<<HeadTargets, ExclLabelAB, LabelAB>>, <<HeadTargets, LabelAB, ExclLabelAB, ExclPkgC>>}
=============================================================================
