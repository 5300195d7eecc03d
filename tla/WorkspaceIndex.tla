--------------------------- MODULE WorkspaceIndex ---------------------------
(***************************************************************************)
(* What the workspace store promises (spec 3, 4.4 and 6): a sync turns     *)
(* the build's target -> mnemonic -> outputs mapping into the records, for *)
(* every source file listed by a first-party target, of the target and     *)
(* manifest of the last (target, manifest) pair that listed it.  A full    *)
(* sync from the .bazelproject rewrites the document ("Case 1: ... rewrite *)
(* the workspace"); a sync of given targets merges its records into the    *)
(* document it started from (the tests' "should merge workspace", spec 3's *)
(* store that is only appended to, spec 6's read-modify-write).  The       *)
(* per-file fast path answers from the last document written; it fails,    *)
(* never answers wrongly, while a sync writes the document and after a     *)
(* sync died doing so.                                                     *)
(***************************************************************************)
EXTENDS Naturals, SequencesExt

CONSTANTS
    Files, Targets, ThirdParty,
    Manifests,     \* the paths TemplateExpand actions can emit
    ListedFiles,   \* ListedFiles[sl]: the files a source list names, or Missing
    Inputs,        \* the target_to_output mappings the build can produce
    SyncModes,     \* "full" (.bazelproject) and "targets" (--targets)
    MANIFEST, SOURCES,
    IsOptions(_),  \* the manifest path ends with "_options"
    NoValue, Missing, NotFound, Unreadable

VARIABLES
    input,      \* the mapping the current sync works from
    mode,       \* the current sync's mode, "none" between syncs
    base,       \* the records the current sync started from
    recorded,   \* file -> <<target, manifest>> of the document, or Unreadable
    answer      \* <<f, result>> of the last fast-path lookup

absVars == <<input, mode, base, recorded, answer>>

Get(mn, k) == IF k \in DOMAIN mn THEN mn[k] ELSE <<NoValue>>

IsManifest(file) == file # NoValue /\ IsOptions(file)

(* The (target, manifest, files) pairs of one target, in order: the i-th   *)
(* options manifest with the i-th source list, when that list exists.      *)
TargetClaims(t, mn) ==
    LET mans == SelectSeq(Get(mn, MANIFEST), IsManifest)
        srcs == Get(mn, SOURCES)
        ok(i) == i <= Len(srcs) /\ srcs[i] # NoValue /\ ListedFiles[srcs[i]] # Missing
    IN  [j \in 1..Cardinality({i \in 1..Len(mans) : ok(i)}) |->
            LET i == CHOOSE i \in 1..Len(mans) :
                        ok(i) /\ Cardinality({k \in 1..i : ok(k)}) = j
            IN  <<t, mans[i], ListedFiles[srcs[i]]>>]

Claims(inp) ==
    FlattenSeq([i \in 1..Len(inp) |->
        IF inp[i][1] \in ThirdParty THEN <<>> ELSE TargetClaims(inp[i][1], inp[i][2])])

Owners(inp) ==
    LET c == Claims(inp) IN
    [f \in Files |->
        IF \E i \in 1..Len(c) : f \in c[i][3]
        THEN LET last == CHOOSE i \in 1..Len(c) :
                            f \in c[i][3] /\ \A j \in (i+1)..Len(c) : f \notin c[j][3]
             IN  <<c[last][1], c[last][2]>>
        ELSE NotFound]

NoDocument == [f \in Files |-> NotFound]

(* the records of doc, with those of the files new lists replaced *)
MergeRecords(doc, new) == [f \in Files |-> IF new[f] = NotFound THEN doc[f] ELSE new[f]]

Init ==
    /\ input = <<>> /\ mode = "none" /\ base = NoDocument
    /\ recorded = NoDocument
    /\ answer = <<NoValue, NotFound>>

(* A sync starts from the build's mapping and the document as it is *)
Plan(m, inp) ==
    /\ mode = "none"
    /\ input' = inp /\ mode' = m
    /\ base' = IF recorded = Unreadable THEN NoDocument ELSE recorded
    /\ UNCHANGED <<recorded, answer>>

(* The sync's process ends before it publishes *)
Abandon ==
    /\ mode # "none"
    /\ input' = <<>> /\ mode' = "none" /\ base' = NoDocument
    /\ UNCHANGED <<recorded, answer>>

Unpublish ==
    /\ mode # "none"
    /\ recorded' = Unreadable
    /\ UNCHANGED <<input, mode, base, answer>>

Publish ==
    /\ mode # "none"
    /\ recorded' = IF mode = "full" THEN Owners(input) ELSE MergeRecords(base, Owners(input))
    /\ input' = <<>> /\ mode' = "none" /\ base' = NoDocument
    /\ UNCHANGED answer

Lookup(f) ==
    /\ answer' = <<f, IF recorded = Unreadable THEN Unreadable
                       ELSE IF recorded[f] = NotFound THEN NotFound
                       ELSE recorded[f][2]>>
    /\ UNCHANGED <<input, mode, base, recorded>>

Next ==
    \/ \E m \in SyncModes, inp \in Inputs : Plan(m, inp)
    \/ Abandon
    \/ Unpublish
    \/ Publish
    \/ \E f \in Files : Lookup(f)

Spec == Init /\ [][Next]_absVars

=============================================================================
