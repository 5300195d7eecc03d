----------------------------- MODULE Workspace -----------------------------
(***************************************************************************)
(* The workspace store of workspace.py: the ScipWorkspace tables, the      *)
(* populate_workspace pass a full sync makes over the build's              *)
(* target_to_output mapping, write_workspace, and the fast path            *)
(* get_manifest_for_file that another invocation runs at any time.         *)
(*                                                                         *)
(* A sync, full (from the .bazelproject) or of the --targets given, runs  *)
(* the same code: it populates a fresh workspace (Populate), opens         *)
(* .scip/workspace.json for writing, which truncates it (WriteOpen), and   *)
(* dumps the document (WriteDump).  The process can be killed between any  *)
(* two of these (Crash).  Link ids are the integers behind str(id).        *)
(***************************************************************************)
EXTENDS Naturals, SequencesExt

CONSTANTS
    Files, Targets, ThirdParty, Manifests, ListedFiles, Inputs,
    SyncModes,                     \* "full" and "targets"
    MANIFEST, SOURCES, IsOptions(_),
    NoValue, Missing, NotFound, Unreadable,
    BAZEL_TARGET, JAVA_MANIFEST,   \* WorkspaceLinkType names
    NoFile,                        \* workspace.json does not exist
    Truncated                      \* workspace.json opened "w", not yet dumped

LinkTypes == {BAZEL_TARGET, JAVA_MANIFEST}

VARIABLES
    disk,    \* the content of workspace.json: a workspace, NoFile or Truncated
    mem,     \* the workspace populate_workspace built in this sync
    phase,   \* "idle", "populated" or "writing"
    input,   \* target_to_output of the current sync
    mode,    \* "targets" when main was given --targets, else "full"
    answer,  \* <<f, result>> of the last fast-path lookup
    prior    \* history: the document when the current sync populated

vars == <<disk, mem, phase, input, mode, answer, prior>>

(***************************************************************************)
(* ScipWorkspace                                                           *)
(***************************************************************************)
EmptyWorkspace ==
    [files |-> [f \in {} |-> 0], links |-> [lt \in LinkTypes |-> [i \in {} |-> 0]],
     last |-> 0]

(* Mutant: a file already holding a link of the type keeps the first one. *)
add_file_keep_first(ws, file, link_id, link_type) ==
    [ws EXCEPT !.files =
        IF file \in DOMAIN @ THEN [@ EXCEPT ![file] = @ @@ (link_type :> link_id)]
        ELSE (file :> (link_type :> link_id)) @@ @]

add_file(ws, file, link_id, link_type) ==
    [ws EXCEPT !.files =
        IF file \in DOMAIN @ THEN [@ EXCEPT ![file] = (link_type :> link_id) @@ @]
        ELSE (file :> (link_type :> link_id)) @@ @]

get_file(ws, file) == IF file \in DOMAIN ws.files THEN ws.files[file] ELSE NoValue

add_link(ws, link, link_type) ==
    [ws EXCEPT !.last = @ + 1,
               !.links[link_type] = ((ws.last + 1) :> link) @@ @]

get_link(ws, link_id, link_type) ==
    IF link_id \in DOMAIN ws.links[link_type] THEN ws.links[link_type][link_id]
    ELSE NoValue

(***************************************************************************)
(* populate_workspace and its helpers                                      *)
(***************************************************************************)
(* Mutant: the files are attached to the target's link id for both types. *)
add_files_for_target_one_id(ws, target, files, manifest) ==
    LET w1 == add_link(ws, target, BAZEL_TARGET)
        w2 == add_link(w1, manifest, JAVA_MANIFEST)
        Add(f, w) == add_file(add_file(w, f, w1.last, BAZEL_TARGET),
                              f, w1.last, JAVA_MANIFEST)
    IN  FoldSet(Add, w2, files)

add_files_for_target(ws, target, files, manifest) ==
    LET w1 == add_link(ws, target, BAZEL_TARGET)
        w2 == add_link(w1, manifest, JAVA_MANIFEST)
        Add(f, w) == add_file(add_file(w, f, w1.last, BAZEL_TARGET),
                              f, w2.last, JAVA_MANIFEST)
    IN  FoldSet(Add, w2, files)

Get(mn, k) == IF k \in DOMAIN mn THEN mn[k] ELSE <<NoValue>>

IsManifest(file) == file # NoValue /\ IsOptions(file)

add_to_workspace(ws, target, mn) ==
    LET manifests == SelectSeq(Get(mn, MANIFEST), IsManifest)
        sources_lists == Get(mn, SOURCES)
        Step(w, index) ==
            IF index > Len(sources_lists) THEN w
            ELSE IF sources_lists[index] = NoValue THEN w
            ELSE IF ListedFiles[sources_lists[index]] = Missing THEN w
            ELSE add_files_for_target(w, target, ListedFiles[sources_lists[index]],
                                      manifests[index])
    IN  FoldLeft(Step, ws, [i \in 1..Len(manifests) |-> i])

populate_workspace(inp) ==
    LET Step(w, entry) ==
            IF entry[1] \in ThirdParty THEN w ELSE add_to_workspace(w, entry[1], entry[2])
    IN  FoldLeft(Step, EmptyWorkspace, inp)

(* get_manifest_for_file over a document that parsed                       *)
get_manifest_for_file(ws, file) ==
    LET links == get_file(ws, file) IN
    IF links = NoValue THEN NotFound
    ELSE IF JAVA_MANIFEST \notin DOMAIN links THEN NotFound
    ELSE get_link(ws, links[JAVA_MANIFEST], JAVA_MANIFEST)

(***************************************************************************)
(* Actions                                                                 *)
(***************************************************************************)
TypeOK ==
    /\ phase \in {"idle", "populated", "writing"}
    /\ input \in Inputs \cup {<<>>}
    /\ mode \in SyncModes
    /\ disk \in {NoFile, Truncated} \/ DOMAIN disk = {"files", "links", "last"}
    /\ DOMAIN mem = {"files", "links", "last"}
    /\ \A f \in DOMAIN mem.files : \A lt \in DOMAIN mem.files[f] :
           mem.files[f][lt] \in DOMAIN mem.links[lt]
    /\ answer \in (Files \cup {NoValue}) \X (Manifests \cup {NotFound, Unreadable, NoValue})

Init ==
    /\ disk = NoFile
    /\ mem = EmptyWorkspace
    /\ phase = "idle"
    /\ input = <<>>
    /\ mode \in SyncModes
    /\ answer = <<NoValue, NotFound>>
    /\ prior = NoFile

(* main: target_to_output = get_mnemonic_output(...);                      *)
(* workspace = populate_workspace(cwd, target_to_output), in either mode   *)
Populate(m, inp) ==
    /\ phase = "idle"
    /\ input' = inp /\ mode' = m
    /\ mem' = populate_workspace(inp)
    /\ phase' = "populated"
    /\ prior' = disk
    /\ UNCHANGED <<disk, answer>>

(* write_workspace: open(json_path, "w") truncates the document            *)
WriteOpen ==
    /\ phase = "populated"
    /\ disk' = Truncated
    /\ phase' = "writing"
    /\ UNCHANGED <<mem, input, mode, answer, prior>>

(* write_workspace: json.dump(asdict(workspace)) completes                 *)
WriteDump ==
    /\ phase = "writing"
    /\ disk' = mem
    /\ phase' = "idle"
    /\ mem' = EmptyWorkspace /\ input' = <<>>
    /\ UNCHANGED <<mode, answer, prior>>

Crash ==
    /\ phase # "idle"
    /\ phase' = "idle"
    /\ mem' = EmptyWorkspace /\ input' = <<>>
    /\ UNCHANGED <<disk, mode, answer, prior>>

(* main with --filepath: get_manifest_for_file(relative_filepath, .scip);  *)
(* a document that fails to parse raises, and main reports the error.      *)
FastPathLookup(f) ==
    /\ answer' = <<f, CASE disk = NoFile    -> NotFound
                         [] disk = Truncated -> Unreadable
                         [] OTHER            -> get_manifest_for_file(disk, f)>>
    /\ UNCHANGED <<disk, mem, phase, input, mode, prior>>

Next ==
    \/ \E m \in SyncModes, inp \in Inputs : Populate(m, inp)
    \/ WriteOpen
    \/ WriteDump
    \/ Crash
    \/ \E f \in Files : FastPathLookup(f)

Spec == Init /\ [][Next]_vars

(***************************************************************************)
(* Refinement of WorkspaceIndex                                            *)
(***************************************************************************)
Document(d) ==
    IF d = NoFile THEN [f \in Files |-> NotFound]
    ELSE IF d = Truncated THEN Unreadable
    ELSE [f \in Files |->
            LET links == get_file(d, f) IN
            IF links = NoValue THEN NotFound
            ELSE <<get_link(d, links[BAZEL_TARGET], BAZEL_TARGET),
                   get_link(d, links[JAVA_MANIFEST], JAVA_MANIFEST)>>]

Abstract == INSTANCE WorkspaceIndex WITH
                recorded <- Document(disk),
                mode <- IF phase = "idle" THEN "none" ELSE mode,
                base <- IF phase = "idle" \/ prior = Truncated THEN Document(NoFile)
                        ELSE Document(prior)

(* Every sync publishes, and every fast-path lookup answers, what the      *)
(* abstract store allows: the target and manifest of the last pair that    *)
(* listed the file, after the link tables, the id counter and the JSON     *)
(* document in between; a full sync replaces the document and a sync of    *)
(* --targets keeps the records of the files it does not list; the         *)
(* truncated document of write_workspace is seen only while a sync writes  *)
(* or after it was killed doing so.                                        *)
RefinesWorkspaceIndex == Abstract!Spec

=============================================================================
