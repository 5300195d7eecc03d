--------------------------- MODULE SyncPipeline ----------------------------
(***************************************************************************)
(* scip_sync.main for a full sync (no --targets, no --filepath): the      *)
(* targets and excludes come from the .bazelproject (BazelProject), and    *)
(* get_dependency_graph turns them into the buildable closure              *)
(* (DependencyGraph).  The two components are instances whose variables    *)
(* are this module's; step is main's program counter.  main then builds    *)
(* the closure, asks aquery for the outputs and hands the indexes of       *)
(* closure rules that exist on disk to copy_index.                         *)
(*                                                                         *)
(* The parser's variables are cleared once fetch returns (only targets and *)
(* excludes flow on).  The build graph the query runs over and the --depth *)
(* are chosen when the query starts: nothing before it reads them.  The    *)
(* query runs with soft_fail, so its output may keep any part of the       *)
(* answer (DependencyGraph's QueryFaults).                                 *)
(* A rule stands for its one index output.  The build (keep_going, its     *)
(* exception swallowed) may leave any index on disk, this build's or an    *)
(* earlier one's.  The aquery (keep_going) answers index outputs for some  *)
(* rules of the closure and, because the indexing aspect propagates along  *)
(* deps (it is defined outside this repository), possibly for rules the    *)
(* closure reaches through rule inputs; if it fails get_mnemonic_output    *)
(* answers {}.  The workspace write and copy_index itself are Workspace's  *)
(* and CopyIndex's.                                                        *)
(***************************************************************************)
EXTENDS Naturals, FiniteSets, SequencesExt

CONSTANTS
    Files,       \* .bazelproject contents
    Universes,   \* build graphs
    External,    \* labels of external repositories
    Depths,      \* --depth values
    MaxFrames    \* the recursion limit

VARIABLES
    lines, i, data, last_key, bpPhase, targets, excludes,
    universe, seeds, depth, excl, dep_graph, todoSeeds, stack, result, dgPhase,
    step,        \* "fetch", "fetched", "closure", "no_targets", "empty_closure",
                 \* "synced", "built", "aqueried", "collected", "copied"
    onDisk,      \* rules whose index file exists after sync_scip
    answered,    \* the keys of target_to_output
    index_target_map, index_to_copy,
    intended     \* history: the selection the file's format lists

bpVars == <<lines, i, data, last_key, bpPhase, targets, excludes>>
dgVars == <<universe, seeds, depth, excl, dep_graph, todoSeeds, stack, result, dgPhase>>
tailVars == <<onDisk, answered, index_target_map, index_to_copy>>
vars == <<bpVars, dgVars, step, tailVars, intended>>

BP == INSTANCE BazelProject WITH phase <- bpPhase
DG == INSTANCE DependencyGraph WITH phase <- dgPhase, SeedSets <- {}, Excludes <- {},
                                QueryFaults <- TRUE

Init ==
    /\ BP!Init
    /\ intended = IF BP!WellFormed(lines) THEN BP!RefSelection(lines) ELSE <<{}, {}>>
    /\ universe = [n \in {} |-> 0] /\ seeds = {} /\ depth = 0 /\ excl = {}
    /\ dep_graph = [n \in {} |-> 0] /\ todoSeeds = {} /\ stack = <<>> /\ result = {}
    /\ dgPhase = "idle"
    /\ step = "fetch"
    /\ onDisk = {} /\ answered = {} /\ index_target_map = {} /\ index_to_copy = {}

(* Case 1: "targets, excludes = fetch_targets_from_bazelproject(cwd)";   *)
(* only the answer outlives the call.                                      *)
Fetched ==
    /\ step = "fetch" /\ bpPhase \in {"done", "failed"}
    /\ lines' = <<>> /\ i' = 1 /\ data' = [k \in {} |-> <<>>] /\ last_key' = <<>>
    /\ bpPhase' = "returned"
    /\ step' = "fetched"
    /\ UNCHANGED <<targets, excludes, dgVars, tailVars, intended>>

(* "if len(targets) == 0: return", else get_dependency_graph(cwd, targets, *)
(* depth, exclude_targets=excludes) starts with the query.                 *)
CheckTargets ==
    /\ step = "fetched"
    /\ IF targets = {}
       THEN step' = "no_targets" /\ UNCHANGED dgVars
       ELSE /\ step' = "closure"
            /\ universe' \in Universes /\ depth' \in Depths
            /\ seeds' = targets /\ excl' = excludes
            /\ dgPhase' = "query"
            /\ UNCHANGED <<dep_graph, todoSeeds, stack, result>>
    /\ UNCHANGED <<bpVars, tailVars, intended>>

(* "if len(buildable_scip_targets) == 0: return"; otherwise main goes on   *)
(* to build and index the closure.                                         *)
ClosureDone ==
    /\ step = "closure" /\ dgPhase = "done"
    /\ step' = IF result = {} THEN "empty_closure" ELSE "synced"
    /\ UNCHANGED <<bpVars, dgVars, tailVars, intended>>

(* Rules the indexing aspect may visit from the closure: rule inputs,      *)
(* transitively                                                            *)
Aspected(R) == DG!Within(universe, R, Cardinality(DOMAIN universe))

(* sync_scip: bazel build --keep_going of the closure with the aspect      *)
SyncScip ==
    /\ step = "synced"
    /\ onDisk' \in SUBSET DOMAIN universe
    /\ step' = "built"
    /\ UNCHANGED <<bpVars, dgVars, answered, index_target_map, index_to_copy, intended>>

(* get_mnemonic_output(cwd, mnemonics, buildable_scip_targets)            *)
GetMnemonicOutput ==
    /\ step = "built"
    /\ answered' \in SUBSET Aspected(result)
    /\ step' = "aqueried"
    /\ UNCHANGED <<bpVars, dgVars, onDisk, index_target_map, index_to_copy, intended>>

(* index_target_map: the index outputs of target_to_output that exist    *)
CollectIndexes ==
    /\ step = "aqueried"
    /\ index_target_map' = answered \cap onDisk
    /\ step' = "collected"
    /\ UNCHANGED <<bpVars, dgVars, onDisk, answered, index_to_copy, intended>>

(* Mutant: every collected index is copied, the intersection dropped *)
CopyIndexesAll ==
    /\ step = "collected"
    /\ index_to_copy' = index_target_map
    /\ step' = "copied"
    /\ UNCHANGED <<bpVars, dgVars, onDisk, answered, index_target_map, intended>>

(* relevant_index = index_target_map.keys() & buildable_scip_targets; the  *)
(* indexes of those are handed to copy_index.                              *)
CopyIndexes ==
    /\ step = "collected"
    /\ index_to_copy' = index_target_map \cap result
    /\ step' = "copied"
    /\ UNCHANGED <<bpVars, dgVars, onDisk, answered, index_target_map, intended>>

Next ==
    \/ step = "fetch" /\ BP!Next /\ UNCHANGED <<dgVars, step, tailVars, intended>>
    \/ Fetched
    \/ CheckTargets
    \/ step = "closure" /\ DG!Next /\ UNCHANGED <<bpVars, step, tailVars, intended>>
    \/ ClosureDone
    \/ SyncScip \/ GetMnemonicOutput \/ CollectIndexes \/ CopyIndexes

Spec == Init /\ [][Next]_vars /\ WF_vars(Next)

(***************************************************************************)
(* Properties                                                              *)
(***************************************************************************)
Listed == intended[1]
Excluded == intended[2]

Wanted == DG!Expand(DOMAIN universe, Listed) \ DG!Expand(DOMAIN universe, Excluded)

(* the wanted rules the query's output kept *)
Kept == Wanted \cap DOMAIN dep_graph

(* No index of a rule the .bazelproject excludes ('-' entries of targets,  *)
(* and of directories when derived) is handed to copy_index: whatever the *)
(* closure reaches and whatever the aspect built and aquery answered for   *)
(* rules beyond it, fetch's '-' stripping, the exclude masks, dfs and the  *)
(* relevant_index intersection together keep it out of the cache.         *)
ExcludedNeverCopied ==
    step = "copied" => index_to_copy \cap DG!Expand(DOMAIN universe, Excluded) = {}

(* Every rule the .bazelproject lists (a label of targets, or a rule below  *)
(* a derived directory) and does not exclude goes through to the cache     *)
(* once fetch has answered targets: the closure holds every listed rule    *)
(* the query's output kept (all of them when the query succeeds), whatever *)
(* the depth and the exports, and the index of each one that aquery       *)
(* answered for and that is on disk is copied.                             *)
ListedTargetsSynced ==
    /\ step \notin {"fetch", "fetched", "closure", "no_targets"} => Kept \subseteq result
    /\ step = "copied" => Kept \cap answered \cap onDisk \subseteq index_to_copy

(* The parser's own property, checked on the pipeline's files *)
SelectionMatchesFormat == BP!SelectionMatchesFormat

=============================================================================
