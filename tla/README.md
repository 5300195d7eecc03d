# TLA+ models of the SCIP sync (`src/bsp_server`)

This directory holds TLA+ models of the Python program that syncs SCIP indexes for a Bazel
workspace (`scip_sync_util/scip_sync.py:main`), together with the TLC configurations that check
them. Each model is translated from the source. The line ranges each definition stands for are
listed in `PROJECT.json` under `"map"`.

## The system

`main` runs in one of two modes.

- **Full sync** (targets given, or read from `.ijwb/.bazelproject`):
  1. **ClosureResolver.** `get_dependency_graph` runs the Bazel query `deps(seeds, depth)`
     (`bazel/execute_query.py`). `transform_bazel_query_results` turns the result into
     `label -> {direct_deps, exports}`. `dfs` then computes the closure from each seed: exports
     first, then the depth checks, then direct deps. Excludes are removed at the end.
  2. **BazelBuild.** `sync_scip` builds the closure with the indexing aspect. This is an
     external process.
  3. **ActionGraphJoiner.** `get_mnemonic_output` runs `bazel aquery`. `_get_all_outputs`
     joins its four flat tables (path fragments, artifacts, actions, targets) into
     `label -> mnemonic -> paths`. It uses two thread pools, one for fragment paths and one
     for target batches.
  4. **WorkspaceStore.** `populate_workspace` builds a fresh `ScipWorkspace` of files and
     links (links have shared integer ids). `write_workspace` truncates
     `.scip/workspace.json` and then dumps the workspace.
  5. **ArtifactSync.** `copy_index` snapshots the digests of the cached indexes. One pool
     worker per generated index then skips the copy or copies the index and its `.sha256`
     sidecar. Finally, every file of `.scip` that no worker kept is deleted on the pool.
- **Fast path** (`--filepath`): `get_manifest_for_file` reads `workspace.json`. If it finds
  a manifest, `incremental.index_file` runs the aggregator and `old_copy_index` copies the
  result into `.scip`.

Invocations are not coordinated with each other. A fast-path run can read `workspace.json`
while a full sync is rewriting it. Any run can be killed part-way.

## Modules

| Module | Models | State | Actions |
|---|---|---|---|
| `CopyIndex` | `scip_utils.copy_index` across many syncs, and the fast path's `incremental.index_file` and `old_copy_index` between them | source indexes and sidecars, cached index and sidecar per cache name (the sources' names and the fast path's), whether `.scip/tmp` exists, the status snapshot, per-worker pc, kept names, pending deletions; history: `killed`, `fastWrote` | `Build` (environment: bazel rewrites outputs, a sidecar may be missing), `StartRun` (`get_current_status`), `Check`, `CopyIndexFile`, `CopySidecar` (one worker's steps), `ComputeDeletes`, `DeleteFile` (`os.remove`, or `rmtree` of `.scip/tmp`), `FinishRun`, `Crash`, `FastPath` (one whole `--filepath` invocation: `IndexFile`, then `OldCopyIndex` or an aggregator failure, possibly killed between the copy and its sidecar) |
| `WorkspaceIndex` | abstract: what the workspace store promises | the planned input, the sync's `mode` (none, full, targets), `base` (the document the sync started from), `recorded` (file -> target, manifest, or Unreadable), the last lookup's answer | `Plan`, `Abandon`, `Unpublish` (only during a sync), `Publish` (a full sync rewrites, a targets sync merges into `base`), `Lookup` |
| `Workspace` | `workspace.py` plus `utils.write_json` | `disk` (a document, NoFile or Truncated), `mem` (the workspace being built), `phase`, `input`, `mode` (whether `main` was given `--targets`), `answer`; history: `prior` (the document when the sync began) | `Populate` (`populate_workspace` as a fold over `add_to_workspace`, `add_files_for_target`, `add_link`, `add_file`), `WriteOpen` (open "w"), `WriteDump`, `Crash`, `FastPathLookup` (`get_manifest_for_file`) |
| `DependencyGraph` | `get_dependency_graph` (deps mode, with its regex masks and `filter_list_by_regex`), `transform_bazel_query_results`, `dfs` | build graph, seeds, depth, excludes, `dep_graph`, seeds still to run, the dfs call stack (one frame per Python call), `result`, `phase` | `Query` (query, transform, masks, `sanitized_targets`), `StartSeed`, `DfsEnter`, `DfsExport`, `DfsSelf`, `DfsDirectDep`, `DfsReturn`, `Finish` (the exclude masks) |
| `BazelProject` | `parse_bazelproject`, `_get_key_value`, `fetch_targets_from_bazelproject`, `_should_exclude_path`, `convert_directories_to_targets` | the file's lines, the next line `i`, `data` (section -> values), `last_key`, `phase`, `targets`, `excludes` | `ParseLine` (one iteration of the parse loop, with the KeyError of a value before any key), `EndOfFile`, `Fetch` (the split into targets and excludes, directories when derive is true, the IndexError of an empty derive section; an exception answers `(set(), set())`) |
| `SyncPipeline` | `main`'s full sync (`scip_sync.py:77-180`) and `sync_scip` | the variables of both instances (the parser's `phase` renamed `bpPhase`, the closure's `dgPhase`), `step` (main's pc), `onDisk` (rules whose index file exists), `answered` (keys of `target_to_output`), `index_target_map`, `index_to_copy`, `intended` (history: the selection the file's format lists) | `BP!Next` while fetching, `Fetched` (fetch returns; the parser's state is dropped), `CheckTargets` (the no-targets return, or the query starts with targets and excludes as seeds and exclude patterns), `DG!Next` while the closure runs, `ClosureDone` (the empty-closure return, or on to the build), `SyncScip`, `GetMnemonicOutput`, `CollectIndexes` (the `os.path.exists` filter), `CopyIndexes` (the `relevant_index` intersection) |
| `ActionGraph` | `get_mnemonic_output` / `_get_all_outputs` | aquery tables, pool size, per-fragment future state and return value, `path_dict`, batches, per-batch results, `result` | `RunFrag` (a pool thread runs `process_fragment`), `CollectFrag` (`as_completed` loop), `Group`, `RunBatch`, `Merge` |

`SyncPipeline` composes `BazelProject` and `DependencyGraph` with `INSTANCE ... WITH`. The two
components interact only through `targets` and `excludes`: fetch's stripped `-` entries become
the closure's exclude masks. The build graph and `--depth` are chosen when the query starts.
After the closure, a rule stands for its one index output. The build (`--keep_going`, its
exception swallowed) may leave any index on disk, including one from an earlier build. The
aquery may answer for any subset of the rules the indexing aspect can reach from the closure
through rule inputs: the aspect is defined outside this repository, and `--keep_going`
allows a partial answer. `{}` is the failed aquery.
The query itself may also answer only in part. `get_dependency_graph` calls it with
`soft_fail=True`, so a non-zero return code is ignored. In `execute_query` (lines 78-95),
`finally: continue` skips a line that `json.loads` rejects, and that includes the error tuple
`stream_output` yields with a `None` line. `DependencyGraph`'s constant `QueryFaults` turns
this on: `QueryOutputs` then lets the query keep any subset of its answer's rules.
`SyncPipeline` sets it to TRUE. The closure runs set it to FALSE, because they compare dfs
with the graph the query answered, whatever that graph is.

`Workspace` implements `WorkspaceIndex` under the refinement mapping `recorded <- Document(disk)`,
`mode <-` none while idle, else the sync's mode, and `base <- Document(prior)`. `Document` reads
every file's `BAZEL_TARGET` and `JAVA_MANIFEST` links out of the document. The abstract index
follows what the repository promises of the store: `main`'s comment (`scip_sync.py:82`) says
only a sync without targets rewrites the workspace; `test_scip_sync.py` (lines 131 and 175)
says a sync given targets merges into it; spec §3 calls the store append-only and §6 calls the
write read-modify-write. The document may be unreadable only between a sync's truncation and
its dump.

**How data is abstracted:**
- Paths are sequences of segments, and segments are sequences of words. `scip_index_name`
  computes the code's split on `/bin/` and the `-`/`/` to `_` replacement on that form.
- File content is a version number, and the digest of version v is v.
- Labels are strings, and manifests and source lists are tuples. In `BazelProject` a line is a
  sequence of tokens: the characters the code tests (`/`, `:`, `-`, `#`, `.`, blank) are tokens of
  their own, and a word (a section name, a package, `...`, `true`) is one token.
- A full path is the sequence of its fragment labels.
- In `DependencyGraph` a label or target pattern is the sequence of its characters, with `...` as
  one token. The masks are records: a text, and whether the mask is anchored at both ends
  (`^t$`) or only at the start (`^p` for `p/...`). `re.search` of such a mask is a prefix or
  equality test, because the labels enumerated hold no other regex syntax. The query expands a
  pattern the way Bazel does: `//p/...` names the rules of package `p` and the packages below it
  (`Named`, `Expand`).
- `MCBazelProjectFiles` holds the `.bazelproject` line shapes and the file sets. Both
  `MCBazelProject` and `MCSyncPipeline` extend it.
- `MCWorkspace` fixes which files each source list names (`ListedFiles`), because reading a
  source list is file I/O.

## Runs

| Run | Expect | Properties | What it shows |
|---|---|---|---|
| `copy_pass` | pass (1,331,924 states) | TypeOK, CacheMirrorsBatch, IdempotentResync, SidecarDescribesIndexUntilKilled | A completed run leaves the cache holding exactly this run's indexes that have sidecars, each with its source digest, and nothing a fast path wrote (its copy, its sidecar, `.scip/tmp`). This holds despite builds and fast paths in between, missing sidecars and crashes of either invocation. A second run over unchanged sources copies nothing and deletes only what fast paths wrote since the first. Until some `copy_index` is killed (the history variable `killed`), every cached sidecar describes its index; a killed fast path does not break this. |
| `copy_crash` | violation | SidecarDescribesIndex | A kill between the two copies, followed by a rebuild to the old version, leaves a mismatched pair that later runs never repair. |
| `copy_collision` | violation | SidecarDescribesIndex | `bin/lib.scip` and `bin/tools/bin/lib.scip` share a cache name, and their workers interleave. |
| `ws_pass` | pass (17,592) | TypeOK, RefinesWorkspaceIndex | For full syncs, the populate/write/lookup protocol implements the abstract index. The fast path never answers a wrong manifest; it fails only inside a sync's truncation window, and a crash there leaves the document truncated until the next sync. |
| `ws_merge` | violation | RefinesWorkspaceIndex | A sync given `--targets` rewrites `workspace.json` from a fresh workspace (`workspace.py:84`). The records an earlier sync wrote for files it does not list are lost, where the tests and spec §3/§6 say they are merged. |
| `closure_pass` | pass (1,274,376) | DfsMatchesReference, DfsTerminates | dfs returns. Its result equals budgeted reachability over the queried graph (direct-dep edges within the depth, export edges anywhere), from the rules the target patterns name, less the rules the exclude patterns name, in Bazel's meaning of `//p/...`. The graphs include ones with a sibling package `//ab`, where the include mask `^//a` also picks up `//ab:y`: because the query is bounded by the same depth, every rule of `dep_graph` is already within the budget from the real seeds, so the over-matched seed never changes the result. |
| `closure_mask` | violation | DfsMatchesReference | With a sibling package `//ab` beside `//a`, the exclude `//a/...` becomes `^//a` and also removes `//ab:y`, an export of the seed `//c:z`. |
| `closure_cycle` | violation | DfsTerminates | An export cycle recurses until the stack limit. |
| `closure_spec` | violation | ClosureMatchesSpec | The query's depth bound cuts the export chains that spec §8 promises at depth 0. |
| `ag_pass` | pass (2,232) | TypeOK, OutputsMatchJoin | Every completion order of the fragment and batch tasks and both pool sizes give the table join; with pool size 1 the five targets are cut into batches of two, two and one, so the last short batch is exercised. |
| `pipeline_pass` | pass (153,307) | SelectionMatchesFormat, ExcludedNeverCopied, ListedTargetsSynced | Consider every `.bazelproject` of up to four lines (headers, inline values, a bare `derive_targets_from_directories:`, a `workspace_type: java` section fetch ignores, `//a:b`, `-//c/...`, directories, `.`, `-c`, comments, blanks). For each file fetch parses, the targets and excludes are those a reading of the format lists. Once fetch has answered targets, over three build graphs, depths 0 and 1, any part of the query's answer, any build outcome and any aquery answer, `main` hands `copy_index` the index of every listed, non-excluded rule that the query kept, that was answered and that is on disk. The closure holds every such rule. A rule the query dropped is neither in the closure nor copied, even when aquery answers for it and its index is on disk, so `copy_index` evicts it. That is the cost of `soft_fail` that spec §7 (UpstreamQueryFailure) accepts. It never hands over an excluded rule's index, even one the closure reached as a dependency or export, or one the aspect built and the aquery reported. |
| `bp_exclude` | violation | SelectionMatchesFormat | The exclude `-//a:b` holds a `:` and is not `//`-prefixed, so `_get_key_value` makes it the header of a section `-//a`. The exclude is lost, and the targets after it leave the targets section. |

Every property of a passing run has a mutant in `PROJECT.json` (an operator defined just before
the definition it replaces). Each mutant is a plausible slip in the code, and under that mutant
TLC finds the property violated. Two examples: the skip path not keeping its name, and the
number of batches rounded down so the last short batch is lost.

Three further hazards have no run of their own, and no property covers them:
- **A repeated label in one batch** overwrites instead of extending (`scip_utils.py:251`).
  `aquery` lists each configured target once (spec §4.3: a repeated pair cannot normally
  happen), so `ag_pass` gives every label once.
- **A dangling parent fragment** raises KeyError in a pool task (`scip_utils.py:183`), and
  `get_mnemonic_output` answers `{}` for every target. It needs a corrupted aquery answer;
  `OutputsMatchJoin` is checked over well-formed tables.
- **An empty `derive_targets_from_directories:` section** raises IndexError
  (`scip_sync.py:307`), and the except then discards the explicit targets as well; likewise a
  value before any header raises KeyError. `pipeline_pass` explores both branches (the bare
  header is in its vocabulary), but the repository does not say what fetch should answer for
  such a file, so no property judges it. `ListedTargetsSynced` speaks only once fetch has
  answered targets.

### Bounds

- **CopyIndex:** two sources and two versions.
  - The distinct sources (`bin/app/lib.scip`, `bin/lib.scip`) get different names.
  - The colliding pair (`bin/lib.scip`, `bin/tools/bin/lib.scip`) gets the same name.
  - Two versions are enough for "rebuilt back to the old version".
  - Runs take any subset of the sources as their batch.
  - One fast-path index, `/ws/.scip/tmp/src_A_java.scip`, whose copy is named
    `ws_.scip_tmp_src_A_java.scip`, apart from every source's name. Nothing compares its
    content with anything, so it is written as one version. `get_current_status` is kept
    only for the sources' names, the only ones the workers look up. The violation runs
    leave the fast path out (`MCNoFast`).
  - The fast path is one atomic step. Invocations do not overlap, so no other step can
    see its intermediate states; its possible ends (aggregator failure, done, killed
    between the copy and the sidecar) are the step's alternatives.
- **Workspace:**
  - two files and three targets, one of them third-party;
  - inputs of up to two targets, with zero, one or two manifests and misaligned source lists;
  - a file claimed by two targets, so "last writer wins" is exercised;
  - `ws_pass` runs full syncs only; `ws_merge` also lets a sync be a `--targets` one and
    gives every input an aquery answer.
- **DependencyGraph:**
  - every graph over three rules and one external jar, where each rule names each other rule
    not at all, as a dep, or as an export (2,187 graphs; the pass run excludes those with
    export cycles);
  - rules `//a:x`, `//c:z` and either `//a/b:y` (below package `a`) or `//ab:y` (a sibling
    whose name extends `a`); `closure_pass` checks both layouts, `closure_mask` the sibling
    one with the exclude `//a/...`;
  - seeds `{//a:x}`, `{//a:x, //a/b:y}` and `{//a/...}`, so both kinds of mask are built;
    depths 0 to 2; excludes `{}` and `{//a/b/...}`;
  - a recursion limit of 16 frames. This is deeper than any acyclic three-rule graph can
    reach at depth 2, so only cycles overflow.
- **BazelProject:** every file of one to four lines over fourteen line shapes, with no section
  header repeated. The vocabulary holds every branch of `_get_key_value` (a label, a line without
  `:`, a key with and without a value) and of fetch: excludes in both sections, `.`, derive true,
  false and without a value (the IndexError), a section fetch does not read, and entries before
  any header (the KeyError). The reference (`RefSelection`) takes any word followed by `:` as a
  section header, as the format does, not only the three sections fetch reads. The repeated header is left out because the format's
  rule for it (merge or replace) is not stated in the repository. The violation run adds the line
  `-//a:b`.
- **SyncPipeline:** the same files. Three build graphs over the rules those files name:
  - `//a:b` (listed), `//a/d:e` (below the derived directory `a/`), `//c:z` (below the excluded
    `//c/...` and `-c`);
  - one graph where the excluded rule is a dependency of a listed one and an export of another;
  - one where a listed rule is reachable only through the excluded one;
  - one without the listed rules, so the closure comes out empty.

  Depths 0 and 1. Every end of `main` (no targets, empty closure, indexes copied) is reached.
  After the closure, every subset of the rules may be on disk, and every subset of what the
  aspect reaches may be answered. This includes an excluded dependency that was built and
  reported, which only the `relevant_index` intersection keeps out.
- **ActionGraph:** one table set holding the following, with pool sizes 1 and 2 (batch
  size 2, giving batches of two, two and one, and batch size 1):
  - a duplicated fragment;
  - an output id with no artifact;
  - five targets with distinct labels, listed out of label order.

### Fairness

- **DependencyGraph:** `Spec` is weakly fair on `Next`. dfs is ordinary sequential code on
  one thread, so it keeps running once called.
- **ActionGraph:** also weakly fair on `Next`. `ThreadPoolExecutor` runs every submitted
  task, and the main thread blocks until all of them finish. No liveness property is checked
  on it: with the tables' parent chains acyclic, every task is a bounded walk.
- **SyncPipeline:** weakly fair on `Next`, for the same reason (one thread, no waiting). No
  liveness property is checked on it, because `DfsTerminates` already covers the only loop
  that could fail to end.
- **CopyIndex and Workspace:** no fairness. Their properties are safety and refinement
  properties, and runs can be killed at any point.

`CHECK_DEADLOCK FALSE` is used only in the DependencyGraph, ActionGraph, BazelProject and SyncPipeline runs.
Those model one call that returns (for SyncPipeline, `main` up to one of its returns), and its final state has no successor.

## Not modelled, and why

- What `sync_scip` (bazel build) and the aggregator binary `incremental.index_file` runs do
  inside. They are external processes. Their effects are the `Build` and `FastPath` actions
  of CopyIndex and the nondeterministic `onDisk` of `SyncScip`.
- Within `execute_query`, the query file, the jsonproto encoding and the order of the lines
  are not modelled. A skipped or missing line is modelled by the rule it drops
  (`QueryOutputs`). A line that parses to a record other than the rule's own cannot come
  from `bazel query`.
- The rdeps mode of `get_dependency_graph`. Only tests pass `query_rdeps=True`; `main` never
  does. Labels with regex syntax other than the anchors (a `.` matches any character) are not
  enumerated.
- The missing-file branch of `fetch_targets_from_bazelproject`. It answers `(set(), set())`, the
  same answer as the except. The derive value's `lower()` is reduced to the spellings
  `true`/`True`/`TRUE`.
- The fast path *during* a full sync, racing `copy_index`'s eviction (including the `rmtree`
  of `.scip/tmp` it writes into). Spec §5 says concurrent invocations are not coordinated, an
  explicit scope limitation; CopyIndex runs the fast path between syncs only. The lookup that
  gates it is `Workspace`'s `FastPathLookup`; CopyIndex lets it run for its one file at any
  idle point.
- An empty sidecar left by a kill between `open(..., "w")` and `write` in `old_copy_index`.
  `get_current_status` reads it as no digest, and eviction deletes it like any sidecar.
- The workspace write and `copy_index` inside `SyncPipeline`. Both are their own modules
  (`Workspace`, `CopyIndex`). The pipeline ends with the set handed to `copy_index`. One point
  about the fast path is worth noting: in the `--filepath` branch both outcomes `return`, so
  the fallback after it (`scip_sync.py:112-120`, "add its target to the list") is unreachable.
  A file not yet in the workspace is never synced by the fast path.
- The conversion of the absolute `--filepath` to the key `get_manifest_for_file` looks up
  (`scip_sync.py:91`). It is `filepath.replace(cwd + "/", "")`, which removes every
  occurrence of the root, not only the prefix: with `cwd` `/ws`, `/ws/src/ws/Foo.java`
  becomes `srcFoo.java` and the file is reported as not in the workspace. This was found by
  reading the code and is listed as a hazard. `FastPathLookup` takes the relative file.
- `ScipWorkspace.clear` (only tests call it) and `workspace_to_dictionary` (unused by the
  sync).
- `tools/black_*.py`.

## Plan for the following modules

Modules are built in this order (the most consequential behaviour comes first):

1. **Done:** `CopyIndex` (with the fast path's writes), `Workspace`/`WorkspaceIndex`, `DependencyGraph` with its masks,
   `ActionGraph`, `BazelProject`, and their composition in `SyncPipeline` from the
   `.bazelproject` to the set handed to `copy_index`.
2. **Done:** `execute_query`'s partial answers under `soft_fail` (`QueryFaults`) in the
   pipeline.
3. The `import` directive of `.bazelproject` in the `BazelProject` vocabulary and reference,
   once the format's meaning for it is written down in the repository.
