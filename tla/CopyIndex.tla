----------------------------- MODULE CopyIndex -----------------------------
(***************************************************************************)
(* The sha-gated copy of generated SCIP indexes into the .scip cache       *)
(* directory, scip_utils.copy_index, run once per sync.                    *)
(*                                                                         *)
(* A run (StartRun) snapshots the digests recorded beside the cached       *)
(* indexes (get_current_status), then one worker per index to copy runs    *)
(* process_and_copy_scip_index on the thread pool: it derives the cache    *)
(* name, skips the copy when the cached digest equals the source's, and    *)
(* otherwise copies the index and then its .sha256 sidecar.  When every    *)
(* worker has returned, every cache entry no worker returned is deleted,   *)
(* one file at a time on the pool.  Between runs the build rewrites the    *)
(* sources (Build) and a run can be killed at any point (Crash): the       *)
(* files already written or deleted stay as they are.                      *)
(*                                                                         *)
(* Between syncs, a fast-path invocation (main with --filepath, for a file *)
(* get_manifest_for_file found) writes into the same directory:            *)
(* incremental.index_file creates the work directory .scip/tmp and has the *)
(* aggregator write one index there, then old_copy_index copies it into    *)
(* the cache and writes the digest of what it copied beside it.  It too    *)
(* can be killed part-way.                                                 *)
(* Invocations do not overlap: concurrent ones are outside the design.     *)
(*                                                                         *)
(* Content is abstracted to a version; the sha256 of version v is v.       *)
(***************************************************************************)
EXTENDS Naturals, FiniteSets, SequencesExt

CONSTANTS
    Sources,     \* absolute paths of the generated indexes (seq of segments)
    FastIndexes, \* paths of the indexes the fast path writes into .scip/tmp
    Versions,    \* the index contents the build can produce
    NoSha,       \* the source's .sha256 sidecar is missing
    Absent,      \* no such file in the cache directory
    CrashOn      \* whether a run may be killed part-way

ASSUME Versions \subseteq Nat /\ NoSha \notin Versions /\ Absent \notin Versions
ASSUME CrashOn \in BOOLEAN

(***************************************************************************)
(* A path is a sequence of segments; a segment is a sequence of words,     *)
(* the pieces between its '-' and '_' separators.  copy_index keeps what   *)
(* follows the last "/bin/" that str.split finds scanning left to right    *)
(* (matches do not overlap) and replaces '/' and '-' by '_': the result    *)
(* is the words of the kept segments, in order.                            *)
(***************************************************************************)
RECURSIVE LastBinSplit(_, _, _)
LastBinSplit(p, i, last) ==
    IF i >= Len(p) THEN last
    ELSE IF p[i] = <<"bin">> THEN LastBinSplit(p, i + 2, i)
    ELSE LastBinSplit(p, i + 1, last)

scip_index_name(p) == FlattenSeq(SubSeq(p, LastBinSplit(p, 1, 0) + 1, Len(p)))

Names == {scip_index_name(s) : s \in Sources}

(* old_copy_index names its copy the same way                             *)
FastName(p) == scip_index_name(p)

CacheNames == Names \cup {FastName(p) : p \in FastIndexes}

WorkDir == <<"dir", <<"tmp">> >>   \* the entry .scip/tmp of the cache directory

VARIABLES
    srcContent,  \* srcContent[s]: the index the build wrote at s
    srcSha,      \* srcSha[s]: the digest in s.sha256, or NoSha
    idx,         \* idx[n]: the cached index file n, or Absent
    sha,         \* sha[n]: the digest in the cached n.sha256, or Absent
    workDir,     \* .scip/tmp exists
    phase,       \* "idle", "copying" or "deleting"
    batch,       \* index_to_copy of the current run
    status,      \* current_status: cached digests snapshot at run start
    pc,          \* pc[s]: where the worker for s is
    keep,        \* names returned by the workers (files_to_keep)
    pending,     \* files_to_delete not yet removed
    outcome,     \* "none", "completed" or "crashed": how the last run ended
    copied,      \* the current run copied a file
    deleted,     \* the current run deleted an entry the fast path did not write
    lastDone,    \* the batch of the last completed run, if nothing rebuilt
                 \* or crashed since; otherwise {} with resync FALSE
    resync,      \* the current run repeats lastDone over unchanged sources
    killed,      \* history: some copy_index run was killed so far
    fastWrote    \* history: a fast path wrote into dest since the last run began

runVars == <<phase, batch, status, pc, keep, pending>>
histVars == <<outcome, copied, deleted, lastDone, resync, killed, fastWrote>>
vars == <<srcContent, srcSha, idx, sha, workDir, runVars, histVars>>

Files == {<<"idx", n>> : n \in CacheNames} \cup {<<"sha", n>> : n \in CacheNames}
            \cup {WorkDir}

Present(f) ==
    CASE f[1] = "idx" -> idx[f[2]] # Absent
      [] f[1] = "sha" -> sha[f[2]] # Absent
      [] OTHER        -> workDir

(* The entries only the fast path writes                                   *)
FastFiles == {WorkDir} \cup {<<k, FastName(p)>> : k \in {"idx", "sha"}, p \in FastIndexes}

TypeOK ==
    /\ srcContent \in [Sources -> Versions]
    /\ srcSha \in [Sources -> Versions \cup {NoSha}]
    /\ idx \in [CacheNames -> Versions \cup {Absent}]
    /\ sha \in [CacheNames -> Versions \cup {Absent}]
    /\ workDir \in BOOLEAN
    /\ phase \in {"idle", "copying", "deleting"}
    /\ batch \subseteq Sources
    /\ status \in [Names -> Versions \cup {Absent}]
    /\ pc \in [Sources -> {"idle", "start", "copy", "side", "done"}]
    /\ keep \subseteq Names
    /\ pending \subseteq Files
    /\ outcome \in {"none", "completed", "crashed"}
    /\ copied \in BOOLEAN /\ deleted \in BOOLEAN
    /\ lastDone \subseteq Sources /\ resync \in BOOLEAN
    /\ killed \in BOOLEAN
    /\ fastWrote \in BOOLEAN

(* The build writes each index with the digest of what it wrote; a        *)
(* sidecar can be missing.                                                 *)
BuildOutputs ==
    {<<c, d>> \in [Sources -> Versions] \X [Sources -> Versions \cup {NoSha}] :
        \A s \in Sources : d[s] \in {c[s], NoSha}}

Init ==
    /\ \E o \in BuildOutputs : srcContent = o[1] /\ srcSha = o[2]
    /\ idx = [n \in CacheNames |-> Absent]
    /\ sha = [n \in CacheNames |-> Absent]
    /\ workDir = FALSE
    /\ phase = "idle"
    /\ batch = {}
    /\ status = [n \in Names |-> Absent]
    /\ pc = [s \in Sources |-> "idle"]
    /\ keep = {} /\ pending = {}
    /\ outcome = "none"
    /\ copied = FALSE /\ deleted = FALSE
    /\ lastDone = {} /\ resync = FALSE
    /\ killed = FALSE
    /\ fastWrote = FALSE

(* The external build rewrites bazel-out between two syncs.               *)
Build ==
    /\ phase = "idle"
    /\ \E o \in BuildOutputs : srcContent' = o[1] /\ srcSha' = o[2]
    /\ outcome' = "none" /\ lastDone' = {}
    /\ UNCHANGED <<idx, sha, workDir, runVars, copied, deleted,
                   resync, killed, fastWrote>>

(* copy_index(index_to_copy, dest) starts: get_current_status over the    *)
(* .scip files of dest keeps those whose sidecar holds a digest.  Only the *)
(* names of Sources are ever looked up in it.                              *)
StartRun(b) ==
    /\ phase = "idle"
    /\ status' = [n \in Names |-> IF idx[n] # Absent THEN sha[n] ELSE Absent]
    /\ batch' = b
    /\ pc' = [s \in Sources |-> IF s \in b THEN "start" ELSE "idle"]
    /\ phase' = "copying"
    /\ keep' = {} /\ copied' = FALSE /\ deleted' = FALSE
    /\ resync' = (outcome = "completed" /\ lastDone = b)
    /\ fastWrote' = FALSE
    /\ UNCHANGED <<srcContent, srcSha, idx, sha, workDir, pending,
                   outcome, lastDone, killed>>

(* Mutant: an unchanged index is skipped but not returned for keeping.    *)
CheckForgetsKeep(s) ==
    LET n == scip_index_name(s) IN
    /\ pc[s] = "start"
    /\ pc' = [pc EXCEPT ![s] = IF status[n] # Absent /\ status[n] = srcSha[s]
                                THEN "done" ELSE "copy"]
    /\ UNCHANGED <<srcContent, srcSha, idx, sha, workDir, phase, batch,
                   status, keep, pending, histVars>>

(* Mutant: the digest comparison never succeeds; every index is copied.   *)
CheckAlwaysCopies(s) ==
    /\ pc[s] = "start"
    /\ pc' = [pc EXCEPT ![s] = "copy"]
    /\ UNCHANGED <<srcContent, srcSha, idx, sha, workDir, phase, batch,
                   status, keep, pending, histVars>>

(* process_and_copy_scip_index, up to the "copy needed" test.             *)
Check(s) ==
    LET n == scip_index_name(s) IN
    /\ pc[s] = "start"
    /\ IF status[n] # Absent /\ status[n] = srcSha[s]
          THEN pc' = [pc EXCEPT ![s] = "done"] /\ keep' = keep \cup {n}
          ELSE pc' = [pc EXCEPT ![s] = "copy"] /\ keep' = keep
    /\ UNCHANGED <<srcContent, srcSha, idx, sha, workDir, phase, batch,
                   status, pending, histVars>>

(* Mutant: an index already in the cache is not overwritten.             *)
CopyIndexFileNoOverwrite(s) ==
    /\ pc[s] = "copy"
    /\ idx' = [idx EXCEPT ![scip_index_name(s)] = IF @ = Absent THEN srcContent[s] ELSE @]
    /\ pc' = [pc EXCEPT ![s] = "side"]
    /\ copied' = TRUE
    /\ UNCHANGED <<srcContent, srcSha, sha, workDir, phase, batch, status,
                   keep, pending, outcome, deleted, lastDone, resync, killed, fastWrote>>

(* shutil.copy(source_path, dest_index_path)                               *)
CopyIndexFile(s) ==
    /\ pc[s] = "copy"
    /\ idx' = [idx EXCEPT ![scip_index_name(s)] = srcContent[s]]
    /\ pc' = [pc EXCEPT ![s] = "side"]
    /\ copied' = TRUE
    /\ UNCHANGED <<srcContent, srcSha, sha, workDir, phase, batch, status,
                   keep, pending, outcome, deleted, lastDone, resync, killed, fastWrote>>

(* Mutant: a missing sidecar is written to the cache as it was read.      *)
CopySidecarWritesMissing(s) ==
    LET n == scip_index_name(s) IN
    /\ pc[s] = "side"
    /\ pc' = [pc EXCEPT ![s] = "done"]
    /\ sha' = [sha EXCEPT ![n] = srcSha[s]]
    /\ keep' = IF srcSha[s] = NoSha THEN keep ELSE keep \cup {n}
    /\ UNCHANGED <<srcContent, srcSha, idx, workDir, phase, batch, status,
                   pending, histVars>>

(* shutil.copy of the sidecar; a missing one raises, the worker returns    *)
(* None and its name is not kept.                                          *)
CopySidecar(s) ==
    LET n == scip_index_name(s) IN
    /\ pc[s] = "side"
    /\ pc' = [pc EXCEPT ![s] = "done"]
    /\ IF srcSha[s] = NoSha
          THEN UNCHANGED <<sha, keep>>
          ELSE sha' = [sha EXCEPT ![n] = srcSha[s]] /\ keep' = keep \cup {n}
    /\ UNCHANGED <<srcContent, srcSha, idx, workDir, phase, batch, status,
                   pending, histVars>>

(* Mutant: files_to_delete taken over the files of dest only, its          *)
(* directories left out.                                                   *)
ComputeDeletesFilesOnly ==
    /\ phase = "copying"
    /\ \A s \in batch : pc[s] = "done"
    /\ pending' = {f \in Files : Present(f) /\ f # WorkDir /\ f[2] \notin keep}
    /\ phase' = "deleting"
    /\ UNCHANGED <<srcContent, srcSha, idx, sha, workDir, batch, status, pc,
                   keep, histVars>>

(* All workers returned: files_to_delete is every entry of dest minus the  *)
(* kept names and their sidecars (workspace.json and the jdk_temurin       *)
(* indexes, never among the modelled names, are spared).                   *)
ComputeDeletes ==
    /\ phase = "copying"
    /\ \A s \in batch : pc[s] = "done"
    /\ pending' = {f \in Files : Present(f) /\ f[2] \notin keep}
    /\ phase' = "deleting"
    /\ UNCHANGED <<srcContent, srcSha, idx, sha, workDir, batch, status, pc,
                   keep, histVars>>

(* os.remove of one file of files_to_delete, or shutil.rmtree of the work  *)
(* directory with what it holds                                            *)
DeleteFile(f) ==
    /\ phase = "deleting"
    /\ f \in pending
    /\ CASE f[1] = "idx" -> idx' = [idx EXCEPT ![f[2]] = Absent]
                            /\ UNCHANGED <<sha, workDir>>
         [] f[1] = "sha" -> sha' = [sha EXCEPT ![f[2]] = Absent]
                            /\ UNCHANGED <<idx, workDir>>
         [] OTHER        -> workDir' = FALSE /\ UNCHANGED <<idx, sha>>
    /\ pending' = pending \ {f}
    /\ deleted' = (deleted \/ f \notin FastFiles)
    /\ UNCHANGED <<srcContent, srcSha, phase, batch, status, pc, keep,
                   outcome, copied, lastDone, resync, killed, fastWrote>>

(* copy_index returns.                                                     *)
FinishRun ==
    /\ phase = "deleting"
    /\ pending = {}
    /\ phase' = "idle"
    /\ pc' = [s \in Sources |-> "idle"]
    /\ outcome' = "completed"
    /\ lastDone' = batch
    /\ UNCHANGED <<srcContent, srcSha, idx, sha, workDir, batch, status,
                   keep, pending, copied, deleted, resync, killed, fastWrote>>

(* The process is killed; dest keeps whatever was already written.         *)
Crash ==
    /\ CrashOn
    /\ phase # "idle"
    /\ phase' = "idle"
    /\ pc' = [s \in Sources |-> "idle"]
    /\ pending' = {}
    /\ outcome' = "crashed" /\ lastDone' = {}
    /\ killed' = TRUE
    /\ UNCHANGED <<srcContent, srcSha, idx, sha, workDir, batch, status,
                   keep, copied, deleted, resync, fastWrote>>

(***************************************************************************)
(* The fast path                                                           *)
(***************************************************************************)

(* incremental.index_file: safe_create(.scip/tmp), then the aggregator     *)
(* writes the index there or fails (utils.check raises).                   *)
IndexFile == workDir' = TRUE

(* old_copy_index({file_index}, dest): shutil.copy(index, dest_path), then *)
(* the sidecar holding generate_sha256(index), the digest of the copy; a   *)
(* kill between the two leaves the earlier sidecar.                        *)
OldCopyIndex(n, v) ==
    /\ idx' = [idx EXCEPT ![n] = v]
    /\ \/ sha' = [sha EXCEPT ![n] = v]
       \/ CrashOn /\ UNCHANGED sha

(* What the aggregator writes: nothing compares it with anything (no       *)
(* source shares its cache name), so one version stands for all.           *)
FastVersion == CHOOSE v \in Versions : TRUE

(* main --filepath for a file of the workspace: index_file, then           *)
(* old_copy_index of its index; any exception returns from main.  No other *)
(* invocation runs meanwhile, so the whole invocation is one step.         *)
FastPath(p) ==
    /\ phase = "idle"
    /\ IndexFile
    /\ \/ UNCHANGED <<idx, sha>>
       \/ OldCopyIndex(FastName(p), FastVersion)
    /\ fastWrote' = TRUE
    /\ UNCHANGED <<srcContent, srcSha, runVars, outcome, copied, deleted,
                   lastDone, resync, killed>>

Next ==
    \/ Build
    \/ \E b \in SUBSET Sources : StartRun(b)
    \/ \E s \in Sources : Check(s) \/ CopyIndexFile(s) \/ CopySidecar(s)
    \/ ComputeDeletes
    \/ \E f \in Files : DeleteFile(f)
    \/ FinishRun
    \/ Crash
    \/ \E p \in FastIndexes : FastPath(p)

Spec == Init /\ [][Next]_vars

(***************************************************************************)
(* Properties                                                              *)
(***************************************************************************)

(* copy_index returned and no fast path has written into dest since        *)
RunCompleted == phase = "idle" /\ outcome = "completed" /\ ~fastWrote

(* After copy_index returns, the cache holds exactly the indexes of this   *)
(* run that have a sidecar, each with the source's digest beside it, and   *)
(* nothing else: an entry skipped as unchanged survives the eviction, and  *)
(* leftovers of earlier or crashed runs, the fast path's copies and its    *)
(* work directory .scip/tmp are gone (spec 7: the cache heals on the next *)
(* full sync).                                                             *)
CacheMirrorsBatch ==
    RunCompleted =>
        /\ ~workDir
        /\ \A n \in CacheNames :
            LET from == {s \in batch : scip_index_name(s) = n /\ srcSha[s] # NoSha}
            IN  IF from = {}
                THEN idx[n] = Absent /\ sha[n] = Absent
                ELSE idx[n] # Absent /\ sha[n] \in {srcSha[s] : s \in from}

(* Spec 8: a second sync over the same, unchanged, indexes copies nothing  *)
(* (for indexes whose sidecar exists), and deletes nothing but what        *)
(* fast-path invocations wrote into the cache after the first (the first   *)
(* evicted every earlier one).                                             *)
IdempotentResync ==
    (RunCompleted /\ resync /\ \A s \in batch : srcSha[s] # NoSha)
        => ~copied /\ ~deleted

(* After copy_index returns, the digest in every cached sidecar is the     *)
(* digest of the cached index beside it.  The next run's skip decision     *)
(* trusts exactly this.                                                    *)
SidecarDescribesIndex ==
    RunCompleted =>
        \A n \in CacheNames : idx[n] # Absent /\ sha[n] # Absent => sha[n] = idx[n]

(* Only a killed copy_index can break that: until one is killed between    *)
(* its two copies, every completed run leaves each cached sidecar          *)
(* describing its index, whatever builds and fast paths (killed or not)    *)
(* happened in between.                                                    *)
SidecarDescribesIndexUntilKilled ==
    ~killed => SidecarDescribesIndex

=============================================================================
