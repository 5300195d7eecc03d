---------------------------- MODULE ActionGraph ----------------------------
(***************************************************************************)
(* scip_utils._get_all_outputs as get_mnemonic_output runs it: the join of *)
(* the four flat tables of a bazel aquery jsonproto into                   *)
(* target label -> mnemonic -> output paths.                               *)
(*                                                                         *)
(* One task per path fragment runs process_fragment on the pool (RunFrag); *)
(* the main thread takes the futures as they complete and stores their     *)
(* paths in path_dict (CollectFrag).  After the pool, the tables are       *)
(* grouped and the targets cut into batches (Group); one task per batch    *)
(* runs process_target_batch (RunBatch); the results are merged in batch   *)
(* order (Merge).  An exception in any task surfaces in the main thread,   *)
(* and get_mnemonic_output answers {} (phase "failed").                    *)
(*                                                                         *)
(* A path is the sequence of its fragment labels: "/".join with labels    *)
(* that hold no "/".  Fragment ids are positive, as bazel numbers them.    *)
(***************************************************************************)
EXTENDS Integers, SequencesExt

CONSTANTS
    Graphs,      \* the aquery outputs: [frags, artifacts, actions, targets]
    PoolSizes,   \* get_thread_pool_size(): max(1, cpu_count // 2)
    Error,       \* a task raised (KeyError)
    None,        \* process_fragment returned None
    Pending      \* a batch task has not returned

VARIABLES
    g,           \* the parsed aquery output
    max_workers,
    phase,       \* "fragments", "group", "batches", "done" or "failed"
    fut,         \* fut[i]: the future of fragment i: "pending", "ran", "collected"
    fres,        \* fres[i]: what process_fragment(i) returned: None, <<id, path>> or Error
    path_dict,   \* fragment id -> full path
    batches,     \* target_batches
    bres,        \* bres[k]: what process_target_batch(batch k) returned, or Pending
    result       \* what get_mnemonic_output returns

vars == <<g, max_workers, phase, fut, fres, path_dict, batches, bres, result>>

(***************************************************************************)
(* The lookups _get_all_outputs builds (a dict comprehension keeps the     *)
(* last entry of a key)                                                    *)
(***************************************************************************)
LastOf(s, key(_), k) == s[CHOOSE i \in DOMAIN s : key(s[i]) = k /\
                                   \A j \in DOMAIN s : key(s[j]) = k => j <= i]

parent_lookup(G) ==
    LET has == {G.frags[i].id : i \in {i \in DOMAIN G.frags : G.frags[i].parent # 0}}
    IN  [id \in has |-> LastOf(SelectSeq(G.frags, LAMBDA f : f.parent # 0),
                               LAMBDA f : f.id, id).parent]

fragment_labels(G) ==
    [id \in {f.id : f \in ToSet(G.frags)} |-> LastOf(G.frags, LAMBDA f : f.id, id).label]

artifact_dict(G) ==
    [id \in {a.id : a \in ToSet(G.artifacts)} |-> LastOf(G.artifacts, LAMBDA a : a.id, id).frag]

(* while current_id: path_parts.append(fragment_labels[current_id]); ...   *)
(* the walk ends at a fragment with no parent; a label lookup of an id     *)
(* that no fragment has raises KeyError.  Bound is the fragment count.     *)
RECURSIVE Walk(_, _, _, _)
Walk(G, cur, parts, bound) ==
    IF cur = 0 \/ bound = 0 THEN Reverse(parts)
    ELSE IF cur \notin DOMAIN fragment_labels(G) THEN Error
    ELSE Walk(G, IF cur \in DOMAIN parent_lookup(G) THEN parent_lookup(G)[cur] ELSE 0,
              Append(parts, fragment_labels(G)[cur]), bound - 1)

process_fragment(G, i, pd) ==
    LET fid == G.frags[i].id IN
    IF fid \in DOMAIN pd THEN None
    ELSE LET p == Walk(G, fid, <<>>, Len(G.frags)) IN
         IF p = Error THEN Error ELSE <<fid, p>>

(* target_output_dict[target_id][mnemonic]: the outputIds of its actions,  *)
(* in action order                                                         *)
Mnemonics(G, tid) == {a.mnemonic : a \in {a \in ToSet(G.actions) : a.target = tid}}

OutputIds(G, tid, m) ==
    FlattenSeq([k \in DOMAIN G.actions |->
        IF G.actions[k].target = tid /\ G.actions[k].mnemonic = m
        THEN G.actions[k].outs ELSE <<>>])

(* Mutant: the number of batches rounded down, the last short one lost.  *)
target_batches_floor(ts, w) ==
    LET bs == IF Len(ts) \div (w * 2) > 1 THEN Len(ts) \div (w * 2) ELSE 1
    IN  [k \in 1..(Len(ts) \div bs) |-> SubSeq(ts, (k - 1) * bs + 1, k * bs)]

(* batch_size = max(1, len(targets) // (max_workers * 2)); the slices      *)
(* targets[i : i + batch_size] for i in range(0, len(targets), batch_size) *)
target_batches(ts, w) ==
    LET bs == IF Len(ts) \div (w * 2) > 1 THEN Len(ts) \div (w * 2) ELSE 1
        n  == (Len(ts) + bs - 1) \div bs
        hi(k) == IF k * bs < Len(ts) THEN k * bs ELSE Len(ts)
    IN  [k \in 1..n |-> SubSeq(ts, (k - 1) * bs + 1, hi(k))]

(* the paths of one target and mnemonic: output ids missing from the       *)
(* artifact table are skipped; path_dict[artifact_dict[oid]] raises when   *)
(* the artifact's fragment has no path                                     *)
OutputPaths(G, pd, tid, m) ==
    LET ad == artifact_dict(G)
        valid == SelectSeq(OutputIds(G, tid, m), LAMBDA oid : oid \in DOMAIN ad)
    IN  IF \E k \in DOMAIN valid : ad[valid[k]] \notin DOMAIN pd THEN Error
        ELSE [k \in DOMAIN valid |-> pd[ad[valid[k]]]]

(* target_results: the mnemonics with a non-empty path list               *)
TargetResults(G, pd, tid) ==
    LET ps == [m \in Mnemonics(G, tid) |-> OutputPaths(G, pd, tid, m)] IN
    IF \E m \in DOMAIN ps : ps[m] = Error THEN Error
    ELSE [m \in {m \in DOMAIN ps : ps[m] # <<>>} |-> ps[m]]

(* batch_results[target_label] = target_results for each target with     *)
(* results: a later target of the same label replaces an earlier one       *)
process_target_batch(G, pd, tb) ==
    LET Step(acc, t) ==
            LET r == TargetResults(G, pd, t.id) IN
            IF acc = Error \/ r = Error THEN Error
            ELSE IF DOMAIN r = {} THEN acc
            ELSE (t.label :> r) @@ acc
    IN  FoldLeft(Step, [l \in {} |-> 0], tb)

(* final_results: labels and mnemonics of every batch, path lists extended *)
MergeInto(final, br) ==
    [l \in DOMAIN final \cup DOMAIN br |->
        IF l \notin DOMAIN br THEN final[l]
        ELSE IF l \notin DOMAIN final THEN br[l]
        ELSE [m \in DOMAIN final[l] \cup DOMAIN br[l] |->
                (IF m \in DOMAIN final[l] THEN final[l][m] ELSE <<>>)
                \o (IF m \in DOMAIN br[l] THEN br[l][m] ELSE <<>>)]]

merge_batches(brs) == FoldLeft(MergeInto, [l \in {} |-> 0], brs)

(***************************************************************************)
(* The steps                                                               *)
(***************************************************************************)
Init ==
    /\ g \in Graphs
    /\ max_workers \in PoolSizes
    /\ phase = "fragments"
    /\ fut = [i \in DOMAIN g.frags |-> "pending"]
    /\ fres = [i \in DOMAIN g.frags |-> None]
    /\ path_dict = [id \in {} |-> 0]
    /\ batches = <<>> /\ bres = <<>>
    /\ result = [l \in {} |-> 0]

(* a pool thread runs process_fragment, reading path_dict as it is now     *)
RunFrag(i) ==
    /\ phase = "fragments" /\ fut[i] = "pending"
    /\ fut' = [fut EXCEPT ![i] = "ran"]
    /\ fres' = [fres EXCEPT ![i] = process_fragment(g, i, path_dict)]
    /\ UNCHANGED <<g, max_workers, phase, path_dict, batches, bres, result>>

(* Mutant: path_dict is keyed by the fragment's position, not its id.    *)
CollectFragByPosition(i) ==
    /\ phase = "fragments" /\ fut[i] = "ran"
    /\ fut' = [fut EXCEPT ![i] = "collected"]
    /\ IF fres[i] = Error
          THEN phase' = "failed" /\ result' = [l \in {} |-> 0] /\ UNCHANGED path_dict
          ELSE /\ path_dict' = IF fres[i] = None THEN path_dict
                               ELSE (i :> fres[i][2]) @@ path_dict
               /\ UNCHANGED <<phase, result>>
    /\ UNCHANGED <<g, max_workers, fres, batches, bres>>

(* for future in as_completed(...): result = future.result(); if result:   *)
(* path_dict[fragment_id] = path.  A raised KeyError leaves the with block *)
(* and get_mnemonic_output's except answers {}.                            *)
CollectFrag(i) ==
    /\ phase = "fragments" /\ fut[i] = "ran"
    /\ fut' = [fut EXCEPT ![i] = "collected"]
    /\ IF fres[i] = Error
          THEN phase' = "failed" /\ result' = [l \in {} |-> 0] /\ UNCHANGED path_dict
          ELSE /\ path_dict' = IF fres[i] = None THEN path_dict
                               ELSE (fres[i][1] :> fres[i][2]) @@ path_dict
               /\ UNCHANGED <<phase, result>>
    /\ UNCHANGED <<g, max_workers, fres, batches, bres>>

(* artifact_dict, target_output_dict and target_batches                   *)
Group ==
    /\ phase = "fragments" /\ \A i \in DOMAIN fut : fut[i] = "collected"
    /\ batches' = target_batches(g.targets, max_workers)
    /\ bres' = [k \in DOMAIN batches' |-> Pending]
    /\ phase' = "batches"
    /\ UNCHANGED <<g, max_workers, fut, fres, path_dict, result>>

(* a pool thread runs process_target_batch on batch k                      *)
RunBatch(k) ==
    /\ phase = "batches" /\ bres[k] = Pending
    /\ bres' = [bres EXCEPT ![k] = process_target_batch(g, path_dict, batches[k])]
    /\ UNCHANGED <<g, max_workers, phase, fut, fres, path_dict, batches, result>>

(* list(executor.map(...)) re-raises the first failed batch; otherwise    *)
(* the batch results are merged in batch order                             *)
Merge ==
    /\ phase = "batches" /\ \A k \in DOMAIN bres : bres[k] # Pending
    /\ IF \E k \in DOMAIN bres : bres[k] = Error
          THEN phase' = "failed" /\ result' = [l \in {} |-> 0]
          ELSE phase' = "done" /\ result' = merge_batches(bres)
    /\ UNCHANGED <<g, max_workers, fut, fres, path_dict, batches, bres>>

Next ==
    \/ \E i \in DOMAIN g.frags : RunFrag(i) \/ CollectFrag(i)
    \/ Group
    \/ \E k \in DOMAIN bres : RunBatch(k)
    \/ Merge

(* the pools run every submitted task; the main thread waits for them     *)
Spec == Init /\ [][Next]_vars /\ WF_vars(Next)

(***************************************************************************)
(* Properties                                                              *)
(***************************************************************************)
TypeOK ==
    /\ g \in Graphs /\ max_workers \in PoolSizes
    /\ phase \in {"fragments", "batches", "done", "failed"}
    /\ fut \in [DOMAIN g.frags -> {"pending", "ran", "collected"}]
    /\ \A id \in DOMAIN path_dict : id \in {f.id : f \in ToSet(g.frags)}

(* Reference (spec 4.3, 7): the full path of a fragment, walked over the   *)
(* whole table, or Error when its chain names a fragment that is missing.  *)
FullPath(G, fid) == Walk(G, fid, <<>>, Len(G.frags))

(* the paths of label l and mnemonic m: for every target of that label in *)
(* table order, its outputs of that mnemonic whose artifact and fragment   *)
(* chain exist; output data that is missing is left out.                   *)
JoinPaths(G, l, m) ==
    LET ad == artifact_dict(G)
        Of(t) == LET ids == SelectSeq(OutputIds(G, t.id, m),
                                      LAMBDA oid : oid \in DOMAIN ad
                                                   /\ FullPath(G, ad[oid]) # Error)
                 IN  [k \in DOMAIN ids |-> FullPath(G, ad[ids[k]])]
    IN  FlattenSeq([k \in DOMAIN G.targets |->
                      IF G.targets[k].label = l THEN Of(G.targets[k]) ELSE <<>>])

ExpectedJoin(G) ==
    LET ms(l) == {m \in UNION {Mnemonics(G, t.id) : t \in {t \in ToSet(G.targets) : t.label = l}} :
                    JoinPaths(G, l, m) # <<>>}
        ls == {l \in {t.label : t \in ToSet(G.targets)} : ms(l) # {}}
    IN  [l \in ls |-> [m \in ms(l) |-> JoinPaths(G, l, m)]]

(* Spec 4.3, 5 and 7: whatever order the fragment and batch tasks finish   *)
(* in and however many workers the pool has, get_mnemonic_output returns   *)
(* the join of the four tables: every label's paths per mnemonic,          *)
(* concatenated across all of its targets, with only the output data that  *)
(* is missing left out.                                                    *)
OutputsMatchJoin == phase \in {"done", "failed"} => result = ExpectedJoin(g)

=============================================================================
