-------------------------- MODULE DependencyGraph --------------------------
(***************************************************************************)
(* The buildable closure of scip_sync.get_dependency_graph in deps mode:   *)
(* the bazel query deps(seeds, depth) over the build graph (Query), its    *)
(* transform_bazel_query_results, then scip_utils.dfs from every seed      *)
(* present in the result, run as the Python call stack it is: one frame    *)
(* per recursive call, one action per statement that changes state.  The   *)
(* interpreter's recursion limit is MaxFrames; a call beyond it raises     *)
(* RecursionError (phase "overflow").                                      *)
(*                                                                         *)
(* dfs returns a list that callers only ever union into a set, so the      *)
(* result is one set every frame adds to.  Lists of labels are sequences   *)
(* in a fixed order; the order changes nothing the result depends on.      *)
(*                                                                         *)
(* A label or target pattern is the sequence of its characters, except     *)
(* that "..." is one token: the masks and Bazel's patterns compare labels   *)
(* character by character.                                                 *)
(***************************************************************************)
EXTENDS Integers, SequencesExt

CONSTANTS
    Universes,   \* build graphs: label -> [ruleInput, exports] (sets of labels)
    External,    \* labels of external repositories (prefix "@")
    SeedSets,    \* the targets main passes: labels and "//p/..." patterns
    Depths,      \* the --depth values
    Excludes,    \* the exclude_targets sets: labels and patterns
    MaxFrames,   \* Python's recursion limit, scaled to the model
    QueryFaults  \* whether bazel query may fail or emit lines json rejects

ASSUME MaxFrames \in Nat \ {0} /\ Depths \subseteq Nat /\ QueryFaults \in BOOLEAN

VARIABLES
    universe,    \* the build graph the query runs over
    seeds,       \* targets
    depth,       \* depth
    excl,        \* exclude_targets
    dep_graph,   \* transform_bazel_query_results(query_result)
    todoSeeds,   \* sanitized targets whose dfs has not run yet
    stack,       \* the dfs call stack, innermost frame last
    result,      \* the union of everything the dfs calls returned
    phase        \* "query", "running", "done" or "overflow"

vars == <<universe, seeds, depth, excl, dep_graph, todoSeeds, stack, result, phase>>

(***************************************************************************)
(* Target patterns and the regular-expression masks                        *)
(***************************************************************************)
Wildcard == <<"/", "...">>

(* Bazel's meaning of a pattern: "//p/..." names every rule of package p   *)
(* and of the packages below it, any other pattern names itself.           *)
Named(t, n) ==
    IF IsSuffix(Wildcard, t)
    THEN LET p == SubSeq(t, 1, Len(t) - 2)
         IN  p = <<"/", "/">> \/ IsPrefix(p \o <<":">>, n) \/ IsPrefix(p \o <<"/">>, n)
    ELSE n = t

Expand(S, patterns) == {n \in S : \E t \in patterns : Named(t, n)}

(* str.replace(old, ""): every occurrence, left to right *)
RECURSIVE Replace(_, _)
Replace(t, old) ==
    IF Len(t) < Len(old) THEN t
    ELSE IF SubSeq(t, 1, Len(old)) = old THEN Replace(SubSeq(t, Len(old) + 1, Len(t)), old)
    ELSE <<Head(t)>> \o Replace(Tail(t), old)

(* Mutant: the pattern is used as it is, "/..." and all *)
MasksLiteral(targets) == {[text |-> t, whole |-> TRUE] : t \in targets}

(* "^" + t.replace("/...", "") for a pattern, "^" + t + "$" otherwise: a   *)
(* mask matches a prefix of the label, or (whole) all of it.               *)
Masks(targets) ==
    {IF IsSuffix(Wildcard, t) THEN [text |-> Replace(t, Wildcard), whole |-> FALSE]
                              ELSE [text |-> t, whole |-> TRUE] : t \in targets}

(* re.search of an anchored mask; labels hold no other regex syntax *)
filter_list_by_regex(items, masks) ==
    {x \in items : \E m \in masks : IF m.whole THEN x = m.text ELSE IsPrefix(m.text, x)}

(***************************************************************************)
(* The query and the graph transform                                       *)
(***************************************************************************)

(* deps("t1" + ..., depth) filtered by kind: every rule within depth       *)
(* ruleInput hops of a seed.                                               *)
RECURSIVE Within(_, _, _)
Within(U, from, d) ==
    IF d = 0 THEN from
    ELSE Within(U, from \cup UNION {U[n].ruleInput \cap DOMAIN U : n \in from}, d - 1)

execute_query(U, targets, d) == [n \in Within(U, Expand(DOMAIN U, targets), d) |-> U[n]]

(* The outputs execute_query returns for the answer qr of a query: the     *)
(* lines stream_output yields are appended; with soft_fail the return code *)
(* is ignored, and "finally: continue" skips a line json.loads rejects (the*)
(* error tuple's None line among them).  A failed, cut short or garbled    *)
(* stream thus leaves any part of the answer, rule by rule.                *)
QueryOutputs(qr) ==
    IF QueryFaults THEN {[n \in R |-> qr[n]] : R \in SUBSET DOMAIN qr} ELSE {qr}

transform_bazel_query_results(qr) ==
    [n \in DOMAIN qr |->
        [direct_deps |-> SetToSeq({dep \in qr[n].ruleInput :
                                     dep \notin External /\ dep \in DOMAIN qr}),
         exports |-> SetToSeq(qr[n].exports)]]

(***************************************************************************)
(* dfs frames                                                              *)
(***************************************************************************)
Frame(node, d) == [node |-> node, depth |-> d, pc |-> "enter", todo |-> <<>>]

Top == stack[Len(stack)]

SetTop(f) == stack' = [stack EXCEPT ![Len(stack)] = f]

Pop == stack' = Front(stack)

(* Mutant: the recursive call passes depth instead of depth - 1.          *)
CallSameDepth(top, node) ==
    IF Len(stack) >= MaxFrames
    THEN phase' = "overflow" /\ UNCHANGED stack
    ELSE stack' = Append([stack EXCEPT ![Len(stack)] = top], Frame(node, top.depth))
         /\ UNCHANGED phase

(* a recursive call: result.extend(dfs(dep_graph, dep, depth - 1))        *)
Call(top, node) ==
    IF Len(stack) >= MaxFrames
    THEN phase' = "overflow" /\ UNCHANGED stack
    ELSE stack' = Append([stack EXCEPT ![Len(stack)] = top], Frame(node, top.depth - 1))
         /\ UNCHANGED phase

TypeOK ==
    /\ phase \in {"query", "running", "done", "overflow"}
    /\ depth \in Depths /\ seeds \in SeedSets /\ excl \in Excludes
    /\ todoSeeds \subseteq DOMAIN universe
    /\ stack \in Seq([node: DOMAIN universe \cup External, depth: Int,
                      pc: {"enter", "exports", "deps"},
                      todo: Seq(DOMAIN universe \cup External)])
    /\ result \subseteq DOMAIN universe \cup External

Init ==
    /\ universe \in Universes
    /\ seeds \in SeedSets
    /\ depth \in Depths
    /\ excl \in Excludes
    /\ dep_graph = [n \in {} |-> 0]
    /\ todoSeeds = {} /\ stack = <<>> /\ result = {}
    /\ phase = "query"

(* get_dependency_graph up to the dfs loop: the query, the transform, the  *)
(* masks and sanitized_targets, the keys of dep_graph a mask matches.      *)
Query ==
    /\ phase = "query"
    /\ \E out \in QueryOutputs(execute_query(universe, seeds, depth)) :
           dep_graph' = transform_bazel_query_results(out)
    /\ todoSeeds' = filter_list_by_regex(DOMAIN dep_graph', Masks(seeds))
    /\ phase' = "running"
    /\ UNCHANGED <<universe, seeds, depth, excl, stack, result>>

(* for target in sanitized_targets: result.update(dfs(dep_graph, target,  *)
(* depth))                                                                 *)
StartSeed ==
    /\ phase = "running" /\ stack = <<>> /\ todoSeeds # {}
    /\ LET t == CHOOSE t \in todoSeeds : TRUE IN
         /\ stack' = <<Frame(t, depth)>>
         /\ todoSeeds' = todoSeeds \ {t}
    /\ UNCHANGED <<universe, seeds, depth, excl, dep_graph, result, phase>>

(* if target not in dep_graph: return result                               *)
DfsEnter ==
    /\ phase = "running" /\ stack # <<>> /\ Top.pc = "enter"
    /\ IF Top.node \in DOMAIN dep_graph
          THEN SetTop([Top EXCEPT !.pc = "exports", !.todo = dep_graph[Top.node].exports])
          ELSE Pop
    /\ UNCHANGED <<universe, seeds, depth, excl, dep_graph, todoSeeds, result, phase>>

(* for exported_dep in exports: append it, recurse with depth - 1          *)
DfsExport ==
    /\ phase = "running" /\ stack # <<>> /\ Top.pc = "exports" /\ Top.todo # <<>>
    /\ result' = result \cup {Head(Top.todo)}
    /\ Call([Top EXCEPT !.todo = Tail(@)], Head(Top.todo))
    /\ UNCHANGED <<universe, seeds, depth, excl, dep_graph, todoSeeds>>

(* Mutant: the depth == 0 return comes before the target is added.        *)
DfsSelfStopsFirst ==
    /\ phase = "running" /\ stack # <<>> /\ Top.pc = "exports" /\ Top.todo = <<>>
    /\ IF Top.depth <= 0
          THEN Pop /\ UNCHANGED result
          ELSE /\ result' = result \cup {Top.node}
               /\ SetTop([Top EXCEPT !.pc = "deps", !.todo = dep_graph[Top.node].direct_deps])
    /\ UNCHANGED <<universe, seeds, depth, excl, dep_graph, todoSeeds, phase>>

(* if depth < 0: return; add target; if depth == 0: return                 *)
DfsSelf ==
    /\ phase = "running" /\ stack # <<>> /\ Top.pc = "exports" /\ Top.todo = <<>>
    /\ IF Top.depth < 0
          THEN Pop /\ UNCHANGED result
          ELSE /\ result' = result \cup {Top.node}
               /\ IF Top.depth = 0 THEN Pop
                  ELSE SetTop([Top EXCEPT !.pc = "deps",
                                          !.todo = dep_graph[Top.node].direct_deps])
    /\ UNCHANGED <<universe, seeds, depth, excl, dep_graph, todoSeeds, phase>>

(* for dep in direct_deps: append it, recurse with depth - 1               *)
DfsDirectDep ==
    /\ phase = "running" /\ stack # <<>> /\ Top.pc = "deps" /\ Top.todo # <<>>
    /\ result' = result \cup {Head(Top.todo)}
    /\ Call([Top EXCEPT !.todo = Tail(@)], Head(Top.todo))
    /\ UNCHANGED <<universe, seeds, depth, excl, dep_graph, todoSeeds>>

(* return result                                                           *)
DfsReturn ==
    /\ phase = "running" /\ stack # <<>> /\ Top.pc = "deps" /\ Top.todo = <<>>
    /\ Pop
    /\ UNCHANGED <<universe, seeds, depth, excl, dep_graph, todoSeeds, result, phase>>

(* result = result.difference(filter_list_by_regex(result, exclude_masks)) *)
Finish ==
    /\ phase = "running" /\ stack = <<>> /\ todoSeeds = {}
    /\ result' = result \ filter_list_by_regex(result, Masks(excl))
    /\ phase' = "done"
    /\ UNCHANGED <<universe, seeds, depth, excl, dep_graph, todoSeeds, stack>>

Next ==
    \/ Query \/ StartSeed
    \/ DfsEnter \/ DfsExport \/ DfsSelf \/ DfsDirectDep \/ DfsReturn
    \/ Finish

(* dfs is ordinary sequential code: once called it keeps running.        *)
Spec == Init /\ [][Next]_vars /\ WF_vars(Next)

(***************************************************************************)
(* Reference: the closure as reachability with a budget.  A label is in    *)
(* the closure of seeds at depth D when a walk from a seed reaches it in   *)
(* which every direct-dependency edge is among the first D edges; export   *)
(* edges may come anywhere.  Edges leave only labels of the graph.         *)
(* Pairs <<label, edges walked>> cap the count at D + 1.                   *)
(***************************************************************************)
Successors(G, D, p) ==
    IF p[1] \notin DOMAIN G THEN {}
    ELSE {<<e, IF p[2] > D THEN p[2] ELSE p[2] + 1>> : e \in ToSet(G[p[1]].exports)}
         \cup (IF p[2] < D THEN {<<c, p[2] + 1>> : c \in ToSet(G[p[1]].direct_deps)}
               ELSE {})

RECURSIVE Walks(_, _, _)
Walks(G, D, S) ==
    LET S2 == S \cup UNION {Successors(G, D, p) : p \in S}
    IN  IF S2 = S THEN S ELSE Walks(G, D, S2)

BudgetedReach(G, from, D) == {p[1] : p \in Walks(G, D, {<<s, 0>> : s \in from})}

(* When get_dependency_graph returns, its result is the budgeted           *)
(* reachability closure, over the graph the query returned, of the rules   *)
(* the target patterns name, less the rules the exclude patterns name, in  *)
(* Bazel's meaning of "//p/...": dfs's interleaving of export and depth    *)
(* checks, its depth-0 stop and depth < 0 cut, and the regex masks that    *)
(* stand for the patterns all agree with it.                               *)
DfsMatchesReference ==
    phase = "done" =>
        LET closure == BudgetedReach(dep_graph, Expand(DOMAIN dep_graph, seeds), depth)
        IN  result = closure \ Expand(closure, excl)

(* Spec 4.2 and 8: the closure is the budgeted reachability over the whole *)
(* build graph, from the rules the masks match, less those an exclude mask *)
(* matches; at depth 0 it is the seeds and their transitive exports.       *)
SpecGraph(U) ==
    [n \in DOMAIN U |->
        [direct_deps |-> SetToSeq((U[n].ruleInput \cap DOMAIN U) \ External),
         exports |-> SetToSeq(U[n].exports)]]

ClosureMatchesSpec ==
    phase = "done" =>
        LET closure == BudgetedReach(SpecGraph(universe),
                                     filter_list_by_regex(DOMAIN universe, Masks(seeds)), depth)
        IN  result = closure \ filter_list_by_regex(closure, Masks(excl))

(* get_dependency_graph returns: dfs reaches its end for every seed rather *)
(* than recursing until RecursionError.                                    *)
DfsTerminates == <>(phase = "done")

=============================================================================
