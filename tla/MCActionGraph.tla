--------------------------- MODULE MCActionGraph ---------------------------
EXTENDS ActionGraph

F(id, l, p) == [id |-> id, label |-> l, parent |-> p]
A(id, f) == [id |-> id, frag |-> f]
Act(t, m, o) == [target |-> t, mnemonic |-> m, outs |-> o]
T(id, l) == [id |-> id, label |-> l]

(* bazel-out/bin/{a.scip, b.scip, a_options}; fragment 2 listed twice    *)
Frags == <<F(1, "bazel-out", 0), F(2, "bin", 1), F(3, "a.scip", 2),
           F(2, "bin", 1), F(4, "b.scip", 2), F(5, "a_options", 2)>>
Arts == <<A(10, 3), A(11, 4), A(12, 5)>>
(* output 99 has no artifact entry                                        *)
Acts == <<Act(1, "scipMutation", <<10>>), Act(1, "TemplateExpand", <<12, 99>>),
          Act(2, "scipMutation", <<11>>), Act(4, "scipMutation", <<11>>)>>

(* five targets, each label once as aquery lists them; //c and //e have   *)
(* no actions, //d shares b.scip; one pool cuts [//c //e] [//a //b] [//d] *)
Resolvable == [frags |-> Frags, artifacts |-> Arts, actions |-> Acts,
               targets |-> <<T(3, "//c"), T(5, "//e"), T(1, "//a"), T(2, "//b"),
                             T(4, "//d")>>]

MCResolvable == {Resolvable}
MCPoolSizes == {1, 2}
=============================================================================
