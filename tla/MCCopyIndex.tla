---------------------------- MODULE MCCopyIndex ----------------------------
(* Paths are those of os.path.join(cwd, index) with cwd = /ws.            *)
EXTENDS CopyIndex

\* /ws/bazel-out/k8-fastbuild/bin/app/lib.scip
PathApp == << <<"ws">>, <<"bazel", "out">>, <<"k8", "fastbuild">>, <<"bin">>,
              <<"app">>, <<"lib.scip">> >>
\* /ws/bazel-out/k8-fastbuild/bin/lib.scip
PathRoot == << <<"ws">>, <<"bazel", "out">>, <<"k8", "fastbuild">>, <<"bin">>,
               <<"lib.scip">> >>
\* /ws/bazel-out/k8-fastbuild/bin/tools/bin/lib.scip: a package named bin
PathToolsBin == << <<"ws">>, <<"bazel", "out">>, <<"k8", "fastbuild">>, <<"bin">>,
                   <<"tools">>, <<"bin">>, <<"lib.scip">> >>

\* two indexes with distinct cache names
MCDistinct == {PathApp, PathRoot}
\* two indexes that both become lib.scip in the cache
MCColliding == {PathRoot, PathToolsBin}

\* /ws/.scip/tmp/src_A_java.scip: what index_file writes for src/A.java;
\* old_copy_index names its copy ws_.scip_tmp_src_A_java.scip (the leading
\* '_' of the absolute path is left out: no name of Sources starts with it)
PathFast == << <<"ws">>, <<".scip">>, <<"tmp">>, <<"src", "A", "java.scip">> >>

MCFast == {PathFast}
MCNoFast == {}

MCVersions == {1, 2}
=============================================================================
