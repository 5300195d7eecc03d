---------------------------- MODULE BazelProject ----------------------------
(***************************************************************************)
(* How a full sync without arguments finds its targets:                    *)
(* scip_sync.fetch_targets_from_bazelproject reads .ijwb/.bazelproject     *)
(* with scip_utils.parse_bazelproject (one ParseLine step per line, the    *)
(* loop of the code) and then splits the sections into targets and        *)
(* excludes (Fetch).  An exception anywhere is caught by fetch's except:   *)
(* it answers (set(), set()) (phase "failed").                             *)
(*                                                                         *)
(* A line is a sequence of tokens: the characters the code looks at        *)
(* ("/", ":", "-", "#", ".", " ") are tokens of their own; a word           *)
(* (a section name, a package name, "...", "true") is one token.          *)
(***************************************************************************)
EXTENDS Naturals, SequencesExt

CONSTANTS
    Files        \* the .bazelproject contents: sequences of lines

TARGETS == <<"targets">>
DIRECTORIES == <<"directories">>
DERIVE_TARGETS_FROM_DIRECTORIES == <<"derive_targets_from_directories">>

VARIABLES
    lines,       \* the file being read
    i,           \* the next line
    data,        \* section key -> values
    last_key,
    phase,       \* "parsing", "fetching", "done" or "failed"
    targets,
    excludes

vars == <<lines, i, data, last_key, phase, targets, excludes>>

(* str.strip() *)
Strip(s) ==
    LET first == SelectInSeq(s, LAMBDA c : c # " ")
        last  == SelectLastInSeq(s, LAMBDA c : c # " ")
    IN  IF first = 0 THEN <<>> ELSE SubSeq(s, first, last)

(* str.rstrip("/") *)
RStripSlash(s) ==
    LET last == SelectLastInSeq(s, LAMBDA c : c # "/") IN SubSeq(s, 1, last)

StartsWith(s, p) == IsPrefix(p, s)

(* Mutant: the label check forgotten, so "//a:b" splits at its ':' *)
GetKeyValueNoLabelCheck(line) ==
    LET l == Strip(line)
        c == SelectInSeq(l, LAMBDA t : t = ":")
    IN  IF c = 0 THEN <<<<>>, l>>
        ELSE <<Strip(SubSeq(l, 1, c - 1)), Strip(SubSeq(l, c + 1, Len(l)))>>

(* _get_key_value: a label is a value; otherwise a ':' splits key from    *)
(* value (str.partition at the first ':')                                  *)
_get_key_value(line) ==
    LET l == Strip(line)
        c == SelectInSeq(l, LAMBDA t : t = ":")
    IN  IF StartsWith(l, <<"/", "/">>) THEN <<<<>>, l>>
        ELSE IF c = 0 THEN <<<<>>, l>>
        ELSE <<Strip(SubSeq(l, 1, c - 1)), Strip(SubSeq(l, c + 1, Len(l)))>>

(* Mutant: the '-' left on the exclude *)
RemoveDashKept(t) == t

(* t[1:], the '-' removed from the start of an exclude *)
RemoveDash(t) == Tail(t)

(* _should_exclude_path *)
_should_exclude_path(p) == StartsWith(p, <<"-">>)

(* convert_directories_to_targets: "//dir/..." for every directory but "." *)
convert_directories_to_targets(ds) ==
    LET d(k) == RStripSlash(Strip(ds[k])) IN
    {<<"/", "/">> \o d(k) \o <<"/", "...">> : k \in {k \in DOMAIN ds : d(k) # <<".">>}}

Section(key) == IF key \in DOMAIN data THEN data[key] ELSE <<>>

TypeOK ==
    /\ lines \in Files
    /\ i \in 1..(Len(lines) + 1)
    /\ phase \in {"parsing", "fetching", "done", "failed"}
    /\ \A k \in DOMAIN data : data[k] \in Seq(Seq(STRING))
    /\ targets \subseteq Seq(STRING) /\ excludes \subseteq Seq(STRING)

Init ==
    /\ lines \in Files
    /\ i = 1
    /\ data = [k \in {} |-> <<>>]
    /\ last_key = <<>>
    /\ phase = "parsing"
    /\ targets = {} /\ excludes = {}

(* One iteration of parse_bazelproject's loop.  A value before any key    *)
(* indexes data[""], which raises KeyError.                                *)
ParseLine ==
    /\ phase = "parsing" /\ i <= Len(lines)
    /\ i' = i + 1
    /\ LET line == Strip(lines[i])
           kv == _get_key_value(line)
           key == kv[1]
           value == kv[2]
           d1 == IF key # <<>> THEN (key :> <<>>) @@ data ELSE data
           lk == IF key # <<>> THEN key ELSE last_key
       IN  IF line = <<>> \/ StartsWith(line, <<"#">>)
           THEN UNCHANGED <<data, last_key, phase>>
           ELSE IF value # <<>> /\ lk \notin DOMAIN d1
           THEN phase' = "failed" /\ UNCHANGED <<data, last_key>>
           ELSE /\ data' = IF value # <<>> THEN [d1 EXCEPT ![lk] = Append(@, value)] ELSE d1
                /\ last_key' = lk
                /\ UNCHANGED phase
    /\ UNCHANGED <<lines, targets, excludes>>

EndOfFile ==
    /\ phase = "parsing" /\ i > Len(lines)
    /\ phase' = "fetching"
    /\ UNCHANGED <<lines, i, data, last_key, targets, excludes>>

(* fetch_targets_from_bazelproject after the parse: "-" entries of the    *)
(* targets and directories sections are excludes; directories count only  *)
(* when derive_targets_from_directories is "true" (lower-cased); an empty  *)
(* derive section raises IndexError.                                       *)
Fetch ==
    /\ phase = "fetching"
    /\ LET ts == Section(TARGETS)
           tex == {k \in DOMAIN ts : _should_exclude_path(ts[k])}
           derive == Section(DERIVE_TARGETS_FROM_DIRECTORIES)
           ds == Section(DIRECTORIES)
           dex == SelectSeq(ds, _should_exclude_path)
           dinc == SelectSeq(ds, LAMBDA x : ~_should_exclude_path(x))
           on == DIRECTORIES \in DOMAIN data /\ derive # <<>>
                 /\ derive[1] \in {<<"true">>, <<"True">>, <<"TRUE">>}
       IN  IF DERIVE_TARGETS_FROM_DIRECTORIES \in DOMAIN data /\ derive = <<>>
           THEN phase' = "failed" /\ UNCHANGED <<targets, excludes>>
           ELSE /\ targets' = {ts[k] : k \in DOMAIN ts \ tex}
                              \cup (IF on THEN convert_directories_to_targets(dinc) ELSE {})
                /\ excludes' = {RemoveDash(ts[k]) : k \in tex}
                               \cup (IF on THEN convert_directories_to_targets(
                                                  [k \in DOMAIN dex |-> RemoveDash(dex[k])])
                                     ELSE {})
                /\ phase' = "done"
    /\ UNCHANGED <<lines, i, data, last_key>>

Next == ParseLine \/ EndOfFile \/ Fetch

Spec == Init /\ [][Next]_vars /\ WF_vars(Next)

(***************************************************************************)
(* Reference: the .bazelproject format.  A section header is a line that   *)
(* starts with a section name (a word: not a label, a '-', a '#' or a '.') *)
(* and a ':', whether or not fetch reads that section.  The rest of the    *)
(* header line, if any, and every later line up to the next header that is *)
(* neither blank nor a comment are the section's entries.  An entry of     *)
(* targets or directories starting with '-' excludes what follows it.      *)
(***************************************************************************)
NotSectionNames == {"/", ":", "-", "#", ".", "...", " "}

IsHeader(l) == LET s == Strip(l) IN Len(s) >= 2 /\ s[1] \notin NotSectionNames /\ s[2] = ":"

IsEntry(l) == LET s == Strip(l) IN s # <<>> /\ ~StartsWith(s, <<"#">>) /\ ~IsHeader(l)

(* The index of the header line k belongs to, 0 before any header *)
Owner(ls, k) == SelectLastInSeq(SubSeq(ls, 1, k), IsHeader)

Entries(ls, name) ==
    LET hs == {h \in DOMAIN ls : IsHeader(ls[h]) /\ Strip(ls[h])[1] = name}
        inline(h) == Strip(SubSeq(Strip(ls[h]), 3, Len(Strip(ls[h]))))
        own == SelectSeq([k \in DOMAIN ls |-> k],
                   LAMBDA k : \/ k \in hs /\ inline(k) # <<>>
                              \/ IsEntry(ls[k]) /\ Owner(ls, k) \in hs)
    IN  [j \in DOMAIN own |-> IF own[j] \in hs THEN inline(own[j]) ELSE Strip(ls[own[j]])]

(* A file of the format: every entry line comes after some header *)
WellFormed(ls) == \A k \in DOMAIN ls : IsEntry(ls[k]) => Owner(ls, k) # 0

RefSelection(ls) ==
    LET ts == Entries(ls, TARGETS[1])
        ds == Entries(ls, DIRECTORIES[1])
        dv == Entries(ls, DERIVE_TARGETS_FROM_DIRECTORIES[1])
        on == ds # <<>> /\ dv # <<>> /\ dv[1] \in {<<"true">>, <<"True">>, <<"TRUE">>}
        Ex(s) == {Tail(s[k]) : k \in {k \in DOMAIN s : s[k][1] = "-"}}
        In(s) == {s[k] : k \in {k \in DOMAIN s : s[k][1] # "-"}}
        AsSeq(S) == SetToSeq(S)
    IN  <<In(ts) \cup (IF on THEN convert_directories_to_targets(AsSeq(In(ds))) ELSE {}),
          Ex(ts) \cup (IF on THEN convert_directories_to_targets(AsSeq(Ex(ds))) ELSE {})>>

(* When fetch_targets_from_bazelproject returns from a file it parsed, its *)
(* targets and excludes are those the format lists: every '-' entry of the *)
(* targets section is an exclude, never a section of its own, and every    *)
(* other entry is a target, whatever ':' the labels hold.                  *)
SelectionMatchesFormat ==
    phase = "done" => <<targets, excludes>> = RefSelection(lines)

=============================================================================
