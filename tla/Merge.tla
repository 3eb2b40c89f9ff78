-------------------------------- MODULE Merge --------------------------------
(***************************************************************************)
(* How the findings of a run become the ones that are posted               *)
(* (findings/merge.py, findings/scope.py): findings near one another in a  *)
(* file are clustered and each cluster is reduced to its worst finding;    *)
(* what an analyzer reports outside the diff is capped.                    *)
(*                                                                         *)
(* A finding is a record: its severity (0 Critical .. 3 Low), file ("" for *)
(* none), line (0 for none), category, style flag, text, source and the    *)
(* sources of its cluster; sure says that its confidence reaches the       *)
(* threshold, out and demoted that it was capped or moved to the body.     *)
(* "from" is not in the code: it names the reported findings that a merged *)
(* one stands for.                                                         *)
(***************************************************************************)
EXTENDS Integers, Sequences, SequencesExt, FiniteSets, FiniteSetsExt

CONSTANTS
    Analyzers,    \* the sources that are static analyzers; all others are agents
    Standalone,   \* STANDALONE_SOURCES
    MaxLine,      \* bound on line numbers
    Added,        \* the lines the diff adds, in every file
    Scope,        \* analyzer_diff_scope: "cap", "drop" or "off"
    Ruled,        \* the texts that a suppression rule matches
    Repeats       \* ROLLUP_THRESHOLD

ASSUME MergeAssumption ==
    Standalone \subseteq Analyzers /\ MaxLine \in Nat /\ Added \subseteq 1 .. MaxLine
    /\ Scope \in {"cap", "drop", "off"} /\ Repeats \in Nat

Finding ==
    [sev : 0 .. 3, file : STRING, line : 0 .. MaxLine, cat : STRING, style : BOOLEAN,
     text : STRING, source : STRING, sources : SUBSET STRING, sure : BOOLEAN,
     corroborated : BOOLEAN, out : BOOLEAN, demoted : BOOLEAN, from : SUBSET (STRING \X Nat)]

PROXIMITY_LINES == 3

\* The members of s that are in S, in their order.
Among(s, S) == FoldLeft(LAMBDA acc, x : IF x \in S THEN Append(acc, x) ELSE acc, <<>>, s)

\* _analyzer_tools is not None: all of the sources are analyzers.
IsTool(f) == f.sources # {} /\ f.sources \subseteq Analyzers

\* scope._is_analyzer: some of the sources is one.
IsAnalyzer(f) == f.sources \cap Analyzers # {}

IsStyle(f) == f.cat = "docs" \/ f.style
IsStandalone(f) == f.sources \cap Standalone # {}

CategoriesCompatible(a, b) == a = "other" \/ b = "other" \/ a = b

StyleFlagsAgree(m, f) == IsTool(m) /\ IsTool(f) => IsStyle(m) = IsStyle(f)

\* The first real category of a cluster.
EstablishedByTail(c) == c[Len(c)].cat
Established(c) ==
    LET real == {i \in DOMAIN c : c[i].cat # "other"}
    IN  IF real = {} THEN "other" ELSE c[Min(real)].cat

\* A style finding needs its own category; the rest must not bring a second real one.
\* _ClusterState.accepts, which the code keeps equal to a scan of the cluster.
Accepts(c, f) ==
    IF IsStyle(f) \/ \E m \in ToSet(c) : IsStyle(m)
      THEN \A m \in ToSet(c) : m.cat = f.cat /\ StyleFlagsAgree(m, f)
      ELSE CategoriesCompatible(Established(c), f.cat)

Gap(a, b) == IF a > b THEN a - b ELSE b - a
Distance(c, f) == Min({Gap(m.line, f.line) : m \in ToSet(c)})

\* An agent finding prefers a cluster without style findings, then the nearest.
Rank(c, f) ==
    Distance(c, f)
      + (IF ~IsTool(f) /\ (\E m \in ToSet(c) : IsStyle(m)) THEN PROXIMITY_LINES + 1 ELSE 0)

\* place: the finding joins the best cluster that accepts it, or starts one.
Place(cs, f) ==
    LET open == {i \in DOMAIN cs : /\ ~IsStandalone(f)
                                   /\ ~\E m \in ToSet(cs[i]) : IsStandalone(m)
                                   /\ Distance(cs[i], f) <= PROXIMITY_LINES
                                   /\ Accepts(cs[i], f)}
        best == Min({i \in open : \A j \in open : Rank(cs[i], f) <= Rank(cs[j], f)})
    IN  IF open = {} THEN Append(cs, <<f>>) ELSE [cs EXCEPT ![best] = Append(@, f)]

PlaceAll(fs) == FoldLeft(Place, <<>>, fs)

\* Every finding of d may join c, one after the other.
Joins(c, d) ==
    /\ ~\E m \in ToSet(c \o d) : IsStandalone(m)
    /\ \E f \in ToSet(d) : Distance(c, f) <= PROXIMITY_LINES
    /\ \A k \in DOMAIN d : Accepts(c \o SubSeq(d, 1, k - 1), d[k])

\* One round of _merge_linked_clusters: the first pair that can be joined is.
JoinFirst(cs) ==
    LET pairs == {p \in (DOMAIN cs) \X (DOMAIN cs) : p[1] < p[2] /\ Joins(cs[p[1]], cs[p[2]])}
        i     == Min({p[1] : p \in pairs})
        j     == Min({p[2] : p \in {q \in pairs : q[1] = i}})
    IN  IF pairs = {} THEN cs ELSE RemoveAt([cs EXCEPT ![i] = @ \o cs[j]], j)

MergeLinked(cs) == FoldLeft(LAMBDA acc, c : JoinFirst(acc), cs, cs)

\* sorted(findings, key=line), which is stable.
ByLine(fs) ==
    FlattenSeq([i \in 1 .. MaxLine + 1 |-> Among(fs, {f \in ToSet(fs) : f.line = i - 1})])

\* _dedup_file: analyzer findings are placed first; the members of a cluster end up
\* in the order of the sorted findings.
Clusters(fs) ==
    LET sorted == ByLine(fs)
        placed == PlaceAll(Among(sorted, {f \in ToSet(sorted) : IsTool(f)})
                           \o Among(sorted, {f \in ToSet(sorted) : ~IsTool(f)}))
        linked == MergeLinked(placed)
    IN  [i \in DOMAIN linked |-> Among(sorted, ToSet(linked[i]))]

\* is_corroborated_cluster
CategoriesCorroborate(a, b) == CategoriesCompatible(a, b) /\ ~(a = "other" /\ b = "other")
Corroborated(c) ==
    \E m, g \in ToSet(c) : IsAnalyzer(m) /\ g.sources \ Analyzers # {}
                           /\ CategoriesCorroborate(m.cat, g.cat)

\* The first of the worst findings of a cluster stands for it.
WorstIsFirst(c) == c[1]
Worst(c) == LET low == Min({m.sev : m \in ToSet(c)})
            IN  c[Min({i \in DOMAIN c : c[i].sev = low})]

Collapse(c) ==
    LET real == {m.cat : m \in ToSet(c)} \ {"other"}
    IN  [Worst(c) EXCEPT
           !.sources = UNION {m.sources : m \in ToSet(c)},
           !.cat = IF real # {} /\ \A a, b \in real : a = b THEN CHOOSE a \in real : TRUE ELSE @,
           !.corroborated = Corroborated(c),
           !.from = UNION {m.from : m \in ToSet(c)}]

\* _dedup_no_file: the first finding with a text stands for all with that text.
Fileless(fs) ==
    {LET same  == {g \in ToSet(fs) : g.text = t}
         first == fs[Min({i \in DOMAIN fs : fs[i].text = t})]
     IN  [first EXCEPT !.sources = UNION {g.sources : g \in same},
                       !.from = UNION {g.from : g \in same}]
        : t \in {g.text : g \in ToSet(fs)}}

\* merge_findings
Confident(raw) == Among(raw, {f \in ToSet(raw) : f.sure})
AllClusters(raw) ==
    LET fs == Confident(raw)
        in(x) == Among(fs, {f \in ToSet(fs) : f.file = x})
    IN  UNION {ToSet(Clusters(in(x))) : x \in {f.file : f \in ToSet(fs)} \ {""}}
Merged(raw) ==
    {Collapse(c) : c \in AllClusters(raw)}
      \cup Fileless(Among(Confident(raw), {f \in ToSet(raw) : f.file = ""}))

\* apply_suppressions, for rules that verify nothing.
Unsuppressed(fs) == {f \in fs : f.text \notin Ruled}

\* apply_diff_scope
OutOfDiff(f) == IsAnalyzer(f) /\ f.file # "" /\ f.line # 0 /\ f.line \notin Added
Scoped(fs) ==
    CASE Scope = "off"  -> fs
      [] Scope = "drop" -> {f \in fs : ~OutOfDiff(f)}
      [] Scope = "cap"  -> {IF OutOfDiff(f) THEN [f EXCEPT !.sev = 3, !.out = TRUE] ELSE f : f \in fs}

\* rollup_repeated_findings: of an analyzer's repeated finding the topmost is kept.
SameRule(f, g) ==
    <<f.file, f.source, f.text, f.sev, f.out>> = <<g.file, g.source, g.text, g.sev, g.out>>
RolledUp(fs) ==
    LET rule(f)   == {g \in fs : IsAnalyzer(g) /\ SameRule(f, g)}
        rolled(f) == IsAnalyzer(f) /\ f.file # "" /\ Cardinality(rule(f)) > Repeats
        top(f)    == CHOOSE g \in rule(f) : \A h \in rule(f) : g.line <= h.line
    IN  {IF rolled(f) THEN [top(f) EXCEPT !.from = UNION {g.from : g \in rule(f)}] ELSE f : f \in fs}

\* The pipeline from what was reported to what is judged and posted.
Kept(raw) ==
    LET fs == Unsuppressed(Merged(raw)) IN IF Scope = "off" THEN fs ELSE RolledUp(Scoped(fs))
=============================================================================
