----------------------------- MODULE FindingIds -----------------------------
(***************************************************************************)
(* The F numbers of vcs/_finding_ids.py: the number a finding gets when it *)
(* is first rendered, and the id map that is written into the one summary  *)
(* comment a provider rewrites on every run.  As a state machine of its    *)
(* own: a run reads the map, numbers its findings and writes a map that    *)
(* may have lost entries of earlier runs to the size budget.               *)
(*                                                                         *)
(* A finding is its fingerprint.  A map is a function from the             *)
(* fingerprints it knows to numbers.                                       *)
(***************************************************************************)
EXTENDS Integers, FiniteSets

CONSTANT Findings  \* the fingerprints that runs may report, finitely many

VARIABLES
    idMap,  \* the id map in the comment
    named   \* history: the pairs of a number and a finding ever rendered

idVars == <<idMap, named>>

NoIds == [f \in {} |-> 0]

Maps == UNION {[known -> Nat \ {0}] : known \in SUBSET Findings}

-----------------------------------------------------------------------------
(* Reading and writing a map *)

NumbersOf(ids) == {ids[f] : f \in DOMAIN ids}

\* The highest number of a map, 0 for the empty one.
Top(ids) ==
    IF DOMAIN ids = {} THEN 0
    ELSE CHOOSE n \in NumbersOf(ids) : \A m \in NumbersOf(ids) : m <= n

\* fingerprint_for_finding_id(): the findings a number stands for, at most one.
NamedBy(ids, n) == {f \in DOMAIN ids : ids[f] = n}

\* Fault: numbering goes on from the number of findings known.
CountOnly(ids) == Cardinality(DOMAIN ids)

\* The number after which numbering goes on.
LastNumber(ids) == Top(ids)

\* assemble_id_map(): a known finding keeps its number, the others get the numbers
\* after the highest, in the order in which they are reported.
Assembled(prior, current) ==
    LET new   == current \ DOMAIN prior
        fresh == (LastNumber(prior) + 1)..(LastNumber(prior) + Cardinality(new))
    IN {ids \in [current -> NumbersOf(prior) \cup fresh] :
            /\ \A f \in current \cap DOMAIN prior : ids[f] = prior[f]
            /\ {ids[f] : f \in new} = fresh
            /\ \A f, g \in new : ids[f] = ids[g] => f = g}

\* merge_id_maps_for_persistence(): which entries of earlier runs are kept.  The
\* lowest numbers are dropped first, as many as the budget asks for, and the entry
\* with the highest number of all is never dropped.
Keepable(prior, current) ==
    LET carried == DOMAIN prior \ current
    IN {kept \in SUBSET carried :
            \A f \in carried :
                prior[f] = Top(prior) \/ (\E g \in kept : prior[g] < prior[f]) => f \in kept}

\* The map that is written: what is kept of the earlier one, and this run's.
Persisted(prior, ids, kept) ==
    [f \in kept \cup DOMAIN ids |-> IF f \in DOMAIN ids THEN ids[f] ELSE prior[f]]

Pairs(ids) == {<<ids[f], f>> : f \in DOMAIN ids}

-----------------------------------------------------------------------------
(* The map from run to run *)

Init ==
    /\ idMap = NoIds
    /\ named = {}

\* A run renders the findings it reports and writes the map.
Write(current) ==
    \E ids \in Assembled(idMap, current), kept \in Keepable(idMap, current) :
        /\ idMap' = Persisted(idMap, ids, kept)
        /\ named' = named \cup Pairs(ids)

\* The summary text is rewritten, and the map is carried over.
Carry ==
    \E kept \in Keepable(idMap, {}) :
        /\ idMap' = Persisted(idMap, NoIds, kept)
        /\ UNCHANGED named

Next == Carry \/ \E current \in SUBSET Findings : Write(current)

Spec == Init /\ [][Next]_idVars

\* A number, once a reader has seen it, names the same finding for good
\* (_finding_ids.py:517): a command that uses it cannot reach another finding.
NumbersAreNames == \A p, q \in named : p[1] = q[1] => p[2] = q[2]

\* The argument for it: the map is one-to-one and has a highest number, which no
\* number ever shown exceeds, and it agrees with what was shown.
MapAgrees ==
    /\ idMap \in Maps
    /\ \A f, g \in DOMAIN idMap : idMap[f] = idMap[g] => f = g
    /\ DOMAIN idMap # {} =>
           \E n \in NumbersOf(idMap) : \A m \in NumbersOf(idMap) : m <= n
    /\ named \subseteq (Nat \X Findings)
    /\ \A p \in named :
           /\ p[1] <= Top(idMap)
           /\ \A f \in DOMAIN idMap : idMap[f] = p[1] => f = p[2]
    /\ NumbersAreNames
=============================================================================
