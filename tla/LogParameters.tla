---------------------------- MODULE LogParameters ----------------------------
(* The parameters of the feedback store, which the log it promises and the    *)
(* store over the Contents API have in common (feedback/store.py, retention). *)
EXTENDS Integers, FiniteSets

CONSTANTS
    Writers,      \* the appends, one entry each
    Keys,         \* what an entry is about: command, source, file, rule, finding
    DedupKeys,    \* those whose command is deduplicated
    DedupWindow,  \* how close in time two entries of one verdict count as one
    MaxCount,     \* retention_count
    MaxAge,       \* retention_age_days; 0 or less keeps entries of any age
    MaxTime       \* bound on the clock

ASSUME LogAssumption ==
    /\ IsFiniteSet(Writers) /\ DedupKeys \subseteq Keys
    /\ DedupWindow \in Nat /\ MaxCount \in Int /\ MaxAge \in Int /\ MaxTime \in Nat
=============================================================================
