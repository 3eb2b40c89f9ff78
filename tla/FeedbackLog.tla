----------------------------- MODULE FeedbackLog -----------------------------
(***************************************************************************)
(* What the feedback store promises to its callers: an append is atomic.   *)
(* It stores its entry in a log of bounded length, is absorbed by an entry *)
(* that records the same verdict, or is dropped.  Nothing leaves the log   *)
(* but by the retention policy.                                            *)
(***************************************************************************)
EXTENDS LogParameters

VARIABLES
    now,      \* the clock
    key,      \* writer -> what its entry is about
    ts,       \* writer -> the timestamp of its entry
    rank,     \* writer -> the position of its entry among all stored, 0 if not stored
    stored,   \* the number of entries ever stored
    log,      \* the entries in the log
    outcome   \* writer -> how its append ended

logVars == <<now, key, ts, rank, stored, log, outcome>>

Outcomes == {"none", "pending", "stored", "absorbed", "dropped"}

\* apply_retention appends before it looks at the limit, so it keeps one entry at least.
Capacity == IF MaxCount > 0 THEN MaxCount ELSE 1

Aged(e) == MaxAge > 0 /\ ts[e] + MaxAge < now

\* _find_recent_duplicate: the same verdict within the window, in either direction.
Duplicate(w, e) ==
    /\ key[w] \in DedupKeys /\ key[e] = key[w]
    /\ ts[w] - ts[e] <= DedupWindow /\ ts[e] - ts[w] <= DedupWindow

\* The entries of the set all that were stored after e; w, if it is one, is the last.
Newer(all, w, e) == {x \in all : e # w /\ (x = w \/ rank[x] > rank[e])}

\* The newest entries of all, as many as the log may hold.
Newest(all, w) == {e \in all : Cardinality(Newer(all, w, e)) < Capacity}

Init ==
    /\ now = 0
    /\ key \in [Writers -> Keys] /\ ts = [w \in Writers |-> 0]
    /\ rank = [w \in Writers |-> 0] /\ stored = 0
    /\ log = {}
    /\ outcome = [w \in Writers |-> "none"]

Tick ==
    /\ now < MaxTime /\ now' = now + 1
    /\ UNCHANGED <<key, ts, rank, stored, log, outcome>>

\* A caller asks for an append and gives it the current time.
Ask(w) ==
    /\ outcome[w] = "none"
    /\ ts' = [ts EXCEPT ![w] = now]
    /\ outcome' = [outcome EXCEPT ![w] = "pending"]
    /\ UNCHANGED <<now, key, rank, stored, log>>

\* The entry enters the log, together with the retention policy.  The caller may
\* still be told that it was dropped, when the answer is lost.
Append(w) ==
    /\ outcome[w] = "pending"
    /\ ~\E e \in log : Duplicate(w, e)
    /\ \E old \in SUBSET {e \in log \cup {w} : Aged(e)} :
           log' = Newest((log \cup {w}) \ old, w)
    /\ stored' = stored + 1
    /\ rank' = [rank EXCEPT ![w] = stored + 1]
    /\ \E told \in {"stored", "dropped"} : outcome' = [outcome EXCEPT ![w] = told]
    /\ UNCHANGED <<now, key, ts>>

\* An entry in the log has recorded the verdict already.
Absorb(w) ==
    /\ outcome[w] = "pending"
    /\ \E e \in log : Duplicate(w, e)
    /\ outcome' = [outcome EXCEPT ![w] = "absorbed"]
    /\ UNCHANGED <<now, key, ts, rank, stored, log>>

Drop(w) ==
    /\ outcome[w] = "pending"
    /\ outcome' = [outcome EXCEPT ![w] = "dropped"]
    /\ UNCHANGED <<now, key, ts, rank, stored, log>>

Next == Tick \/ \E w \in Writers : Ask(w) \/ Append(w) \/ Absorb(w) \/ Drop(w)

Spec == Init /\ [][Next]_logVars

(***************************************************************************)
(* Properties                                                              *)
(***************************************************************************)

TypeOK ==
    /\ now \in 0 .. MaxTime
    /\ key \in [Writers -> Keys] /\ ts \in [Writers -> 0 .. MaxTime]
    /\ stored \in Nat /\ rank \in [Writers -> 0 .. stored]
    /\ log \subseteq {w \in Writers : rank[w] > 0}
    /\ outcome \in [Writers -> Outcomes]

\* _find_recent_duplicate: two entries of one deduplicated verdict are always
\* further apart than the window, however their appends were interleaved.
NoDuplicates == \A e, f \in log : e # f => ~Duplicate(e, f)

\* apply_retention is the only thing that takes an entry out: whatever was stored
\* is in the log, too old for it, or older than as many entries as it may hold.
NewerStored(w) == {x \in Writers : rank[x] > rank[w]}
StoredIsKept ==
    \A w \in Writers : rank[w] > 0 =>
        w \in log \/ Aged(w) \/ Cardinality(NewerStored(w)) >= Capacity

\* retention_count bounds the log.
Bounded == Cardinality(log) <= Capacity
=============================================================================
