---------------------------- MODULE FeedbackStore ----------------------------
(***************************************************************************)
(* The append of the feedback store over the GitHub Contents API           *)
(* (feedback/store.py: _StoreCore over _GitHubContentsBackend).  An append *)
(* reads the file, adds its entry, applies retention and writes the file   *)
(* back under the sha it read; a write that lost the race (409) is tried   *)
(* again, a missing branch is created once.  Every request is a step, so   *)
(* the appends of concurrent jobs interleave between any two of them.      *)
(*                                                                         *)
(* The content of the file is the set of its entries, rank their order.    *)
(* No content ever comes back, so comparing contents is comparing shas.    *)
(***************************************************************************)
EXTENDS LogParameters

CONSTANT MaxRetries  \* _MAX_RETRIES

ASSUME StoreAssumption == MaxRetries \in Nat \ {0}

VARIABLES
    now, key, ts, rank, stored,   \* as in FeedbackLog
    branch,      \* the feedback branch exists
    file,        \* the entries of the file; {} when there is no file
    pc,          \* writer -> the request it is about to make
    seen,        \* writer -> the content it read
    kept,        \* writer -> the content it is about to write
    attempt,     \* writer -> the attempt it is in
    bootTried,   \* writer -> it has tried to create the branch
    result       \* writer -> how its append ended

remote == <<branch, file, rank, stored>>
local == <<pc, seen, kept, attempt, bootTried, result>>
vars == <<now, key, ts, remote, local>>

\* The caller only learns that the entry was not persisted; the log says why.
Dropped == {"failed", "exhausted", "refused", "homeless"}
Told(r) == IF r \in Dropped THEN "dropped" ELSE r

outcomes == [w \in Writers |-> Told(result[w])]

Log == INSTANCE FeedbackLog WITH log <- file, outcome <- outcomes

Init ==
    /\ now = 0
    /\ key \in [Writers -> Keys] /\ ts = [w \in Writers |-> 0]
    /\ rank = [w \in Writers |-> 0] /\ stored = 0
    /\ branch \in BOOLEAN /\ file = {}
    /\ pc = [w \in Writers |-> "start"]
    /\ seen = [w \in Writers |-> {}] /\ kept = [w \in Writers |-> {}]
    /\ attempt = [w \in Writers |-> 1]
    /\ bootTried = [w \in Writers |-> FALSE]
    /\ result = [w \in Writers |-> "none"]

Tick ==
    /\ now < MaxTime /\ now' = now + 1
    /\ UNCHANGED <<key, ts, remote, local>>

\* The entry is built with the current time and append is called.
Start(w) ==
    /\ pc[w] = "start" /\ pc' = [pc EXCEPT ![w] = "read"]
    /\ ts' = [ts EXCEPT ![w] = now]
    /\ result' = [result EXCEPT ![w] = "pending"]
    /\ UNCHANGED <<now, key, remote, seen, kept, attempt, bootTried>>

\* append returns.
Return(w, r) == pc' = [pc EXCEPT ![w] = "done"] /\ result' = [result EXCEPT ![w] = r]

\* Mutant: the content is not read again.
AgainWithoutRead(w) ==
    IF attempt[w] < MaxRetries
      THEN /\ attempt' = [attempt EXCEPT ![w] = @ + 1]
           /\ pc' = [pc EXCEPT ![w] = "write"] /\ UNCHANGED result
      ELSE Return(w, "exhausted") /\ UNCHANGED attempt

\* Another iteration of append's loop, when there is one left.
Again(w) ==
    IF attempt[w] < MaxRetries
      THEN /\ attempt' = [attempt EXCEPT ![w] = @ + 1]
           /\ pc' = [pc EXCEPT ![w] = "read"] /\ UNCHANGED result
      ELSE Return(w, "exhausted") /\ UNCHANGED attempt

\* apply_retention over the entry and the entries read, newest first.
Retention(w, entries) == Log!Newest({e \in entries \cup {w} : ~Log!Aged(e)}, w)

\* _append_once up to its write.
Read(w) ==
    /\ pc[w] = "read"
    /\ IF \E e \in file : Log!Duplicate(w, e)
         THEN Return(w, "absorbed") /\ UNCHANGED <<seen, kept>>
         ELSE /\ seen' = [seen EXCEPT ![w] = file]
              /\ kept' = [kept EXCEPT ![w] = Retention(w, file)]
              /\ pc' = [pc EXCEPT ![w] = "write"] /\ UNCHANGED result
    /\ UNCHANGED <<now, key, ts, remote, attempt, bootTried>>

\* Mutant: the PUT names whatever sha the file has.
CurrentAnySha(w) == branch

\* The content read, named by its sha, is still that of the file.
Current(w) == branch /\ seen[w] = file

\* The PUT is accepted.  When its answer is lost, append reports a failure.
WriteOk(w) ==
    /\ pc[w] = "write" /\ Current(w)
    /\ file' = kept[w]
    /\ stored' = stored + 1 /\ rank' = [rank EXCEPT ![w] = stored + 1]
    /\ \E r \in {"stored", "failed"} : Return(w, r)
    /\ UNCHANGED <<now, key, ts, branch, seen, kept, attempt, bootTried>>

\* 409: the sha is not that of the file any more.
WriteConflict(w) ==
    /\ pc[w] = "write" /\ ~Current(w) /\ seen[w] # {}
    /\ Again(w)
    /\ UNCHANGED <<now, key, ts, remote, seen, kept, bootTried>>

\* 404 or 422: there is no branch, or the PUT has no sha and the file exists by now.
WriteRefused(w) ==
    /\ pc[w] = "write" /\ ~Current(w) /\ seen[w] = {}
    /\ pc' = [pc EXCEPT ![w] = "check"]
    /\ UNCHANGED <<now, key, ts, remote, seen, kept, attempt, bootTried, result>>

\* branch_exists, and what write and append make of it.
CheckBranch(w) ==
    /\ pc[w] = "check"
    /\ IF branch THEN Return(w, "refused") /\ UNCHANGED bootTried
       ELSE IF bootTried[w] THEN Return(w, "homeless") /\ UNCHANGED bootTried
       ELSE /\ bootTried' = [bootTried EXCEPT ![w] = TRUE]
            /\ pc' = [pc EXCEPT ![w] = "boot"] /\ UNCHANGED result
    /\ UNCHANGED <<now, key, ts, remote, seen, kept, attempt>>

\* Mutant: a bootstrap starts the append over.
BootstrapStartsOver(w) ==
    /\ pc[w] = "boot" /\ pc' = [pc EXCEPT ![w] = "read"]
    /\ branch' \in {branch, TRUE}
    /\ bootTried' = [bootTried EXCEPT ![w] = FALSE]
    /\ UNCHANGED <<now, key, ts, file, rank, stored, seen, kept, attempt, result>>

\* bootstrap_branch takes 201 and 422 for success: the branch is created, it was
\* there already, or it still is not.  The loop goes on to its next attempt.
Bootstrap(w) ==
    /\ pc[w] = "boot"
    /\ branch' \in {branch, TRUE}
    /\ Again(w)
    /\ UNCHANGED <<now, key, ts, file, rank, stored, seen, kept, bootTried>>

BootstrapFails(w) ==
    /\ pc[w] = "boot" /\ Return(w, "homeless")
    /\ UNCHANGED <<now, key, ts, remote, seen, kept, attempt, bootTried>>

\* A request fails without effect, or the job is cancelled before it.
Fail(w) ==
    /\ pc[w] \in {"read", "write", "check"} /\ Return(w, "failed")
    /\ UNCHANGED <<now, key, ts, remote, seen, kept, attempt, bootTried>>

Step(w) ==
    \/ Read(w) \/ WriteOk(w) \/ WriteConflict(w) \/ WriteRefused(w)
    \/ CheckBranch(w) \/ Bootstrap(w) \/ BootstrapFails(w) \/ Fail(w)

Next == Tick \/ \E w \in Writers : Start(w) \/ Step(w)

Spec == Init /\ [][Next]_vars

\* append makes its requests one after the other, each under the client's timeout.
FairSpec == Spec /\ \A w \in Writers : WF_vars(Step(w))

(***************************************************************************)
(* Properties                                                              *)
(***************************************************************************)

TypeOK ==
    /\ branch \in BOOLEAN /\ file \subseteq {w \in Writers : rank[w] > 0}
    /\ now \in 0 .. MaxTime /\ key \in [Writers -> Keys] /\ ts \in [Writers -> 0 .. MaxTime]
    /\ stored \in Nat /\ rank \in [Writers -> 0 .. stored]
    /\ pc \in [Writers -> {"start", "read", "write", "check", "boot", "done"}]
    /\ seen \in [Writers -> SUBSET Writers] /\ kept \in [Writers -> SUBSET Writers]
    /\ attempt \in [Writers -> 1 .. MaxRetries]
    /\ bootTried \in [Writers -> BOOLEAN]
    /\ result \in [Writers -> {"none", "pending", "stored", "absorbed"} \cup Dropped]

\* Whatever the interleaving, the store behaves as the atomic log of FeedbackLog.
ImplementsLog == Log!Spec

\* Two jobs recording one verdict within the window leave one entry.
NoDuplicates == Log!NoDuplicates

\* No append overwrites the entry of another: only retention takes an entry out.
StoredIsKept == Log!StoredIsKept

\* The lock is optimistic, not starving: an append that lost n races read a file
\* somebody had stored to, and was overtaken by n more.
Lost(w) ==
    attempt[w] - 1 + (IF result[w] = "exhausted" THEN 1 ELSE 0)
                   - (IF bootTried[w] THEN 1 ELSE 0)
LostRacesNeedCommits ==
    \A w \in Writers : Lost(w) > 0 =>
        Cardinality({x \in Writers \ {w} : rank[x] > 0}) > Lost(w)

\* Every append returns.
Returns == \A w \in Writers : pc[w] = "read" ~> pc[w] = "done"
=============================================================================
