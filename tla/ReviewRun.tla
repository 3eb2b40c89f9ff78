------------------------------ MODULE ReviewRun ------------------------------
(***************************************************************************)
(* Review runs against one pull request: what cli.py, review/runtime.py    *)
(* and orchestrate.run_review() do to the marker-bearing summary comment   *)
(* and to the set of commits whose findings have been published, while     *)
(* pushes, force-pushes and other runs happen in between.                  *)
(*                                                                         *)
(* Every HTTP call that reads or writes the pull request is a step of its  *)
(* own, since another run can act between any two of them.  The body of a  *)
(* comment is reduced to the sha= field of its marker.  The skip comment   *)
(* is not part of the state: no step of a run reads it.                    *)
(*                                                                         *)
(* Listings have GitHub's order, that of creation, and so the first is the *)
(* oldest.  GitLab and Bitbucket list the last updated comment first.      *)
(***************************************************************************)
EXTENDS Integers, FiniteSets

CONSTANTS
    Runs,        \* the review runs that may be started
    MaxCommits,  \* bound on the commits ever pushed
    MaxComments  \* bound on the summary comments ever created

ASSUME BoundsAssumption == MaxCommits \in Nat \ {0} /\ MaxComments \in Nat \ {0}

VARIABLES
    head,      \* the pull request's head commit
    last,      \* the newest commit ever pushed (commits are 1..last)
    anc,       \* commit -> the commits of the PR it contains, itself included
    marker,    \* id of a summary comment -> the sha= field of its marker
    lastId,    \* the id of the newest comment ever created (ids grow)
    posted,    \* the commits whose findings some run has published
    run        \* run -> its local state

prVars == <<head, last, anc>>
vars   == <<head, last, anc, marker, lastId, posted, run>>

Commits == 1..MaxCommits
NoSha   == 0      \* no usable watermark: the diff starts at the base branch

NoComments == [i \in {} |-> NoSha]

Fresh == [pc |-> "idle", target |-> NoSha, base |-> NoSha, text |-> FALSE,
          seen |-> NoComments, moved |-> FALSE, landed |-> FALSE]

Contained(c) == IF c = NoSha THEN {} ELSE anc[c]

\* The commits whose changes are in the diff of run r.
Diff(r) == anc[run[r].target] \ Contained(run[r].base)

Active(r) == run[r].pc \notin {"idle", "end"}

Step(r, updated) == run' = [run EXCEPT ![r] = updated]

-----------------------------------------------------------------------------
(* The pull request *)

Init ==
    /\ head = 1 /\ last = 1
    /\ anc = [c \in Commits |-> IF c = 1 THEN {1} ELSE {}]
    /\ marker = NoComments /\ lastId = 0
    /\ posted = {}
    /\ run = [r \in Runs |-> Fresh]

\* A push on top of the head, or a force-push on top of an earlier commit.
Push ==
    /\ last < MaxCommits
    /\ \E parent \in anc[head] \cup {NoSha} :
           anc' = [anc EXCEPT ![last + 1] = Contained(parent) \cup {last + 1}]
    /\ last' = last + 1
    /\ head' = last + 1
    /\ UNCHANGED <<marker, lastId, posted, run>>

-----------------------------------------------------------------------------
(* One run *)

\* The workflow checks out the head of the pull request.
StartRun(r) ==
    /\ run[r].pc = "idle"
    /\ Step(r, [run[r] EXCEPT !.pc = "readWatermark", !.target = head])
    /\ UNCHANGED <<prVars, marker, lastId, posted>>

Oldest(ids) == CHOOSE i \in ids : \A j \in ids : i <= j
Newest(ids) == CHOOSE i \in ids : \A j \in ids : j <= i

\* What GitHub's _list_summary_comments() can return: the comments by creation.  On an
\* HTTP error it returns the pages it has, which may be none.
Listings ==
    {[i \in {j \in DOMAIN marker : j <= n} |-> marker[i]] : n \in 0..lastId}

\* get_last_reviewed_sha(): the marker of the newest comment listed.
NewestSha(seen) == IF DOMAIN seen = {} THEN NoSha ELSE seen[Newest(DOMAIN seen)]
LastReviewedSha == NewestSha(marker)

\* compute_diff(): incremental only from a commit the checkout contains.
DiffBase(sha, target) == IF sha \in anc[target] THEN sha ELSE NoSha

\* A forced full diff does not read the watermark at all.
ReadWatermark(r) ==
    /\ run[r].pc = "readWatermark"
    /\ \E seen \in Listings \cup {NoComments} :
           Step(r, [run[r] EXCEPT !.pc = "review",
                                  !.base = DiffBase(NewestSha(seen), run[r].target)])
    /\ UNCHANGED <<prVars, marker, lastId, posted>>

\* An empty diff, a diff over the limits, a cost or context-window ceiling or a
\* prompt that every provider call rejected as too long: one skip comment.
PostSkip(r) ==
    /\ run[r].pc = "review"
    /\ Step(r, [run[r] EXCEPT !.pc = "end"])
    /\ UNCHANGED <<prVars, marker, lastId, posted>>

\* The agents ran.  Only a full run has a summary text, and not even that when
\* pr-summarizer is excluded.
Review(r) ==
    /\ run[r].pc = "review"
    /\ Diff(r) # {}
    /\ \E text \in {FALSE, run[r].base = NoSha} :
           Step(r, [run[r] EXCEPT !.pc = IF text THEN "listSummary" ELSE "findings",
                                  !.text = text])
    /\ UNCHANGED <<prVars, marker, lastId, posted>>

\* The listing that post_summary and advance_sha_watermark begin with.
ListSummaries(r) ==
    /\ run[r].pc \in {"listSummary", "listAdvance"}
    /\ \E seen \in Listings :
           Step(r, [run[r] EXCEPT !.seen = seen,
                      !.pc = IF @ = "listSummary" THEN "writeSummary" ELSE "advance"])
    /\ UNCHANGED <<prVars, marker, lastId, posted>>

\* Fault: the upsert keeps the newest comment it has listed, not the oldest.
KeptNewest(r) == Newest(DOMAIN run[r].seen)

\* existing[0]: the comment that run r is about to patch.
Kept(r) == Oldest(DOMAIN run[r].seen)

\* The summary comments once id carries sha and the comments in gone are deleted.
Patched(id, sha, gone) ==
    [i \in DOMAIN marker \ gone |-> IF i = id THEN sha ELSE marker[i]]

\* post_summary over existing comments: PATCH the oldest one listed, then DELETE
\* the others; the answer to a DELETE is not looked at.
PatchSummary(r) ==
    /\ run[r].pc = "writeSummary" /\ run[r].seen # NoComments
    /\ LET keep == Kept(r)
       IN /\ keep \in DOMAIN marker
          /\ \E gone \in SUBSET (DOMAIN run[r].seen \ {keep}) :
                 marker' = Patched(keep, run[r].target, gone)
    /\ Step(r, [run[r] EXCEPT !.pc = "findings", !.moved = TRUE, !.seen = NoComments])
    /\ UNCHANGED <<prVars, lastId, posted>>

\* post_summary with nothing listed: POST.  retry_transient may send it again
\* after a lost answer, so more than one comment can appear.
CreateSummary(r) ==
    /\ run[r].pc = "writeSummary" /\ run[r].seen = NoComments
    /\ \E n \in 1..2 :
        /\ lastId + n <= MaxComments
        /\ lastId' = lastId + n
        /\ marker' = [i \in DOMAIN marker \cup (lastId + 1)..(lastId + n) |->
                         IF i > lastId THEN run[r].target ELSE marker[i]]
    /\ Step(r, [run[r] EXCEPT !.pc = "findings", !.moved = TRUE])
    /\ UNCHANGED <<prVars, posted>>

\* post_summary reports an error: findings are not posted and nothing follows.
SummaryFails(r) ==
    /\ run[r].pc = "writeSummary"
    /\ Step(r, [run[r] EXCEPT !.pc = "end", !.seen = NoComments])
    /\ UNCHANGED <<prVars, marker, lastId, posted>>

\* Where run_review goes after post_findings succeeded: the deferred watermark
\* advance of a run without summary text, else straight to resolve_stale.
AfterFindings(r) == IF run[r].text THEN "stale" ELSE "listAdvance"

PostFindings(r) ==
    /\ run[r].pc = "findings"
    /\ posted' = posted \cup Diff(r)
    /\ Step(r, [run[r] EXCEPT !.pc = AfterFindings(r), !.landed = TRUE])
    /\ UNCHANGED <<prVars, marker, lastId>>

\* Fault: a skipped write counts as one that landed.
SkipFindingsCountsAsPost(r) ==
    /\ run[r].pc = "findings"
    /\ posted # {} /\ head # run[r].target
    /\ Step(r, [run[r] EXCEPT !.pc = AfterFindings(r), !.landed = TRUE])
    /\ UNCHANGED <<prVars, marker, lastId, posted>>

\* The canonical review exists but the head has moved: nothing is written.
SkipFindings(r) ==
    /\ run[r].pc = "findings"
    /\ posted # {} /\ head # run[r].target
    /\ Step(r, [run[r] EXCEPT !.pc = "stale"])
    /\ UNCHANGED <<prVars, marker, lastId, posted>>

\* Fault: the watermark advances although post_findings failed.
FindingsFailStillAdvances(r) ==
    /\ run[r].pc = "findings"
    /\ Step(r, [run[r] EXCEPT !.pc = AfterFindings(r)])
    /\ UNCHANGED <<prVars, marker, lastId, posted>>

\* post_findings reports an error: no advance and no stale cleanup.
FindingsFail(r) ==
    /\ run[r].pc = "findings"
    /\ Step(r, [run[r] EXCEPT !.pc = "end"])
    /\ UNCHANGED <<prVars, marker, lastId, posted>>

\* advance_sha_watermark: PATCH the oldest comment listed, unless it carried this
\* sha when it was listed.
Advance(r) ==
    /\ run[r].pc = "advance" /\ run[r].seen # NoComments
    /\ run[r].seen[Kept(r)] # run[r].target
    /\ Kept(r) \in DOMAIN marker
    /\ marker' = Patched(Kept(r), run[r].target, {})
    /\ Step(r, [run[r] EXCEPT !.pc = "stale", !.seen = NoComments])
    /\ UNCHANGED <<prVars, lastId, posted>>

\* advance_sha_watermark returns False, or its retries are exhausted: logged only.
NoAdvance(r) ==
    /\ run[r].pc = "advance"
    /\ Step(r, [run[r] EXCEPT !.pc = "stale", !.seen = NoComments])
    /\ UNCHANGED <<prVars, marker, lastId, posted>>

ResolveStale(r) ==
    /\ run[r].pc = "stale"
    /\ Step(r, [run[r] EXCEPT !.pc = "end"])
    /\ UNCHANGED <<prVars, marker, lastId, posted>>

\* The job is cancelled by a newer push, killed, or ends on an exception that
\* run_review does not catch.
Crash(r) ==
    /\ Active(r)
    /\ Step(r, [run[r] EXCEPT !.pc = "end", !.seen = NoComments])
    /\ UNCHANGED <<prVars, marker, lastId, posted>>

RunStep(r) ==
    \/ ReadWatermark(r) \/ PostSkip(r) \/ Review(r) \/ ListSummaries(r)
    \/ PatchSummary(r) \/ CreateSummary(r) \/ SummaryFails(r)
    \/ PostFindings(r) \/ SkipFindings(r) \/ FindingsFail(r)
    \/ Advance(r) \/ NoAdvance(r) \/ ResolveStale(r)

Next == Push \/ \E r \in Runs : StartRun(r) \/ RunStep(r) \/ Crash(r)

Spec == Init /\ [][Next]_vars

-----------------------------------------------------------------------------
(* Properties *)

PCs == {"idle", "readWatermark", "review", "listSummary", "writeSummary",
        "findings", "listAdvance", "advance", "stale", "end"}

Markers == UNION {[ids -> Commits] : ids \in SUBSET (1..MaxComments)}

RunState ==
    [pc : PCs, target : 0..MaxCommits, base : 0..MaxCommits, seen : Markers,
     text : BOOLEAN, moved : BOOLEAN, landed : BOOLEAN]

\* Every variable has the type its comment gives it.
TypeOK ==
    /\ last \in Commits /\ head \in 1..last
    /\ anc \in [Commits -> SUBSET Commits]
    /\ lastId \in 0..MaxComments
    /\ marker \in Markers
    /\ DOMAIN marker \subseteq 1..lastId
    /\ \A i \in DOMAIN marker : marker[i] \in 1..last
    /\ posted \subseteq Commits
    /\ run \in [Runs -> RunState]
    /\ \A r \in Runs :
        /\ run[r].target \in 0..last /\ run[r].base \in 0..last
        /\ DOMAIN run[r].seen \subseteq 1..lastId

\* The commits that a full run has marked as reviewed without publishing their
\* findings, because it failed, was skipped or was killed in between, or because
\* it has not come that far yet.
Owed(r) == IF run[r].moved /\ ~run[r].landed THEN Diff(r) ELSE {}
AllOwed == UNION {Owed(r) : r \in Runs}

\* No commit is passed over: each commit behind a watermark had its findings
\* published by some run, or is owed by a full run that marked it itself.  In
\* particular the advance of an incremental run, from whatever base it has read,
\* never hides a commit (run_review's deferral of advance_sha_watermark).
WatermarkCovered ==
    \A i \in DOMAIN marker : Contained(marker[i]) \subseteq posted \cup AllOwed

\* A run whose post_findings succeeded leaves no commit of its head unpublished,
\* its incremental base included, other than those a full run still owes.
LandedRunCoversHead ==
    \A r \in Runs : run[r].landed => anc[run[r].target] \subseteq posted \cup AllOwed

\* On GitHub concurrent upserts do not delete the comment another run is about to
\* patch: they all keep existing[0], and the first by creation (github.py:709) is the
\* same for all of them, whatever the others write in between.
KeptCommentIsLive ==
    \A r \in Runs : run[r].seen # NoComments => Kept(r) \in DOMAIN marker

=============================================================================
