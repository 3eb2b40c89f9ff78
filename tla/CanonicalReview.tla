--------------------------- MODULE CanonicalReview ---------------------------
(***************************************************************************)
(* How a review run reuses what the bot has already posted on a GitHub     *)
(* pull request: GitHubProvider.post_findings() and resolve_stale(), with  *)
(* the classification of vcs/_canonical.py.                                *)
(*                                                                         *)
(* A finding is its fingerprint.  Two findings of the model are far apart, *)
(* so the fuzzy matches of classify() never relate them, and a finding     *)
(* keeps its severity, so a match is an update and never an escalation.    *)
(* A review body is reduced to what is read back from it: the id map, the  *)
(* findings listed in it and the verdicts marker.                          *)
(*                                                                         *)
(* At most one run is active: the workflow's concurrency group cancels the *)
(* run in progress when a new one starts.                                  *)
(***************************************************************************)
EXTENDS Integers, Sequences, SequencesExt, FiniteSetsExt

CONSTANTS
    Findings,  \* the fingerprints that runs may report
    Severe,    \* those of High or Critical severity
    Inline,    \* those on a line of the diff, which get a thread of their own
    MaxRuns,   \* bound on the review runs started
    MaxFaults  \* bound on the steps in which an HTTP call fails

ASSUME FindingsAssumption ==
    /\ IsFiniteSet(Findings) /\ Severe \subseteq Findings /\ Inline \subseteq Findings
    /\ MaxRuns \in Nat /\ MaxFaults \in Nat

VARIABLES
    reviews,  \* the bot's reviews, oldest first: the index is the id
    threads,  \* the bot's review threads, oldest first
    run,      \* the review run in progress, or the last one
    runs,     \* the number of runs started
    faults    \* the number of steps in which an HTTP call has failed

reviewVars == <<reviews, threads, run, runs, faults>>

NoVerdicts  == [f \in Findings |-> "none"]
EmptyBody   == [kind |-> "empty", ids |-> {}, bullets |-> {}, verdict |-> NoVerdicts]
EmptyReview == [state |-> "COMMENTED", body |-> EmptyBody]

\* The run's local state.  The last three fields are history, for the properties:
\* whether the pull request was blocked when the run started, whether a call of
\* the run failed, and whether nobody else has resolved a thread or changed a
\* review since then.
Fresh == [pc |-> "idle", found |-> {}, event |-> "COMMENT", moved |-> FALSE,
          reviews |-> <<>>, threads |-> <<>>, complete |-> TRUE,
          kept |-> {}, todo |-> {}, landed |-> 0,
          wasBlocked |-> FALSE, clean |-> TRUE, alone |-> TRUE]

-----------------------------------------------------------------------------
(* What is read back from the reviews and threads *)

Upto(s, n) == SubSeq(s, 1, n)

\* What a listing may return when an HTTP error ends it early: the pages it has.
Partial(s) == {Upto(s, n) : n \in 0..Len(s)}

\* list_bot_reviews(), as the cleanup and the commands use it.
BotReviews == Partial(reviews)

\* _list_prior_bot_reviews(): everything, or nothing on any error.
PriorBotReviews(ok) == IF ok THEN reviews ELSE <<>>

\* select_canonical(): the newest review with a body, in any state; 0 if none.
SelectCanonical(revs) ==
    Max({0} \cup {i \in DOMAIN revs : revs[i].body.kind # "empty"})

\* Fault: the verdicts are read from the canonical body alone.
CanonicalVerdicts(revs) ==
    IF SelectCanonical(revs) = 0 THEN NoVerdicts
    ELSE revs[SelectCanonical(revs)].body.verdict

\* merge_verdicts(): for each finding, the entry of the newest body that has one.
MergeVerdicts(revs) ==
    [f \in Findings |->
        LET with == {i \in DOMAIN revs : revs[i].body.verdict[f] # "none"}
        IN IF with = {} THEN "none" ELSE revs[Max(with)].body.verdict[f]]

\* known_fingerprints(): what some body has shown.
Known(revs) == UNION {revs[i].body.ids : i \in DOMAIN revs}

OpenOf(ths, f)     == {i \in DOMAIN ths : ths[i].finding = f /\ ths[i].open}
OpenIn(ths, r)     == {i \in DOMAIN ths : ths[i].review = r /\ ths[i].open}
CarriedBy(ths, f)  == {i \in DOMAIN ths : ths[i].finding = f}

Blocked == \E i \in DOMAIN reviews : reviews[i].state = "CHANGES_REQUESTED"

-----------------------------------------------------------------------------
(* classify(): the findings of the run against what it has read *)

Prior == MergeVerdicts(run.reviews)

Suppressed == {f \in run.found : Prior[f] = "dismissed"}
Recurred   == {f \in run.found : Prior[f] = "fixed"}

\* Fault: an outdated thread is matched like any other.
MatchedOutdated(ths) ==
    {f \in run.found \ (Suppressed \cup Recurred) : OpenOf(ths, f) # {}}

\* A finding is matched by the oldest open thread, unless GitHub shows that one as
\* outdated.
Matched(ths) ==
    {f \in run.found \ (Suppressed \cup Recurred) :
        /\ OpenOf(ths, f) # {}
        /\ ~ths[Min(OpenOf(ths, f))].outdated}

New(ths) == run.found \ (Suppressed \cup Recurred \cup Matched(ths))

Claimed(ths)    == {Min(OpenOf(ths, f)) : f \in Matched(ths)}
Reopenable(ths) == {f \in Recurred : CarriedBy(ths, f) # {}}
Touched(ths)    == Claimed(ths) \cup {Min(CarriedBy(ths, f)) : f \in Reopenable(ths)}

\* Findings that are rendered anew: those without a thread to speak for them.
Rendered == New(run.threads) \cup (Recurred \ Reopenable(run.threads))

\* Open threads of earlier runs that this run says nothing about.
CarriedForward ==
    {i \in DOMAIN run.threads : run.threads[i].open} \ Touched(run.threads)

Canon == SelectCanonical(run.reviews)

StateOf(event) == CASE event = "REQUEST_CHANGES" -> "CHANGES_REQUESTED"
                    [] event = "APPROVE" -> "APPROVED"
                    [] event = "COMMENT" -> "COMMENTED"

\* Fault: an open severe thread of an earlier run does not stand in the way.
HoldsApprovalOnFetchOnly ==
    run.event = "APPROVE" /\ ~run.complete /\ Canon # 0

\* An approval is not posted over a severe thread that is still open, nor when the
\* threads could not be read although there is a review to have some.
HoldsApproval ==
    /\ run.event = "APPROVE"
    /\ \/ ~run.complete /\ Canon # 0
       \/ \E i \in CarriedForward : run.threads[i].finding \in Severe

RenderEvent == IF HoldsApproval THEN "COMMENT" ELSE run.event

\* decide_action(): whether the canonical review's body can be rewritten in place.
Reuses ==
    /\ ~HoldsApproval
    /\ Canon # 0
    /\ run.reviews[Canon].state = StateOf(run.event)
    /\ run.reviews[Canon].body.kind = "review"
    /\ New(run.threads) \cap Inline = {}
    /\ (New(run.threads) \cap Severe) \subseteq Known(run.reviews)

\* Fault: the verdicts marker is built from this run's recurrences only.
RecurrencesOnly == [f \in Findings |-> IF f \in Recurred THEN "recurred" ELSE "none"]

\* The verdicts marker of the body: a finding that came back is no longer fixed.
UpdatedVerdicts == [f \in Findings |-> IF f \in Recurred THEN "recurred" ELSE Prior[f]]

\* _render_body_bullets(): what has no line of the diff to go to.
Bullets == Rendered \ Inline

\* _finalize_body_with_markers(): the id map has all findings of the run.
RenderedBody == [kind |-> "review", ids |-> run.found,
                 bullets |-> Bullets, verdict |-> UpdatedVerdicts]

-----------------------------------------------------------------------------
Init ==
    /\ reviews = <<>> /\ threads = <<>>
    /\ run = Fresh /\ runs = 0 /\ faults = 0

\* A step in which every HTTP call succeeds, and one in which some call fails.
Answered == faults' = faults
Failing  == faults < MaxFaults /\ faults' = faults + 1

Step(r)     == Answered /\ run' = r
FailStep(r) == Failing /\ run' = [r EXCEPT !.clean = FALSE]
StepIf(ok, r) == IF ok THEN Step(r) ELSE FailStep(r)

Events(found) ==
    IF found \cap Severe # {} THEN {"REQUEST_CHANGES"} ELSE {"APPROVE", "COMMENT"}

\* A new run; the one in progress, if any, is cancelled where it stands.
StartRun ==
    /\ runs < MaxRuns
    /\ runs' = runs + 1
    /\ \E found \in SUBSET Findings : \E event \in Events(found) :
        run' = [Fresh EXCEPT !.pc = "reviews", !.found = found, !.event = event,
                             !.wasBlocked = Blocked]
    /\ UNCHANGED <<reviews, threads, faults>>

\* The author pushes: GitHub shows threads as outdated whose lines have changed.
Push ==
    /\ ~run.moved
    /\ \E old \in SUBSET {i \in DOMAIN threads : threads[i].open} :
        threads' = [i \in DOMAIN threads |->
                       [threads[i] EXCEPT !.outdated = @ \/ i \in old]]
    /\ run' = [run EXCEPT !.moved = TRUE]
    /\ UNCHANGED <<reviews, runs, faults>>

\* A person resolves a conversation in the web interface.
HumanResolve(i) ==
    /\ threads[i].open
    /\ threads' = [threads EXCEPT ![i].open = FALSE]
    /\ run' = [run EXCEPT !.alone = FALSE]
    /\ UNCHANGED <<reviews, runs, faults>>

\* _load_prior_state() begins with the reviews.
ReadReviews ==
    /\ run.pc = "reviews"
    /\ \E ok \in BOOLEAN :
           StepIf(ok, [run EXCEPT !.pc = "threads", !.reviews = PriorBotReviews(ok)])
    /\ UNCHANGED <<reviews, threads, runs>>

\* fetch_review_threads() and classify(); the comments of matched threads are
\* rewritten in place, and the threads of recurred findings are to be reopened.
ReadThreads ==
    /\ run.pc = "threads"
    /\ \E got \in Partial(threads), complete \in BOOLEAN :
        /\ complete => got = threads
        /\ StepIf(complete,
                  [run EXCEPT !.pc = "effects", !.threads = got, !.complete = complete,
                              !.kept = Claimed(got), !.todo = Reopenable(got)])
    /\ UNCHANGED <<reviews, threads, runs>>

\* reply_to_review_comment(): GitHub creates an empty review for a reply.
AfterReply(ok) == IF ok THEN Append(reviews, EmptyReview) ELSE reviews

\* unresolve_thread()
AfterUnresolve(i, ok) == [threads EXCEPT ![i].open = @ \/ ok]

\* _notify_recurrence(): a reply, and then the thread is unresolved.  Either call may
\* fail.
Reopen(f) ==
    LET i == Min(CarriedBy(run.threads, f))
        r == [run EXCEPT !.todo = @ \ {f}]
    IN /\ run.pc = "effects" /\ f \in run.todo
       /\ \E replied, reopened \in BOOLEAN :
            /\ reviews' = AfterReply(replied)
            /\ threads' = AfterUnresolve(i, reopened)
            /\ StepIf(replied /\ reopened,
                      IF reopened
                        THEN [r EXCEPT !.threads[i].open = TRUE, !.kept = @ \cup {i}]
                        ELSE r)
       /\ UNCHANGED runs

Ready   == run.pc = "effects" /\ run.todo = {}
Posting == run.pc = "post" \/ (Ready /\ ~Reuses)

\* get_review_state_and_body(), against the copy that the run has read.
CanonUnchanged == reviews[Canon] = run.reviews[Canon]

\* get_pr_head_sha(), against the commit that the run reviews.
HeadMoved == run.moved

\* update_review_body()
Rewritten(i, body) == [reviews EXCEPT ![i].body = body]

\* _try_put_canonical(), before the write: the canonical review and the head of
\* the pull request are fetched again.
Recheck ==
    /\ Ready /\ Reuses
    /\ \/ ~CanonUnchanged /\ Step([run EXCEPT !.pc = "post"])
       \/ FailStep([run EXCEPT !.pc = "post"])
       \/ CanonUnchanged /\ ~HeadMoved /\ Step([run EXCEPT !.pc = "put"])
       \/ CanonUnchanged /\ FailStep([run EXCEPT !.pc = "put"])
       \/ /\ CanonUnchanged /\ HeadMoved
          /\ Step([run EXCEPT !.pc = "stale", !.landed = Canon])
    /\ UNCHANGED <<reviews, threads, runs>>

\* The write itself.  When it fails a fresh review is posted instead.
Put ==
    /\ run.pc = "put"
    /\ \/ /\ reviews' = Rewritten(Canon, RenderedBody)
          /\ Step([run EXCEPT !.pc = "stale", !.landed = Canon])
       \/ /\ FailStep([run EXCEPT !.pc = "post"])
          /\ UNCHANGED reviews
    /\ UNCHANGED <<threads, runs>>

\* The threads of review r, one for each of the findings fs.
NewThreads(fs, r) ==
    [i \in 1..Cardinality(fs) |->
        [finding |-> SetToSeq(fs)[i], review |-> r, open |-> TRUE, outdated |-> FALSE]]

Added == Len(threads) + 1 .. Len(threads')

\* _register_new_review_threads_as_kept_alive(): the threads of the new review are
\* found by fetching all threads again.
Registered == run.kept \cup {i \in Added : threads'[i].review = Len(reviews')}

\* retry_transient(): a review whose answer is lost is posted again, and the run only
\* learns of the second one.  To bound the model this counts as two faults.
Copies == IF faults + 2 <= MaxFaults THEN 1..2 ELSE {1}

\* POST a review with these comments, as the first try (ok) or after a rejection.
Post(event, comments, ok, r) ==
    \E n \in Copies :
        LET next == Len(reviews) + 1
        IN /\ reviews' = reviews \o [i \in 1..n |-> [state |-> StateOf(event),
                                                     body |-> RenderedBody]]
           /\ threads' = threads \o NewThreads(comments, next)
                                 \o IF n = 2 THEN NewThreads(comments, next + 1) ELSE <<>>
           /\ \/ n = 1 /\ StepIf(ok, [r EXCEPT !.kept = Registered])
              \/ n = 2 /\ ok /\ faults' = faults + 2 /\ run' = [r EXCEPT !.kept = Registered]
              \/ n = 1 /\ comments # {} /\ FailStep(r)

Comments == Rendered \cap Inline

\* An approval cannot carry comments: they go into a COMMENT review of their own.
PostCommentsFirst ==
    /\ Posting /\ RenderEvent = "APPROVE" /\ Comments # {}
    /\ \/ Post("COMMENT", Comments, TRUE, [run EXCEPT !.pc = "approve"])
       \/ FailStep([run EXCEPT !.pc = "approve"]) /\ UNCHANGED <<reviews, threads>>
    /\ UNCHANGED runs

\* The run is over: what is left of it is what it was told and what it came to.
Over == [run EXCEPT !.pc = "idle", !.threads = <<>>, !.kept = {}]

\* _has_unresolved_owned_threads()
HasUnresolvedThreads(r) == OpenIn(run.threads, r) # {}

\* The canonical review gives way to the new one once it has no open thread.
Supersedes ==
    /\ Canon # 0 /\ run.reviews[Canon].state = "CHANGES_REQUESTED"
    /\ run.event = "REQUEST_CHANGES" /\ run.complete
    /\ ~HasUnresolvedThreads(Canon)

\* _post_new_review(): as intended, else as a COMMENT, else as a plain comment on
\* the pull request, else not at all.
PostReview ==
    LET comments == IF RenderEvent = "APPROVE" THEN {} ELSE Comments
        landed   == [run EXCEPT !.landed = Len(reviews')]
    IN /\ run.pc = "approve" \/ (Posting /\ ~(RenderEvent = "APPROVE" /\ Comments # {}))
       /\ \/ Post(RenderEvent, comments, TRUE,
                  [landed EXCEPT !.pc = IF Supersedes THEN "supersede" ELSE "stale"])
          \/ /\ RenderEvent # "COMMENT"
             /\ Post("COMMENT", comments, FALSE, [landed EXCEPT !.pc = "stale"])
          \/ FailStep([run EXCEPT !.pc = "stale"]) /\ UNCHANGED <<reviews, threads>>
          \/ FailStep(Over) /\ UNCHANGED <<reviews, threads>>
       /\ UNCHANGED runs

Dismissed(ids) ==
    [i \in DOMAIN reviews |->
        IF i \in ids /\ reviews[i].state = "CHANGES_REQUESTED"
          THEN [reviews[i] EXCEPT !.state = "DISMISSED"] ELSE reviews[i]]

\* The canonical review has been replaced by a new blocking review.
Supersede ==
    /\ run.pc = "supersede"
    /\ \/ reviews' = Dismissed({Canon}) /\ Step([run EXCEPT !.pc = "stale"])
       \/ FailStep([run EXCEPT !.pc = "stale"]) /\ UNCHANGED reviews
    /\ UNCHANGED <<threads, runs>>

\* Fault: threads that GitHub shows as outdated are left alone.
StaleUnlessOutdated(ths) ==
    {i \in DOMAIN ths : ths[i].open /\ ~ths[i].outdated} \ run.kept

Stale(ths) == {i \in DOMAIN ths : ths[i].open} \ run.kept

\* resolve_stale(): the threads are fetched once more, and each open one that this
\* run did not match, reopen or create is resolved.  Calls may fail.
ResolveStale ==
    /\ run.pc = "stale"
    /\ \E got \in Partial(threads) : \E failed \in SUBSET Stale(got), ok \in BOOLEAN :
        /\ ok => got = threads /\ failed = {}
        /\ threads' = [i \in DOMAIN threads |->
                          [threads[i] EXCEPT !.open = @ /\ i \notin Stale(got) \ failed]]
        /\ StepIf(ok, [run EXCEPT !.pc = "dismiss", !.threads = got])
    /\ UNCHANGED <<reviews, runs>>

\* Fault: the review of this run is not told from the others.
StaleReviewsAll(listed) ==
    {i \in DOMAIN listed : /\ listed[i].state = "CHANGES_REQUESTED"
                           /\ OpenIn(run.threads, i) = {}}

\* The blocking reviews, other than this run's own, that had no open thread when
\* the threads were fetched.
StaleReviews(listed) ==
    {i \in DOMAIN listed : /\ listed[i].state = "CHANGES_REQUESTED"
                           /\ i # run.landed
                           /\ OpenIn(run.threads, i) = {}}

\* _dismiss_stale_reviews(): nothing when the run does not know its own review.
DismissStale ==
    /\ run.pc = "dismiss"
    /\ \/ /\ run.landed = 0
          /\ Step([run EXCEPT !.pc = "idle"])
          /\ UNCHANGED reviews
       \/ /\ run.landed # 0
          /\ \E got \in BotReviews :
             \E failed \in SUBSET StaleReviews(got), ok \in BOOLEAN :
                /\ ok => got = reviews /\ failed = {}
                /\ reviews' = Dismissed(StaleReviews(got) \ failed)
                /\ StepIf(ok, Over)
    /\ UNCHANGED <<threads, runs>>

-----------------------------------------------------------------------------
(* The verdict commands, as the runs see them *)

\* classify_finding(): the newest body that knows the finding; 0 if there is none.
Shows(revs, f) == Max({0} \cup {i \in DOMAIN revs : f \in revs[i].body.ids})

\* The first open thread that carries the finding, or the first one.
ThreadOf(ths, f) ==
    LET open == OpenOf(ths, f)
        all  == CarriedBy(ths, f)
    IN IF open # {} THEN {Min(open)} ELSE IF all # {} THEN {Min(all)} ELSE {}

\* _record_verdict(): the canonical review as listed, with the verdict added to the
\* union of all verdicts listed.
Recorded(listed, f, mark) ==
    [listed[SelectCanonical(listed)].body EXCEPT
        !.verdict = [MergeVerdicts(listed) EXCEPT ![f] = mark]]

\* A command between two runs, on a finding that the bot has shown, when nothing
\* overtakes it and its author may not approve: its thread is resolved, its verdict is
\* recorded, and the thread's review is dismissed if no thread of it is left open.
\* SlashDismiss has the same call by call.
Command(f, mark) ==
    LET listed   == f \in reviews[Shows(reviews, f)].body.bullets
        resolved == IF listed THEN {} ELSE ThreadOf(threads, f)
        left     == [i \in DOMAIN threads |->
                        [threads[i] EXCEPT !.open = @ /\ i \notin resolved]]
        cleared  == {threads[i].review : i \in {j \in resolved :
                                                  OpenIn(left, threads[j].review) = {}}}
    IN /\ run.pc = "idle"
       /\ listed \/ resolved # {}
       /\ threads' = left
       /\ reviews' = [Dismissed(cleared) EXCEPT
                         ![SelectCanonical(reviews)].body = Recorded(reviews, f, mark)]
       /\ run' = [run EXCEPT !.alone = FALSE]
       /\ UNCHANGED <<runs, faults>>

RunStep ==
    \/ ReadReviews \/ ReadThreads \/ (\E f \in Findings : Reopen(f))
    \/ Recheck \/ Put \/ PostCommentsFirst \/ PostReview \/ Supersede
    \/ ResolveStale \/ DismissStale

RunsNext ==
    \/ StartRun \/ Push \/ RunStep
    \/ \E i \in DOMAIN threads : HumanResolve(i)

ReviewNext ==
    \/ RunsNext
    \/ \E f \in Known(reviews), mark \in {"dismissed", "fixed"} : Command(f, mark)

ReviewSpec == Init /\ [][ReviewNext]_reviewVars

-----------------------------------------------------------------------------
(* Properties *)

\* A run never approves the pull request while a thread of a High or Critical
\* finding is open, when it could read all the threads: neither one that it read and
\* does not report any more, nor one opened or reopened since.
NotApprovedOverOpen ==
    [][ \A r \in DOMAIN reviews' \ DOMAIN reviews :
            /\ reviews'[r].state = "APPROVED" /\ reviews'[r].body.kind = "review"
            /\ run.complete
            => \A i \in DOMAIN threads' :
                   threads'[i].open => threads'[i].finding \notin Severe ]_reviewVars

\* The run has come to its end and none of its calls has failed.
EndedClean == run.pc = "idle" /\ runs > 0 /\ run.clean

\* A clean run leaves open one thread for a finding at most, and none for a finding
\* it does not report or that was dismissed, whatever cancelled runs have left behind.
CleanRunTidies ==
    EndedClean =>
        \A i \in DOMAIN threads : threads[i].open =>
            /\ threads[i].finding \in run.found \ Suppressed
            /\ \A j \in DOMAIN threads \ {i} :
                   threads[j].open => threads[j].finding # threads[i].finding

\* A clean run during which nobody pushes or resolves anything leaves every finding it
\* reports visible: in an open thread that GitHub does not show as outdated, or in the
\* body of its review.  The cleanup that follows the post does not resolve what the post
\* has matched or created.  A finding that recurred is the exception: its old thread is
\* reopened with a reply even if it is outdated, and nothing else shows it.
FindingsStayVisible ==
    EndedClean /\ run.alone /\ ~run.moved =>
        \A f \in run.found \ Suppressed :
            \/ \E i \in OpenOf(threads, f) : threads[i].outdated => f \in Recurred
            \/ f \in reviews[run.landed].body.bullets

\* After a clean run with a High or Critical finding its own review blocks the pull
\* request, unless somebody else has changed a review: neither the supersession nor
\* the cleanup takes the new block away with the old ones.
CleanRunBlocks ==
    EndedClean /\ run.alone /\ run.event = "REQUEST_CHANGES" =>
        reviews[run.landed].state = "CHANGES_REQUESTED"

\* docs/architecture-internals.md, on a post that degrades: the old block is dismissed
\* only once the new one has landed, so a blocked pull request stays blocked.
PostFailureKeepsBlock ==
    run.pc = "idle" /\ run.wasBlocked /\ run.alone /\ run.event = "REQUEST_CHANGES" =>
        Blocked
=============================================================================
