---------------------------- MODULE SlashDismiss ----------------------------
(***************************************************************************)
(* The verdict commands on a GitHub pull request, dismiss, false-positive, *)
(* wont-fix and fixed, while review runs rewrite the same reviews and      *)
(* threads: dismiss_by_finding_id() and dismiss_inline_reply() of          *)
(* slash/github_ops.py.  The first three record the same verdict.          *)
(*                                                                         *)
(* A command works on what it has read: the reviews listed once and the    *)
(* threads fetched once, the thread it resolves itself being marked in     *)
(* that copy.  Command jobs are in no concurrency group, so they overlap   *)
(* one another and the runs.                                               *)
(***************************************************************************)
EXTENDS CanonicalReview, SlashCommands

CONSTANT Commands  \* the command jobs, each of which handles one command

VARIABLE cmd  \* the local state of each command

vars == <<reviewVars, cmd>>

\* reply: posted on a thread and not at the top level.  approve: its author may have
\* the bot approve.  left: the blocking reviews still to dismiss before the approval.
\* cleared: those it has dismissed.  quiet is history, for the properties: no call
\* of the command has failed and nobody else has changed a review or a thread.
NoCommand ==
    [pc |-> "idle", reply |-> FALSE, finding |-> CHOOSE f \in Findings : TRUE,
     mark |-> "none", approve |-> FALSE, target |-> 0, reviews |-> <<>>,
     threads |-> <<>>, left |-> {}, cleared |-> {}, quiet |-> TRUE]

Ended == [NoCommand EXCEPT !.pc = "ended"]

SlashInit == Init /\ cmd = [c \in Commands |-> NoCommand]

Changed == <<reviews', threads'>> # <<reviews, threads>>

\* The commands once something has happened to the reviews or threads.
Overtaken ==
    [c \in Commands |->
        IF Changed /\ cmd[c].pc \notin {"idle", "ended"}
          THEN [cmd[c] EXCEPT !.quiet = FALSE] ELSE cmd[c]]

\* Command c goes on as r after a step that succeeds, or in which a call fails.
Go(c, r) ==
    /\ cmd' = [Overtaken EXCEPT ![c] = r]
    /\ run' = [run EXCEPT !.alone = @ /\ ~Changed]
    /\ UNCHANGED runs

Do(c, r)   == Answered /\ Go(c, r)
Miss(c, r) == Failing /\ Go(c, [r EXCEPT !.quiet = FALSE])
DoIf(ok, c, r) == IF ok THEN Do(c, r) ELSE Miss(c, r)

-----------------------------------------------------------------------------
Lines == [prefixed : BOOLEAN, word : Words, finding : {{f} : f \in Findings} \cup {{}}]

\* A comment is one line, or has a line that is no command before it.
Written == {<<line>> : line \in Lines}
             \cup {<<[prefixed |-> FALSE, word |-> "", finding |-> {}], line>> : line \in Lines}

TopLevel == UNION {TopLevelVerdicts(comment) : comment \in Written}
Replies  == UNION {ReplyVerdicts(comment) : comment \in Written}

\* The command word is handled, with the verdict and the permission that it gives.
Handling(word, trusted) ==
    [NoCommand EXCEPT !.mark = MarkOf(word), !.approve = ApproveAllowed(word, trusted)]

\* dismiss: a verdict of a top-level comment, on a finding that the bot has shown.
Dismiss(c) ==
    /\ cmd[c].pc = "idle"
    /\ UNCHANGED <<reviews, threads>>
    /\ \E given \in TopLevel, trusted \in BOOLEAN : \E f \in given.finding \cap Known(reviews) :
           Do(c, [Handling(given.word, trusted) EXCEPT !.pc = "list", !.finding = f])

\* dismiss without a finding: the reviews are listed for a reply with the findings
\* that can be named, and that is all.
AskWhich(c) ==
    /\ cmd[c].pc = "idle"
    /\ \E given \in TopLevel : given.finding = {}
    /\ UNCHANGED <<reviews, threads>>
    /\ Do(c, Ended)

\* dismiss-inline: a verdict given as a reply on a thread, whatever finding it names.
DismissInline(c) ==
    /\ cmd[c].pc = "idle"
    /\ UNCHANGED <<reviews, threads>>
    /\ \E word \in Replies, trusted \in BOOLEAN, i \in DOMAIN threads :
           Do(c, [Handling(word, trusted) EXCEPT
                    !.pc = "resolve", !.reply = TRUE, !.target = i,
                    !.finding = threads[i].finding])

\* list_bot_reviews(): on an error, what was listed before it.  A top-level command
\* learns from it where its finding is shown, a reply only has its verdict to record.
List(c) ==
    /\ cmd[c].pc = "list"
    /\ UNCHANGED <<reviews, threads>>
    /\ \E got \in BotReviews, ok \in BOOLEAN :
        LET i == Shows(got, cmd[c].finding)
            r == [cmd[c] EXCEPT !.reviews = got]
        IN /\ ok => got = reviews
           /\ \/ cmd[c].reply /\ DoIf(ok, c, [r EXCEPT !.pc = "record"])
              \/ ~cmd[c].reply /\ i = 0 /\ DoIf(ok, c, Ended)
              \/ /\ ~cmd[c].reply /\ i # 0
                 /\ DoIf(ok, c, IF cmd[c].finding \in got[i].body.bullets
                                  THEN [r EXCEPT !.pc = "record"]
                                  ELSE [r EXCEPT !.pc = "resolve"])

\* The thread the command is about: the one replied to, or the first open one that
\* carries the finding, or the first one.
Target(c, ths) ==
    IF cmd[c].reply THEN {cmd[c].target} \cap DOMAIN ths
    ELSE ThreadOf(ths, cmd[c].finding)

\* The threads are fetched, and the target is resolved unless it is already.
Resolve(c) ==
    /\ cmd[c].pc = "resolve"
    /\ UNCHANGED reviews
    /\ \E got \in Partial(threads), ok \in BOOLEAN :
        /\ ok => got = threads
        /\ \/ Target(c, got) = {} /\ UNCHANGED threads /\ DoIf(ok, c, Ended)
           \/ \E i \in Target(c, got) :
                /\ threads' = [threads EXCEPT ![i].open = FALSE]
                /\ DoIf(ok, c, [cmd[c] EXCEPT
                        !.pc = IF cmd[c].reply THEN "list" ELSE "record",
                        !.target = i, !.threads = [got EXCEPT ![i].open = FALSE]])
           \/ Target(c, got) # {} /\ UNCHANGED threads /\ Miss(c, Ended)

\* _record_verdict(): the canonical review as listed is written back with the verdict
\* added to the union of all verdicts listed.  Nothing is fetched again before the
\* write, and a failure is only logged.
Record(c) ==
    LET canon == SelectCanonical(cmd[c].reviews)
        after == IF cmd[c].target = 0 THEN Ended
                 ELSE [cmd[c] EXCEPT !.pc = IF cmd[c].approve THEN "check" ELSE "dismiss"]
        known == Shows(cmd[c].reviews, cmd[c].finding) # 0
    IN /\ cmd[c].pc = "record"
       /\ UNCHANGED threads
       /\ \/ /\ known
             /\ reviews' = Rewritten(canon,
                    Recorded(cmd[c].reviews, cmd[c].finding, cmd[c].mark))
             /\ Do(c, after)
          \/ known /\ UNCHANGED reviews /\ Miss(c, after)
          \/ ~known /\ UNCHANGED reviews /\ Do(c, after)

\* Fault: a command that cannot approve leaves its own review blocking.
NotApprovedEnds(c) == Ended

\* Without an approval there remains the review of the resolved thread.
NotApproved(c) == [cmd[c] EXCEPT !.pc = "dismiss"]

Blocking(revs) == {i \in DOMAIN revs : revs[i].state = "CHANGES_REQUESTED"}

\* Fault: only the review of the resolved thread has to be clear.
AllClearOwn(c, listed) ==
    OpenIn(cmd[c].threads, cmd[c].threads[cmd[c].target].review) = {}

AllClear(c, listed) == \A i \in Blocking(listed) : OpenIn(cmd[c].threads, i) = {}

\* _approve_if_pr_fully_resolved(): the reviews are listed again, but the open threads
\* are counted in the copy.
CheckApproval(c) ==
    /\ cmd[c].pc = "check"
    /\ UNCHANGED <<reviews, threads>>
    /\ \E got \in BotReviews, ok \in BOOLEAN :
        /\ ok => got = reviews
        /\ DoIf(ok, c, IF Blocking(got) # {} /\ AllClear(c, got)
                         THEN [cmd[c] EXCEPT !.pc = "clear", !.left = Blocking(got)]
                         ELSE NotApproved(c))

\* get_review_state(), right before a dismissal.
StillBlocks(i) == reviews[i].state = "CHANGES_REQUESTED"

\* Each blocking review is dismissed if it is still blocking when fetched again.
ClearNext(c) ==
    LET i    == Min(cmd[c].left)
        next == [cmd[c] EXCEPT !.left = @ \ {i}]
    IN /\ cmd[c].pc = "clear" /\ cmd[c].left # {}
       /\ UNCHANGED threads
       /\ \/ /\ StillBlocks(i) /\ reviews' = Dismissed({i})
             /\ Do(c, [next EXCEPT !.cleared = @ \cup {i}])
          \/ ~StillBlocks(i) /\ UNCHANGED reviews /\ Do(c, next)
          \/ UNCHANGED reviews /\ Miss(c, NotApproved(c))

Approval == [state |-> "APPROVED",
             body |-> [kind |-> "approval", ids |-> {}, bullets |-> {},
                       verdict |-> NoVerdicts]]

\* submit_approval(), unless all the reviews were dismissed by somebody else.
Approve(c) ==
    /\ cmd[c].pc = "clear" /\ cmd[c].left = {}
    /\ UNCHANGED threads
    /\ \/ cmd[c].cleared # {} /\ reviews' = Append(reviews, Approval) /\ Do(c, Ended)
       \/ /\ cmd[c].cleared # {} /\ UNCHANGED reviews
          /\ Miss(c, NotApproved(c))
       \/ /\ cmd[c].cleared = {} /\ UNCHANGED reviews
          /\ Do(c, NotApproved(c))

\* _dismiss_if_all_resolved(): the review of the target, if it has no open thread in
\* the copy and is still blocking.
DismissOwn(c) ==
    LET i == cmd[c].threads[cmd[c].target].review
        clear == OpenIn(cmd[c].threads, i) = {}
    IN /\ cmd[c].pc = "dismiss"
       /\ UNCHANGED threads
       /\ \/ clear /\ reviews' = Dismissed({i}) /\ Do(c, Ended)
          \/ clear /\ UNCHANGED reviews /\ Miss(c, Ended)
          \/ ~clear /\ UNCHANGED reviews /\ Do(c, Ended)

CommandStep(c) ==
    \/ Dismiss(c) \/ AskWhich(c) \/ DismissInline(c) \/ List(c) \/ Resolve(c) \/ Record(c)
    \/ CheckApproval(c) \/ ClearNext(c) \/ Approve(c) \/ DismissOwn(c)

\* A step of the runs, of the author or of another person.
OtherStep == RunsNext /\ cmd' = Overtaken

Next == OtherStep \/ \E c \in Commands : CommandStep(c)

Spec == SlashInit /\ [][Next]_vars

-----------------------------------------------------------------------------
(* Properties *)

\* The last word of these bodies on the finding is that it was dismissed.
StandsDismissed(revs, f) ==
    \E i \in DOMAIN revs :
        /\ revs[i].body.verdict[f] = "dismissed"
        /\ \A j \in DOMAIN revs :
               j > i => revs[j].body.verdict[f] \in {"none", "dismissed"}

\* A dismissal is lost to nobody who has read it: a step that leaves a finding no longer
\* dismissed was computed from reviews in which it was not, or is itself a command
\* that claims a fix.  The union of the verdicts of all bodies is what carries them
\* over dismissed, empty and approving reviews.
ReadDismissalsSurvive ==
    [][ \A f \in Findings :
            StandsDismissed(reviews, f) /\ ~StandsDismissed(reviews', f) =>
                \/ \E c \in Commands :
                       cmd[c].pc = "record" /\ cmd[c].finding = f /\ cmd[c].mark = "fixed"
                \/ ~StandsDismissed(run.reviews, f) /\ run.pc # run'.pc
                \/ \E c \in Commands : /\ cmd[c].pc = "record" /\ cmd[c] # cmd'[c]
                                       /\ ~StandsDismissed(cmd[c].reviews, f) ]_vars

\* docs/features.md: a dismissed finding is never posted again by a run that could read
\* the dismissal, be it as a thread or in the body of a review.
DismissedNotPosted ==
    [][ \A f \in Findings : StandsDismissed(run.reviews, f) =>
            /\ \A i \in DOMAIN threads' \ DOMAIN threads : threads'[i].finding # f
            /\ \A r \in DOMAIN reviews' \ DOMAIN reviews : f \notin reviews'[r].body.bullets
      ]_vars

\* The step ends command c, which nothing has disturbed and which has resolved a thread.
EndsQuietly(c) ==
    /\ cmd[c].pc \in {"check", "clear", "dismiss"} /\ cmd'[c].pc = "ended"
    /\ cmd[c].quiet /\ faults' = faults

\* A command that resolves the last open thread of a blocking review leaves that review
\* dismissed, whichever way it ends: by the approval, by the fallback after an approval
\* that could not be given, or by its own review only.
LastResolutionUnblocks ==
    [][ \A c \in Commands : EndsQuietly(c) =>
            LET r == threads[cmd[c].target].review
            IN OpenIn(threads', r) = {} => reviews'[r].state # "CHANGES_REQUESTED" ]_vars

\* A command approves only a pull request that nothing blocks any more, and the reviews
\* it has dismissed for that have no open thread, unless somebody else has changed a
\* review or a thread since the command was posted.
ApprovalIsEarned ==
    [][ \A c \in Commands :
            EndsQuietly(c) /\ Len(reviews') > Len(reviews) =>
                /\ Blocking(reviews') = {}
                /\ \A r \in cmd[c].cleared : OpenIn(threads, r) = {} ]_vars
=============================================================================
