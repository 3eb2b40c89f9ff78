# ai-pr-review: TLA+ models, checks and proofs

`ai-pr-review` runs LLM agents and static analyzers on the diff of a pull
request and publishes one review to GitHub, GitLab or Bitbucket. Each CI job is
one short-lived process. What the system remembers between jobs is kept by the
VCS provider: a summary comment with a hidden marker, reviews and review threads
with hidden markers, and a JSONL file on a feedback branch. The hard behaviour
is therefore in jobs that overlap, are cancelled, fail halfway, work on a copy
they read earlier, or repeat a request whose answer was lost.

Paths below are relative to `src/ai_pr_review/` unless they start with `docs/`.

Contents: 1 inventory, 2 modules and the code they stand for, 3 runs, 4 bounds,
5 fairness, 6 proofs, 7 disagreements between code and documentation, 8 what is
left out, 9 plan.

## 1. Inventory

| Component | Code | State it keeps | Operations |
|---|---|---|---|
| Review run | `orchestrate.py`, `review/*.py`, `vcs/_upsert.py` | none of its own; the summary comment's `sha=` marker (the *watermark*) | read watermark, compute diff, review, post summary, post findings, advance watermark, resolve stale threads |
| Agent dispatch | `agents/dispatch.py`, `llm/_http.py`, `llm/client.py` | tasks, limiter slots, retry counters, the results list | acquire a slot, call, retry, fall back to the standard model, record |
| Findings pipeline and verdict | `findings/*.py`, `review/outcome.py` | lists of findings | extract, merge, suppress, scope, roll up, judge, classify, cap |
| GitHub review reuse | `vcs/github.py`, `vcs/_canonical.py` | reviews, threads, the id map and verdicts in review bodies | list, classify, reopen, rewrite in place, post, supersede, resolve stale, dismiss stale |
| Slash commands | `slash/*.py` | the same reviews and threads | dismiss, false-positive, wont-fix, fixed, resolve, explain, feedback |
| Feedback store | `feedback/store.py`, `feedback/retention.py` | a JSONL file on a branch | append (read, deduplicate, retain, write, verify, bootstrap), read |
| Finding identity | `vcs/_finding_ids.py`, `vcs/marker.py` | the map from fingerprints to F numbers, in markers | assign, carry over, trim, look up |
| VCS request layer | `vcs/http.py` | none | retry transient failures, of writes too |
| GitLab provider | `vcs/gitlab.py` | discussions, the summary note | match, update, post, resolve stale |
| Bitbucket provider | `vcs/bitbucket.py`, `vcs/_bitbucket_*.py` | one summary comment with three hidden maps, replies, a report | poll and answer commands, write the comment, delete duplicates |
| Limits and cost | `review/preflight.py`, `review/cost_ceiling.py`, `pricing.py` | none | estimate, compare, skip |
| Diff | `diff/*.py` | a temporary worktree | choose the base, filter merges, map lines |
| Roster, policy, runtime | `agents/roster.py`, `agents/gates.py`, `policy.py`, `review/runtime.py` | none | select the mode and the agents of a run |
| Command line | `cli.py`, `config.py` | the check run `ai-pr-review/policy-gate` | decide, review, report, exit code |
| Everything else | placement and layout, feedback injection, providers of LLMs, analyzers, code context, telemetry, scripts | none that outlives a call | formats, I/O |

How they interact. A review job calls `run_review()`, which runs the tier of
agents concurrently inside one event loop, passes their findings through the
pipeline as pure functions, computes an event, and then makes provider calls one
after the other: summary, findings, watermark, cleanup. A command job handles one
comment and makes its own sequence of provider calls. Jobs never talk to each
other; they share the pull request's comments, reviews and threads and the
feedback file. The example workflow puts the review jobs of one pull request in a
concurrency group, so a new one cancels the one in progress at any point;
CanonicalReview, GitLabReview and BitbucketReview assume it (without it
docs/features.md:73 admits a race on the body), ReviewRun, PolicyGate and the
feedback stores do not. Command jobs are in none. On Bitbucket there are no command
jobs: a review job polls the comments.

Where it is hard, and what makes each part correct:

- *Order of the writes.* The watermark says "reviewed up to here". No commit may
  fall behind it unless its findings were published, with runs that overlap, read
  partial listings, are cancelled or fail between two writes.
- *Two upserts of one comment.* Each lists, patches one comment and deletes the
  others. They must not delete the comment the other is about to patch.
- *Concurrent agents with retries and a fallback.* Each agent must be counted
  exactly once, whatever fails, within its budget of requests, and the tier ends.
- *Merging.* Clusters grow through chains, wildcards and joins; no finding may be
  lost or played down, no cluster may mix what does not belong together.
- *The event.* An approval must be earned: all agents answered, nothing severe
  was found.
- *Reuse on GitHub.* The run works on a copy of reviews and threads. The cleanup
  must not resolve what the post has just matched or created; a new block must not
  go with the old ones; nothing is approved over an open severe thread.
- *Commands against runs.* A verdict is written into a body that others rewrite;
  a verdict that was read must survive, and must be obeyed. The last resolution
  unblocks the pull request. An approval is given only when nothing blocks.
- *The feedback file.* Concurrent read-modify-write over an HTTP API with
  optimistic locking, a branch created on demand and lost answers must behave as
  an atomic log. On Bitbucket nobody knows whether the API locks at all.
- *Commands on Bitbucket.* A command is answered, applied, stored and acknowledged
  in four calls of a job that may die between any two; it must be dealt with in the
  end, and never be acknowledged before that.
- *Numbers.* People name findings by their F number. A number that has been shown
  must not come to name another finding, although the map is cut to fit.
- *Neighbours on GitLab.* Findings near one another match one discussion; none may
  be lost by that, and none shown twice for good.
- *What a run vouches for.* Mode, lists, policy and gates narrow the agents, limits
  and ceilings skip the review, and steps fail: an approval, a satisfied policy gate
  and exit code 0 must not say more than was done.

`PROJECT.json` lists the hazards behind each of these, at the line where they
bite, with the properties that would catch them, and a note where none does.

## 2. Modules

    FeedbackLog   <-- implements -- FeedbackStore --> both extend LogParameters
    FeedbackBackends: FeedbackStore, or an instance of BitbucketStore, by provider
    AgentTier     <-- implements -- Dispatch
    AgentTier     --> instance in    Verdict  --> extends Merge
    CanonicalReview, SlashCommands --> extended by SlashDismiss
    FindingIds    --> instance in    BitbucketReview
    Roster --> extended by Policy and Ceiling, these and DiffRange by RunPlan
    ReviewRun, GitLabReview, PolicyGate

Each module X that a run uses has an MCX that fixes menus and symmetry; each
XProof holds theorems about X (VerdictProof about Merge as well, RunPlanProof about
PolicyGate too). AgentTier, FeedbackLog and FindingIds are abstract
specifications: they say what a component promises, and the module on the other
side of the arrow is checked, or proved, against them.

**ReviewRun** (`orchestrate.py`, `vcs/_upsert.py`, `review/runtime.py`,
`diff/compute.py`, parts of `vcs/github.py`). State: the head, which commits each
commit contains (so force-pushes drop commits), the marker of every summary
comment, the set of commits whose findings were published, and each run's local
record. One action per request: `ReadWatermark`, `ListSummaries`, `PatchSummary`,
`CreateSummary`, `PostFindings`, `Advance`, and so on; `Crash` ends a run
anywhere. A listing is any prefix of the comments, since the code uses the pages
it got before an error. `CreateSummary` may create two comments, because the
request layer repeats a POST whose answer was lost. Posting findings is one step
here; its inside is CanonicalReview. `moved` and `landed` are history. `Kept`, the
first comment listed, is the oldest one, as GitHub lists them (section 7 has GitLab
and Bitbucket).

**AgentTier** is what `run_tier()` promises: each agent reports once, in any
order. **Dispatch** is how it is kept: limiter slots, retries of transient
failures, the second call on the standard model inside the same slot when the
premium model's content filter refuses. A request may end in every exit code of
`call_llm`. **Verdict** uses AgentTier as its source of results.

**Merge** is `findings/merge.py`, `scope.py` and the rollup as operators:
placement into clusters, the rule that accepts a finding, the joining of linked
clusters, the collapse to the worst. A finding is a record of what these tell
apart. `from` is not in the code: it names the reported findings that a merged
one stands for. Lists are lists where the code's order decides something (which finding
comes first, which cluster is joined) and sets after the collapse.
**Verdict** is phases 1 to 3 of `run_review()`: results, merge,
judge, `classify_review_outcome`, `cap_review_outcome`, and the run-time skip.

**CanonicalReview** (`post_findings`, `resolve_stale` and `_canonical.py`).
State: reviews (state and body), threads (finding, review, open, outdated), the
run in progress. A body is what is read back from it: its kind, the ids it shows,
the findings listed in it, the verdicts marker. Every request is a step and may
fail; a failed listing returns a prefix, and a review whose answer was lost is
posted twice (`Copies`). A person may resolve a thread and the author may push at
any time; a new run cancels the current one. `Command` is a verdict between two
runs, in one step. The history fields `clean`, `alone` and `wasBlocked` let
properties speak of undisturbed runs.

**SlashCommands** is the grammar of a comment and its way to a handler: which line
is a command, which of several lines counts at the top level and in a reply,
aliases, and who may approve. **SlashDismiss** adds the command jobs of
`slash/github_ops.py`: list, resolve, record the verdict in the body as it was
listed, check whether everything is resolved in the copy, dismiss the blocking
reviews, approve, or dismiss the own review only. It extends CanonicalReview, so
runs and commands change the same reviews and threads.

**FindingIds** (`vcs/_finding_ids.py`) is the numbering: a run reads the id map of
the comment it replaces, numbers its findings on from the highest number, and writes
a map that may have lost earlier entries to the size budget, but never the highest.
`named` is history: the pairs of a number and a finding that were ever shown.

**BitbucketReview** (`vcs/bitbucket.py`, `vcs/_bitbucket_verdicts.py`). All the bot
remembers is in its summary comment: id map, verdicts, acknowledged commands.
`PostSummary` carries them into a fresh body as far as they fit; `Poll` reads the
commands among the newest `MaxScanned` comments that are not acknowledged, looks up
who wrote them, applies and stores;
`Reply` answers one; `Raise` is the exception that `post_findings` catches on the way;
`PutFindings` writes verdicts, acknowledgements, numbers and findings at once, or what
there is room for: without the new verdicts, without the id map, or with neither
verdicts nor acknowledgements; of the acknowledgements it keeps the newest `MaxAcked`
(`Capped`). `ResolveStale` deletes duplicates. The window moves on when a new command
comes and it is full, and by `FallBehind`, any other comment. A comment of the bot may
be missed because its own account could not be resolved or a listing failed. `lost` is
history: the ways in which a run has lost what it knew, for properties that hold as
long as the markers survive.

**BitbucketStore** (`_BitbucketSrcBackend`, and the append loop it shares) follows
each command's append through read, write, read-back and bootstrap, for runs that
may be killed, or end before they have saved the acknowledgement (`Forget`), and
come again. `refuses` says which of two servers `/src` is: one that refuses a commit
on top of an old head, or one that overwrites. The code was written without knowing.

**GitLabReview** (`vcs/gitlab.py`). Findings have lines, since GitLab runs match
their findings against open discussions by place. `Classify` reads the discussions
and claims one for each finding that has some near it: its own, or else the closest;
`Update`, `Post` and `WriteNote` write the rest, `ResolveStale` resolves what was not
claimed. A discussion may be
refused, and then its finding goes to the note.

**Roster**, **Policy**, **Ceiling** and **DiffRange** are operators: which agents a
mode, lists and gates leave (`agents/roster.py`, `agents/gates.py`); which route of a
policy file a change takes, what a policy inherits and how it combines with the
configuration (`policy.py`, `review/runtime.py`); the estimate and the limits
(`review/cost_ceiling.py`, `pricing.py`); and which commits a review reads
(`diff/compute.py`): the watermark, the merge filter, the changes that sit in merge
commits, and each way in which git may fail, those that `_filtered_diff` does not
notice included (`git` of a `History`). **RunPlan** composes them: one review command from its
configuration to its exit code, one action per step of `cli._run_review_async` and
`build_review_runtime`, every step that may fail or skip included.

**PolicyGate** (`cli._post_policy_gate_check_run`): several reviews of one commit post
the check run of a requirement, `action_required` only without an earlier success, and
look again afterwards.

**FeedbackLog** is the promise of `append`: the entry is stored in a log of
bounded length and age, absorbed by a duplicate within the window, or dropped.
**FeedbackStore** is `_StoreCore.append` with the GitHub Contents backend,
request by request: read, compare-and-swap write by sha, conflict, refusal,
branch check, bootstrap, lost answers. **FeedbackBackends** is `make_store`: the
provider decides which of the two stores the appends go through.

Operators marked *Fault* or *Mutant* in the modules are the mutated forms of the
definition after them; they are not part of any specification.

## 3. Runs

| Run | Instance | What it shows |
|---|---|---|
| `review_runs` | 3 runs, 2 commits, 3 comments | No watermark covers a commit that was not published or is not owed by a full run that marked it; a run that landed leaves nothing of its head unpublished other than that; concurrent upserts keep each other's comment. |
| `dispatch` | 3 agents, 2 premium, 2 slots, 1 retry | One result per agent, bounded requests, refusals fall back, the tier ends; implements AgentTier. |
| `verdict` | 2 agents, 3 analyzers, 8 lines | Merging loses and plays down nothing; clusters never mix categories, or style with defects, and leave suppression-check findings alone; approvals are earned; a skip hides no answer; the judge only moves. |
| `canonical_review` | 2 findings, 2 runs, 2 faults | A clean run leaves its findings visible, not in outdated threads unless they recurred, its block standing and nothing stale, after a cancelled or failing run, a review posted twice and any verdicts in between; nothing is approved over an open severe thread. |
| `slash_dismiss` | 1 command, 2 runs, 1 fault | Dismissals that were read survive and are obeyed; the last resolution unblocks; an approval is earned. |
| `bitbucket` | 2 findings, 2 commands, 1 comment scanned, 1 acknowledgement kept, any number of runs, 1 fault of any kind | An acknowledged command was answered, applied and stored; what is hidden somebody entitled asked to hide; numbers follow FindingIds; dismissals stay; every command that stays in the window settles for good, what the acknowledgements forget being no longer scanned. |
| `gitlab` | 4 findings of 3 places, any number of runs, 1 fault | After a clean run exactly its findings are shown, neighbours included; two discussions about one finding do not stay. |
| `run_plan` | 3 commits, 7 configurations, 4 policy files, 4 price tables | The range read follows the branch, but for the exceptions of section 7; the ceiling holds or the comment says that it does not; approvals, gate and exit code say no more than was done. |
| `policy_gate` | 4 reviews | A requirement once satisfied stays satisfied. |
| `feedback_store` | GitHub: 3 appends, 2 attempts. Bitbucket: 3 commands, 2 attempts, 1 fault | GitHub: the store implements the log, an exhausted append lost real races, every append returns. Bitbucket: every command is stored once and in the end its run is told, on either kind of server. |
| `degraded_post_unblocks`, `upstream_reviewed` | | Two statements of the documentation that the code does not keep (section 7). |

Every property of a passing run has a mutant in `PROJECT.json`: one definition
changed the way a plausible bug would change the code, under which the run finds
the property violated.

Type invariants are not among the runs' properties where a theorem states them
(ReviewRun, Dispatch, Verdict, FeedbackLog, FeedbackStore, PolicyGate, RunPlan,
BitbucketReview, CanonicalReview, SlashDismiss and GitLabReview). Nor are the log's own invariants, no
duplicates and nothing overwritten: they are proved of FeedbackLog, and `feedback_store`
checks what is left, that the store implements it.

Deadlock is checked for `dispatch`, where a tier that is over may only stutter.
The other systems stop when their bounded runs, commits, commands and appends are
used up, or when a command has exited, and say `CHECK_DEADLOCK FALSE`; where they
must not stop before that, a liveness property says so.

## 4. Bounds, and why they are enough

- *ReviewRun*: three runs are two that race and one that reads what they left;
  two commits allow a push and a force-push that drops the first commit; three
  comments allow a repeated creation next to another run's. The theorems of
  section 6 hold for any bounds.
- *Dispatch*: two premium agents contend for slots with a third on the standard
  model; one retry separates "has one left" from "has none". Proved for all.
- *Verdict*: lines 1 to 8 hold two clusters more than three lines apart and a
  chain between them; the menus in MCVerdict produce style findings, wildcards,
  out-of-diff lines, rollups, suppressed and file-less findings. The analyzers
  bring up to two findings and each agent one: chains of four. Proved for any number
  of agents, findings, lines and rules.
- *CanonicalReview*: a severe and a minor finding, both with threads; the first of
  two runs posts, is cancelled or fails, the second meets what it left, with any
  number of verdicts and resolutions in between. Two faults (`MaxFaults`) cover a
  failure and a failing fallback (`REQUEST_CHANGES`, then `COMMENT`), or one review
  posted twice, which counts as two. One push per run: a second one changes nothing
  more.
- *SlashDismiss*: here the severe finding is in the body and the minor one has the
  thread, so both branches of a command and an approval with comments occur. One
  command races two runs; of two commands at once the verdicts of one may be lost,
  which `ReadDismissalsSurvive` allows to a writer that has not read them.
- *BitbucketReview*: two findings are one that a command means and one that it might
  hit by mistake; two commands are the least that may contradict each other or share
  a finding. Runs are not bounded, so every state that one fault leaves is met by
  runs without one. Numbers never grow past the findings. The window (`MaxScanned`)
  and the acknowledgements (`MaxAcked`) hold one command each, so that the second
  command, or the one other comment of `MaxBehind`, pushes the first out of both, also
  while a run is answering it. The code has 200 for both bounds, and the model assumes
  no more than `MaxScanned <= MaxAcked`: were it the other way round, a command would
  be forgotten while it is still read. Two commands polled by one run are left to the
  theorems, which hold for any such bounds.
- *BitbucketStore*: three commands are an append, the one that overwrites it and the
  one that is overwritten in turn; with two attempts a retry may be the last one. One
  fault (`MaxFaults`) suffices, since every command is polled until it is told.
- *GitLabReview*: lines 1 and 3 are neighbours and line 9 is apart; the finding of
  line 1 comes with two severities; two places for discussions (`MAX_INLINE`) put the
  third finding in the note. Diffs that add all the lines or one decide what can be
  anchored and what is outdated. Runs and resolutions are not bounded.
- *RunPlan*: a command is one pass, so bounds are menus: two own commits and one of
  the base branch give every relation of watermark, head and merge, with each own
  commit in a merge commit or not and git working or failing in each way; limits of two
  tokens or lines are crossed and not; the configurations in MCRunPlan turn each
  switch once.
- *PolicyGate*: four reviews; proved for all.
- *FeedbackStore*: with two attempts, three writers are enough for one to lose
  every race; a window of 0 with a clock up to 2 gives verdicts inside and outside
  it and entries that age. Proved for all.

## 5. Fairness

`Dispatch!FairSpec` has weak fairness of each agent's work: asyncio runs every
ready task, the limiter queues its waiters, and the HTTP client bounds each
request by a timeout. `FeedbackStore!FairSpec` has weak fairness of each append's
steps: `append` makes its requests one after the other under the client's
timeout.

BitbucketReview and GitLabReview have weak fairness of `Progress`: pushes keep
starting runs, and a run that is not killed goes on to its end. BitbucketStore has it
of `Goes`, for each command: while a command is pending runs keep coming and poll it.
This is what the code relies on when it leaves a command without acknowledgement "for
the next run"; the faults, whose number is bounded, are not fair, and neither are
people, pushes with a given content, commands or the clock. `CommandsSettle`,
`DuplicatesHeal` and `AllTold` therefore say: once the failures stop, a run that comes
after them makes up for them.

ReviewRun, CanonicalReview, SlashDismiss, Verdict, RunPlan and PolicyGate state safety
only: there a job may be cancelled anywhere, so nothing must eventually happen.

## 6. Proofs

TLAPS checks the theorems of the modules below, for every value of the constants
allowed by the assumptions in the modules they are about (bounds are naturals,
the sets of writers, findings and agents are finite where counted, premium agents
are agents, every reported finding names itself and an agent and an analyzer never
share a name).

**ReviewRunProof.** `TypeCorrect`, `WatermarkIsCovered`, `LandedRunsCoverHead`,
`KeptCommentStaysLive`. `WatermarkCovered` alone is not inductive: the advance of
an incremental run covers only the commits from the base it read. The invariant
`IInv` adds `BaseCovered` (the base a run read was behind a watermark and is still
covered, since published and owed commits only grow but for an owed set that turns
into a published one), `Phases` (only a run that landed comes to the advance) and
`FirstIsKept` (the first comment ever created is in every non-empty listing and is
never deleted, because every upsert keeps the oldest). The last one is what makes
concurrent upserts safe, and it is GitHub's: it rests on a listing by creation.

**DispatchProof.** `EachReportsOnce`, `RequestsAreBounded`, `RefusalsFallBack`,
`DispatchImplementsTier`. The invariant relates the results to the finished tasks
one to one (`Matched`), a task's state to the requests it has made (`PostsFit`)
and a filtered result to its fallback (`Refusals`). The refinement maps each step
that finishes a task to a report and every other step to a stutter.

**FeedbackStoreProof** goes from the log to its two implementations.
`LogHasNoDuplicates`, `LogKeepsStored` and `LogIsBounded` rest on `Ranked`: entries are
stored once and ranked one after the other, so retention, which keeps the newest, drops
an entry only for enough newer ones. `StoreImplementsLog` (and with it
`StoreHasNoDuplicates`, `StoreKeepsStored`): an append about to write holds a retention
of the content it read (`Prepared`), that content does not record its verdict, and only
a returned append has stored something; the compare-and-swap makes the content read the
content of the file at the write, and there the step is an append of the log.
`RacesAreWon` says that an append that gave up lost real races: each of its attempts
read a file that somebody replaced before it wrote, so the commits it has seen are at
least its attempts (`Overtaken`, with the versions in order). `CommandsStoredOnce` is
about Bitbucket: an entry that some run was told of is in the file and in everything
that may still replace the file, since an append on top of the head holds what the
file holds (`KeepsFile`), and one that prepared its content without the entry cannot
write it, if /src refuses old heads, or is among the late ones the property names
(`Settled`). `BothStores` and `BackendImplementsLog` put the two together: only the
store of the provider moves, and the other one keeps its initial state.

**BitbucketReviewProof.** What the bot knows goes from the comment into the run that
reads it and back, so each part of the invariant (`Inductive`) speaks of every comment
and of the body a run has read. `AcksAreAnswers`: acknowledgements are of answered
commands, and each of the run's own is answered or its reply is still to be posted
(`AnswersDue`), unless an exception was caught, after which none is written.
`AcksAreRecorded`: what became of an acknowledged command is in the store, or its
outcome needs no record (`AnswersFit`). What was acknowledged and forgotten is behind
the window, since the newest acknowledgements are kept and the window is no wider.
`HiddenOnRequest` and `DismissalsLast`: a hidden finding is one for which some entitled person's
command was read (`VerdictsFit`), and
only the ways in `lost` lose a dismissal. `NumbersFollow` is the refinement of FindingIds
by the maps of the comments, and `NamesAreForGood` the promise itself: that a number
names one finding is not inductive, since a map that was cut might give a number again;
the invariant adds that the map is one-to-one, agrees with all that was ever shown and
still holds the highest number of it, whatever the budget cut, so a new number is
higher than every one shown.

**RunPlanProof.** `RangeIsRight`, `CeilingIsKept`, `Vouched`, `ExitCodeTells`. A command
goes through its steps once, so the invariant is a record of what each step has left
behind for the later ones: the shape of the plan at each step (`Shapes`), one exit code
and one outcome (`EndsOnce`), which agents may be missing and what the comment says
of them (`Unsaid`, `Reasons`, `Recorded`), that no history is known before the diff is
computed (`Forgotten`), and what was estimated against what is called (`Spent`). The
theorem about the range assumes that the branch's own commits are not the base
branch's. It says that the review reads all that no review has read of the branch,
whatever the watermark and the filter do, with two exceptions that the code has:
changes that sit in merge commits, and a full range whose commits git did not list. It
says that the range holds nothing of the base branch only where the filter works, or
says that it failed, and there is something to pick. `Vouched` and `ExitCodeTells` are
about approvals, the policy gate and the exit code; neither speaks of a watermark, and
the second one only of agents and severities.

About PolicyGate, in the same module: `GateTypeCorrect`, `GateInvariant`,
`NeverDowngraded`. The invariant is that a newest check run `action_required` on top of an earlier success is *watched*:
its run is still to look again, or it was stopped before it could.

**VerdictProof**, about Merge and Verdict: `InvariantHolds`, `SeverityKept`,
`ClustersAreSound`, `ApprovalsAreEarned`, `SkipsHideNoAnswer`, `JudgeMovesOnly`. Merge's
operators are folds over lists, of which the library's induction theorems cannot speak
here, since they take an operator as a parameter. The proof goes another way: that every
non-empty set of numbers has a least element follows from well-foundedness of `<` on Nat
(`LeastExists`, `UpTo`); with it, a function on the prefixes of a list that obeys the
fold's equation exists (`TakesExists`), so that the fold is the last of a row of values
each made from the one before (`AmongRuns`, `PlaceRuns`, `LinkRuns`, `FlattenRuns`), and
what each step keeps, the row keeps. Of placement and joining that is `Fits`: the
clusters part the findings placed so far, in one file, and each is `Sound`, that is, it
has one real category, style findings only among their likes and a standalone finding
alone. `AcceptsSound` is the heart: what a cluster is *established* as (its first
member with a real category) and whether it has a style finding decide for all of its
members, so the code need not compare a new one with each of them. `JoinsSound` is the
same for two clusters, where each of the findings of one is accepted by what precedes
it. From this `MergedMerges` follows: the collapsed findings part the confident ones and
none is less severe than what it stands for; `KeptKeeps` takes that through
suppression, scope and rollup. Over the phases the invariant `IInv` says that a judgement
starts from what the pipeline kept, that each severity kept stays shown, and that an
approving event has no failed agent and no finding that blocks; that the answers of as
many agents as there are results make all agents (`AllAnswered`) is a bijection between
positions and agents.

**GitHubReviewProof**, about CanonicalReview and SlashDismiss. Every action is first
reduced to a predicate over its effects (`PutSets`, `ResolveSets` and so on), from which
all else is proved. Of the runs: `ApprovalsHeldBack`, since an approving run has no
severe finding and the threads it read, if complete, have all that were there
(`EventFits`, `OpenRead`). `CleanRunsTidy` needs `EachOwn`: each thread a run keeps is
the only kept one of a finding that it reports. `ReportedStaysVisible` needs the
opposite (`Spoken`, `Kept`): each finding is kept, about to be reopened, to be rendered
or in the landed body. A kept thread is not outdated, since only such threads are
matched and new ones are not, unless it was reopened for a finding that recurred.
`CleanRunsBlock`: the landed review is the one that was put back while it blocked or
the last one posted (`Blocks`). Of the commands, in any number:
`LastResolutionFrees` and `ApprovalsAreEarned` rest on what an undisturbed command knows
(`CmdFits`): its copy is the threads as they are, and what blocks is still to be cleared
and has no open thread. `DismissalsSurvive` and `DismissedStaysAway` rest on the union of
verdicts: where a dismissal stands last, `MergeVerdicts` has it, whatever stands before
(`MergedDismissal`), and a step writes that union or a body without verdicts.

**GitLabReviewProof.** `GitLabTypeCorrect`, `FindingsAreShown`, `NothingElseIsShown`.
While a run writes, what it found is parted in four: shown, in a claim, to be posted and
for the note (`WaitingApart`), and the first part and the kept discussions no claim is
left for match one to one (`ShownAt`, in `PostFits`). `ClaimsFits` starts the induction:
of several findings near one discussion exactly one has the claim, and the best
discussion of a finding exists (`BestFits`). Each write moves one finding over to a
discussion that shows none yet, and `ResolveStale` leaves exactly the kept ones, in
order (`NthFits`, `Renumbered`).

Only model-checked: liveness (`TierEnds`, `Returns`, `AllTold`, `CommandsSettle`,
`DuplicatesHeal`), which TLAPS does not prove under fairness. Every other property of a
passing run is stated by a theorem.

## 7. Disagreements between code and documentation

Refuted by a run, with the line quoted in `PROJECT.json`:

1. A blocking review that degrades to a comment does not stop the cleanup from
   dismissing the earlier block (`PostFailureKeepsBlock`).
2. When nothing of the branch itself is left to cherry-pick, the merge filter gives
   way to the unfiltered range, and the review covers commits that a merge brought in
   from the base branch (`OnlyOwnReviewed`).

Met while modelling, part of the models, and not the subject of a run. The review run:

- A full run moves the watermark with the summary, before its findings are posted;
  one that stops in between leaves commits nobody will review. `WatermarkCovered`
  calls them owed.
- A skipped `post_findings` is followed by the stale cleanup all the same.
- The watermark is read from the newest summary comment and advanced on the
  oldest (`vcs/github.py`); nothing covered is lost, an advance may go unread.
- `_upsert.py:49` says that the oldest comment is kept, "in the order that makes index 0
  correct for that provider". GitLab lists notes by their last update, newest first
  (`gitlab.py:243`, `262`), and Bitbucket by `-updated_on`: there the comment updated
  last is kept. `KeptCommentIsLive` is about GitHub's order.
- The watermark also advances when some agents failed; `decide_watermark_advance`
  (`review/watermark.py`), which would hold it back, has no caller.

Findings and verdict:

- A merged finding reported by an agent is capped like an analyzer's when an
  analyzer contributed to its cluster, though `findings/scope.py:123` says that agent
  findings are never touched.
- Of file-less findings with one text the first stands for all, its severity
  included (`findings/merge.py`), so a High one may be lost to a Low one, where
  docs/architecture-internals.md:379 says that a Critical or High finding always
  requests changes; `ApprovalIsEarned` and `MergeKeepsSeverity` are about findings
  with a file for this reason.
- A judge call that fails with any code but "prompt too long" ends the process,
  where docs/architecture-internals.md calls the judge fail-soft.

GitHub and commands:

- A finding that recurred has its old thread reopened even when GitHub shows that one as
  outdated, which `_canonical.py:724` calls effectively invisible; nothing else shows
  the finding but the reply. Any other finding with an outdated thread is posted anew,
  as docs/architecture-internals.md:80 has it. `FindingsStayVisible` makes this one
  exception.
- A command approves on threads it read before another run posted a new finding,
  where docs/slash-commands.md:162 says that the approve stops; and
  `_approve_if_pr_fully_resolved` works on the pages of reviews it got, where its
  docstring says that it stops on an error.
- A review whose last thread is resolved in a run with a partial listing is
  dismissed only by a later run.
- docs/slash-commands.md:122 says that an F number is never reused; a review body
  rewritten in place drops the numbers of findings no longer reported, and the next
  new finding may take one of them.

Feedback store:

- Two jobs that both create the feedback file: the loser's PUT is answered 422,
  which ends its append although the loop retries conflicts (module docstring and
  `WriteRefused`). Bootstrapping takes up one of the attempts.
- On Bitbucket a refused write on top of an old head is final for the run, not
  retried, which the backend's docstring calls a known gap; a later run makes up for
  it. Where the server overwrites, an append that read before and writes after the
  verification takes the entry out. With a retention smaller than the number of
  pending commands, entries could displace one another for ever; BitbucketStore
  leaves retention out.

Bitbucket and GitLab:

- After an exception in `post_findings` the comment is written without
  acknowledgements, the earlier ones included (`bitbucket.py:957`): commands are
  polled again, and the store's search by comment keeps that harmless.
- When the verdicts have no room in the comment, the earlier ones are lost for good
  (`bitbucket.py:1201`); this run's commands are not acknowledged and return.
- A failed identity lookup costs more than a duplicate comment: the run numbers from
  one and carries nothing over. It still polls commands from the comment it has just
  created, where the warning at `bitbucket.py:475` says that polling is off.
- The comment at `_bitbucket_verdicts.py:120` says that a command older than the newest
  200 comments needs a rescan to be picked up. The window at line 681 is the same for a
  rescan: only posting the command again helps. `CommandsSettle` speaks of the commands
  that are still in the window.
- When not even the smallest id map fits, or writing it fails, the comment keeps the
  verdicts and drops the map (`bitbucket.py:1044`): the next run numbers from one.
- Of two contradicting pending commands the oldest has the last word, although both
  are answered as applied.
- GitLab: an older summary note that was not recognised stays until the next full
  run; a summary note that cannot be updated is only logged; an incremental run
  resolves all discussions that it did not match.

Planning and exit code:

- docs/configuration.md:36 says that the filtered review covers the commits of the
  author. What the author changed within a merge commit, say to resolve a conflict, is
  not cherry-picked (`--no-merges`, `diff/compute.py:214`) and not read.
- A filtered full review whose commits git fails to list reads an empty diff and is
  skipped with "no changed files".
- A call ahead of the review that fails with a code from 1 to 3 ends the process with
  that code and nothing posted, where the docstring at `cli.py:226` and the comments
  of the preflight speak of failing soft.
- The estimate leaves out per-agent caps (as its docstring says), the feedback
  addendum, retries and the judge call. `CeilingHolds` is about the estimate's own
  prices and calls.
- A policy's `exclude` is ignored under an allow list (`review/runtime.py:145`), though
  called additive. "A full-mode run always satisfies" a requirement
  (`review/runtime.py:443`), also when an agents filter has narrowed it.
- `orchestrate.py:444` says that the summary text is never empty on a first review; it
  is when the summarizer is excluded.
- An empty agents list in a policy approves with no agent; the comment names them all
  as not run, which is what `VouchedIsDone` asks for.
- A policy file that cannot be read counts as none. The gate reports success also when
  every agent failed, since it is about the tier that ran.
- A skip comment that cannot be posted leaves exit code 0. A skipped run posts no
  review, and with `AI_FAIL_ON_FINDINGS` exits 0 unless the analyzers found something
  severe.
- If the answer to an `action_required` post is lost, the run does not look again: a
  success may stay covered. `StaysSatisfied` excepts such runs (`spoiled`).

## 8. What is left out

- *Data*: texts, Markdown, diffs, prompts, token counts, timestamps other than the
  feedback clock. A finding is a fingerprint in CanonicalReview and BitbucketReview, a
  line and a severity in GitLabReview, a record in Merge and a severity in RunPlan.
- *Fuzzy matches on GitHub.* The findings of CanonicalReview are far apart, so the
  matches of `classify()` between neighbours, and escalation replies, do not occur
  there; GitLabReview has the rule. The switch `AI_CANONICAL_REUSE=false` is left out.
- *Registration of new threads* after a post is all or nothing: the second fetch
  returns everything or fails, in the model.
- *Suppression rules* that verify a version in a registry, and semgrep's rule-id
  rollup.
- *Bitbucket's review state* (`_set_review_state`), which is cleared and set anew after
  each comment, and the contents of the Code Insights report. Several verdict lines in
  one comment are several commands. The listing is sorted by the last update, so an old
  command that is edited comes back into the window; edits are left out. So is a comment
  that drops the id map and the verdicts or acknowledgements together.
- *The order of GitLab's and Bitbucket's listings* in ReviewRun, and with it which of
  several summary comments an upsert keeps there.
- *Commands that no run reads anything of*: `explain`, `feedback`, and `resolve`, which
  the shipped workflow no longer calls.
- *The merge filter's worktree*: DiffRange has which of its git commands fail and what is
  read then, not the worktree. A merge is told to be the base branch's or not for all
  merges at once. Hunk arithmetic, the line map and path globs are inputs.
- *Placement and layout, feedback injection, LLM formats, analyzers, code context,
  telemetry, maintenance scripts*: pure input and output without state between calls.
  Their outcomes are nondeterministic inputs of the models (exit codes, findings,
  failures).

## 9. Plan

Built: all modules of section 2, with proofs about all of their state machines.

Next, in this order:

1. *Fuzzy matching on GitHub*: `classify()` over lines and categories in
   CanonicalReview, with dismissals that match a neighbour, after GitLabReview's
   `Candidates` and `Best`.
2. *F numbers on GitHub*: FindingIds' promise against the bodies of CanonicalReview,
   which rewrite the map, and the reply that looks a fingerprint up by its number.
3. *Review state on Bitbucket*: two participant states, set and cleared by calls that
   fail, in the steps after `PutFindings`.
4. *Line map*: hunk arithmetic of `diff/linemap.py` against a reference definition.

Runs: where a component can be checked together with another one, one run with both is
preferred to two, and a run that refutes a statement gives way once the code or the
statement is corrected. Bounds stay at two or three actors and one or two failures.

Theorems next: what the collapse keeps of a file-less finding, once its code keeps the
worst severity, and the promise of F numbers on GitHub when item 2 is built.
