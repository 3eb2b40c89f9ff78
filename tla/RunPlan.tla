------------------------------ MODULE RunPlan ------------------------------
(***************************************************************************)
(* One review command from its configuration to its exit code: what it     *)
(* decides to review, with which agents, at what cost, what it posts and   *)
(* what it tells its caller (cli.py, review/runtime.py, orchestrate.py).   *)
(*                                                                         *)
(* The tokens of a diff are counted as its commits.  The agents' own work  *)
(* is module Dispatch, the findings' is module Verdict, the writes' is     *)
(* module ReviewRun; here an agent answers or fails, and the findings are  *)
(* the severities left in the end.                                         *)
(***************************************************************************)
EXTENDS Integers, FiniteSets, Policy, Ceiling, DiffRange

CONSTANTS Own, Up,         \* commits of the branch, and merged into it
          MaxDiffLines,    \* MAX_DIFF_LINES
          Configs,         \* the configurations a run may start with
          PolicyFiles,     \* the policy files of the base branch
          Kinds,           \* kinds of changed file the routes tell apart
          FiredSets,       \* the sets of gates a diff may fire
          Free,            \* the findings of the analyzers, as severities
          PriceTables, Ceilings

\* A commit is of the branch itself or was merged into it, never both.
ASSUME CommitsAssumption == Own \cap Up = {}

VARIABLES pc,       \* the next step
          cfg,      \* the configuration, narrowed by the policy
          hist,     \* the history compared, until the agents are chosen
          plan,     \* what the run has decided and learned
          purse,    \* prices and ceiling, from the estimate to the post
          called,   \* the calls made to a model, until the post
          posted,   \* what was posted
          flags,    \* the opt-in exit codes, drawn when they are read
          exit      \* the exit code

vars == <<pc, cfg, hist, plan, purse, called, posted, flags, exit>>

Flags == {"fail_on_findings", "fail_on_cost_ceiling", "fail_on_context_window"}
Blocking == {"Critical", "High"}
Running == -1

\* No policy file, one that is not a mapping, and no history to compare.
NoFile == [kind |-> "none"]
BadFile == [kind |-> "bad"]
NoHistory ==
  [own |-> {}, edits |-> {}, up |-> {}, seen |-> {}, mark |-> "none", git |-> "works"]

NoPlan == [diff |-> {}, size |-> 0, incremental |-> FALSE, reason |-> "",
           eligible |-> {}, agents |-> {}, require |-> FALSE, satisfied |-> FALSE,
           extra |-> {}, found |-> {}, broken |-> {}, notices |-> {}]

NoPurse == [ceiling |-> 0, prices |-> [m \in {} |-> 0], notice |-> FALSE]

Nothing == [kind |-> "nothing", findings |-> {}, mayApprove |-> TRUE,
            notices |-> {}, named |-> {}, gate |-> "none"]

Init ==
  /\ pc = "configure"
  /\ cfg \in Configs
  /\ hist = NoHistory
  /\ plan = NoPlan
  /\ purse = NoPurse
  /\ called = {}
  /\ posted = Nothing
  /\ flags = {}
  /\ exit = Running

\* The command ends, and what only its steps read is gone.
End(code) ==
  /\ pc' = "done"
  /\ exit' = code
  /\ hist' = NoHistory
  /\ purse' = NoPurse
  /\ called' = {}

-----------------------------------------------------------------------------
(* Configuration and diff. *)

\* An unknown name, or a provider without default models, ends the run.
Acceptable(c) ==
  /\ c.mode \in {"", "quick", "full"}
  /\ c.allow \cup c.deny \subseteq AGENT_NAMES
  /\ None \notin {c.models.standard, c.models.premium}

Reject ==
  /\ pc = "configure"
  /\ ~Acceptable(cfg)
  /\ End(1)
  /\ UNCHANGED <<cfg, plan, posted, flags>>

Configure ==
  /\ pc = "configure"
  /\ Acceptable(cfg)
  /\ pc' = "compute"
  /\ UNCHANGED <<cfg, hist, plan, purse, called, posted, flags, exit>>

\* git cannot produce the diff: the error reaches the command.
ComputeFails ==
  /\ pc = "compute"
  /\ End(1)
  /\ UNCHANGED <<cfg, plan, posted, flags>>

Compute ==
  /\ pc = "compute"
  /\ \E h \in History(Own, Up) :
       LET diff == Reviewed(h, cfg.filter)
           reason == IF diff = {} THEN "no changed files"
                     ELSE IF Cardinality(diff) > MaxDiffLines THEN "diff too large" ELSE ""
       IN /\ hist' = h
          /\ plan' = [plan EXCEPT !.diff = diff, !.size = Cardinality(diff), !.reason = reason,
                                  !.incremental = IsIncremental(h, cfg.filter)]
          /\ pc' = IF reason = "" THEN "policy" ELSE "skip"
  /\ UNCHANGED <<cfg, purse, called, posted, flags, exit>>

-----------------------------------------------------------------------------
(* The agents, the free findings and the estimate. *)

\* A file that is absent, unreadable or invalid leaves the defaults.
Loaded(file) == file \notin {NoFile, BadFile} /\ Valid(file)

Choose ==
  /\ pc = "policy"
  /\ \E file \in PolicyFiles, touched \in (SUBSET Kinds) \ {{}}, fired \in FiredSets :
       LET route == IF Loaded(file) THEN MatchRoute(file, touched, cfg.branch) ELSE NoRoute
           policy == IF Loaded(file) THEN ResolvePolicy(file, route.policy) ELSE NoPolicy
           lists == MergeAllowlist(cfg.allow, cfg.deny, policy)
           mode == ReviewMode(cfg.mode, policy)
           eligible == Eligible(mode, lists.allow, lists.deny)
       IN /\ cfg' = [cfg EXCEPT !.mode = mode, !.allow = lists.allow, !.deny = lists.deny]
          /\ plan' = [plan EXCEPT !.diff = {}, !.eligible = eligible,
                                  !.agents = FilterAgents(eligible, fired),
                                  !.require = route.require # None,
                                  !.satisfied = GateSatisfied(route, mode),
                                  !.notices = {n \in {"policy ignored"} :
                                                 file # NoFile /\ ~Loaded(file)}]
  /\ hist' = NoHistory
  /\ pc' = "analyze"
  /\ UNCHANGED <<purse, called, posted, flags, exit>>

\* The analyzers and the SARIF files make no call; a failure leaves nothing.
Analyze ==
  /\ pc = "analyze"
  /\ \E extra \in Free : plan' = [plan EXCEPT !.extra = extra]
  /\ pc' = "estimate"
  /\ UNCHANGED <<cfg, hist, purse, called, posted, flags, exit>>

Described == ShouldRunSummarizer(plan.incremental, cfg.allow, cfg.deny)
Linked == ShouldRunLinker(plan.incremental, cfg.mode, cfg.github, cfg.allow, cfg.deny)

Preflight == {a \in {Summarizer} : Described} \cup {a \in {Linker} : Linked}

\* The estimate ends the review, lets it go on, or fails and lets it go on.
Price ==
  /\ pc = "estimate"
  /\ \E prices \in PriceTables, ceiling \in Ceilings, failed \in BOOLEAN :
       LET calls == Estimate(plan.agents, Preflight, cfg.mode, cfg.models, plan.size)
           reason == IF failed THEN ""
                     ELSE IF TooLong(calls, prices) THEN "context window"
                     ELSE IF Exceeds(calls, prices, ceiling)
                             \/ BlocksUnpriced(calls, prices, ceiling, cfg.unpriced)
                          THEN "cost ceiling" ELSE ""
           unenforced == failed \/ NoPrices(prices) \/ UnpricedModels(calls, prices) # {}
       IN /\ plan' = [plan EXCEPT !.reason = reason]
          /\ IF reason = ""
             THEN /\ pc' = "summarize"
                  /\ purse' = [ceiling |-> ceiling, prices |-> prices,
                               notice |-> ceiling > 0 /\ unenforced]
             ELSE /\ pc' = "skip"
                  /\ purse' = purse
  /\ UNCHANGED <<cfg, hist, called, posted, flags, exit>>

-----------------------------------------------------------------------------
(* The calls. *)

\* An agent of its own is called.  It answers or fails softly, or the failure
\* of the call is one that ends the command with the code of the failure.
CallAlone(agent, next) ==
  /\ called' = called \cup {EstimatePreflight(agent, cfg.models, plan.size)}
  /\ pc' = next
  /\ UNCHANGED <<cfg, hist, plan, purse, posted, flags, exit>>

Abort(step) ==
  /\ pc = step
  /\ \E code \in 1..3 : End(code)
  /\ UNCHANGED <<cfg, plan, posted, flags>>

NoCall(next) ==
  /\ pc' = next
  /\ UNCHANGED <<cfg, hist, plan, purse, called, posted, flags, exit>>

Summarize ==
  /\ pc = "summarize"
  /\ IF Described THEN CallAlone(Summarizer, "link") ELSE NoCall("link")

SummarizeAborts == Described /\ Abort("summarize")

Link ==
  /\ pc = "link"
  /\ IF Linked THEN CallAlone(Linker, "dispatch") ELSE NoCall("dispatch")

LinkAborts == Linked /\ Abort("link")

\* A dry run ends after these two agents have been called.
DryRun ==
  /\ pc = "dispatch"
  /\ cfg.dry
  /\ End(0)
  /\ UNCHANGED <<cfg, plan, posted, flags>>

\* The cap of an agent's answer: its own variable overrides the common one,
\* which is all the estimate knows.
DispatchCap == IF cfg.override # 0 THEN cfg.override ELSE MaxTokensPerAgent

DispatchCalls ==
  {[c EXCEPT !.output = DispatchCap] :
     c \in EstimateReview(plan.agents, cfg.mode, cfg.models, plan.size)}

\* The agents answer or fail; found are the severities their answers leave
\* after the findings' pipeline.
Dispatch ==
  /\ pc = "dispatch"
  /\ ~cfg.dry
  /\ called' = called \cup DispatchCalls
  /\ \E broken \in {{}, plan.agents} \cup {{a} : a \in plan.agents},
        found \in {{}, {"Low"}, {"High"}} :
       /\ broken = plan.agents => found = {}
       /\ plan' = [plan EXCEPT !.broken = broken, !.found = found]
  /\ pc' = "post"
  /\ UNCHANGED <<cfg, hist, purse, posted, flags, exit>>

\* The provider found every prompt too long: the run posts a skip after all.
DispatchRejected ==
  /\ pc = "dispatch"
  /\ ~cfg.dry
  /\ plan.agents # {}
  /\ called' = called \cup DispatchCalls
  /\ plan' = [plan EXCEPT !.broken = plan.agents, !.reason = "prompt too long"]
  /\ pc' = "skip"
  /\ UNCHANGED <<cfg, hist, purse, posted, flags, exit>>

-----------------------------------------------------------------------------
(* What is posted, and the exit code. *)

MayApproveIfAnswered(broken, findings) == findings \cap Blocking = {}

\* classify_review_outcome: a failed agent or a severe finding does not approve.
MayApprove(broken, findings) == broken = {} /\ findings \cap Blocking = {}

\* The eligible agents the comment names as not run.
NotReviewed == plan.eligible \ plan.agents

\* A dry run posts no skip.
SkipDry ==
  /\ pc = "skip"
  /\ cfg.dry
  /\ End(0)
  /\ UNCHANGED <<cfg, plan, posted, flags>>

\* The skip comment carries the free findings.  A failed comment is not told.
PostSkip ==
  /\ pc = "skip"
  /\ ~cfg.dry
  /\ \E kind \in {"skip", "nothing"} :
       posted' = [posted EXCEPT !.kind = kind, !.findings = plan.extra,
                                !.mayApprove = MayApprove(plan.broken, plan.extra)]
  /\ pc' = "exit"
  /\ purse' = NoPurse
  /\ called' = {}
  /\ hist' = NoHistory
  /\ UNCHANGED <<cfg, plan, flags, exit>>

\* The notices above the usage table, which no display mode hides.
Notices ==
  plan.notices \cup {n \in {"ceiling"} : purse.notice}
               \cup {n \in {"incremental"} : plan.incremental}

PostReview ==
  /\ pc = "post"
  /\ \E kind \in {"review", "failed"} :
       LET findings == plan.extra \cup plan.found
       IN posted' = [posted EXCEPT
            !.kind = kind,
            !.findings = findings,
            !.mayApprove = MayApprove(plan.broken, findings),
            !.named = NotReviewed,
            !.notices = Notices]
  /\ pc' = "gate"
  /\ UNCHANGED <<cfg, hist, plan, purse, called, flags, exit>>

\* The check run of the policy gate: module PolicyGate has its own steps.
Gate ==
  /\ pc = "gate"
  /\ posted' = [posted EXCEPT !.gate =
       IF posted.kind # "review" \/ ~plan.require \/ ~cfg.github THEN "none"
       ELSE IF plan.satisfied THEN "success" ELSE "action_required"]
  /\ pc' = "exit"
  /\ purse' = NoPurse
  /\ called' = {}
  /\ UNCHANGED <<cfg, hist, plan, flags, exit>>

\* A write that raises ends the command, wherever it was.
PostRaises ==
  /\ pc = "post" \/ (pc = "skip" /\ ~cfg.dry)
  /\ End(1)
  /\ UNCHANGED <<cfg, plan, posted, flags>>

SkipCodeIgnoresFindings(reason, mayApprove, set) ==
  IF \/ reason = "cost ceiling" /\ "fail_on_cost_ceiling" \in set
     \/ reason \in {"context window", "prompt too long"} /\ "fail_on_context_window" \in set
  THEN 2 ELSE 0

\* The exit code of a run that posted a skip.
SkipCode(reason, mayApprove, set) ==
  IF \/ reason = "cost ceiling" /\ "fail_on_cost_ceiling" \in set
     \/ reason \in {"context window", "prompt too long"} /\ "fail_on_context_window" \in set
     \/ ~mayApprove /\ "fail_on_findings" \in set
  THEN 2 ELSE 0

Exit ==
  /\ pc = "exit"
  /\ \E set \in SUBSET Flags :
       /\ flags' = set
       /\ End(IF plan.reason # "" THEN SkipCode(plan.reason, posted.mayApprove, set)
              ELSE IF posted.kind = "failed" THEN 1
              ELSE IF "fail_on_findings" \in set /\ ~posted.mayApprove THEN 2 ELSE 0)
  /\ UNCHANGED <<cfg, plan, posted>>

Next ==
  \/ Reject \/ Configure \/ ComputeFails \/ Compute
  \/ Choose \/ Analyze \/ Price
  \/ Summarize \/ SummarizeAborts \/ Link \/ LinkAborts
  \/ DryRun \/ Dispatch \/ DispatchRejected
  \/ SkipDry \/ PostSkip \/ PostReview \/ Gate \/ PostRaises \/ Exit

Spec == Init /\ [][Next]_vars

-----------------------------------------------------------------------------
(* Properties. *)

\* What the branch has of its own that no review has read.
New == hist.own \ hist.seen

(***************************************************************************)
(* What is new on the branch is in the diff to review, except for changes  *)
(* made in merge commits, which the merge filter does not pick, and except *)
(* for a full review that failed to list the commits to pick, which reads  *)
(* nothing.  Where the filter works, or fails and says so, nothing of the  *)
(* base branch is read once something of the branch is left to pick, how-  *)
(* ever old the watermark is (compute_diff, _filtered_diff).               *)
(***************************************************************************)
RangeFollowsBranch ==
  pc \in {"policy", "skip"} =>
    /\ \/ New \subseteq plan.diff \cup (IF Filters(hist, cfg.filter) THEN hist.edits ELSE {})
       \/ Filters(hist, cfg.filter) /\ ~Incremental(hist) /\ hist.git = "unlisted"
    /\ cfg.filter /\ hist.git \in {"works", "refused"} /\ Picked(hist) # {} =>
         plan.diff \subseteq Own

(***************************************************************************)
(* A review posted under AI_MAX_COST_USD called models that cost, at the   *)
(* estimate's prices, no more than the ceiling, all of them priced, or the *)
(* comment says that the ceiling was not enforced.  A cap of its own for   *)
(* an agent is not in the estimate, as its docstring says.                 *)
(***************************************************************************)
CeilingHolds ==
  pc = "gate" /\ purse.ceiling > 0 /\ cfg.override = 0 =>
    \/ "ceiling" \in posted.notices
    \/ ~Exceeds(called, purse.prices, purse.ceiling) /\ UnpricedModels(called, purse.prices) = {}

(***************************************************************************)
(* What a run vouches for it has done.  A review that approves has heard   *)
(* every agent its mode and lists allow, or names it as not run; a gate it *)
(* reports as satisfied follows a posted review of the tier required.      *)
(***************************************************************************)
VouchedIsDone ==
  /\ posted.kind = "review" /\ posted.mayApprove =>
       plan.eligible \ posted.named \subseteq plan.agents \ plan.broken
  /\ posted.gate = "success" => posted.kind = "review" /\ plan.reason = "" /\ plan.satisfied

(***************************************************************************)
(* With AI_FAIL_ON_FINDINGS the exit code 0 of a run that is not dry says  *)
(* that no severe finding is known, the analyzers' included, and that no   *)
(* agent failed, on the skip paths too (cli._run_review_async).            *)
(***************************************************************************)
ExitTells ==
  exit = 0 /\ "fail_on_findings" \in flags /\ ~cfg.dry =>
    (plan.extra \cup plan.found) \cap Blocking = {} /\ plan.broken = {}

(***************************************************************************)
(* docs/configuration.md says of the merge filter that the review covers   *)
(* only the commits of the author, unless a cherry-pick conflicts.         *)
(***************************************************************************)
OnlyOwnReviewed ==
  pc = "policy" /\ cfg.filter /\ hist.git = "works" => plan.diff \subseteq Own
=============================================================================
