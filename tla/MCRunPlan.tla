----------------------------- MODULE MCRunPlan -----------------------------
EXTENDS RunPlan

\* One configuration, and what the others change of it.
Plain == [mode |-> "", allow |-> {}, deny |-> {}, branch |-> "feature", github |-> TRUE,
          models |-> [standard |-> "small", premium |-> "large"], filter |-> TRUE,
          unpriced |-> "warn", override |-> 0, dry |-> FALSE]

MCConfigs ==
  {Plain,
   [Plain EXCEPT !.mode = "full", !.unpriced = "block"],
   [Plain EXCEPT !.mode = "full", !.allow = {"blind-hunter", Summarizer}, !.filter = FALSE],
   [Plain EXCEPT !.deny = {Summarizer}, !.github = FALSE, !.override = 4],
   [Plain EXCEPT !.dry = TRUE],
   [Plain EXCEPT !.allow = {"no-such-agent"}],
   [Plain EXCEPT !.models = [standard |-> None, premium |-> None]]}

Rule(extends, agents, exclude) ==
  [extends |-> extends, agents |-> agents, exclude |-> exclude]

Route(paths, all, branch, policy, require) ==
  [paths |-> paths, pathsAll |-> all, branch |-> branch, policy |-> policy,
   require |-> require]

\* Trivial changes get no reviewer, releases a narrowed full review, and the
\* code a requirement that a quick review does not meet.
Tiers ==
  [kind |-> "file",
   policies |-> [trivial |-> Rule(None, {}, Unset),
                 release |-> Rule("full", {"code-reviewer", "security-reviewer"}, Unset),
                 patch   |-> Rule("release", Unset, {"security-reviewer"})],
   routes |-> <<Route({}, {"docs"}, AnyBranch, "trivial", None),
                Route({"code"}, {}, "feature", "patch", "release"),
                Route({}, {}, "main", "release", "release")>>,
   default |-> "quick"]

\* Policies that extend one another are refused.
Cycle == [Tiers EXCEPT !.policies.trivial.extends = "patch",
                       !.policies.release.extends = "trivial"]

MCPolicyFiles == {NoFile, BadFile, Tiers, Cycle}

MCFiredSets == {{}, Triggers}

MCFree == {{}, {"High"}}

Priced(rate, window) ==
  [rate |-> rate, longRate |-> 2 * rate, threshold |-> 1, window |-> window]

\* Both priced, a small window, one without a price, none.
MCPriceTables ==
  {[small |-> Priced(1, 0), large |-> Priced(2, 0)],
   [small |-> Priced(1, 3), large |-> Priced(2, 0)],
   [small |-> Priced(0, 0), large |-> Priced(2, 0)],
   [small |-> Priced(0, 0), large |-> Priced(0, 0)]}
=============================================================================
