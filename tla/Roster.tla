------------------------------- MODULE Roster -------------------------------
(***************************************************************************)
(* The review agents and which of them a run may dispatch                  *)
(* (agents/roster.py, agents/gates.py, review/preflight.py).               *)
(***************************************************************************)

Always == "always"

Triggers == {"has_error_patterns", "has_code_or_infra",
             "has_security_patterns", "has_control_flow"}

AgentSpec(tier, trigger, fullModeOnly, enriched) ==
  [tier |-> tier, trigger |-> trigger, full_mode_only |-> fullModeOnly,
   context_enrichment_eligible |-> enriched]

\* The agents of the generic dispatch.
AGENTS ==
  [name \in {"code-reviewer", "silent-failure-hunter", "architecture-reviewer",
             "security-reviewer", "blind-hunter", "edge-case-hunter",
             "adversarial-general"} |->
     CASE name = "code-reviewer"         -> AgentSpec(1, Always, FALSE, TRUE)
       [] name = "silent-failure-hunter" -> AgentSpec(1, "has_error_patterns", FALSE, TRUE)
       [] name = "architecture-reviewer" -> AgentSpec(2, "has_code_or_infra", TRUE, TRUE)
       [] name = "security-reviewer"     -> AgentSpec(2, "has_security_patterns", TRUE, TRUE)
       [] name = "blind-hunter"          -> AgentSpec(2, Always, TRUE, FALSE)
       [] name = "edge-case-hunter"      -> AgentSpec(2, "has_control_flow", TRUE, TRUE)
       [] name = "adversarial-general"   -> AgentSpec(2, Always, TRUE, TRUE)]

Reviewers == DOMAIN AGENTS

\* The two that are dispatched on their own, before the others.
Summarizer == "pr-summarizer"
Linker == "issue-linker"

AGENT_NAMES == Reviewers \cup {Summarizer, Linker}

\* An allow list decides alone; the deny list counts only without one.
AgentAllowed(name, allow, deny) ==
  IF allow # {} THEN name \in allow ELSE name \notin deny

\* The agents of the mode that the lists permit, before the gates.
Eligible(mode, allow, deny) ==
  {a \in Reviewers : /\ ~AGENTS[a].full_mode_only \/ mode = "full"
                     /\ AgentAllowed(a, allow, deny)}

\* Those whose trigger fired on this diff.
FilterAgents(agents, fired) == {a \in agents : AGENTS[a].trigger \in fired \cup {Always}}

ShouldRunSummarizer(incremental, allow, deny) ==
  ~incremental /\ AgentAllowed(Summarizer, allow, deny)

ShouldRunLinker(incremental, mode, github, allow, deny) ==
  ~incremental /\ mode = "full" /\ github /\ AgentAllowed(Linker, allow, deny)

\* Tier 2 uses the premium model, in full mode.
ModelOf(agent, mode, models) ==
  IF AGENTS[agent].tier = 2 /\ mode = "full" THEN models.premium ELSE models.standard
=============================================================================
