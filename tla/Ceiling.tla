------------------------------ MODULE Ceiling ------------------------------
(***************************************************************************)
(* The cost estimate made before any model is called, and the limits it is *)
(* held against (review/cost_ceiling.py, pricing.py).                      *)
(*                                                                         *)
(* A call is a record: the agent, its model, the tokens sent and the cap   *)
(* on the tokens returned.  A price table gives each model its rate, the   *)
(* rate of a long prompt and from where it counts, and the context window; *)
(* a rate or a window of 0 is one the table does not have.                 *)
(***************************************************************************)
EXTENDS Integers, FiniteSets, Roster
LOCAL INSTANCE FiniteSetsExt

CONSTANTS MaxTokensPerAgent,   \* AI_MAX_TOKENS_PER_AGENT
          SharedTokens         \* the shared context block and language profiles

\* The caps of the two agents that do not read AI_MAX_TOKENS_PER_AGENT.
PreflightCap(agent) == IF agent = Summarizer THEN 2 ELSE 1

\* No entry for any model: the file is missing, empty or not JSON.
NoPrices(prices) == \A m \in DOMAIN prices : prices[m].rate = 0 /\ prices[m].window = 0

Unpriced(call, prices) == prices[call.model].rate = 0

RateOf(call, prices) ==
  LET p == prices[call.model] IN IF call.input > p.threshold THEN p.longRate ELSE p.rate

\* An unpriced model counts as nothing.
CostOf(call, prices) ==
  IF Unpriced(call, prices) THEN 0 ELSE (call.input + call.output) * RateOf(call, prices)

Total(calls, prices) == MapThenSumSet(LAMBDA c : CostOf(c, prices), calls)

InputOf(agent, size) ==
  size + IF AGENTS[agent].context_enrichment_eligible THEN SharedTokens ELSE 0

\* The calls of the generic dispatch, as they are estimated.
EstimateReview(agents, mode, models, size) ==
  {[agent |-> a, model |-> ModelOf(a, mode, models),
    input |-> InputOf(a, size), output |-> MaxTokensPerAgent] : a \in agents}

\* One of the two others; the diff stands for whatever it reads.
EstimatePreflight(agent, models, size) ==
  [agent |-> agent, model |-> models.standard, input |-> size, output |-> PreflightCap(agent)]

EstimateOnlyReview(agents, preflight, mode, models, size) ==
  EstimateReview(agents, mode, models, size)

Estimate(agents, preflight, mode, models, size) ==
  EstimateReview(agents, mode, models, size)
    \cup {EstimatePreflight(a, models, size) : a \in preflight}

\* A prompt and its answer must fit the window the margin leaves.
TooLong(calls, prices) ==
  \E c \in calls : /\ prices[c.model].window > 0
                   /\ c.input + c.output > prices[c.model].window

UnpricedModels(calls, prices) == {c.model : c \in {d \in calls : Unpriced(d, prices)}}

\* Equality is within the ceiling; a ceiling of 0 is none.
Exceeds(calls, prices, ceiling) == ceiling > 0 /\ Total(calls, prices) > ceiling

\* In block mode an unpriced model ends the review, unless nothing is priced.
BlocksUnpriced(calls, prices, ceiling, mode) ==
  /\ ceiling > 0
  /\ mode = "block"
  /\ ~NoPrices(prices)
  /\ UnpricedModels(calls, prices) # {}
=============================================================================
