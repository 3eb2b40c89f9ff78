---------------------------- MODULE RunPlanProof ----------------------------
(***************************************************************************)
(* Proofs about RunPlan, for every configuration, policy file, history,    *)
(* price table and ceiling, and about PolicyGate, for every set of runs.   *)
(***************************************************************************)
EXTENDS RunPlan, PolicyGate, TLAPS

-----------------------------------------------------------------------------
(* The range of commits. *)

Unlisted(h, filter) ==
  Filters(h, filter) /\ ~Incremental(h) /\ h.git = "unlisted"

Dropped(h, filter) == IF Filters(h, filter) THEN h.edits ELSE {}

\* Whatever the watermark and the filter, the commits of the branch that no
\* review has read are in the range, but for what the filter drops.
LEMMA UnseenAreInRange ==
  ASSUME NEW h \in History(Own, Up), NEW filter, ~Unlisted(h, filter)
  PROVE  h.own \ h.seen \subseteq Reviewed(h, filter) \cup Dropped(h, filter)
  <1>1. h.own \subseteq Own /\ h.up \subseteq Up /\ (~Incremental(h) => h.seen = {})
    BY DEF History, Incremental
  <1>2. h.own \cap h.up = {}
    BY <1>1, CommitsAssumption
  <1>3. h.own \ h.seen \subseteq h.own \ Behind(h)
    BY <1>1, <1>2 DEF Behind
  <1>4. h.own \ Behind(h) \subseteq Unfiltered(h) /\ h.own \ Behind(h) \subseteq Full(h)
    BY DEF Unfiltered, Full
  <1>5. CASE ~Filters(h, filter)
    BY <1>3, <1>4, <1>5 DEF Reviewed
  <1>6. CASE Filters(h, filter) /\ h.git = "refused"
    BY <1>3, <1>4, <1>6 DEF Reviewed, FallsBack
  <1>7. CASE Filters(h, filter) /\ h.git # "refused"
    <2>1. CASE h.git = "unlisted"
      <3>1. Incremental(h) /\ Picked(h) = {}
        BY <1>7, <2>1 DEF Unlisted, Picked
      <3>2. QED
        BY <1>3, <1>4, <1>7, <3>1 DEF Reviewed, Filtered
    <2>2. CASE h.git # "unlisted"
      <3>1. h.own \ Behind(h) \subseteq Picked(h) \cup h.edits
        BY <2>2 DEF Picked
      <3>2. QED
        BY <1>3, <1>4, <1>7, <3>1 DEF Reviewed, Filtered, Dropped
    <2>3. QED
      BY <2>1, <2>2
  <1>8. QED
    BY <1>5, <1>6, <1>7

\* With something to pick, the filtered range is the branch's own.
LEMMA FilteredIsOwn ==
  ASSUME NEW h \in History(Own, Up), h.git \in {"works", "refused"}, Picked(h) # {}
  PROVE  Reviewed(h, TRUE) \subseteq Own
  <1>1. h.own \subseteq Own /\ h.up \subseteq Up
    BY DEF History
  <1>2. Merges(h) = {} => Unfiltered(h) \subseteq h.own
    BY <1>1 DEF Merges, Unfiltered, Behind
  <1>3. Picked(h) \subseteq h.own /\ Full(h) = h.own
    BY DEF Picked, Full
  <1>4. ~Filters(h, TRUE) => Merges(h) = {}
    BY DEF Filters
  <1>5. QED
    BY <1>1, <1>2, <1>3, <1>4 DEF Reviewed, Filtered, FallsBack

-----------------------------------------------------------------------------
(* The inductive invariant. *)

Planning == {"configure", "compute", "policy", "analyze", "estimate"}
Calling == {"summarize", "link", "dispatch"}
Ending == {"skip", "post", "gate", "exit", "done"}

IsPlan(p) ==
  p = [diff |-> p.diff, size |-> p.size, incremental |-> p.incremental, reason |-> p.reason,
       eligible |-> p.eligible, agents |-> p.agents, require |-> p.require,
       satisfied |-> p.satisfied, extra |-> p.extra, found |-> p.found,
       broken |-> p.broken, notices |-> p.notices]

IsPosted(p) ==
  p = [kind |-> p.kind, findings |-> p.findings, mayApprove |-> p.mayApprove,
       notices |-> p.notices, named |-> p.named, gate |-> p.gate]

Shapes ==
  /\ pc \in Planning \cup Calling \cup Ending
  /\ IsPlan(plan)
  /\ IsPosted(posted)

\* The exit code and the options it reads belong to the last step.
EndsOnce == pc # "done" => exit = Running /\ flags = {}

\* Nothing is posted before the post, and nothing learned before the calls.
Unsaid ==
  /\ pc \in Planning \cup Calling \cup {"skip", "post"} => posted = Nothing
  /\ pc \in Planning \cup Calling => plan.found = {} /\ plan.broken = {}

\* A reason ends the review: no run with a reason goes on to its calls, and
\* one without never posts a skip.
Reasons ==
  /\ pc \in {"policy", "analyze", "estimate", "post", "gate"} \cup Calling => plan.reason = ""
  /\ pc = "skip" => plan.reason # "" /\ plan.found = {}
  /\ pc = "exit" =>
       IF plan.reason = "" THEN posted.kind \in {"review", "failed"} ELSE posted.kind # "review"

\* What the post says of the run stays what the run knows.
Recorded ==
  /\ posted.kind = "review" \/ pc \in {"gate", "exit"} =>
       posted.mayApprove = MayApprove(plan.broken, plan.extra \cup plan.found)
  /\ posted.kind = "review" =>
       posted.named = NotReviewed /\ plan.reason = "" /\ pc \in {"gate", "exit", "done"}
  /\ pc = "gate" => posted.kind \in {"review", "failed"} /\ posted.gate = "none"
  /\ posted.gate = "success" => posted.kind = "review" /\ plan.satisfied

\* What the estimate was made of, and what has been called of it.
Estimated == Estimate(plan.agents, Preflight, cfg.mode, cfg.models, plan.size)
SummarizerCalls == {EstimatePreflight(a, cfg.models, plan.size) : a \in {b \in {Summarizer} : Described}}
LinkerCalls == {EstimatePreflight(a, cfg.models, plan.size) : a \in {b \in {Linker} : Linked}}

Affordable ==
  purse.ceiling > 0 =>
    \/ purse.notice
    \/ /\ ~Exceeds(Estimated, purse.prices, purse.ceiling)
       /\ UnpricedModels(Estimated, purse.prices) = {}

Spent ==
  /\ pc \in Planning \cup {"summarize"} => called = {}
  /\ pc = "link" => called = SummarizerCalls
  /\ pc = "dispatch" => called = SummarizerCalls \cup LinkerCalls
  /\ pc \in {"post", "gate"} => called = SummarizerCalls \cup LinkerCalls \cup DispatchCalls
  /\ pc \in Calling \cup {"post", "gate"} => Affordable
  /\ pc = "gate" /\ purse.notice => "ceiling" \in posted.notices

\* The history is gone once the agents are chosen.
Forgotten == pc \in {"configure", "compute", "analyze", "estimate"} \cup Calling => hist = NoHistory

IInv == Shapes /\ EndsOnce /\ Unsaid /\ Reasons /\ Recorded /\ Forgotten /\ RangeFollowsBranch /\ Spent

LEMMA Starts == Init => IInv
  <1> SUFFICES ASSUME Init PROVE IInv
    OBVIOUS
  <1>1. Shapes /\ EndsOnce /\ Unsaid /\ Reasons
    BY DEF Init, Shapes, EndsOnce, Unsaid, Reasons, NoPlan, Nothing, IsPlan, IsPosted,
           Planning, Calling, Ending
  <1>2. Recorded /\ Forgotten /\ RangeFollowsBranch /\ Spent
    BY DEF Init, Recorded, Forgotten, RangeFollowsBranch, Spent, NoPlan, Nothing, Planning, Calling
  <1>3. QED
    BY <1>1, <1>2 DEF IInv

-----------------------------------------------------------------------------
(* The steps. *)

LEMMA KeepsShapes == IInv /\ [Next]_vars => Shapes'
  <1> SUFFICES ASSUME IInv, [Next]_vars PROVE Shapes'
    OBVIOUS
  <1> USE DEF IInv, Shapes, Planning, Calling, Ending
  <1>1. CASE UNCHANGED vars
    BY <1>1 DEF vars, IsPlan, IsPosted
  <1>2. CASE Reject \/ Configure \/ ComputeFails \/ SummarizeAborts \/ LinkAborts \/ DryRun
             \/ SkipDry \/ PostRaises \/ Exit \/ Summarize \/ Link
    BY <1>2 DEF Reject, Configure, ComputeFails, SummarizeAborts, LinkAborts, DryRun, SkipDry,
       PostRaises, Exit, Abort, Summarize, Link, CallAlone, NoCall, End, IsPlan, IsPosted
  <1>3. CASE Compute \/ Choose \/ Analyze \/ Price
    <2>1. IsPlan(plan')
      <3>1. CASE Compute
        BY <3>1 DEF Compute, IsPlan
      <3>2. CASE Choose
        BY <3>2 DEF Choose, IsPlan
      <3>3. CASE Analyze \/ Price
        BY <3>3 DEF Analyze, Price, IsPlan
      <3>4. QED
        BY <1>3, <3>1, <3>2, <3>3
    <2>2. QED
      BY <1>3, <2>1 DEF Compute, Choose, Analyze, Price
  <1>4. CASE Dispatch \/ DispatchRejected
    BY <1>4 DEF Dispatch, DispatchRejected, IsPlan
  <1>5. CASE PostSkip \/ PostReview \/ Gate
    BY <1>5 DEF PostSkip, PostReview, Gate, IsPosted
  <1>6. QED
    BY <1>1, <1>2, <1>3, <1>4, <1>5 DEF Next

LEMMA KeepsEndsOnce == IInv /\ [Next]_vars => EndsOnce'
  <1> SUFFICES ASSUME IInv, [Next]_vars PROVE EndsOnce'
    OBVIOUS
  <1> USE DEF IInv, EndsOnce
  <1>1. CASE UNCHANGED vars
    BY <1>1 DEF vars
  <1>2. CASE Reject \/ ComputeFails \/ SummarizeAborts \/ LinkAborts \/ DryRun \/ SkipDry
             \/ PostRaises \/ Exit
    BY <1>2 DEF Reject, ComputeFails, SummarizeAborts, LinkAborts, DryRun, SkipDry, PostRaises,
       Exit, Abort, End
  <1>3. CASE Configure \/ Compute \/ Choose \/ Analyze \/ Price \/ Summarize \/ Link
    BY <1>3 DEF Configure, Compute, Choose, Analyze, Price, Summarize, Link, CallAlone, NoCall
  <1>4. CASE Dispatch \/ DispatchRejected \/ PostSkip \/ PostReview \/ Gate
    BY <1>4 DEF Dispatch, DispatchRejected, PostSkip, PostReview, Gate
  <1>5. QED
    BY <1>1, <1>2, <1>3, <1>4 DEF Next

\* What the steps that decide something about the plan leave of it.
LEMMA PlanFrame ==
  ASSUME Shapes
  PROVE  /\ Compute => plan'.found = plan.found /\ plan'.broken = plan.broken
         /\ Choose => /\ plan'.found = plan.found /\ plan'.broken = plan.broken
                      /\ plan'.reason = plan.reason
         /\ Analyze => /\ plan'.found = plan.found /\ plan'.broken = plan.broken
                       /\ plan'.reason = plan.reason
         /\ Price => /\ plan'.found = plan.found /\ plan'.broken = plan.broken
                     /\ plan'.agents = plan.agents /\ plan'.size = plan.size
                     /\ plan'.incremental = plan.incremental
         /\ Dispatch => /\ plan'.reason = plan.reason /\ plan'.agents = plan.agents
                        /\ plan'.size = plan.size /\ plan'.incremental = plan.incremental
         /\ DispatchRejected => plan'.found = plan.found
  <1> USE DEF Shapes, IsPlan
  <1>1. Compute => plan'.found = plan.found /\ plan'.broken = plan.broken
    BY DEF Compute
  <1>2. Choose => /\ plan'.found = plan.found /\ plan'.broken = plan.broken
                  /\ plan'.reason = plan.reason
    BY DEF Choose
  <1>3. Analyze => /\ plan'.found = plan.found /\ plan'.broken = plan.broken
                   /\ plan'.reason = plan.reason
    BY DEF Analyze
  <1>4. Price => /\ plan'.found = plan.found /\ plan'.broken = plan.broken
                 /\ plan'.agents = plan.agents /\ plan'.size = plan.size
                 /\ plan'.incremental = plan.incremental
    BY DEF Price
  <1>5. Dispatch => /\ plan'.reason = plan.reason /\ plan'.agents = plan.agents
                    /\ plan'.size = plan.size /\ plan'.incremental = plan.incremental
    BY DEF Dispatch
  <1>6. DispatchRejected => plan'.found = plan.found
    BY DEF DispatchRejected
  <1>7. QED
    BY <1>1, <1>2, <1>3, <1>4, <1>5, <1>6

LEMMA KeepsUnsaid == IInv /\ [Next]_vars => Unsaid'
  <1> SUFFICES ASSUME IInv, [Next]_vars PROVE Unsaid'
    OBVIOUS
  <1> USE DEF IInv, Unsaid, Planning, Calling
  <1>1. CASE UNCHANGED vars
    BY <1>1 DEF vars
  <1>2. CASE Reject \/ ComputeFails \/ SummarizeAborts \/ LinkAborts \/ DryRun \/ SkipDry
             \/ PostRaises \/ Exit
    BY <1>2 DEF Reject, ComputeFails, SummarizeAborts, LinkAborts, DryRun, SkipDry, PostRaises,
       Exit, Abort, End
  <1>3. CASE Compute \/ Choose \/ Analyze \/ Price
    BY <1>3, PlanFrame DEF Compute, Choose, Analyze, Price
  <1>4. CASE Configure \/ Summarize \/ Link
    BY <1>4 DEF Configure, Summarize, Link, CallAlone, NoCall
  <1>5. CASE Dispatch \/ DispatchRejected \/ PostSkip \/ PostReview \/ Gate
    BY <1>5 DEF Dispatch, DispatchRejected, PostSkip, PostReview, Gate
  <1>6. QED
    BY <1>1, <1>2, <1>3, <1>4, <1>5 DEF Next

LEMMA KeepsReasons == IInv /\ [Next]_vars => Reasons'
  <1> SUFFICES ASSUME IInv, [Next]_vars PROVE Reasons'
    OBVIOUS
  <1> USE DEF IInv, Reasons, Calling, Planning, Unsaid
  <1>1. CASE UNCHANGED vars
    BY <1>1 DEF vars
  <1>2. CASE Reject \/ ComputeFails \/ SummarizeAborts \/ LinkAborts \/ DryRun \/ SkipDry
             \/ PostRaises \/ Exit
    BY <1>2 DEF Reject, ComputeFails, SummarizeAborts, LinkAborts, DryRun, SkipDry, PostRaises,
       Exit, Abort, End
  <1>3. CASE Compute
    <2>1. IF plan'.reason = "" THEN pc' = "policy" ELSE pc' = "skip"
      BY <1>3 DEF Compute, Shapes, IsPlan
    <2>2. QED
      BY <1>3, <2>1, PlanFrame DEF Compute
  <1>4. CASE Choose \/ Analyze
    BY <1>4, PlanFrame DEF Choose, Analyze
  <1>5. CASE Price
    <2>1. IF plan'.reason = "" THEN pc' = "summarize" ELSE pc' = "skip"
      BY <1>5 DEF Price, Shapes, IsPlan
    <2>2. QED
      BY <1>5, <2>1, PlanFrame DEF Price
  <1>6. CASE Configure \/ Summarize \/ Link
    BY <1>6 DEF Configure, Summarize, Link, CallAlone, NoCall
  <1>7. CASE Dispatch
    BY <1>7, PlanFrame DEF Dispatch
  <1>8. CASE DispatchRejected
    <2>1. plan'.reason = "prompt too long"
      BY <1>8 DEF DispatchRejected, Shapes, IsPlan
    <2>2. QED
      BY <1>8, <2>1, PlanFrame DEF DispatchRejected
  <1>9. CASE PostSkip
    <2>1. posted'.kind \in {"skip", "nothing"}
      BY <1>9 DEF PostSkip, Shapes, IsPosted
    <2>2. QED
      BY <1>9, <2>1 DEF PostSkip
  <1>10. CASE PostReview
    BY <1>10 DEF PostReview
  <1>11. CASE Gate
    <2>1. posted'.kind = posted.kind
      BY <1>11 DEF Gate, Shapes, IsPosted
    <2>2. QED
      BY <1>11, <2>1 DEF Gate, Recorded
  <1>12. QED
    BY <1>1, <1>2, <1>3, <1>4, <1>5, <1>6, <1>7, <1>8, <1>9, <1>10, <1>11 DEF Next

LEMMA KeepsRecorded == IInv /\ [Next]_vars => Recorded'
  <1> SUFFICES ASSUME IInv, [Next]_vars PROVE Recorded'
    OBVIOUS
  <1> USE DEF IInv, Recorded, NotReviewed
  <1>1. CASE UNCHANGED vars
    BY <1>1 DEF vars
  <1>2. CASE Reject \/ ComputeFails \/ SummarizeAborts \/ LinkAborts \/ DryRun \/ SkipDry
             \/ PostRaises \/ Exit
    BY <1>2 DEF Reject, ComputeFails, SummarizeAborts, LinkAborts, DryRun, SkipDry, PostRaises,
       Exit, Abort, End
  \* Until something is posted there is nothing to compare.
  <1>3. CASE Configure \/ Compute \/ Choose \/ Analyze \/ Price \/ Summarize \/ Link
             \/ Dispatch \/ DispatchRejected
    <2>1. posted' = Nothing /\ pc' \notin {"gate", "exit", "done"}
      BY <1>3 DEF Configure, Compute, Choose, Analyze, Price, Summarize, Link, CallAlone, NoCall,
         Dispatch, DispatchRejected, Unsaid, Planning, Calling
    <2>2. QED
      BY <2>1 DEF Nothing
  <1>4. CASE PostSkip
    <2>1. /\ posted'.kind # "review" /\ posted'.gate = posted.gate
          /\ posted'.mayApprove = MayApprove(plan.broken, plan.extra)
      BY <1>4 DEF PostSkip, Shapes, IsPosted
    <2>2. posted.gate = "none" /\ plan.found = {}
      <3>1. pc = "skip"
        BY <1>4 DEF PostSkip
      <3>2. posted = Nothing
        BY <3>1 DEF Unsaid
      <3>3. posted.gate = "none"
        BY <3>2 DEF Nothing
      <3>4. QED
        BY <3>1, <3>3 DEF Reasons, Calling
    <2>3. MayApprove(plan.broken, plan.extra) = MayApprove(plan.broken, plan.extra \cup plan.found)
      BY <2>2 DEF MayApprove
    <2>4. QED
      BY <1>4, <2>1, <2>2, <2>3 DEF PostSkip
  <1>5. CASE PostReview
    <2>1. /\ posted'.kind \in {"review", "failed"} /\ posted'.gate = posted.gate
          /\ posted'.named = NotReviewed
          /\ posted'.mayApprove = MayApprove(plan.broken, plan.extra \cup plan.found)
      BY <1>5 DEF PostReview, Shapes, IsPosted
    <2>2. posted.gate = "none" /\ plan.reason = ""
      <3>1. pc = "post"
        BY <1>5 DEF PostReview
      <3>2. posted = Nothing
        BY <3>1 DEF Unsaid
      <3>3. posted.gate = "none"
        BY <3>2 DEF Nothing
      <3>4. QED
        BY <3>1, <3>3 DEF Reasons, Calling
    <2>3. QED
      BY <1>5, <2>1, <2>2 DEF PostReview
  <1>6. CASE Gate
    <2>1. /\ posted'.kind = posted.kind /\ posted'.named = posted.named
          /\ posted'.mayApprove = posted.mayApprove
          /\ posted'.gate = "success" => posted.kind = "review" /\ plan.satisfied
      BY <1>6 DEF Gate, Shapes, IsPosted
    <2>2. QED
      BY <1>6, <2>1 DEF Gate
  <1>7. QED
    BY <1>1, <1>2, <1>3, <1>4, <1>5, <1>6 DEF Next

LEMMA KeepsForgotten == IInv /\ [Next]_vars => Forgotten'
  <1> SUFFICES ASSUME IInv, [Next]_vars PROVE Forgotten'
    OBVIOUS
  <1> USE DEF IInv, Forgotten, Calling
  <1>1. CASE UNCHANGED vars
    BY <1>1 DEF vars
  <1>2. CASE Reject \/ ComputeFails \/ SummarizeAborts \/ LinkAborts \/ DryRun \/ SkipDry
             \/ PostRaises \/ Exit
    BY <1>2 DEF Reject, ComputeFails, SummarizeAborts, LinkAborts, DryRun, SkipDry, PostRaises,
       Exit, Abort, End
  <1>3. CASE Configure \/ Compute \/ Choose \/ Analyze \/ Price \/ Summarize \/ Link
    BY <1>3 DEF Configure, Compute, Choose, Analyze, Price, Summarize, Link, CallAlone, NoCall
  <1>4. CASE Dispatch \/ DispatchRejected \/ PostSkip \/ PostReview \/ Gate
    BY <1>4 DEF Dispatch, DispatchRejected, PostSkip, PostReview, Gate
  <1>5. QED
    BY <1>1, <1>2, <1>3, <1>4 DEF Next

LEMMA KeepsRange == IInv /\ [Next]_vars => RangeFollowsBranch'
  <1> SUFFICES ASSUME IInv, [Next]_vars, pc' \in {"policy", "skip"} PROVE RangeFollowsBranch'
    BY DEF RangeFollowsBranch
  <1>1. CASE UNCHANGED vars
    BY <1>1 DEF IInv, RangeFollowsBranch, New, vars
  <1>2. CASE Compute
    <2>1. PICK h \in History(Own, Up) : hist' = h /\ plan'.diff = Reviewed(h, cfg.filter)
      BY <1>2 DEF Compute, IInv, Shapes, IsPlan
    <2>2. New' \subseteq plan'.diff \cup Dropped(h, cfg.filter) \/ Unlisted(h, cfg.filter)
      BY <2>1, UnseenAreInRange DEF New
    <2>3. cfg.filter /\ h.git \in {"works", "refused"} /\ Picked(h) # {} => plan'.diff \subseteq Own
      <3>1. cfg.filter => Reviewed(h, cfg.filter) = Reviewed(h, TRUE)
        BY DEF Reviewed, Filters
      <3>2. QED
        BY <2>1, <3>1, FilteredIsOwn
    <2>4. cfg' = cfg
      BY <1>2 DEF Compute
    <2>5. QED
      BY <2>1, <2>2, <2>3, <2>4 DEF RangeFollowsBranch, Dropped, Unlisted
  <1>3. CASE Price \/ DispatchRejected
    <2>1. hist' = NoHistory
      BY <1>3 DEF IInv, Forgotten, Calling, Price, DispatchRejected
    <2>2. QED
      BY <2>1 DEF RangeFollowsBranch, NoHistory, New, Picked
  <1>4. QED
    BY <1>1, <1>2, <1>3 DEF Next, Reject, Configure, ComputeFails, Choose, Analyze, Summarize,
       SummarizeAborts, Link, LinkAborts, DryRun, Dispatch, SkipDry, PostSkip,
       PostReview, Gate, PostRaises, Exit, End, Abort, CallAlone, NoCall

\* The calls of the agents are those of the estimate, as long as no cap of its
\* own stands in for the common one.
LEMMA CallsAreEstimated ==
  ASSUME cfg.override = 0
  PROVE  SummarizerCalls \cup LinkerCalls \cup DispatchCalls = Estimated
  <1>1. DispatchCalls = EstimateReview(plan.agents, cfg.mode, cfg.models, plan.size)
    BY DEF DispatchCalls, DispatchCap, EstimateReview
  <1>2. {EstimatePreflight(a, cfg.models, plan.size) : a \in Preflight}
          = SummarizerCalls \cup LinkerCalls
    BY DEF Preflight, SummarizerCalls, LinkerCalls
  <1>3. QED
    BY <1>1, <1>2 DEF Estimated, Estimate

\* The estimate reads only these fields, which stay once it is made.
LEMMA EstimateStays ==
  ASSUME cfg' = cfg, plan'.agents = plan.agents, plan'.size = plan.size,
         plan'.incremental = plan.incremental
  PROVE  /\ Estimated' = Estimated
         /\ SummarizerCalls' = SummarizerCalls
         /\ LinkerCalls' = LinkerCalls
         /\ DispatchCalls' = DispatchCalls
         /\ Described' = Described
         /\ Linked' = Linked
  <1>1. Described' = Described /\ Linked' = Linked
    BY DEF Described, Linked
  <1>2. Preflight' = Preflight
    BY <1>1 DEF Preflight
  <1>3. SummarizerCalls' = SummarizerCalls /\ LinkerCalls' = LinkerCalls
    BY <1>1 DEF SummarizerCalls, LinkerCalls
  <1>4. Estimated' = Estimated
    BY <1>2 DEF Estimated
  <1>5. DispatchCalls' = DispatchCalls
    BY DEF DispatchCalls, DispatchCap
  <1>6. QED
    BY <1>1, <1>3, <1>4, <1>5

\* The estimate lets the run go on only within the ceiling, or says so.
LEMMA PriceIsAffordable ==
  ASSUME Shapes, Price, pc' = "summarize"
  PROVE  Affordable'
  <1>1. Estimated' = Estimated
    BY PlanFrame, EstimateStays DEF Price
  <1>2. PICK prices \in PriceTables, ceiling \in Ceilings, failed \in BOOLEAN :
          LET calls == Estimated
              reason == IF failed THEN ""
                        ELSE IF TooLong(calls, prices) THEN "context window"
                        ELSE IF Exceeds(calls, prices, ceiling)
                                \/ BlocksUnpriced(calls, prices, ceiling, cfg.unpriced)
                             THEN "cost ceiling" ELSE ""
              unenforced == failed \/ NoPrices(prices) \/ UnpricedModels(calls, prices) # {}
          IN  reason = "" /\ purse' = [ceiling |-> ceiling, prices |-> prices,
                                       notice |-> ceiling > 0 /\ unenforced]
    BY DEF Price, Estimated
  <1>3. purse'.ceiling = ceiling /\ purse'.prices = prices
    BY <1>2
  <1>4. CASE failed \/ NoPrices(prices) \/ UnpricedModels(Estimated, prices) # {}
    BY <1>2, <1>3, <1>4 DEF Affordable
  <1>5. CASE ~(failed \/ NoPrices(prices) \/ UnpricedModels(Estimated, prices) # {})
    <2>1. ~Exceeds(Estimated, prices, ceiling) /\ UnpricedModels(Estimated, prices) = {}
      BY <1>2, <1>5
    <2>2. QED
      BY <1>1, <1>3, <2>1 DEF Affordable
  <1>6. QED
    BY <1>4, <1>5

LEMMA KeepsSpent == IInv /\ [Next]_vars => Spent'
  <1> SUFFICES ASSUME IInv, [Next]_vars PROVE Spent'
    OBVIOUS
  <1> USE DEF IInv, Spent, Planning, Calling
  \* A step that leaves what the estimate reads keeps what it promised.
  <1>1. ASSUME cfg' = cfg, plan'.agents = plan.agents, plan'.size = plan.size,
               plan'.incremental = plan.incremental, purse' = purse, Affordable
        PROVE  Affordable'
    BY <1>1, EstimateStays DEF Affordable
  <1>2. CASE UNCHANGED vars
    BY <1>2, <1>1, EstimateStays DEF vars
  <1>3. CASE Reject \/ ComputeFails \/ SummarizeAborts \/ LinkAborts \/ DryRun \/ SkipDry
             \/ PostRaises \/ Exit \/ PostSkip \/ Gate \/ DispatchRejected
    BY <1>3 DEF Reject, ComputeFails, SummarizeAborts, LinkAborts, DryRun, SkipDry, PostRaises,
       Exit, PostSkip, Gate, DispatchRejected, Abort, End
  <1>4. CASE Configure \/ Compute \/ Choose \/ Analyze
    BY <1>4 DEF Configure, Compute, Choose, Analyze
  <1>5. CASE Price
    BY <1>5, PriceIsAffordable DEF Price
  <1>6. CASE Summarize \/ Link
    <2>1. Affordable'
      BY <1>1, <1>6 DEF Summarize, Link, CallAlone, NoCall
    <2>2. CASE Summarize
      <3>1. called' = SummarizerCalls
        BY <2>2 DEF Summarize, CallAlone, NoCall, SummarizerCalls
      <3>2. SummarizerCalls' = SummarizerCalls
        BY <2>2, EstimateStays DEF Summarize, CallAlone, NoCall
      <3>3. QED
        BY <2>1, <2>2, <3>1, <3>2 DEF Summarize, CallAlone, NoCall
    <2>3. CASE Link
      <3>1. called' = SummarizerCalls \cup LinkerCalls
        BY <2>3 DEF Link, CallAlone, NoCall, LinkerCalls
      <3>2. SummarizerCalls' = SummarizerCalls /\ LinkerCalls' = LinkerCalls
        BY <2>3, EstimateStays DEF Link, CallAlone, NoCall
      <3>3. QED
        BY <2>1, <2>3, <3>1, <3>2 DEF Link, CallAlone, NoCall
    <2>4. QED
      BY <1>6, <2>2, <2>3
  <1>7. CASE Dispatch
    <2>1. /\ plan'.agents = plan.agents /\ plan'.size = plan.size
          /\ plan'.incremental = plan.incremental
      BY <1>7, PlanFrame
    <2>2. /\ pc = "dispatch" /\ pc' = "post" /\ cfg' = cfg /\ purse' = purse
          /\ called' = called \cup DispatchCalls
      BY <1>7 DEF Dispatch
    <2>3. QED
      BY <1>1, <2>1, <2>2, EstimateStays
  <1>8. CASE PostReview
    <2>1. /\ pc = "post" /\ pc' = "gate" /\ UNCHANGED <<cfg, plan, purse, called>>
      BY <1>8 DEF PostReview
    <2>2. posted'.notices = Notices
      BY <1>8 DEF PostReview, Shapes, IsPosted
    <2>3. QED
      BY <1>1, <2>1, <2>2, EstimateStays DEF Notices
  <1>9. QED
    BY <1>2, <1>3, <1>4, <1>5, <1>6, <1>7, <1>8 DEF Next

-----------------------------------------------------------------------------
(* What holds of every run. *)

\* The invariant that carries the argument, with the shape of a run's records.
THEOREM Invariant == Spec => []IInv
  <1>1. IInv /\ [Next]_vars => IInv'
    BY KeepsShapes, KeepsEndsOnce, KeepsUnsaid, KeepsReasons, KeepsRecorded, KeepsForgotten, KeepsRange,
       KeepsSpent DEF IInv
  <1>2. QED
    BY Starts, <1>1, PTL DEF Spec

\* No watermark and no filter hides what no review has read of the branch, but
\* for changes made in merge commits and a full review whose listing failed; and
\* a filter that works, or says that it failed, keeps to the branch while it has
\* something to pick (_filtered_diff).
THEOREM RangeIsRight == Spec => []RangeFollowsBranch
  <1>1. IInv => RangeFollowsBranch
    BY DEF IInv
  <1>2. QED
    BY Invariant, <1>1, PTL

\* What a posted review called stays, at the estimate's prices, within the
\* ceiling, or its comment says that the ceiling was not enforced.
THEOREM CeilingIsKept == Spec => []CeilingHolds
  <1>1. ASSUME IInv, pc = "gate", purse.ceiling > 0, cfg.override = 0
        PROVE  \/ "ceiling" \in posted.notices
               \/ ~Exceeds(called, purse.prices, purse.ceiling)
                    /\ UnpricedModels(called, purse.prices) = {}
    <2>1. called = Estimated
      BY <1>1, CallsAreEstimated DEF IInv, Spent
    <2>2. QED
      BY <1>1, <2>1 DEF IInv, Spent, Affordable
  <1>2. IInv => CeilingHolds
    BY <1>1 DEF CeilingHolds
  <1>3. QED
    BY Invariant, <1>2, PTL

\* An approval has heard, or names as not run, every agent its mode and lists
\* allow; a satisfied gate follows a posted review of the tier required.
THEOREM Vouched == Spec => []VouchedIsDone
  <1>1. ASSUME IInv, posted.kind = "review", posted.mayApprove
        PROVE  plan.eligible \ posted.named \subseteq plan.agents \ plan.broken
    <2>1. MayApprove(plan.broken, plan.extra \cup plan.found)
      BY <1>1, Zenon DEF IInv, Recorded
    <2>2. plan.broken = {}
      BY <2>1 DEF MayApprove
    <2>3. posted.named = plan.eligible \ plan.agents
      BY <1>1 DEF IInv, Recorded, NotReviewed
    <2>4. QED
      BY <2>2, <2>3
  <1>2. IInv => VouchedIsDone
    BY <1>1 DEF VouchedIsDone, IInv, Recorded
  <1>3. QED
    BY Invariant, <1>2, PTL

\* The exit code is drawn from what was posted, which says what the run knows.
LEMMA ExitCodes == IInv /\ ExitTells /\ [Next]_vars => ExitTells'
  <1> SUFFICES ASSUME IInv, ExitTells, [Next]_vars PROVE ExitTells'
    OBVIOUS
  <1>1. CASE UNCHANGED vars
    BY <1>1 DEF vars, ExitTells
  <1>2. CASE Exit
    <2>1. PICK set \in SUBSET Flags :
            /\ flags' = set
            /\ exit' = IF plan.reason # "" THEN SkipCode(plan.reason, posted.mayApprove, set)
                       ELSE IF posted.kind = "failed" THEN 1
                       ELSE IF "fail_on_findings" \in set /\ ~posted.mayApprove THEN 2 ELSE 0
      BY <1>2 DEF Exit, End
    <2>2. posted.mayApprove = MayApprove(plan.broken, plan.extra \cup plan.found)
      BY <1>2 DEF Exit, IInv, Recorded
    <2>3. ASSUME exit' = 0, "fail_on_findings" \in flags'
          PROVE  MayApprove(plan.broken, plan.extra \cup plan.found)
      <3> DEFINE approves == MayApprove(plan.broken, plan.extra \cup plan.found)
      <3>1. exit' = IF plan.reason # "" THEN SkipCode(plan.reason, approves, set)
                    ELSE IF posted.kind = "failed" THEN 1
                    ELSE IF "fail_on_findings" \in set /\ ~approves THEN 2 ELSE 0
        BY <2>1, <2>2, Zenon
      <3>2. approves \in BOOLEAN
        BY DEF MayApprove
      <3>3. "fail_on_findings" \in set /\ exit' = 0
        BY <2>1, <2>3
      <3> HIDE DEF approves
      <3>4. ASSUME ~approves PROVE FALSE
        <4>1. plan.reason # "" => SkipCode(plan.reason, approves, set) = 2
          BY <3>3, <3>4 DEF SkipCode
        <4>2. exit' \in {1, 2}
          BY <3>1, <3>3, <3>4, <4>1
        <4>3. QED
          BY <3>3, <4>2
      <3>5. QED
        BY <3>2, <3>4 DEF approves
    <2>4. plan' = plan
      BY <1>2 DEF Exit
    <2>5. QED
      BY <2>3, <2>4 DEF ExitTells, MayApprove
  \* Every other step leaves the options unread.
  <1>3. CASE Next /\ ~Exit
    <2>1. pc # "done"
      BY <1>3 DEF Next, Reject, Configure, ComputeFails, Compute, Choose, Analyze, Price,
         Summarize, SummarizeAborts, Link, LinkAborts, DryRun, Dispatch, DispatchRejected, SkipDry,
         PostSkip, PostReview, Gate, PostRaises, Abort
    <2>2. flags' = flags
      BY <1>3 DEF Next, Reject, Configure, ComputeFails, Compute, Choose, Analyze, Price,
         Summarize, SummarizeAborts, Link, LinkAborts, DryRun, Dispatch, DispatchRejected, SkipDry,
         PostSkip, PostReview, Gate, PostRaises, Abort, CallAlone, NoCall
    <2>3. QED
      BY <2>1, <2>2 DEF IInv, EndsOnce, ExitTells
  <1>4. QED
    BY <1>1, <1>2, <1>3

\* With AI_FAIL_ON_FINDINGS the exit code 0 is never given over a severe
\* finding or a failed agent, on the skip paths either.
THEOREM ExitCodeTells == Spec => []ExitTells
  <1>1. Init => ExitTells
    BY DEF Init, ExitTells
  <1>2. QED
    BY Invariant, ExitCodes, <1>1, PTL DEF Spec

-----------------------------------------------------------------------------
(* The policy gate. *)

\* The inductive invariant.
GateIInv == GateTypeOK /\ DowngradeIsWatched

LEMMA GateStarts == GateInit => GateIInv
  <1> SUFFICES ASSUME GateInit PROVE GateIInv
    OBVIOUS
  <1> USE DEF GateInit
  <1>1. GateTypeOK
    BY DEF GateTypeOK, Steps, Conclusions
  <1>2. DowngradeIsWatched
    BY DEF DowngradeIsWatched, AlreadySatisfied
  <1>3. QED
    BY <1>1, <1>2 DEF GateIInv

LEMMA GateKeepsType == GateTypeOK /\ [GateNext]_gateVars => GateTypeOK'
  <1> SUFFICES ASSUME GateTypeOK, [GateNext]_gateVars PROVE GateTypeOK'
    OBVIOUS
  <1> USE DEF GateTypeOK, Steps, Conclusions, Goto, Lands
  <1>1. CASE UNCHANGED gateVars
    BY <1>1 DEF gateVars
  <1>2. ASSUME NEW r \in Runs, NEW step \in Steps, Goto(r, step) PROVE at' \in [Runs -> Steps]
    BY <1>2
  <1>3. ASSUME NEW r \in Runs, NEW c \in Conclusions, Lands(r, c)
        PROVE  /\ newest' \in [by : Runs \cup {NoRun}, conclusion : Conclusions \cup {"none"}]
               /\ checks' \subseteq Conclusions
    BY <1>3
  <1>4. ASSUME NEW r \in Runs, PostSuccess(r) \/ PostAgain(r) PROVE GateTypeOK'
    <2>1. Goto(r, "done") /\ Lands(r, "success") /\ UNCHANGED <<meets, spoiled>>
      BY <1>4 DEF PostSuccess, PostAgain
    <2>2. at' \in [Runs -> Steps]
      BY <1>2, <2>1
    <2>3. QED
      BY <1>3, <2>1, <2>2
  <1>5. ASSUME NEW r \in Runs, Lookup(r) \/ LookupFails(r) \/ Recheck(r) PROVE GateTypeOK'
    <2>1. \E step \in Steps : Goto(r, step)
      BY <1>5 DEF Lookup, LookupFails, Recheck
    <2>2. at' \in [Runs -> Steps]
      BY <1>2, <2>1
    <2>3. UNCHANGED <<meets, newest, checks, spoiled>>
      BY <1>5 DEF Lookup, LookupFails, Recheck
    <2>4. QED
      BY <2>2, <2>3
  <1>6. ASSUME NEW r \in Runs, Require(r) \/ RequireUnanswered(r) PROVE GateTypeOK'
    <2>1. \E step \in Steps : Goto(r, step)
      BY <1>6 DEF Require, RequireUnanswered
    <2>2. at' \in [Runs -> Steps]
      BY <1>2, <2>1
    <2>3. Lands(r, "action_required") /\ UNCHANGED meets /\ spoiled' \in BOOLEAN
      BY <1>6 DEF Require, RequireUnanswered
    <2>4. QED
      BY <1>3, <2>2, <2>3
  <1>7. ASSUME NEW r \in Runs, Stops(r) PROVE GateTypeOK'
    <2>1. at' \in [Runs -> Steps]
      BY <1>2, <1>7 DEF Stops
    <2>2. UNCHANGED <<meets, newest, checks>> /\ spoiled' \in BOOLEAN
      BY <1>7 DEF Stops
    <2>3. QED
      BY <2>1, <2>2
  <1>8. QED
    BY <1>1, <1>4, <1>5, <1>6, <1>7 DEF GateNext

LEMMA Watches == GateIInv /\ [GateNext]_gateVars => DowngradeIsWatched'
  <1> SUFFICES ASSUME GateIInv, [GateNext]_gateVars PROVE DowngradeIsWatched'
    OBVIOUS
  <1> USE NoRunAssumption
      DEF GateIInv, GateTypeOK, DowngradeIsWatched, AlreadySatisfied, Goto, Lands, Steps, Conclusions
  <1>1. CASE UNCHANGED gateVars
    BY <1>1 DEF gateVars
  \* A success on top of the others leaves nothing to watch.
  <1>2. ASSUME NEW r \in Runs, PostSuccess(r) \/ PostAgain(r) PROVE DowngradeIsWatched'
    BY <1>2 DEF PostSuccess, PostAgain
  \* A look that finds no success leaves nothing to watch either, one that
  \* finds it is followed by a post; a run at its start has posted nothing on top.
  <1>3. ASSUME NEW r \in Runs, Lookup(r) \/ LookupFails(r) PROVE DowngradeIsWatched'
    <2>1. at[r] = "start" /\ UNCHANGED <<newest, checks, spoiled>>
      BY <1>3 DEF Lookup, LookupFails
    <2>2. \A s \in Runs \ {r} : at'[s] = at[s]
      BY <1>3 DEF Lookup, LookupFails
    <2>3. QED
      BY <2>1, <2>2
  <1>4. ASSUME NEW r \in Runs, Recheck(r) PROVE DowngradeIsWatched'
    BY <1>4 DEF Recheck
  \* The run that posts action_required is the one to look again.
  <1>5. ASSUME NEW r \in Runs, Require(r) \/ RequireUnanswered(r) PROVE DowngradeIsWatched'
    BY <1>5 DEF Require, RequireUnanswered
  <1>6. ASSUME NEW r \in Runs, Stops(r) PROVE DowngradeIsWatched'
    BY <1>6 DEF Stops
  <1>7. QED
    BY <1>1, <1>2, <1>3, <1>4, <1>5, <1>6 DEF GateNext

\* PolicyGate keeps its types, whatever runs review the commit.
THEOREM GateTypeCorrect == GateSpec => []GateTypeOK
  <1>1. GateInit => GateTypeOK
    BY GateStarts DEF GateIInv
  <1>2. GateTypeOK /\ [GateNext]_gateVars => GateTypeOK'
    BY GateKeepsType
  <1>3. QED
    BY <1>1, <1>2, PTL DEF GateSpec

\* The invariant that carries the argument: a downgrade is always watched.
THEOREM GateInvariant == GateSpec => []GateIInv
  <1>1. GateIInv /\ [GateNext]_gateVars => GateIInv'
    BY GateKeepsType, Watches DEF GateIInv
  <1>2. QED
    BY GateStarts, <1>1, PTL DEF GateSpec

\* Once satisfied, the gate of a commit is not left downgraded by the runs of
\* that commit that ran to their end, in whatever order their requests arrive.
THEOREM NeverDowngraded == GateSpec => []StaysSatisfied
  <1>1. GateIInv => StaysSatisfied
    BY DEF GateIInv, DowngradeIsWatched, StaysSatisfied, Settled
  <1>2. QED
    BY GateInvariant, <1>1, PTL
=============================================================================
