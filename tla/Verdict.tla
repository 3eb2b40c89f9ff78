------------------------------- MODULE Verdict -------------------------------
(***************************************************************************)
(* From the agents' answers to the review's verdict: phases 1 to 3 of      *)
(* orchestrate.run_review().  The agents of a tier report in any order     *)
(* (AgentTier); what they and the analyzers found is merged, suppressed,   *)
(* scoped and rolled up (Merge), judged (findings/judge.py), and           *)
(* classified and capped (review/outcome.py).                              *)
(***************************************************************************)
EXTENDS Merge

CONSTANTS
    Agents,     \* the agents of the tier
    Answers,    \* what an agent's answer can contain: agent -> set of sequences of findings
    Known,      \* what the analyzers can have found: a set of sequences of findings
    JudgePass   \* enable_judge_pass, with a judge model and prompt

\* Every finding that is reported names itself in "from", and nobody else does: the
\* analyzers share no source with an agent (ALL_AGENTS in agents/roster.py).
IsReport(fs) ==
    /\ fs \in Seq(Finding)
    /\ \A i \in DOMAIN fs : /\ fs[i].sources = {fs[i].source} /\ ~fs[i].demoted
                            /\ fs[i].from # {} /\ fs[i].from \subseteq {fs[i].source} \X Nat
    /\ \A i, j \in DOMAIN fs : i # j => fs[i].from \cap fs[j].from = {}

ASSUME VerdictAssumption ==
    /\ IsFiniteSet(Agents) /\ DOMAIN Answers = Agents /\ JudgePass \in BOOLEAN
    /\ \A a \in Agents : \A fs \in Answers[a] :
           IsReport(fs) /\ \A i \in DOMAIN fs : fs[i].source = a
    /\ \A fs \in Known :
           IsReport(fs) /\ \A i \in DOMAIN fs : fs[i].source \notin Agents

VARIABLES
    said,      \* agent -> the findings in its answer
    known,     \* extra_findings
    results,   \* the tier's results so far
    phase,
    kept,      \* the findings to be posted
    outcome    \* the ReviewOutcome, and "posted": its event under the ceiling

vars == <<said, known, results, phase, kept, outcome>>

Tier == INSTANCE AgentTier

Successes == Among(results, {r \in ToSet(results) : r.code = Tier!Answer})
Failures == Among(results, {r \in ToSet(results) : r.code # Tier!Answer})

\* Analyzer findings first, then those of the answers in the order they came.
Raw == known \o FlattenSeq([i \in DOMAIN Successes |-> said[Successes[i].agent]])

NoOutcome == [risk |-> "", event |-> "", mayApprove |-> FALSE, incomplete |-> FALSE, posted |-> ""]

-----------------------------------------------------------------------------
(* review/outcome.py *)

Critical == 0
High == 1
Medium == 2
Low == 3
RiskOf(fs) == <<"Critical", "High", "Medium", "Low">>[1 + Min({f.sev : f \in fs})]

\* classify_review_outcome
ClassifyFailedApproves(fs, failed) ==
    LET blocking == \E f \in fs : f.sev <= High
        event    == IF blocking THEN "REQUEST_CHANGES"
                    ELSE IF failed /\ fs = {} THEN "COMMENT" ELSE "APPROVE"
    IN  [risk |-> IF fs # {} THEN RiskOf(fs) ELSE IF failed THEN "Unknown" ELSE "None",
         event |-> event, mayApprove |-> event = "APPROVE", incomplete |-> failed,
         posted |-> ""]
Classify(fs, failed) ==
    LET blocking == \E f \in fs : f.sev <= High
        event    == IF blocking THEN "REQUEST_CHANGES" ELSE IF failed THEN "COMMENT" ELSE "APPROVE"
    IN  [risk |-> IF fs # {} THEN RiskOf(fs) ELSE IF failed THEN "Unknown" ELSE "None",
         event |-> event, mayApprove |-> event = "APPROVE", incomplete |-> failed,
         posted |-> ""]

\* cap_review_outcome: what a ceiling does not allow becomes a comment.
Ceilings == {"approve", "request-changes", "comment"}
Allowed(ceiling) ==
    {"COMMENT"} \cup (IF ceiling = "comment" THEN {} ELSE {"REQUEST_CHANGES"})
                \cup (IF ceiling = "approve" THEN {"APPROVE"} ELSE {})
Capped(o, ceiling) ==
    [o EXCEPT !.posted = IF o.event \in Allowed(ceiling) THEN o.event ELSE "COMMENT"]

-----------------------------------------------------------------------------
(* run_review *)

Init ==
    /\ said = [a \in Agents |-> <<>>]
    /\ known \in Known
    /\ Tier!Init
    /\ phase = "agents" /\ kept = {} /\ outcome = NoOutcome

\* extract_findings makes no finding of an answer it cannot parse.
AgentReports(a, code) ==
    /\ phase = "agents"
    /\ Tier!Report(a, code)
    /\ \E fs \in IF code = Tier!Answer THEN Answers[a] \cup {<<>>} ELSE {<<>>} :
           said' = [said EXCEPT ![a] = fs]
    /\ UNCHANGED <<known, phase, kept, outcome>>

\* The provider found every agent's prompt too long: no review, one skip comment
\* with the analyzers' findings.
SkippedByAny(rs) == \E i \in DOMAIN rs : rs[i].code = Tier!TooLong
Skipped(rs) == rs # <<>> /\ \A i \in DOMAIN rs : rs[i].code = Tier!TooLong

PostSkip ==
    /\ phase = "agents" /\ Tier!Over /\ Skipped(results)
    /\ kept' = Kept(known)
    /\ \E ceiling \in Ceilings : outcome' = Capped(Classify(kept', TRUE), ceiling)
    /\ phase' = "skipped"
    /\ UNCHANGED <<said, known, results>>

Collect ==
    /\ phase = "agents" /\ Tier!Over /\ ~Skipped(results)
    /\ kept' = Kept(Raw)
    /\ phase' = "merged"
    /\ UNCHANGED <<said, known, results, outcome>>

\* judge_findings: the findings the judge ranks down move to the body, unless an
\* analyzer and an agent agree on them.
DownrankedAll(f) == [f EXCEPT !.demoted = TRUE, !.sev = Low]
Downranked(f) == IF f.corroborated THEN f ELSE [f EXCEPT !.demoted = TRUE]

Judged == JudgePass /\ kept # {}

Judge ==
    /\ phase = "merged" /\ Judged
    /\ \E down \in SUBSET kept :
           kept' = {IF f \in down THEN Downranked(f) ELSE f : f \in kept}
    /\ phase' = "judged"
    /\ UNCHANGED <<said, known, results, outcome>>

\* A failed judge call: a prompt that is too long leaves the findings alone; every
\* other exit code of call_llm() leaves run_review() and the process.
JudgeFails(code) ==
    /\ phase = "merged" /\ Judged
    /\ phase' = IF code = Tier!TooLong THEN "judged" ELSE "exited"
    /\ UNCHANGED <<said, known, results, kept, outcome>>

Post ==
    /\ phase = "judged" \/ (phase = "merged" /\ ~Judged)
    /\ \E ceiling \in Ceilings :
           outcome' = Capped(Classify(kept, Failures # <<>>), ceiling)
    /\ phase' = "posted"
    /\ UNCHANGED <<said, known, results, kept>>

Next ==
    \/ \E a \in Agents, code \in Tier!Codes : AgentReports(a, code)
    \/ PostSkip
    \/ Collect
    \/ Judge
    \/ \E code \in Tier!Codes \ {Tier!Answer} : JudgeFails(code)
    \/ Post

Spec == Init /\ [][Next]_vars

-----------------------------------------------------------------------------
(* Properties *)

\* The findings that the pipeline worked on, once it has run.
Considered == IF phase = "skipped" THEN known ELSE Raw
Collected == phase \in {"merged", "skipped"}

\* Clustering neither loses a finding nor plays one down: whatever chains of
\* neighbours link it to others, a confident finding with a file is part of one
\* merged finding, in its file and at least as severe.
MergeKeepsSeverity ==
    phase = "merged" =>
        LET merged == Merged(Raw)
        IN  \A f \in ToSet(Raw) :
                f.sure /\ f.file # "" =>
                    \E m \in merged :
                        /\ f.from \subseteq m.from /\ m.file = f.file /\ m.sev <= f.sev
                        /\ \A n \in merged \ {m} : n.from \cap m.from = {}

\* merge._collapse_cluster: "a surviving cluster never has more than one distinct
\* non-other category", through placement and the joining of linked clusters.
OneCategory ==
    phase = "merged" =>
        \A c \in AllClusters(Raw) : Cardinality({m.cat : m \in ToSet(c)} \ {"other"}) <= 1

\* An analyzer's style finding shares a cluster only with findings of its category,
\* and never with an analyzer's finding of a defect: it hides and backs up no other.
StyleApart ==
    phase = "merged" =>
        \A c \in AllClusters(Raw) :
            \A m, n \in ToSet(c) :
                IsStyle(m) => m.cat = n.cat /\ (IsTool(m) /\ IsTool(n) => IsStyle(n))

\* The suppression-check finding stands alone: no other finding takes its place.
StandaloneStays ==
    Collected =>
        \A f \in ToSet(Considered) :
            f.sure /\ f.file # "" /\ IsStandalone(f) /\ f.text \notin Ruled
                /\ ~(Scope = "drop" /\ OutOfDiff(f)) =>
                \E k \in kept : f.from \subseteq k.from /\ k.text = f.text /\ IsStandalone(k)

\* What a cluster hides may be hidden: the findings that are shown as one belong
\* together, however a chain of neighbours or a joining has brought them there.
ClustersSound == OneCategory /\ StyleApart /\ StandaloneStays

\* An approval is earned: every agent answered, and no confident finding with a file
\* is Critical or High unless a rule suppressed the finding it was merged into, or
\* that one comes from an analyzer and lies outside the diff.
ApprovalIsEarned ==
    phase = "posted" /\ outcome.posted = "APPROVE" =>
        /\ Len(Successes) = Cardinality(Agents)
        /\ \A f \in ToSet(Raw) :
               f.sure /\ f.file # "" /\ f.sev <= High =>
                   \E m \in Merged(Raw) :
                       f.from \subseteq m.from /\ (m.text \in Ruled \/ OutOfDiff(m))

\* A skip comment takes the place of a review only if there is no answer to review.
SkipHidesNoAnswer ==
    phase = "skipped" => Successes = <<>> /\ outcome.posted # "APPROVE"

\* docs/architecture-internals.md: the judge removes nothing, leaves severities
\* alone, and does not move what an analyzer and an agent both report.
JudgeOnlyMoves ==
    [][phase = "merged" =>
        /\ {[f EXCEPT !.demoted = FALSE] : f \in kept'} = kept
        /\ \A f \in kept' : f.demoted => ~f.corroborated]_vars
=============================================================================
