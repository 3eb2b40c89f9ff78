---------------------------- MODULE GitLabReview ----------------------------
(***************************************************************************)
(* Review runs against one GitLab merge request: GitLabProvider's          *)
(* post_summary(), post_findings() and resolve_stale().                    *)
(*                                                                         *)
(* A finding is shown in a discussion of its own or, when it cannot be     *)
(* anchored or its discussion is refused, in the summary note.  A run      *)
(* matches its findings against the open discussions of earlier runs by    *)
(* place, so the module keeps lines: all findings are in one file and of   *)
(* one category, and the fingerprint of a finding is its line.             *)
(*                                                                         *)
(* A resolved discussion plays no part any more and is left out.           *)
(* The watermark is the subject of ReviewRun.                              *)
(***************************************************************************)
EXTENDS Integers, Sequences, SequencesExt, FiniteSetsExt

CONSTANTS
    Findings,    \* the findings that runs may report: a line and the severity's rank,
                 \* the lowest being the most severe
    AddedLines,  \* the sets of lines that a run's diff may add
    MAX_INLINE,  \* the limit on new discussions per run
    MaxFaults    \* bound on the calls that fail and the runs that are killed

ASSUME LinesAssumption ==
    /\ Findings \subseteq [line : Nat, rank : Nat]
    /\ AddedLines \subseteq SUBSET Nat
    /\ MAX_INLINE \in Nat /\ MaxFaults \in Nat

VARIABLES
    discussions,  \* the bot's open discussions, the oldest first: line is the anchor,
                  \* mark and rank are the fingerprint and the severity in the first
                  \* note, and fresh says that it was posted for the present head
    notes,        \* the bot's summary notes, the last updated one first: the findings
                  \* in the section for what is not attached to a line
    run,          \* the run in progress, or the last one
    faults        \* the number of faults so far

vars == <<discussions, notes, run, faults>>

PROXIMITY_LINES == 3

\* The run's local state.  clean is history: no call of the run has failed.
Idle == [pc |-> "idle", known |-> TRUE, added |-> {}, found |-> {}, claims |-> {},
         new |-> {}, body |-> {}, kept |-> {}, posted |-> 0, tried |-> 0, clean |-> TRUE]

-----------------------------------------------------------------------------
(* Faults *)

Fault(failed) ==
    /\ failed => faults < MaxFaults
    /\ faults' = IF failed THEN faults + 1 ELSE faults

Distance(a, b) == IF a < b THEN b - a ELSE a - b

-----------------------------------------------------------------------------
(* Matching a finding with a discussion *)

Candidates(f, listed) ==
    {i \in listed : Distance(discussions[i].line, f.line) <= PROXIMITY_LINES}

\* The order of preference: the finding's own discussion, the closest, the oldest.
Before(f, i, j) ==
    LET own(k) == IF discussions[k].mark = f.line THEN 0 ELSE 1
        off(k) == Distance(discussions[k].line, f.line)
    IN \/ own(i) < own(j)
       \/ own(i) = own(j) /\ off(i) < off(j)
       \/ own(i) = own(j) /\ off(i) = off(j) /\ i <= j

Best(f, listed) ==
    CHOOSE i \in Candidates(f, listed) : \A j \in Candidates(f, listed) : Before(f, i, j)

Outdated(i, added) == ~discussions[i].fresh /\ discussions[i].line \notin added

\* classify(): the findings that claim a discussion, with the discussion.
Matches(found, listed, added) ==
    {<<f, Best(f, listed)>> : f \in {g \in found :
        Candidates(g, listed) # {} /\ ~Outdated(Best(g, listed), added)}}

\* Fault: every match is a claim.
AllClaims(matches) == matches

\* dedupe_thread_claims(): of the findings that claim one discussion the most severe
\* has it.  Of several, the findings' order decides, which is up to the agents.
Claims(matches) ==
    {c \in matches : \A d \in matches :
        d[2] = c[2] => \/ c[1].rank < d[1].rank
                       \/ c[1].rank = d[1].rank /\ c[1].line <= d[1].line}

\* Fault: whatever is near a finding is kept.
AllCandidates(claims, found, listed) == UNION {Candidates(f, listed) : f \in found}

\* The discussions of active findings, which resolve_stale() leaves open.
KeptAlive(claims, found, listed) == {c[2] : c \in claims}

-----------------------------------------------------------------------------
(* The merge request *)

Init ==
    /\ discussions = <<>>
    /\ notes = <<>>
    /\ run = Idle
    /\ faults = 0

\* A person resolves a discussion between runs.
Resolve ==
    /\ run.pc = "idle"
    /\ \E i \in DOMAIN discussions : discussions' = RemoveAt(discussions, i)
    /\ UNCHANGED <<notes, run, faults>>

-----------------------------------------------------------------------------
(* A run *)

\* _marker_author(): without an identity no note or discussion is the bot's own.
Own(known) == IF known THEN notes ELSE <<>>

\* A run starts, after a push or for the same head.  It writes no summary if it finds
\* a note with a watermark and something has been pushed since.
Start ==
    /\ run.pc = "idle"
    /\ \E known, pushed \in BOOLEAN, pc \in {"summary", "findings"}, added \in AddedLines :
           /\ Fault(~known)
           /\ pc = "findings" => pushed /\ Own(known) # <<>>
           /\ discussions' = IF ~pushed THEN discussions
                             ELSE [i \in DOMAIN discussions |->
                                       [discussions[i] EXCEPT !.fresh = FALSE]]
           /\ run' = [Idle EXCEPT !.pc = pc, !.known = known, !.added = added,
                                  !.clean = known]
    /\ UNCHANGED notes

\* post_summary(): the first note listed is rewritten and its duplicates are deleted.
PostSummary ==
    /\ run.pc = "summary"
    /\ \E listed \in BOOLEAN :
           LET own == IF listed THEN Own(run.known) ELSE <<>>
           IN /\ Fault(~listed)
              /\ notes' = IF own = <<>> THEN <<{}>> \o notes ELSE <<{}>>
              /\ run' = [run EXCEPT !.pc = "findings", !.clean = run.clean /\ listed]
    /\ UNCHANGED discussions

\* _load_prior_discussions(): the discussions on the pages that could be read, and none
\* without an identity.
Listed(known, pages) == IF known THEN 1..pages ELSE {}

\* post_findings() lists the discussions and classifies what the agents have found.
\* Of the new findings those on added lines get a discussion, up to the limit.
Classify ==
    /\ run.pc = "findings"
    /\ \E found \in SUBSET Findings, pages \in 0..Len(discussions), order \in {"up", "down"} :
           LET listed  == Listed(run.known, pages)
               claims  == Claims(Matches(found, listed, run.added))
               new     == found \ {c[1] : c \in claims}
               onAdded == {f \in new : f.line \in run.added}
               first   == {f \in onAdded :
                              Cardinality({g \in onAdded :
                                  IF order = "up" THEN g.line < f.line ELSE g.line > f.line})
                                  < MAX_INLINE}
           IN /\ \A f, g \in found : f.line = g.line => f = g
              /\ Fault(pages # Len(discussions))
              /\ run' = [run EXCEPT
                     !.pc = "post", !.found = found, !.claims = claims, !.new = first,
                     !.body = new \ first, !.kept = KeptAlive(claims, found, listed),
                     !.clean = run.clean /\ pages = Len(discussions)]
    /\ UNCHANGED <<discussions, notes>>

Next1(claims) == CHOOSE c \in claims : \A d \in claims : c[2] <= d[2]

\* The first note of a claimed discussion is rewritten; its anchor stays.  The
\* discussion counts as kept although the write may fail.
Update ==
    /\ run.pc = "post" /\ run.claims # {}
    /\ \E done \in BOOLEAN :
           LET c == Next1(run.claims)
           IN /\ Fault(~done)
              /\ discussions' = IF ~done THEN discussions
                                ELSE [discussions EXCEPT ![c[2]].mark = c[1].line,
                                                         ![c[2]].rank = c[1].rank]
              /\ run' = [run EXCEPT !.claims = run.claims \ {c}, !.clean = run.clean /\ done]
    /\ UNCHANGED notes

NextNew == CHOOSE f \in run.new : \A g \in run.new : f.line <= g.line

\* A new discussion is posted.  If GitLab refuses it, the finding goes to the note.
Post ==
    /\ run.pc = "post" /\ run.claims = {} /\ run.new # {}
    /\ \E done \in BOOLEAN :
           LET f == NextNew
           IN /\ Fault(~done)
              /\ discussions' = IF ~done THEN discussions
                                ELSE Append(discussions, [line |-> f.line, mark |-> f.line,
                                                          rank |-> f.rank, fresh |-> TRUE])
              /\ run' = [run EXCEPT
                     !.new = run.new \ {f}, !.tried = run.tried + 1,
                     !.posted = IF done THEN run.posted + 1 ELSE run.posted,
                     !.kept = IF done THEN run.kept \cup {Len(discussions) + 1} ELSE run.kept,
                     !.body = IF done THEN run.body ELSE run.body \cup {f},
                     !.clean = run.clean /\ done]
    /\ UNCHANGED notes

\* All retries of a write fail: post_findings() is left, and the run ends.
Raise ==
    /\ run.pc = "post" /\ (run.claims # {} \/ run.new # {})
    /\ Fault(TRUE)
    /\ run' = Idle
    /\ UNCHANGED <<discussions, notes>>

\* Fault: the section of an earlier run stays when there is nothing to put in its place.
SectionIfAny(old, body) == IF body = {} THEN old ELSE body

\* The section of the note after the run.
Section(old, body) == body

\* post_findings() puts the other findings in the note: the first one listed, or else
\* the one that this run has just written.  The run fails only if every discussion
\* was refused, and then nothing is resolved.
WriteNote ==
    /\ run.pc = "post" /\ run.claims = {} /\ run.new = {}
    /\ \E done \in BOOLEAN :
           /\ Fault(~done)
           /\ notes' = IF done THEN <<Section(Head(notes), run.body)>> \o Tail(notes)
                       ELSE notes
           /\ run' = IF run.tried > 0 /\ run.posted = 0 THEN Idle
                     ELSE [run EXCEPT !.pc = "tidy", !.clean = run.clean /\ done]
    /\ UNCHANGED discussions

\* The n-th of these places.
Nth(open, n) == CHOOSE i \in open : Cardinality({j \in open : j <= i}) = n

\* resolve_stale(): what the run has neither posted nor matched is resolved.  An unknown
\* identity resolves nothing, and a failed listing or write leaves discussions open.
ResolveStale ==
    /\ run.pc = "tidy"
    /\ \E left \in SUBSET (DOMAIN discussions \ run.kept) :
           LET open == run.kept \cup left
           IN /\ IF run.known THEN Fault(left # {})
                 ELSE left = DOMAIN discussions \ run.kept /\ Fault(FALSE)
              /\ discussions' = [n \in 1..Cardinality(open) |-> discussions[Nth(open, n)]]
              /\ run' = [run EXCEPT !.pc = "done", !.clean = run.clean /\ left = {}]
    /\ UNCHANGED notes

Done ==
    /\ run.pc = "done"
    /\ run' = Idle
    /\ UNCHANGED <<discussions, notes, faults>>

\* The run is killed between two calls.
Kill ==
    /\ run.pc \notin {"idle", "done"}
    /\ Fault(TRUE)
    /\ run' = Idle
    /\ UNCHANGED <<discussions, notes>>

Progress == \/ Start \/ PostSummary \/ Classify \/ Update \/ Post
            \/ WriteNote \/ ResolveStale \/ Done

Next == \/ Resolve
        \/ Start \/ PostSummary \/ Classify \/ Update \/ Post
        \/ Raise \/ WriteNote \/ ResolveStale \/ Done
        \/ Kill

\* Pipelines keep running, and a run goes on until it ends or is killed.
Spec == Init /\ [][Next]_vars /\ WF_vars(Progress)

-----------------------------------------------------------------------------
(* Properties *)

ShownInline(f) ==
    \E i \in DOMAIN discussions : discussions[i].mark = f.line /\ discussions[i].rank = f.rank

\* When a run in which no call failed is over, each of its findings is shown with its
\* severity, in an open discussion or in the note: two findings that matched one
\* discussion do not overwrite each other, and the clean-up spares what the run has
\* posted or matched (gitlab.py:621, _canonical.py:767).
ReportedIsVisible ==
    run.pc = "done" /\ run.clean =>
        \A f \in run.found : ShownInline(f) \/ f \in Head(notes)

\* After such a run nothing else is shown: no discussion and no line of the note is
\* left of an earlier run, and nothing is shown twice (gitlab.py:784).  An older note
\* that was not recognised may be there until the next full run.
OnlyReportedIsVisible ==
    run.pc = "done" /\ run.clean =>
        /\ Head(notes) \subseteq run.found
        /\ \A i, j \in DOMAIN discussions :
               /\ \E f \in run.found \ Head(notes) : f.line = discussions[i].mark
               /\ discussions[i].mark = discussions[j].mark => i = j

Duplicates ==
    \E i, j \in DOMAIN discussions : i # j /\ discussions[i].mark = discussions[j].mark

\* A refused or doubled discussion, whatever run left it, is healed in time: no pair of
\* discussions about one finding stays.
DuplicatesHeal == Duplicates ~> ~Duplicates
=============================================================================
