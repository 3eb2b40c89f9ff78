--------------------------- MODULE ReviewRunProof ---------------------------
(***************************************************************************)
(* Proofs about ReviewRun, for any set of runs and any bounds.  The        *)
(* inductive invariant is IInv: the types, what the phase of a run says    *)
(* about its record, what is covered by the published or owed findings,    *)
(* and that comment 1, once created, is the one every upsert keeps.        *)
(***************************************************************************)
EXTENDS ReviewRun, TLAPS, FiniteSetTheorems, WellFoundedInduction

Phases ==
    \A r \in Runs :
        /\ run[r].pc # "idle" => run[r].target \in 1..last
        /\ run[r].pc \in {"idle", "readWatermark"} => ~run[r].moved /\ ~run[r].landed
        /\ run[r].pc \in {"listAdvance", "advance"} => run[r].landed

\* What a run has read as its base was behind a watermark, and is still covered.
BaseCovered ==
    \A r \in Runs : Contained(run[r].base) \subseteq posted \cup AllOwed

Covered == WatermarkCovered /\ BaseCovered /\ LandedRunCoversHead

\* The first comment ever created is never deleted, and every non-empty listing
\* has it.
FirstIsKept ==
    /\ lastId > 0 => 1 \in DOMAIN marker
    /\ \A r \in Runs : DOMAIN run[r].seen # {} => 1 \in DOMAIN run[r].seen

IInv == TypeOK /\ Phases /\ Covered /\ FirstIsKept

-----------------------------------------------------------------------------
(* Oldest and newest comments *)

\* A set of naturals below a bound that is not empty has a greatest element: the
\* one whose distance to the bound is the least interval.
LEMMA GreatestExists ==
    ASSUME NEW n \in Nat, NEW S \in SUBSET (1..n), S # {}
    PROVE  \E x \in S : \A y \in S : y <= x
<1>. DEFINE Rest(x) == x..n
            Rests   == {Rest(x) : x \in S}
<1>1. Rests \subseteq FiniteSubsetsOf(Nat)
    <2>. SUFFICES ASSUME NEW x \in S  PROVE Rest(x) \in FiniteSubsetsOf(Nat)
        OBVIOUS
    <2>1. IsFiniteSet(Rest(x))  BY FS_Interval
    <2>2. Rest(x) \subseteq Nat  OBVIOUS
    <2>. QED  BY <2>1, <2>2 DEF FiniteSubsetsOf
<1>2. PICK I \in Rests : \A J \in Rests : <<J, I>> \notin StrictSubsetOrdering(Nat)
    <2>1. Rests # {}  OBVIOUS
    <2>2. IsWellFoundedOn(StrictSubsetOrdering(Nat), FiniteSubsetsOf(Nat))
        BY FS_StrictSubsetOrderingWellFounded
    <2>. HIDE DEF Rests
    <2>. QED  BY <1>1, <2>1, <2>2, WFMin
<1>3. PICK x \in S : I = Rest(x)  BY <1>2
<1>4. ASSUME NEW y \in S  PROVE y <= x
    <2>. SUFFICES ASSUME x < y  PROVE FALSE  OBVIOUS
    <2>1. Rest(y) \subseteq Rest(x) /\ x \in Rest(x) /\ x \notin Rest(y)  OBVIOUS
    <2>2. Rest(x) \in SUBSET Nat /\ Rest(y) \in SUBSET Nat  OBVIOUS
    <2>3. <<Rest(y), Rest(x)>> \in StrictSubsetOrdering(Nat)
        BY <2>1, <2>2, <1>1 DEF StrictSubsetOrdering
    <2>. QED  BY <2>3, <1>2, <1>3
<1>. QED  BY <1>4

\* The newest comment of a listing is one of the listing.
LEMMA NewestIn ==
    ASSUME NEW n \in Nat, NEW S \in SUBSET (1..n), S # {}
    PROVE  Newest(S) \in S
BY GreatestExists DEF Newest

\* The oldest comment of a listing that has the first comment is that one.
LEMMA OldestIsFirst ==
    ASSUME NEW n \in Nat, NEW S \in SUBSET (1..n), 1 \in S
    PROVE  Oldest(S) = 1
<1>1. \A j \in S : 1 <= j  OBVIOUS
<1>2. \A i \in S : (\A j \in S : i <= j) => i = 1  OBVIOUS
<1>. QED  BY <1>1, <1>2 DEF Oldest

-----------------------------------------------------------------------------
(* Listings and local steps *)

LEMMA MarkersType ==
    \A f \in Markers : /\ f \in [DOMAIN f -> Commits]
                       /\ DOMAIN f \in SUBSET (1..MaxComments)
                       /\ DOMAIN f = {} => f = NoComments
BY DEF Markers, NoComments

LEMMA NoCommentsType == NoComments \in Markers /\ DOMAIN NoComments = {}
<1>1. NoComments \in [{} -> Commits]  BY DEF NoComments
<1>. QED  BY <1>1 DEF Markers, NoComments

\* A listing holds existing comments as they are, from the first one on.
LEMMA ListingsType ==
    ASSUME TypeOK, FirstIsKept, NEW seen \in Listings \cup {NoComments}
    PROVE  /\ seen \in Markers
           /\ DOMAIN seen \subseteq DOMAIN marker
           /\ \A i \in DOMAIN seen : seen[i] = marker[i]
           /\ DOMAIN seen # {} => 1 \in DOMAIN seen
<1>1. CASE seen = NoComments  BY <1>1, NoCommentsType
<1>2. CASE seen \in Listings
    <2>1. PICK n \in 0..lastId :
              seen = [i \in {j \in DOMAIN marker : j <= n} |-> marker[i]]
        BY <1>2 DEF Listings
    <2>2. DOMAIN seen = {j \in DOMAIN marker : j <= n}  BY <2>1
    <2>3. seen \in [DOMAIN seen -> Commits] /\ DOMAIN seen \in SUBSET (1..MaxComments)
        BY <2>1, <2>2, MarkersType DEF TypeOK
    <2>4. ASSUME DOMAIN seen # {}  PROVE 1 \in DOMAIN seen
        <3>1. PICK j \in DOMAIN marker : j <= n  BY <2>2, <2>4
        <3>2. j \in 1..lastId /\ lastId \in Nat  BY DEF TypeOK
        <3>. QED  BY <2>2, <3>1, <3>2 DEF FirstIsKept
    <2>. QED  BY <2>1, <2>2, <2>3, <2>4 DEF Markers
<1>. QED  BY <1>1, <1>2

\* The commit a listing names as the watermark is none or that of a comment.
LEMMA NewestShaIsMarker ==
    ASSUME TypeOK, FirstIsKept, NEW seen \in Listings \cup {NoComments}
    PROVE  NewestSha(seen) = NoSha \/ \E i \in DOMAIN marker : NewestSha(seen) = marker[i]
<1>1. DOMAIN seen \in SUBSET (1..MaxComments)  BY ListingsType, MarkersType
<1>2. CASE DOMAIN seen = {}  BY <1>2 DEF NewestSha
<1>3. CASE DOMAIN seen # {}
    <2>1. Newest(DOMAIN seen) \in DOMAIN seen
        BY <1>1, <1>3, NewestIn, BoundsAssumption
    <2>. QED  BY <1>3, <2>1, ListingsType DEF NewestSha
<1>. QED  BY <1>2, <1>3

\* A local step of r changes r's state only.
LEMMA StepType ==
    ASSUME run \in [Runs -> RunState], NEW r \in Runs, NEW u \in RunState, Step(r, u)
    PROVE  /\ run' \in [Runs -> RunState]
           /\ run'[r] = u
           /\ \A q \in Runs : q # r => run'[q] = run[q]
BY DEF Step

-----------------------------------------------------------------------------
(* Type correctness *)

LEMMA InitType == Init => TypeOK /\ Phases
<1>. SUFFICES ASSUME Init PROVE TypeOK /\ Phases  OBVIOUS
<1>1. Fresh \in RunState
    BY NoCommentsType, BoundsAssumption DEF Fresh, RunState, PCs, NoSha
<1>2. run \in [Runs -> RunState]  BY <1>1 DEF Init
<1>3. \A r \in Runs : run[r] = Fresh  BY DEF Init
<1>4. TypeOK
    BY <1>2, <1>3, NoCommentsType, BoundsAssumption DEF Init, TypeOK, Commits, Fresh, NoSha
<1>5. Phases  BY <1>3 DEF Phases, Fresh
<1>. QED  BY <1>4, <1>5

\* Types after a step that leaves the pull request alone and moves run r to u.
LEMMA LocalType ==
    ASSUME TypeOK, Phases, NEW r \in Runs, NEW u \in RunState, Step(r, u),
           UNCHANGED prVars,
           u.target \in 1..last, u.base \in 0..last,
           u.pc \in {"idle", "readWatermark"} => ~u.moved /\ ~u.landed,
           u.pc \in {"listAdvance", "advance"} => u.landed,
           lastId' \in lastId..MaxComments, DOMAIN u.seen \subseteq 1..lastId',
           marker' \in Markers, DOMAIN marker' \subseteq 1..lastId',
           \A i \in DOMAIN marker' : marker'[i] \in 1..last,
           posted' \subseteq Commits
    PROVE  TypeOK' /\ Phases'
<1>1. /\ run' \in [Runs -> RunState]
      /\ run'[r] = u
      /\ \A q \in Runs : q # r => run'[q] = run[q]
    BY StepType DEF TypeOK
<1>2. \A q \in Runs : /\ run'[q].target \in 0..last'
                      /\ run'[q].base \in 0..last'
                      /\ DOMAIN run'[q].seen \subseteq 1..lastId'
    BY <1>1 DEF TypeOK, prVars, Commits
<1>3. TypeOK'  BY <1>1, <1>2 DEF TypeOK, prVars, Commits
<1>4. Phases'  BY <1>1 DEF Phases, prVars
<1>. QED  BY <1>3, <1>4

\* The same for a step that changes nothing but the state of run r.
LEMMA QuietType ==
    ASSUME TypeOK, Phases, NEW r \in Runs, NEW u \in RunState, Step(r, u),
           UNCHANGED <<prVars, marker, lastId, posted>>,
           u.target \in 1..last, u.base \in 0..last,
           u.pc \in {"idle", "readWatermark"} => ~u.moved /\ ~u.landed,
           u.pc \in {"listAdvance", "advance"} => u.landed,
           DOMAIN u.seen \subseteq 1..lastId
    PROVE  TypeOK' /\ Phases'
<1>1. UNCHANGED prVars  OBVIOUS
<1>2. /\ lastId' \in lastId..MaxComments /\ DOMAIN u.seen \subseteq 1..lastId'
      /\ marker' \in Markers /\ DOMAIN marker' \subseteq 1..lastId'
      /\ \A i \in DOMAIN marker' : marker'[i] \in 1..last
      /\ posted' \subseteq Commits
    BY BoundsAssumption DEF TypeOK
<1>. QED  BY <1>1, <1>2, LocalType

\* The same for a step of an active run that keeps its diff.
LEMMA SameDiffType ==
    ASSUME TypeOK, Phases, NEW r \in Runs, NEW u \in RunState, Step(r, u),
           UNCHANGED <<prVars, marker, lastId, posted>>, Active(r),
           u.target = run[r].target, u.base = run[r].base,
           u.pc \notin {"idle", "readWatermark"},
           u.pc \in {"listAdvance", "advance"} => u.landed,
           DOMAIN u.seen \subseteq 1..lastId
    PROVE  TypeOK' /\ Phases'
<1>1. u.target \in 1..last /\ u.base \in 0..last
    BY DEF Active, Phases, TypeOK
<1>. QED  BY <1>1, QuietType

\* The state that ReadWatermark leads to.
LEMMA ReviewState ==
    ASSUME NEW s \in RunState, NEW n \in 0..MaxCommits
    PROVE  [s EXCEPT !.pc = "review", !.base = n] \in RunState
BY DEF RunState, PCs

\* The state of a run that ends or goes on with the stale threads.
LEMMA LeaveState ==
    ASSUME TypeOK, NEW r \in Runs
    PROVE  /\ run[r] \in RunState /\ run[r].seen \in Markers
           /\ DOMAIN run[r].seen \subseteq 1..lastId
           /\ [run[r] EXCEPT !.pc = "end"] \in RunState
           /\ [run[r] EXCEPT !.pc = "end", !.seen = NoComments] \in RunState
           /\ [run[r] EXCEPT !.pc = "stale", !.seen = NoComments] \in RunState
           /\ [run[r] EXCEPT !.pc = "stale"] \in RunState
<1>1. run[r] \in RunState /\ DOMAIN run[r].seen \subseteq 1..lastId
    BY DEF TypeOK
<1>. QED  BY <1>1, NoCommentsType DEF RunState, PCs

LEMMA PatchedType ==
    ASSUME TypeOK, NEW id, NEW sha \in 1..last, NEW gone
    PROVE  /\ Patched(id, sha, gone) \in Markers
           /\ DOMAIN Patched(id, sha, gone) \subseteq 1..lastId
           /\ \A i \in DOMAIN Patched(id, sha, gone) :
                  Patched(id, sha, gone)[i] \in 1..last
<1>. DEFINE m == Patched(id, sha, gone)
<1>1. DOMAIN m \in SUBSET (1..lastId) /\ \A i \in DOMAIN m : m[i] \in 1..last
    BY DEF Patched, TypeOK
<1>2. DOMAIN m \in SUBSET (1..MaxComments)
    BY MarkersType DEF Patched, TypeOK
<1>3. m \in [DOMAIN m -> Commits]
    BY <1>1, BoundsAssumption DEF Patched, TypeOK, Commits
<1>. QED  BY <1>1, <1>2, <1>3 DEF Markers

LEMMA NextType == TypeOK /\ Phases /\ FirstIsKept /\ [Next]_vars => TypeOK' /\ Phases'
<1>. SUFFICES ASSUME TypeOK, Phases, FirstIsKept, [Next]_vars
              PROVE  TypeOK' /\ Phases'
    OBVIOUS
<1>1. CASE UNCHANGED vars
    BY <1>1 DEF vars, TypeOK, Phases, Commits, Markers
<1>2. CASE Push
    <2>1. last + 1 \in Commits /\ last' = last + 1 /\ head' = last + 1
        BY <1>2, BoundsAssumption DEF Push, TypeOK, Commits
    <2>2. anc' \in [Commits -> SUBSET Commits]
        BY <1>2, <2>1, BoundsAssumption DEF Push, TypeOK, Contained, Commits, NoSha
    <2>. QED  BY <1>2, <2>1, <2>2, BoundsAssumption DEF Push, TypeOK, Phases, Commits
<1>3. ASSUME NEW r \in Runs, StartRun(r)  PROVE TypeOK' /\ Phases'
    <2>. DEFINE u == [run[r] EXCEPT !.pc = "readWatermark", !.target = head]
    <2>0. run[r] \in RunState /\ head \in 0..MaxCommits /\ head \in 1..last
        BY BoundsAssumption DEF TypeOK, Commits
    <2>1. u \in RunState
        BY <2>0 DEF RunState, PCs
    <2>3. u.target \in 1..last /\ ~u.moved /\ ~u.landed /\ u.pc = "readWatermark"
        BY <1>3, <2>0 DEF StartRun, Phases, RunState
    <2>2. u.base \in 0..last /\ DOMAIN u.seen \subseteq 1..lastId
        BY DEF TypeOK, RunState
    <2>4. Step(r, u) /\ UNCHANGED <<prVars, marker, lastId, posted>>
        BY <1>3 DEF StartRun
    <2>. HIDE DEF u
    <2>. QED  BY <2>1, <2>2, <2>3, <2>4, QuietType
<1>4. ASSUME NEW r \in Runs, ReadWatermark(r)  PROVE TypeOK' /\ Phases'
    <2>1. PICK seen \in Listings \cup {NoComments} :
              Step(r, [run[r] EXCEPT !.pc = "review",
                                     !.base = DiffBase(NewestSha(seen), run[r].target)])
        BY <1>4 DEF ReadWatermark
    <2>. DEFINE base == DiffBase(NewestSha(seen), run[r].target)
                u    == [run[r] EXCEPT !.pc = "review", !.base = base]
    <2>2. NewestSha(seen) \in 0..last
        BY NewestShaIsMarker, BoundsAssumption DEF TypeOK, NoSha, Commits
    <2>3. base \in 0..last /\ base \in 0..MaxCommits
        BY <2>2, BoundsAssumption DEF DiffBase, NoSha, TypeOK, Commits
    <2>. HIDE DEF base
    <2>4. u \in RunState  BY <2>3, LeaveState, ReviewState
    <2>5. u.target = run[r].target /\ u.base = base /\ u.pc = "review" /\ u.seen = run[r].seen
        BY <2>3, LeaveState DEF RunState
    <2>6. Step(r, u)  BY <2>1 DEF base
    <2>7. u.target \in 1..last  BY <1>4, <2>5 DEF ReadWatermark, Phases
    <2>. HIDE DEF u
    <2>. QED  BY <1>4, <2>3, <2>4, <2>5, <2>6, <2>7, LeaveState, QuietType DEF ReadWatermark
<1>5. ASSUME NEW r \in Runs, Review(r)  PROVE TypeOK' /\ Phases'
    <2>1. PICK text \in {FALSE, run[r].base = NoSha} :
              Step(r, [run[r] EXCEPT !.pc = IF text THEN "listSummary" ELSE "findings",
                                     !.text = text])
        BY <1>5 DEF Review
    <2>2. PICK s \in RunState : s = run[r]  BY LeaveState
    <2>. DEFINE pc == IF text THEN "listSummary" ELSE "findings"
                u  == [s EXCEPT !.pc = pc, !.text = text]
    <2>3. Step(r, u)  BY <2>1, <2>2
    <2>4. pc \in {"listSummary", "findings"} /\ pc \in PCs /\ text \in BOOLEAN
        BY DEF PCs
    <2>. HIDE DEF pc
    <2>5. /\ u \in RunState /\ u.pc = pc
          /\ u.target = s.target /\ u.base = s.base /\ u.seen = s.seen
        BY <2>4 DEF RunState
    <2>6. Active(r)  BY <1>5 DEF Active, Review
    <2>. HIDE DEF u
    <2>. QED  BY <1>5, <2>2, <2>3, <2>4, <2>5, <2>6, LeaveState, SameDiffType DEF Review
<1>6. ASSUME NEW r \in Runs, ListSummaries(r)  PROVE TypeOK' /\ Phases'
    <2>1. PICK seen \in Listings :
              Step(r, [run[r] EXCEPT !.seen = seen,
                      !.pc = IF @ = "listSummary" THEN "writeSummary" ELSE "advance"])
        BY <1>6 DEF ListSummaries
    <2>2. PICK s \in RunState : s = run[r]  BY LeaveState
    <2>. DEFINE pc == IF s.pc = "listSummary" THEN "writeSummary" ELSE "advance"
                u  == [s EXCEPT !.seen = seen, !.pc = pc]
    <2>3. Step(r, u)  BY <2>1, <2>2
    <2>4. seen \in Markers /\ DOMAIN seen \subseteq 1..lastId
        BY ListingsType DEF TypeOK
    <2>5. /\ pc \in {"writeSummary", "advance"} /\ pc \in PCs
          /\ pc = "advance" => s.landed
        BY <1>6, <2>2 DEF ListSummaries, Phases, PCs
    <2>. HIDE DEF pc
    <2>6. /\ u \in RunState /\ u.pc = pc /\ u.seen = seen
          /\ u.target = s.target /\ u.base = s.base /\ u.landed = s.landed
        BY <2>4, <2>5 DEF RunState
    <2>7. Active(r)  BY <1>6 DEF Active, ListSummaries
    <2>. HIDE DEF u
    <2>. QED  BY <1>6, <2>2, <2>3, <2>4, <2>5, <2>6, <2>7, SameDiffType DEF ListSummaries
<1>7. ASSUME NEW r \in Runs, PostSkip(r) \/ SummaryFails(r) \/ FindingsFail(r) \/ Crash(r)
      PROVE  TypeOK' /\ Phases'
    <2>1. PICK u \in RunState :
              /\ Step(r, u) /\ u.pc = "end" /\ DOMAIN u.seen \subseteq 1..lastId
              /\ u.target = run[r].target /\ u.base = run[r].base
        <3>1. CASE PostSkip(r) \/ FindingsFail(r)
            BY <3>1, LeaveState DEF PostSkip, FindingsFail, RunState
        <3>2. CASE SummaryFails(r) \/ Crash(r)
            BY <3>2, LeaveState, NoCommentsType DEF SummaryFails, Crash, RunState
        <3>. QED  BY <1>7, <3>1, <3>2
    <2>2. Active(r) /\ UNCHANGED <<prVars, marker, lastId, posted>>
        BY <1>7 DEF Active, PostSkip, SummaryFails, FindingsFail, Crash
    <2>. QED  BY <2>1, <2>2, SameDiffType
<1>8. ASSUME NEW r \in Runs, SkipFindings(r) \/ NoAdvance(r) \/ ResolveStale(r)
      PROVE  TypeOK' /\ Phases'
    <2>1. PICK u \in RunState :
              /\ Step(r, u) /\ u.pc \in {"stale", "end"} /\ DOMAIN u.seen \subseteq 1..lastId
              /\ u.target = run[r].target /\ u.base = run[r].base
        <3>1. CASE SkipFindings(r)
            BY <3>1, LeaveState DEF SkipFindings, RunState
        <3>2. CASE NoAdvance(r)
            BY <3>2, LeaveState, NoCommentsType DEF NoAdvance, RunState
        <3>3. CASE ResolveStale(r)
            BY <3>3, LeaveState DEF ResolveStale, RunState
        <3>. QED  BY <1>8, <3>1, <3>2, <3>3
    <2>2. Active(r) /\ UNCHANGED <<prVars, marker, lastId, posted>>
        BY <1>8 DEF Active, SkipFindings, NoAdvance, ResolveStale
    <2>. QED  BY <2>1, <2>2, SameDiffType
<1>9. ASSUME NEW r \in Runs, PatchSummary(r)  PROVE TypeOK' /\ Phases'
    <2>1. PICK s \in RunState : s = run[r]  BY LeaveState
    <2>. DEFINE u == [s EXCEPT !.pc = "findings", !.moved = TRUE, !.seen = NoComments]
    <2>2. Step(r, u) /\ Active(r) /\ UNCHANGED <<prVars, lastId, posted>>
        BY <1>9, <2>1 DEF PatchSummary, Active
    <2>3. /\ u \in RunState /\ u.pc = "findings" /\ u.seen = NoComments
          /\ u.target = s.target /\ u.base = s.base
        BY NoCommentsType DEF RunState, PCs
    <2>4. PICK gone : marker' = Patched(Kept(r), run[r].target, gone)
        BY <1>9 DEF PatchSummary
    <2>5. u.target \in 1..last /\ u.base \in 0..last
        BY <2>1, <2>2, <2>3 DEF Active, Phases, TypeOK
    <2>6. /\ marker' \in Markers /\ DOMAIN marker' \subseteq 1..lastId
          /\ \A i \in DOMAIN marker' : marker'[i] \in 1..last
        BY <2>1, <2>3, <2>4, <2>5, PatchedType
    <2>7. lastId' \in lastId..MaxComments /\ lastId' = lastId /\ posted' \subseteq Commits
        BY <2>2, BoundsAssumption DEF TypeOK
    <2>8. DOMAIN u.seen \subseteq 1..lastId'  BY <2>3, NoCommentsType
    <2>. HIDE DEF u
    <2>. QED  BY <2>2, <2>3, <2>5, <2>6, <2>7, <2>8, LocalType
<1>10. ASSUME NEW r \in Runs, CreateSummary(r)  PROVE TypeOK' /\ Phases'
    <2>1. PICK s \in RunState : s = run[r]  BY LeaveState
    <2>. DEFINE u == [s EXCEPT !.pc = "findings", !.moved = TRUE]
    <2>2. Step(r, u) /\ Active(r) /\ UNCHANGED <<prVars, posted>>
        BY <1>10, <2>1 DEF CreateSummary, Active
    <2>3. /\ u \in RunState /\ u.pc = "findings" /\ u.seen = s.seen
          /\ u.target = s.target /\ u.base = s.base
        BY DEF RunState, PCs
    <2>4. PICK n \in 1..2 :
              /\ lastId + n <= MaxComments /\ lastId' = lastId + n
              /\ marker' = [i \in DOMAIN marker \cup (lastId + 1)..(lastId + n) |->
                               IF i > lastId THEN run[r].target ELSE marker[i]]
        BY <1>10 DEF CreateSummary
    <2>5. u.target \in 1..last /\ u.base \in 0..last
        BY <2>1, <2>2, <2>3 DEF Active, Phases, TypeOK
    <2>6. lastId' \in lastId..MaxComments /\ lastId \in Nat /\ posted' \subseteq Commits
        BY <2>2, <2>4, BoundsAssumption DEF TypeOK
    <2>7. DOMAIN marker' = DOMAIN marker \cup (lastId + 1)..(lastId + n)
        BY <2>4
    <2>8. DOMAIN marker' \subseteq 1..lastId' /\ DOMAIN marker' \in SUBSET (1..MaxComments)
        BY <2>4, <2>6, <2>7, BoundsAssumption DEF TypeOK
    <2>9. \A i \in DOMAIN marker' : marker'[i] \in 1..last
        BY <2>1, <2>3, <2>4, <2>5, <2>6, <2>7 DEF TypeOK
    <2>10. marker' \in Markers
        <3>1. \A i \in DOMAIN marker' : marker'[i] \in Commits
            BY <2>9, BoundsAssumption DEF TypeOK, Commits
        <3>2. marker' \in [DOMAIN marker' -> Commits]
            BY <2>4, <2>7, <3>1
        <3>. QED  BY <2>8, <3>2 DEF Markers
    <2>11. DOMAIN u.seen \subseteq 1..lastId'
        BY <2>1, <2>3, <2>6 DEF TypeOK
    <2>. HIDE DEF u
    <2>. QED  BY <2>2, <2>3, <2>5, <2>6, <2>8, <2>9, <2>10, <2>11, LocalType
<1>11. ASSUME NEW r \in Runs, PostFindings(r)  PROVE TypeOK' /\ Phases'
    <2>1. PICK s \in RunState : s = run[r]  BY LeaveState
    <2>2. AfterFindings(r) \in PCs \ {"idle", "readWatermark"}
        BY DEF AfterFindings, PCs
    <2>. DEFINE u == [s EXCEPT !.pc = AfterFindings(r), !.landed = TRUE]
    <2>3. /\ u \in RunState /\ u.pc \notin {"idle", "readWatermark"}
          /\ u.target = s.target /\ u.base = s.base /\ u.seen = s.seen /\ u.landed
        BY <2>2 DEF RunState
    <2>4. /\ Step(r, u) /\ Active(r) /\ UNCHANGED <<prVars, marker, lastId>>
          /\ posted' = posted \cup Diff(r)
        BY <1>11, <2>1 DEF PostFindings, Active
    <2>5. u.target \in 1..last /\ u.base \in 0..last /\ DOMAIN u.seen \subseteq 1..lastId
        BY <2>1, <2>3, <2>4 DEF Active, Phases, TypeOK
    <2>6. Diff(r) \subseteq Commits
        <3>1. run[r].target \in Commits
            BY <2>1, <2>3, <2>5, BoundsAssumption DEF TypeOK, Commits
        <3>. QED  BY <3>1 DEF Diff, TypeOK
    <2>7. /\ lastId' \in lastId..MaxComments /\ lastId' = lastId /\ posted' \subseteq Commits
          /\ marker' \in Markers /\ DOMAIN marker' \subseteq 1..lastId'
          /\ \A i \in DOMAIN marker' : marker'[i] \in 1..last
        BY <2>4, <2>6, BoundsAssumption DEF TypeOK
    <2>. HIDE DEF u
    <2>. QED  BY <2>3, <2>4, <2>5, <2>7, LocalType
<1>12. ASSUME NEW r \in Runs, Advance(r)  PROVE TypeOK' /\ Phases'
    <2>1. PICK s \in RunState : s = run[r]  BY LeaveState
    <2>. DEFINE u == [s EXCEPT !.pc = "stale", !.seen = NoComments]
    <2>2. /\ Step(r, u) /\ Active(r) /\ UNCHANGED <<prVars, lastId, posted>>
          /\ marker' = Patched(Kept(r), run[r].target, {})
        BY <1>12, <2>1 DEF Advance, Active
    <2>3. /\ u \in RunState /\ u.pc = "stale" /\ u.seen = NoComments
          /\ u.target = s.target /\ u.base = s.base
        BY NoCommentsType DEF RunState, PCs
    <2>5. u.target \in 1..last /\ u.base \in 0..last
        BY <2>1, <2>2, <2>3 DEF Active, Phases, TypeOK
    <2>6. /\ marker' \in Markers /\ DOMAIN marker' \subseteq 1..lastId
          /\ \A i \in DOMAIN marker' : marker'[i] \in 1..last
        BY <2>1, <2>2, <2>3, <2>5, PatchedType
    <2>7. lastId' \in lastId..MaxComments /\ lastId' = lastId /\ posted' \subseteq Commits
        BY <2>2, BoundsAssumption DEF TypeOK
    <2>8. DOMAIN u.seen \subseteq 1..lastId'  BY <2>3, NoCommentsType
    <2>. HIDE DEF u
    <2>. QED  BY <2>2, <2>3, <2>5, <2>6, <2>7, <2>8, LocalType
<1>. QED
    BY <1>1, <1>2, <1>3, <1>4, <1>5, <1>6, <1>7, <1>8, <1>9, <1>10, <1>11, <1>12
    DEF Next, RunStep

-----------------------------------------------------------------------------
(* What a step of a run changes *)

\* Before a run has its base: it has marked and published nothing.
EarlyStep(r) ==
    /\ ~run[r].moved /\ ~run[r].landed /\ ~run'[r].moved /\ ~run'[r].landed
    /\ run'[r].seen = run[r].seen
    /\ run'[r].base \in {run[r].base, NoSha} \cup {marker[i] : i \in DOMAIN marker}
    /\ UNCHANGED <<marker, lastId, posted>>

\* After it: the diff is fixed, and what the run has done stays done.
LateStep(r) ==
    /\ run'[r].target = run[r].target /\ run'[r].base = run[r].base
    /\ run[r].moved => run'[r].moved
    /\ run[r].landed => run'[r].landed
    /\ posted \subseteq posted'
    /\ run'[r].landed => run[r].landed \/ Diff(r) \subseteq posted'

\* A comment keeps its marker, or gets the target of a run that has marked its
\* diff as reviewed or has published it.
MarkerStep(r) ==
    \A i \in DOMAIN marker' :
        \/ i \in DOMAIN marker /\ marker'[i] = marker[i]
        \/ marker'[i] = run[r].target /\ (run'[r].moved \/ run[r].landed)

\* A listing is taken over from the state, or dropped.
SeenStep(r) ==
    \/ DOMAIN run'[r].seen \in {DOMAIN run[r].seen, {}}
    \/ \E seen \in Listings : run'[r].seen = seen

LEMMA OneRunMoves ==
    ASSUME TypeOK, NEW r \in Runs, StartRun(r) \/ RunStep(r) \/ Crash(r)
    PROVE  UNCHANGED prVars /\ \A q \in Runs : q # r => run'[q] = run[q]
<1>1. UNCHANGED prVars /\ \E u : Step(r, u)
    BY DEF StartRun, RunStep, Crash, ReadWatermark, PostSkip, Review, ListSummaries,
           PatchSummary, CreateSummary, SummaryFails, PostFindings, SkipFindings,
           FindingsFail, Advance, NoAdvance, ResolveStale
<1>. QED  BY <1>1 DEF Step, TypeOK

LEMMA EarlySteps ==
    ASSUME TypeOK, Phases, FirstIsKept, NEW r \in Runs, StartRun(r) \/ ReadWatermark(r)
    PROVE  EarlyStep(r)
<1>1. PICK s \in RunState : s = run[r]  BY LeaveState
<1>2. ~s.moved /\ ~s.landed /\ UNCHANGED <<marker, lastId, posted>>
    BY <1>1 DEF StartRun, ReadWatermark, Phases
<1>3. CASE StartRun(r)
    <2>1. run'[r] = [s EXCEPT !.pc = "readWatermark", !.target = head]
        BY <1>1, <1>3 DEF StartRun, Step, TypeOK
    <2>. QED  BY <1>1, <1>2, <2>1 DEF EarlyStep, RunState
<1>4. CASE ReadWatermark(r)
    <2>1. PICK seen \in Listings \cup {NoComments} :
              run'[r] = [s EXCEPT !.pc = "review",
                                  !.base = DiffBase(NewestSha(seen), s.target)]
        BY <1>1, <1>4 DEF ReadWatermark, Step, TypeOK
    <2>. DEFINE base == DiffBase(NewestSha(seen), s.target)
    <2>2. base \in {s.base, NoSha} \cup {marker[i] : i \in DOMAIN marker}
        BY NewestShaIsMarker DEF DiffBase
    <2>. HIDE DEF base
    <2>3. run'[r] = [s EXCEPT !.pc = "review", !.base = base]  BY <2>1 DEF base
    <2>. QED  BY <1>1, <1>2, <2>2, <2>3 DEF EarlyStep, RunState
<1>. QED  BY <1>3, <1>4

\* Steps that change neither a comment nor what is published.
LEMMA QuietSteps ==
    ASSUME TypeOK, NEW r \in Runs,
           \/ PostSkip(r) \/ Review(r) \/ ListSummaries(r) \/ SummaryFails(r) \/ SkipFindings(r)
           \/ FindingsFail(r) \/ NoAdvance(r) \/ ResolveStale(r) \/ Crash(r)
    PROVE  LateStep(r) /\ MarkerStep(r) /\ SeenStep(r)
<1>1. PICK s \in RunState : s = run[r]  BY LeaveState
<1>. DEFINE Same(u) == /\ u.target = s.target /\ u.base = s.base
                       /\ u.moved = s.moved /\ u.landed = s.landed
<1>2. UNCHANGED <<marker, posted>>
    BY DEF PostSkip, Review, ListSummaries, SummaryFails, SkipFindings, FindingsFail,
           NoAdvance, ResolveStale, Crash
<1>3. Same(run'[r]) /\ SeenStep(r)
    <2>1. CASE PostSkip(r) \/ FindingsFail(r)
        <3>1. run'[r] = [s EXCEPT !.pc = "end"]
            BY <1>1, <2>1 DEF PostSkip, FindingsFail, Step, TypeOK
        <3>. QED  BY <1>1, <3>1 DEF RunState, SeenStep
    <2>2. CASE SkipFindings(r)
        <3>1. run'[r] = [s EXCEPT !.pc = "stale"]
            BY <1>1, <2>2 DEF SkipFindings, Step, TypeOK
        <3>. QED  BY <1>1, <3>1 DEF RunState, SeenStep
    <2>3. CASE ResolveStale(r)
        <3>1. run'[r] = [s EXCEPT !.pc = "end"]
            BY <1>1, <2>3 DEF ResolveStale, Step, TypeOK
        <3>. QED  BY <1>1, <3>1 DEF RunState, SeenStep
    <2>4. CASE SummaryFails(r) \/ Crash(r)
        <3>1. run'[r] = [s EXCEPT !.pc = "end", !.seen = NoComments]
            BY <1>1, <2>4 DEF SummaryFails, Crash, Step, TypeOK
        <3>. QED  BY <1>1, <3>1, NoCommentsType DEF RunState, SeenStep
    <2>5. CASE NoAdvance(r)
        <3>1. run'[r] = [s EXCEPT !.pc = "stale", !.seen = NoComments]
            BY <1>1, <2>5 DEF NoAdvance, Step, TypeOK
        <3>. QED  BY <1>1, <3>1, NoCommentsType DEF RunState, SeenStep
    <2>6. CASE Review(r)
        <3>1. PICK text \in {FALSE, run[r].base = NoSha} :
                  run'[r] = [s EXCEPT !.pc = IF text THEN "listSummary" ELSE "findings",
                                      !.text = text]
            BY <1>1, <2>6 DEF Review, Step, TypeOK
        <3>. QED  BY <1>1, <3>1 DEF RunState, SeenStep
    <2>7. CASE ListSummaries(r)
        <3>1. PICK pc, seen : /\ seen \in Listings
                              /\ run'[r] = [s EXCEPT !.seen = seen, !.pc = pc]
            <4>1. PICK seen \in Listings :
                      run'[r] = [s EXCEPT !.seen = seen,
                          !.pc = IF s.pc = "listSummary" THEN "writeSummary" ELSE "advance"]
                BY <1>1, <2>7 DEF ListSummaries, Step, TypeOK
            <4>. QED  BY <4>1
        <3>. QED  BY <1>1, <3>1 DEF RunState, SeenStep
    <2>. QED  BY <2>1, <2>2, <2>3, <2>4, <2>5, <2>6, <2>7
<1>. QED  BY <1>1, <1>2, <1>3 DEF LateStep, MarkerStep

\* Steps that write to the pull request.
LEMMA WriteSteps ==
    ASSUME TypeOK, Phases, NEW r \in Runs,
           PatchSummary(r) \/ CreateSummary(r) \/ PostFindings(r) \/ Advance(r)
    PROVE  LateStep(r) /\ MarkerStep(r) /\ SeenStep(r)
<1>1. PICK s \in RunState : s = run[r]  BY LeaveState
<1>2. CASE PatchSummary(r)
    <2>1. /\ run'[r] = [s EXCEPT !.pc = "findings", !.moved = TRUE, !.seen = NoComments]
          /\ posted' = posted
        BY <1>1, <1>2 DEF PatchSummary, Step, TypeOK
    <2>2. PICK gone : marker' = Patched(Kept(r), s.target, gone)
        BY <1>1, <1>2 DEF PatchSummary
    <2>3. run'[r].moved  BY <2>1 DEF RunState
    <2>4. MarkerStep(r)  BY <1>1, <2>2, <2>3 DEF MarkerStep, Patched
    <2>. QED  BY <1>1, <2>1, <2>4, NoCommentsType DEF RunState, LateStep, SeenStep
<1>3. CASE CreateSummary(r)
    <2>1. run'[r] = [s EXCEPT !.pc = "findings", !.moved = TRUE] /\ posted' = posted
        BY <1>1, <1>3 DEF CreateSummary, Step, TypeOK
    <2>2. run'[r].moved  BY <2>1 DEF RunState
    <2>3. MarkerStep(r)
        <3>1. PICK n \in 1..2 :
                  marker' = [i \in DOMAIN marker \cup (lastId + 1)..(lastId + n) |->
                                IF i > lastId THEN run[r].target ELSE marker[i]]
            BY <1>3 DEF CreateSummary
        <3>2. lastId \in Nat  BY DEF TypeOK
        <3>. QED  BY <2>2, <3>1, <3>2 DEF MarkerStep, TypeOK
    <2>. QED  BY <1>1, <2>1, <2>3 DEF RunState, LateStep, SeenStep
<1>4. CASE PostFindings(r)
    <2>1. run'[r] = [s EXCEPT !.pc = AfterFindings(r), !.landed = TRUE]
        BY <1>1, <1>4 DEF PostFindings, Step, TypeOK
    <2>2. MarkerStep(r) /\ posted' = posted \cup Diff(r)
        BY <1>4 DEF PostFindings, MarkerStep
    <2>. QED  BY <1>1, <2>1, <2>2 DEF RunState, LateStep, SeenStep
<1>5. CASE Advance(r)
    <2>1. /\ run'[r] = [s EXCEPT !.pc = "stale", !.seen = NoComments]
          /\ posted' = posted /\ marker' = Patched(Kept(r), s.target, {})
        BY <1>1, <1>5 DEF Advance, Step, TypeOK
    <2>2. run[r].landed  BY <1>5 DEF Advance, Phases
    <2>3. MarkerStep(r)  BY <1>1, <2>1, <2>2 DEF MarkerStep, Patched
    <2>. QED  BY <1>1, <2>1, <2>3, NoCommentsType DEF RunState, LateStep, SeenStep
<1>. QED  BY <1>2, <1>3, <1>4, <1>5

\* Every step of a run is an early step or a late one.
LEMMA RunStepKinds ==
    ASSUME TypeOK, Phases, FirstIsKept, NEW r \in Runs,
           StartRun(r) \/ RunStep(r) \/ Crash(r)
    PROVE  EarlyStep(r) \/ (LateStep(r) /\ MarkerStep(r) /\ SeenStep(r))
BY EarlySteps, QuietSteps, WriteSteps DEF RunStep

-----------------------------------------------------------------------------
(* The inductive invariant *)

LEMMA NextKept ==
    TypeOK /\ Phases /\ FirstIsKept /\ [Next]_vars => FirstIsKept'
<1>. SUFFICES ASSUME TypeOK, Phases, FirstIsKept, [Next]_vars  PROVE FirstIsKept'
    OBVIOUS
<1>1. CASE UNCHANGED vars \/ Push
    BY <1>1 DEF vars, Push, FirstIsKept
<1>2. ASSUME NEW r \in Runs, StartRun(r) \/ RunStep(r) \/ Crash(r)  PROVE FirstIsKept'
    <2>1. DOMAIN run[r].seen \in SUBSET (1..lastId) /\ lastId \in Nat
        BY DEF TypeOK
    <2>2. \A q \in Runs : DOMAIN run'[q].seen # {} => 1 \in DOMAIN run'[q].seen
        BY <1>2, OneRunMoves, RunStepKinds, ListingsType DEF FirstIsKept, EarlyStep, SeenStep
    <2>3. lastId' > 0 => 1 \in DOMAIN marker'
        <3>1. CASE UNCHANGED <<marker, lastId>>  BY <3>1 DEF FirstIsKept
        <3>2. CASE PatchSummary(r)
            <4>1. DOMAIN run[r].seen # {}
                BY <3>2, LeaveState, MarkersType DEF PatchSummary
            <4>2. Kept(r) = 1
                BY <2>1, <4>1, OldestIsFirst DEF Kept, FirstIsKept
            <4>3. lastId' = lastId
                  /\ \E gone : 1 \notin gone /\ marker' = Patched(1, run[r].target, gone)
                BY <3>2, <4>2 DEF PatchSummary
            <4>. QED  BY <4>3 DEF Patched, FirstIsKept
        <3>3. CASE Advance(r)
            BY <3>3 DEF Advance, Patched, FirstIsKept
        <3>4. CASE CreateSummary(r)
            <4>1. CASE lastId = 0  BY <3>4, <4>1 DEF CreateSummary
            <4>2. CASE lastId > 0  BY <3>4, <4>2 DEF CreateSummary, FirstIsKept
            <4>. QED  BY <2>1, <4>1, <4>2
        <3>. QED
            BY <1>2, <3>1, <3>2, <3>3, <3>4
            DEF StartRun, RunStep, Crash, ReadWatermark, PostSkip, Review, ListSummaries,
                SummaryFails, PostFindings, SkipFindings, FindingsFail, NoAdvance, ResolveStale
    <2>. QED  BY <2>2, <2>3 DEF FirstIsKept
<1>. QED  BY <1>1, <1>2 DEF Next

\* A new commit changes nothing about the commits that are there.
LEMMA PushKeepsCovered == TypeOK /\ Covered /\ Push => Covered'
<1>. SUFFICES ASSUME TypeOK, Covered, Push  PROVE Covered'  OBVIOUS
<1>1. \A c \in 0..last : Contained(c)' = Contained(c)
    BY BoundsAssumption DEF Push, TypeOK, Contained, NoSha, Commits
<1>2. \A r \in Runs : anc'[run[r].target] = anc[run[r].target]
    BY BoundsAssumption DEF Push, TypeOK, Commits
<1>3. \A r \in Runs : Owed(r)' = Owed(r)
    BY <1>1, <1>2 DEF Push, Owed, Diff, TypeOK
<1>4. (posted \cup AllOwed)' = posted \cup AllOwed
    BY <1>3 DEF AllOwed, Push
<1>5. WatermarkCovered'
    BY <1>1, <1>4 DEF Covered, WatermarkCovered, Push, TypeOK
<1>6. BaseCovered'
    BY <1>1, <1>4 DEF Covered, BaseCovered, Push, TypeOK
<1>7. LandedRunCoversHead'
    BY <1>2, <1>4 DEF Covered, LandedRunCoversHead, Push
<1>. QED  BY <1>5, <1>6, <1>7 DEF Covered

\* A step of a run never takes a commit from those published or owed.
LEMMA CoverageGrows ==
    ASSUME TypeOK, Phases, FirstIsKept, NEW r \in Runs,
           StartRun(r) \/ RunStep(r) \/ Crash(r)
    PROVE  posted \cup AllOwed \subseteq (posted \cup AllOwed)'
<1>1. anc' = anc /\ \A q \in Runs : q # r => run'[q] = run[q]
    BY OneRunMoves DEF prVars
<1>2. \A q \in Runs : q # r => Owed(q)' = Owed(q)
    BY <1>1 DEF Owed, Diff, Contained
<1>3. posted \subseteq posted'
    BY RunStepKinds DEF EarlyStep, LateStep
<1>4. Owed(r) \subseteq posted' \cup Owed(r)'
    <2>1. CASE EarlyStep(r)  BY <2>1 DEF EarlyStep, Owed
    <2>2. CASE LateStep(r)
        <3>1. Diff(r)' = Diff(r)  BY <1>1, <2>2 DEF LateStep, Diff, Contained
        <3>. QED  BY <2>2, <3>1 DEF LateStep, Owed
    <2>. QED  BY <2>1, <2>2, RunStepKinds
<1>. QED  BY <1>2, <1>3, <1>4 DEF AllOwed

LEMMA RunKeepsCovered ==
    ASSUME TypeOK, Phases, FirstIsKept, Covered, NEW r \in Runs,
           StartRun(r) \/ RunStep(r) \/ Crash(r)
    PROVE  Covered'
<1>1. anc' = anc /\ \A q \in Runs : q # r => run'[q] = run[q]
    BY OneRunMoves DEF prVars
<1>2. \A c : Contained(c)' = Contained(c)  BY <1>1 DEF Contained
<1>3. posted \cup AllOwed \subseteq (posted \cup AllOwed)'
    BY CoverageGrows
<1>4. CASE EarlyStep(r)
    <2>1. WatermarkCovered'
        BY <1>2, <1>3, <1>4 DEF Covered, WatermarkCovered, EarlyStep
    <2>2. Contained(run[r].base)' \subseteq (posted \cup AllOwed)'
        <3>1. Contained(run[r].base)' = Contained(run'[r].base)
            BY <1>1 DEF Contained
        <3>2. Contained(run'[r].base) \subseteq posted \cup AllOwed
            BY <1>4 DEF Covered, BaseCovered, WatermarkCovered, EarlyStep, Contained
        <3>. QED  BY <1>3, <3>1, <3>2
    <2>3. BaseCovered'
        BY <1>1, <1>2, <1>3, <2>2 DEF Covered, BaseCovered
    <2>4. LandedRunCoversHead'
        BY <1>1, <1>3, <1>4 DEF Covered, LandedRunCoversHead, EarlyStep
    <2>. QED  BY <2>1, <2>3, <2>4 DEF Covered
<1>5. CASE LateStep(r) /\ MarkerStep(r)
    <2>1. BaseCovered'
        BY <1>1, <1>2, <1>3, <1>5 DEF Covered, BaseCovered, LateStep
    <2>2. /\ anc[run[r].target] \subseteq Diff(r) \cup Contained(run[r].base)
          /\ Contained(run[r].base) \subseteq (posted \cup AllOwed)'
          /\ Diff(r)' = Diff(r)
        BY <1>1, <1>2, <1>3, <1>5 DEF Covered, BaseCovered, LateStep, Diff
    <2>3. ASSUME run'[r].moved \/ run'[r].landed
          PROVE  anc[run[r].target] \subseteq (posted \cup AllOwed)'
        <3>1. CASE run[r].landed
            BY <1>3, <3>1 DEF Covered, LandedRunCoversHead
        <3>2. CASE ~run[r].landed /\ run'[r].landed
            BY <1>5, <2>2, <3>2 DEF LateStep
        <3>3. CASE run'[r].moved /\ ~run'[r].landed
            BY <2>2, <3>3 DEF AllOwed, Owed
        <3>. QED  BY <2>3, <3>1, <3>2, <3>3
    <2>4. LandedRunCoversHead'
        BY <1>1, <1>3, <1>5, <2>3 DEF Covered, LandedRunCoversHead, LateStep
    <2>5. ASSUME NEW i \in DOMAIN marker'
          PROVE  Contained(marker[i])' \subseteq (posted \cup AllOwed)'
        <3>0. Contained(marker[i])' = Contained(marker'[i])
            BY <1>1 DEF Contained
        <3>1. CASE i \in DOMAIN marker /\ marker'[i] = marker[i]
            BY <1>3, <3>0, <3>1 DEF Covered, WatermarkCovered
        <3>2. CASE marker'[i] = run[r].target /\ (run'[r].moved \/ run[r].landed)
            <4>1. run'[r].moved \/ run'[r].landed  BY <1>5, <3>2 DEF LateStep
            <4>. QED  BY <2>3, <3>0, <3>2, <4>1 DEF Contained
        <3>. QED  BY <1>5, <3>1, <3>2 DEF MarkerStep
    <2>. QED  BY <2>1, <2>4, <2>5 DEF Covered, WatermarkCovered
<1>. QED  BY <1>4, <1>5, RunStepKinds

LEMMA InitInv == Init => IInv
<1>. SUFFICES ASSUME Init  PROVE IInv  OBVIOUS
<1>1. DOMAIN marker = {} /\ lastId = 0 /\ \A r \in Runs : run[r] = Fresh
    BY NoCommentsType DEF Init
<1>2. Covered
    BY <1>1 DEF Covered, WatermarkCovered, BaseCovered, LandedRunCoversHead, Fresh, Contained
<1>3. FirstIsKept
    BY <1>1, NoCommentsType DEF FirstIsKept, Fresh
<1>. QED  BY <1>2, <1>3, InitType DEF IInv

LEMMA NextInv == IInv /\ [Next]_vars => IInv'
<1>. SUFFICES ASSUME IInv, [Next]_vars  PROVE IInv'  OBVIOUS
<1>1. TypeOK' /\ Phases' /\ FirstIsKept'
    BY NextType, NextKept DEF IInv
<1>2. Covered'
    <2>1. CASE UNCHANGED vars
        BY <2>1 DEF vars, IInv, Covered, WatermarkCovered, BaseCovered, LandedRunCoversHead,
                    Contained, AllOwed, Owed, Diff
    <2>2. CASE Push  BY <2>2, PushKeepsCovered DEF IInv
    <2>3. CASE \E r \in Runs : StartRun(r) \/ RunStep(r) \/ Crash(r)
        BY <2>3, RunKeepsCovered DEF IInv
    <2>. QED  BY <2>1, <2>2, <2>3 DEF Next
<1>. QED  BY <1>1, <1>2 DEF IInv

THEOREM Inductive == Spec => []IInv
BY InitInv, NextInv, PTL DEF Spec

-----------------------------------------------------------------------------
(* Results *)

\* The state of the runs and of the pull request has its type in every behaviour.
THEOREM TypeCorrect == Spec => []TypeOK
<1>1. IInv => TypeOK  BY DEF IInv
<1>. QED  BY <1>1, Inductive, PTL

\* No watermark ever passes over a commit: whatever runs overlap, are cancelled or
\* fail, a commit behind it was published or is owed by a full run.
THEOREM WatermarkIsCovered == Spec => []WatermarkCovered
<1>1. IInv => WatermarkCovered  BY DEF IInv, Covered
<1>. QED  BY <1>1, Inductive, PTL

\* A run that published its findings leaves nothing of its head unpublished but
\* what full runs owe, although it only looked at an incremental diff.
THEOREM LandedRunsCoverHead == Spec => []LandedRunCoversHead
<1>1. IInv => LandedRunCoversHead  BY DEF IInv, Covered
<1>. QED  BY <1>1, Inductive, PTL

\* Overlapping upserts, which each delete the duplicates they have listed, never
\* delete the comment that another one is about to patch.
THEOREM KeptCommentStaysLive == Spec => []KeptCommentIsLive
<1>1. IInv => KeptCommentIsLive
    <2>. SUFFICES ASSUME IInv, NEW r \in Runs, run[r].seen # NoComments
                  PROVE  Kept(r) \in DOMAIN marker
        BY DEF KeptCommentIsLive
    <2>1. run[r].seen \in Markers /\ DOMAIN run[r].seen \in SUBSET (1..lastId)
        BY LeaveState DEF IInv
    <2>3. DOMAIN run[r].seen # {}
        BY <2>1, MarkersType
    <2>4. lastId \in Nat
        BY DEF IInv, TypeOK
    <2>2. 1 \in DOMAIN run[r].seen /\ 1 \in DOMAIN marker
        BY <2>1, <2>3, <2>4 DEF IInv, FirstIsKept
    <2>. QED  BY <2>1, <2>2, <2>4, OldestIsFirst DEF Kept
<1>. QED  BY <1>1, Inductive, PTL
=============================================================================
